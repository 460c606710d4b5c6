SPECIFICATION Spec
CONSTANTS
    MaxConnections = 1
    Addresses = {1, 2}
    ClientCommands <- MCEchoCommands
    Channels = {"DATA", "CHAT"}
    Checks = {c1, c2}
    MaxEpoch = 2
SYMMETRY CheckSymmetry
INVARIANTS
    SeatHeld
    RecordsAgree
    LobbyInv
PROPERTIES
    EvictionStands
