SPECIFICATION Spec
CONSTANTS
    MaxConnections = 2
    Addresses = {1, 2}
    ClientCommands <- MCClientCommands
    Channels = {"DATA"}
    Checks = {c1}
    MaxEpoch = 1
INVARIANTS
    TypeOK
    SeatExclusive
    JoinIndexInBounds
    AddressOwnership
    NeverOvercounted
PROPERTIES
    RosterSpec
