SPECIFICATION FairSpec
CONSTANTS
    MaxConnections = 2
    Addresses = {1}
    ClientCommands <- MCLoginRequests
    Channels = {"DATA", "CHAT"}
    Checks = {c1, c2}
    MaxEpoch = 1
PROPERTIES
    SilentPlayersLeave
