SPECIFICATION CharFairSpec
CONSTANTS
    MaxConnections = 2
    Addresses = {1}
    ClientCommands <- MCMoveCommands
    Channels = {"DATA", "CHAT"}
    Checks = {c1}
    MaxEpoch = 2
    Torus = 3
INVARIANTS
    NobodyDies
    HealthIsTheServers
    CharInv
PROPERTIES
    MovesOnlyAlive
    MovesOnlySigned
    PlayersComeToLife
