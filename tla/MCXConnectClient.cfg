SPECIFICATION FairSpec
CONSTANTS
    ServerPackets <- MCServerPackets
    ConnectTimeout = 2
    ResetTimeout = 2
    MenuTimeout = 1
INVARIANTS
    EntriesDistinct
    MenuAgrees
    LastLoginRequest
    WatchedConnection
    ClientInv
PROPERTIES
    LoadingDecides
    SessionSpec
