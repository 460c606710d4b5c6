SPECIFICATION FairSpec
CONSTANTS
    ServerPackets <- MCFewPackets
    ConnectTimeout = 2
    ResetTimeout = 2
    MenuTimeout = 1
PROPERTIES
    ConnectGivesUp
