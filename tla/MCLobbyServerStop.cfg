SPECIFICATION FairSpec
CONSTANTS
    MaxConnections = 1
    Addresses = {1}
    ClientCommands <- MCClientCommands
    Channels = {"DATA"}
    Checks = {c1}
    MaxEpoch = 1
PROPERTIES
    StopAborts
