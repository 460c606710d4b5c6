SPECIFICATION EngineSpec
CONSTANTS
    MaxNodes = 4
    SceneIdLimit = 8
    Entries = {e1, e2, e3, e4}
    MaxCells = 3
    MaxRemovals = 3
    Nodes = {n1, n2}
    Actors = {a1, a2, a3}
    NoActor = NoActor
    MaxWorld = 3
    HeaderItems = 2
    BodyItems = 4
    MaxFile = 3
    MaxSide = 5
    IntLimit = 40
    HeaderLength = 2
    MaxByte = 5
    MaxSize = 2
    MaxRecords = 3
    CountLimit = 2
INVARIANTS
    EngineInv
    CounterCountsNodes
    IdentifiersInOrder
    CallsWhatItFound
    PastEndBounded
    SkippedBounded
    DelegatesInScene
    SceneAccounted
    TailAppended
    FailureKeepsFile
    TargaInBounds
    DecodedUpright
    HeaderCounts
    RecordsKept
PROPERTIES
    ArchiveLogSpec
