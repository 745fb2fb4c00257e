\* Two runs at a time, four runs in all, every failure the code meets.
SPECIFICATION PublishingSpec
CONSTANTS
    Publishers = {cli, hook}
    Impatient = {hook}
    Generations = {g1, g2, g3, g4}
    Faults = {"clone", "write", "restore", "post", "interrupt", "crash"}
    NoGen = NoGen
    NoPublisher = NoPublisher
    Nothing = Nothing
SYMMETRY PublishingSymmetry
INVARIANTS
    OneRunAtATime
    NoLeakedLock
    PointersComplete
    SessionReachesTheVault
    ChunksHoldTheFile
PROPERTIES
    NoLostUpdate
    OnlyTwoKept
    ImplementsPublishedIndex
CHECK_DEADLOCK FALSE
