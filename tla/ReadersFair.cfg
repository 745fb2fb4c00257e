\* Two publishers that fail in every way, fair scheduling, an MCP server that is called.
SPECIFICATION CalledSpec
CONSTANTS
    Publishers = {cli, hook}
    Impatient = {hook}
    Generations = {g1, g2}
    Faults = {"write", "restore", "interrupt", "crash"}
    Readers = {}
    NoGen = NoGen
    NoPublisher = NoPublisher
INVARIANTS
    LabelTellsTheContent
PROPERTIES
    ServerCatchesUp
    LockIsFreed
CHECK_DEADLOCK FALSE
