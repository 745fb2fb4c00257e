\* Two publishers whose pointer writes fail, a reader and the MCP server; and what readers do with a generation.
SPECIFICATION ServingSpec
CONSTANTS
    Publishers = {cli, hook}
    Impatient = {}
    Generations = {g1, g2, g3}
    Faults = {"write"}
    Readers = {recall}
    NoGen = NoGen
    NoPublisher = NoPublisher
    Nothing = Nothing
    KeyVault <- LinkVaults
    OwnerVault <- LinkVaults
    Hashes = {1, 2}
    Questions <- LinkQuestions
    MaxUpdates = 2
    Missing = Nothing
    Entities <- GraphEntities
    Relations <- GraphRelations
    EvidenceVault <- GraphVaults
    Worlds <- GraphWorlds
    Requests <- GraphRequests
    TypeRank <- GraphRanks
    TargetLimit = 2
    ScanLimit = 3
    ReadLimit = 4
    EdgeLimit = 6
SYMMETRY ServingSymmetry
INVARIANTS
    PreviousKept
    ReaderKeepsFolder
    SearchAnswersFaithfully
    GraphAnswersFaithfully
    LinksAreOfOneRevision
    RepliesHoldUp
PROPERTIES
    ReaderOpensComplete
CHECK_DEADLOCK FALSE
