\* A quick refresh of one part of a session that is stored in both schemas.
SPECIFICATION Spec
CONSTANTS
    Vaults = {a}
    ChunkKeys = {"v1file", "v2part"}
    Hides <- MCHides
    Contents <- MCContents
    Specs = {m1}
    MaxEdits = 2
    MaxRuns = 2
    MaxModels = 0
    None = None
INVARIANTS
    QuickRefreshPassesHygiene
CHECK_DEADLOCK FALSE
