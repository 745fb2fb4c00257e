\* The metadata, vector and graph stages of an index run.
SPECIFICATION IndexingSpec
CONSTANTS
    Vaults = {a, b}
    ChunkKeys <- SessionFiles
    Hides <- V2HidesV1
    Contents <- VectorContents
    Specs = {m1, m2}
    MaxEdits = 1
    MaxRuns = 2
    MaxModels = 1
    None = None
    Paths = {1, 2, 3}
    Files <- MetadataFiles
    Deniable = {3}
    MaxFileEdits = 2
    MaxFileRuns = 3
    Nil = None
INVARIANTS
    GraphServesTheFiles
    NoStaleSkip
    IncrementalEqualsFullUnlessOverlooked
    EmbeddingLeavesTheChunks
    StaleVectorsAreSeen
    RefusedOnlyWhenADropMisses
    EmbeddedOnce
SYMMETRY StageSymmetry
CHECK_DEADLOCK FALSE
