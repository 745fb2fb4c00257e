\* Two calls at a time in one server; a tool times out or the server dies, a person edits.
SPECIFICATION FairSpec
CONSTANTS
    Servers = {s1}
    Threads = {t1, t2}
    Vaults = {v1, v2}
    Names = {n1}
    Limit = 1
    MaxWrites = 3
    MaxEdits = 1
    MaxCleanups = 1
    MaxFaults = 1
    NoPage = NoPage
    Nobody = Nobody
INVARIANTS
    ProposalLimitUnlessUnsure
PROPERTIES
    NoWriteLost
    RetiredStays
    EveryCallEnds
CHECK_DEADLOCK FALSE
