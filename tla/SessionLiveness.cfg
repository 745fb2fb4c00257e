\* Sessions start one after another; a kill, a failing model and edits happen and then stop. And what three are told.
SPECIFICATION StartsSpec
CONSTANTS
    Vaults = {v1, v2}
    Hooks = {h1}
    Slots = {s1, s2}
    MaxEdits = 1
    GoneAt = {}
    MaxFailures = 1
    MaxKills = 1
    SlowHooks = TRUE
    Nobody = Nobody
    Pages <- RecallPages
    Project = "project"
    Linked <- LinkedProjects
    Sharable = {2}
    Caps <- OneOfEach
    ListLimit = 2
    BriefThreshold = 1
    NoticeDays = 0
    MaxTokens = 17
    PinTokens = 4
    SummaryTokens = 4
    NoticeTokens = 3
    HowTokens = 2
    WaitingLines = {0}
    LastDay = 2
    MaxRuns = 3
    MaxOpen = 2
    MaxChanges = 1
    MaxLogFailures = 1
INVARIANTS
    TellsOnceAlongTheLog
PROPERTIES
    NothingForgotten
CHECK_DEADLOCK FALSE
