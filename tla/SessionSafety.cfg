\* Two overlapping sessions, a file that is edited, deleted and back again, kills; and the failure record of
\* overlapping runs (two runs over two Vaults; one write fails or one run dies), whose names are those of the hooks
\* and slots: one symmetry for both parts.
SPECIFICATION SessionsSpec
CONSTANTS
    Vaults = {v1}
    Hooks = {h1, h2}
    Slots = {s1, s2}
    MaxEdits = 3
    GoneAt = {2}
    MaxFailures = 1
    MaxKills = 2
    SlowHooks = FALSE
    Nobody = Nobody
    Runs = {h1, h2}
    Errors = {s1, s2}
    VaultIds = {v1, v2}
    Interval = 2
    MaxHours = 1
    MaxOutcomes = 2
    MaxFaults = 1
    Nil = Nobody
    Ok = Ok
SYMMETRY SessionsSymmetry
INVARIANTS
    OneCatchUp
    RefreshGoesFirst
    FailureRecordIsTrue
PROPERTIES
    NoOlderContent
    HeldBackUnlessOvertaken
CHECK_DEADLOCK FALSE
