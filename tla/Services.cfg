\* Commands beside the index runs.
SPECIFICATION ServicesSpec
CONSTANTS
    Repositories = {1, 2}
    Commands = {c1, c2}
    MaxEvents = 2
    Nobody = Nobody
    Absent = Absent
    Settings <- BundleSettings
    Project = "p"
    MaxAge = 1
    Window = 2
    Months = 3
    Threshold = 2
    NoReport = Absent
SYMMETRY ServiceSymmetry
INVARIANTS
    StatusIsTrue
    CodeAnswersFaithfully
    BundleAsksForWhatIsLeft
PROPERTIES
    OthersKeptUnlessOvertaken
CHECK_DEADLOCK FALSE
