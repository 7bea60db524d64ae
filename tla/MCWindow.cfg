SPECIFICATION Spec
CONSTANTS
    MaxCalls = 2
    MaxID = 2
    MaxChanges = 3
    MaxManyChanges = 1
    Tabs = {c1, c2}
    NoTab = NoTab
    MaxEdits = 1
    MaxProbes = 1
    MaxSaves = 1
    MaxWrites = 1
    Followed = {"kafka", "sqs"}
    Keys = {"theme"}
    MaxMade = 3
    MaxReads = 2
    Sessions = {s1, s2}
    MaxSeq = 2
INVARIANTS
    WindowConsistent
    ListIsFresh
    VerdictIsOfTheForm
    SecretsFollowTheForm
    ShownIsStored
    ResetIsAfterSaves
    DockIsTrue
PROPERTY
    StoredTabKept
CHECK_DEADLOCK FALSE
