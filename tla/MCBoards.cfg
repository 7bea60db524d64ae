SPECIFICATION Spec
CONSTANTS
    MaxCalls = 2
    Sources = {s1, s2}
    Ids = {1, 2}
    MaxReads = 2
    Topics = {t1, t2}
    MaxMessages = 2
    MaxPolls = 2
    Buffer = 1
INVARIANTS
    ChangeIsShown
    PagesConsistent
    ShowsWhatWasAsked
    TailIsWhole
CHECK_DEADLOCK FALSE
