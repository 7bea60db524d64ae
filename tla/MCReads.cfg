SPECIFICATION ReadsSpec
CONSTANTS
    Questions = {q1, q2}
    MaxGeneration = 5
    MaxVersion = 2
    MaxStreams = 2
    MaxMessages = 2
    MaxCalls = 2
    Ring = 1
    Keep = 1
    Conns = {c1}
    Rules = {r1, r2}
    Listed = {r1}
    MaxSweeps = 2
    MaxChanges = 4
INVARIANTS
    ReadsConsistent
    ChangeIsShown
    LossIsCounted
PROPERTY
    ShowsTheLatest
    PanelCatchesUp
    SeenStaysQuiet
    BellCatchesUp
CHECK_DEADLOCK FALSE
