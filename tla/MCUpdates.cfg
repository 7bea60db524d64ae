SPECIFICATION UpdatesSpec
CONSTANTS
    Threads = {t1, t2}
    MaxVersion = 2
    MaxStates = 2
    MaxCalls = 2
SYMMETRY ThreadPermutations
INVARIANTS
    ReadyIsInstallable
    OfferedIsReady
    OneAtATime
    PhaseHasWork
    WindowIsTold
    WindowFollows
CHECK_DEADLOCK FALSE
