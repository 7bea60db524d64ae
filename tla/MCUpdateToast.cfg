SPECIFICATION UpdatesSpec
CONSTANTS
    Threads = {t1, t2}
    MaxVersion = 2
    MaxStates = 2
    MaxCalls = 2
INVARIANT ToastsAreOnOffer
CHECK_DEADLOCK FALSE
