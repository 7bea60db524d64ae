SPECIFICATION Spec
CONSTANTS
    Threads = {t1, t2}
    MaxVersion = 2
INVARIANT
    ReadyHasPackage
