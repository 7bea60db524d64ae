SPECIFICATION ProgressSpec
CONSTANTS
    Threads = {t1, t2}
    MaxVersion = 1
    Reads = {read}
    Writes = {write1}
    Destroys = {destroy}
    Brokers = {a, b}
    TurnSize = 1
    Limit = 1
    MaxCalls = 1
    Addresses = {a1}
    Options = {o1, o2}
    Mechanisms = {"none", "own"}
    MaxID = 1
    ImportSize = 1
    NoDial = NoDial
PROPERTY
    Settles
    StopEnds
    ConfigReturns
