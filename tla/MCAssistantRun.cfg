SPECIFICATION Spec
CONSTANTS
    Reads = {read}
    Writes = {write1}
    Destroys = {destroy}
    Brokers = {a, b}
    TurnSize = 2
    Limit = 2
    MaxCalls = 2
INVARIANTS
    AgreedToEach
    JournalIsTrue
    EditIsCaught
SYMMETRY BrokerSymmetry
