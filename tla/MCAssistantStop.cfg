SPECIFICATION LiveSpec
CONSTANTS
    Reads = {read}
    Writes = {write1}
    Destroys = {destroy}
    Brokers = {a, b}
    TurnSize = 1
    Limit = 1
    MaxCalls = 1
PROPERTY AnswerLosesToStop
