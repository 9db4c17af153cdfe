SPECIFICATION AllSpec
CONSTANTS
    ToolLimit = 3
    MaxCalls = 2
    MaxHistory = 4
    LockWorkers = {w1, w2}
    Main = main
    Nobody = nobody
INVARIANTS
    OneChangePerTurn
    RequestsWellFormed
    NobodyWaitsInACircle
PROPERTIES
    RequestsReturn
    SessionsEnd
CHECK_DEADLOCK FALSE
