SPECIFICATION AllSpec
CONSTANTS
    Dirs = {d1}
    Files = {f1, f2}
    Present = {f1, f2}
    MaxVersion = 1
    QueueCap = 1
    BatchCap = 1
    MaxGen = 1
    MaxTroubles = 3
    g1 = g1
INVARIANTS
    NoSilentStaleness
PROPERTIES
    CatchesUp
    CallsReturn
    RebuildsEnd
    ServedInTheEnd
CHECK_DEADLOCK FALSE
