SPECIFICATION Spec
CONSTANTS
    Dirs = {d1}
    Files = {f1}
    Present = {f1}
    MaxVersion = 1
    QueueCap = 1
    BatchCap = 1
    MaxGen = 2
    MaxTroubles = 2
INVARIANT ReadyIsCalibrated
