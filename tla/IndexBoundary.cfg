SPECIFICATION Spec
CONSTANTS
    Dirs = {d}
    Files = {f}
    Root = Root
    Bin = Bin
    PageSize = 2
    MaxRecords = 3
    MaxJournals = 1
    MaxTroubles = 1
INVARIANT NeverSilent
