SPECIFICATION AllSpec
CONSTANTS
    Hosts = {h1}
    Ops = {b1, b2}
    Packages = {p1}
    MaxVersion = 1
    NoHost = NoHost
    NoOp = NoOp
    Resolver = Resolver
    MaxBoot = 2
    MaxCrashes = 0
    JournalCap = 2
    MoveOps = {a1, a2}
    MoveFiles = {b1, b2}
    MaxMoveTroubles = 2
    FullBoots = 1
    FullCap = 1
    Names = {"n"}
    Files = {"f", "g"}
    MaxStartupOps = 2
    MaxStartupTroubles = 4
    a1 = a1
    a2 = a2
    b1 = b1
    b2 = b2
SYMMETRY Symmetry
INVARIANTS
    RebootHonoured
    JournalTruthful
PROPERTIES
    GateSpec
    SettledStepwise
    MovesAsConfirmed
CHECK_DEADLOCK FALSE
