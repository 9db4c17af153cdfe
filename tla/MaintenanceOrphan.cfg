SPECIFICATION Spec
CONSTANTS
    Hosts = {h1, h2}
    Ops = {o1, o2}
    Packages = {p1}
    MaxVersion = 1
    NoHost = NoHost
    NoOp = NoOp
    Resolver = Resolver
    MaxBoot = 1
    MaxCrashes = 1
    JournalCap = 2
SYMMETRY Symmetry
INVARIANT ReleasedMeansStopped
