SPECIFICATION AllSpec
CONSTANTS
    a1 = a1
    a2 = a2
    b1 = b1
    b2 = b2
    None = None
    Missing = Missing
    Damaged = Damaged
    NoText = NoText
    Env = Env
    Hosts = {a1, a2}
    Launchers = {"l"}
    Processes = {"p"}
    Ids = {b1, b2}
    NoHost = NoHost
    MaxTroubles = 2
    JournalCap = 2
    Desktops = {a1, a2}
    Texts = {b1, b2}
    Services = {a1, a2}
    Marks = {b1}
    EnvKeySet = FALSE
    Limits = {3, 6}
    DefaultLimit = 8
    Costs = {2, 3}
    MaxUsed = 8
    Searches = {"s"}
    MaxGenerations = 2
    MaxRequests = 1
    MaxRestarts = 1
    MaxBoundary = 1
    MaxTiers = 1
    MaxRetries = 1
    MaxCursors = 1
    Pipes = {a1, a2}
    Rebuilds = {"r"}
    Others = {}
    MaxSearches = 1
    Guids = {a1, a2}
    Serials = {b1, b2}
    MaxCatalog = 3
    MaxWorkers = 2
    MaxEvents = 2
    Refs = {a1, a2}
    MaxEndpoints = 2
    MaxResolutions = 1
    MaxChanges = 1
    Volumes = {a1, a2}
    Letters = {b1, b2}
    Files = {"f", "g"}
    PageSize = 1
    Limit = 1
    MaxMoves = 2
    NumPaths = 2
    Readable = {1}
    MaxObjects = 2
    MaxMeddlings = 1
    Slots = 4
    Interval = 4
    Budget = 2
    MaxStall = 6
    MaxDisturbances = 2
    Observables = {"app_list", "process_list", "computer_profile"}
    Renewed = {"computer_profile"}
    Paged = {"app_list", "process_list"}
    CacheFor <- Reuse
    Signatures = {"a", "b"}
    Matched <- Selected
    MaxRows = 1
    Life = 3
    MaxEntries = 2
    MaxBytes = 2
    CursorCap = 2
    MaxTime = 3
    MaxQueries = 3
    Directories = {"d"}
    Documents = {"f"}
    Existing = {"f"}
    MaxVersion = 1
    QueueCap = 1
    BatchCap = 1
    MaxGen = 2
    MaxMishaps = 2
    Builds = {"a", "b", "c"}
    MaxFaults = 3
    IndexDirs = {"d"}
    IndexFiles = {"f"}
    Root = "root"
    Bin = "bin"
    PageRecords = 2
    MaxRecords = 2
    MaxJournals = 2
    MaxFailures = 1
SYMMETRY Symmetry
CONSTRAINT OneInterruption
INVARIANTS
    TypesOK
    EffectsOnRecord
    KeysStayHome
    BillIsCovered
    MeansAreMeasured
    ProbesAsConfirmed
    NothingStaleAnswered
    NothingPassedOver
    AlwaysRepairable
    ToldTruly
    OneWorkerEach
    AnswersUnderChoice
PROPERTIES
    ActsOnceAndKnowingly
    OpensWhatWasShown
    NothingOverwrittenUnseen
    GoneStaysGone
CHECK_DEADLOCK FALSE
