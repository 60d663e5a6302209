\* Every component around the kernel and the campaigns, one at a time.
CONSTANTS
    a1 = a1
    a2 = a2
    a3 = a3
    p = p
    q = q
    Jobs = {a1}
    Instructions <- SomeInstructions
    MaxSends = 2
    MaxDaemonCrashes = 1
    Undoables = {a1, a2, a3}
    Command <- Commands
    Paths = {p}
    Contents = {"old", "new"}
    MaxUndos = 2
    StoredCampaigns = {a1, a2}
    Registries = {p, q}
    MaxWriteErrors = 1
    MaxArchiveLines = 2
    Schedules = {a1, a2}
    EveryMinutes <- EveryTwoOrThree
    Minute = 2
    Horizon = 4
    CronJobs = {a1}
    Tickers = {p, q}
    CronMinute = 2
    CronHorizon = 4
    MaxEdits = 2
    Steps = 3
    Kernels = {"imperium", "mock"}
    BreakerKinds = {"imperium", "core"}
    Callers = {p, q}
    Threshold = 2
    ResetAfter = 1
    ProbesMax = 2
    Attempts = 2
    BreakerHorizon = 4
    Limiters = {"policy", "limiter", "throttle"}
    Askers = {p, q}
    Limit = 2
    Window = 2
    WindowHorizon = 4
    Quarantined = {a1, a2}
    Healers = {p, q}
    MaxReboots = 1
    Services = {a1}
    Gauges = {a2}
    Monitors = {p, q}
    MaxIncidents = 4
    Holders = {a1, a2, a3}
    Ttls = {1, 2}
    LeaseHorizon = 5
    Users = {a1, a2, a3}
    Capacities = {1, 2}
    MaxGenerations = 2
    MaxStrays = 2
    Works = {a1, a3}
    WorkPriority <- Urgency
    LastPriority = 2
    PoolWorkers = {p, q}
    MaxSize = 2
    TimedJobs = {a1, a2, a3}
    Repeating = {a1, a2}
    JobInterval <- Repeats
    Capacity = 2
    JobTickers = {p, q}
    JobHorizon = 1
    Handlers = {a1, a2, a3}
    TopicOf <- ListensTo
    Published = {"topic"}
    MaxMessages = 2
    Tasks = {a1, a2, a3}
    DepLists <- OneOrTwo
    MaxAdds = 3
    MaxRemoves = 2
    SourceFiles = {p}
    Spellings = {a1, a3}
    FileOf <- ResolvesTo
    Protected = {a3}
    TestFiles = {a1}
    Versions = {a1, a2}
    Facts <- SomeFacts
    Ascenders = {a1, a2}
    MaxCycles = 2
    MaxUpsets = 1
    GoalTexts = {a1, a2}
    GoalCapacity = 1
    MaxGoals = 3
    MaxVerdicts = 3
    PoolCalls = {a1, a2, a3, p}
    MaxWorkers = 1
    QueueDepth = 1
    Backends = {p, q}
    MaxConcurrent <- OneOrTwoCalls
    MaxRegistrations = 2
    MaxInFlight = 3
    Brokers = {a1, a2, a3}
    Sessions <- Joins
    SyncMessages = {p}
    Streams = {p, q}
    MaxEvents = 5
    MaxFailedSaves = 2
    MaxStoreRestarts = 2
    HeapKinds = {"leftist", "skew", "pairing", "binomial", "minmax"}
    HeapValues = {1, 2}
    MaxInserts = 4
    MaxLowerings = 1
    TreeKinds = {"avl", "treap", "scapegoat", "splay"}
    TreeKeys <- KeysOf
    Priorities = {1, 2, 3}
    AlphaOver = 2
    AlphaUnder = 3
    BKeys = {1, 2, 3, 4, 5, 6, 7, 8}
    MinDegree = 2
    WatcherKinds = {"toml", "hot"}
    Pollers = {p}
    Admin = a1
    MaxWrites = 1
    CfgHorizon = 2
    MaxRefusals = 1
    MaxForces = 1
    Requests = {a1, a2}
    OnAllowlist = {a1}
    Engines = {p}
    ApprovalTimeout = 0
    ApprovalHorizon = 1
    MaxRuns = 2
    RangeKinds = {"fenwick", "sum", "min", "max", "lazy", "sparse", "sqrt"}
    CellCounts = {2, 4}
    CellValues = {0, 2}
    Deltas = {1}
    Infinity = 1000
    MaxRangeCalls = 3
    TrieKinds = {"trie", "radix", "ternary", "xor"}
    WordsOf <- WordsUsed
    QueriesOf <- WordsAsked
    MaxCopies = 2
    SetKinds = {"veb", "skip", "interval"}
    ElementsOf <- ElementsUsed
    Universe = 16
    MaxLevel = 3
    MaxHeld = 4
    HashKinds = {"quotient", "cuckoo", "vacuum", "counting", "table"}
    Elements = {1, 2, 3, 4, 5, 6}
    Quotient <- QuotientOf
    Remainder <- RemainderOf
    Slots = 4
    FingerprintOf <- PrintOf
    HomeOf <- BucketOf
    OffsetOf <- ApartBy
    Buckets <- HowManyBuckets
    BucketSize = 1
    MaxKicks = 3
    CountersOf <- IndicesOf
    MaxCounter = 3
    TableKeys = {1, 2, 3}
    TableSizes = {1, 2}
    MaxEach = 2
    Parts = {"titan", "rollback", "store", "schedule", "cron", "bridge", "breaker", "window", "quarantine", "incident", "lease", "gate", "work", "job", "redis", "dag", "ascent", "drive", "pool", "router", "sync", "events", "config", "approval", "heap", "tree", "btree", "range", "trie", "ordered", "hash"}
SPECIFICATION ComponentsSpec
INVARIANTS
    AnswerIsBacked
    UndoRestores
    
    OkMeansDone
    OverrunIsBounded
    EveryIncidentAnnounced
    LeaseExclusive
    PermitsAccounted
    StopLeavesNothing
    JobsInStep
    SubscribedIsHeard
    NoEcho
    GraphSound
    ActsOnApproval
    CeilingKept
    
    LookupsAgree
    RangesAgree
    NothingForgotten
    RestsInEffect
PROPERTIES
    EveryRunIsAttributed
    TrippedStaysShut
    ClocksFireOnce
CHECK_DEADLOCK FALSE
