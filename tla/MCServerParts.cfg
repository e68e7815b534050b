SPECIFICATION FairParts
CONSTANTS
    a = a
    b = b
    c = c
    o1 = o1
    o2 = o2
    o3 = o3
    o4 = o4
    None = None
    Sessions = {a, b, c}
    Ops = {o1, o2, o3, o4}
    SessionOf <- PartSessionOf
    Concurrency = 2
    EventsMayFail = TRUE
    Procs = {a, b, c}
    MaxAttempts = 8
    StartsOverlap = FALSE
    SlowWrites = TRUE
    WriteMayFail = TRUE
    MayCrash = TRUE
    MaxStarts = 2
    Producers = {a, b, c, o1}
    Flushers = {o2}
    EventsEach = 1
    MaxBufferedEvents = 2
    LowWatermark = 1
    SinkMayFail = TRUE
    ApprovalSessions = {a, b}
    Actions = {o1}
    TTL = 2
    MaxTime = 4
    MaxRequests = 3
    Gateways = {a, b}
    Mutations = {o1, o2}
    MaxTries = 2
    LockTtl = 1
    SlowHolders = FALSE
    MaxLockTime = 2
    MaxProcesses = 2
    Blobs = {a, b, c}
    SizeOf <- PartSizeOf
    MaxBytes = 3
    MaxEntries = 2
    MaxBlobOps = 4
    MaxBlobFaults = 1
    Children = {a, b}
    Restarted = {b}
    MaxRestarts = 2
    SignalsAt = {"engine", "up", "failed"}
    FailsAt = {"recover"}
    MaxExits = 4
    Calls = {o1, o2}
    Default = a
    AttachMayRace = TRUE
    MaxFileFaults = 1
    Events = {o1}
    TokenIsSet = TRUE
    UsesTelegram = TRUE
    NotifierMayFail = TRUE
    Clients = {a, b}
    RateLimitMax = 2
    Window = 2
    MaxBuckets = 1
    MaxRateTime = 4
    Commands = {a, b}
    OldFiles = {"config", "workspace"}
    ServiceOverlaps = FALSE
    MayBeKilled = {"migrate", "install", "restart", "uninstall"}
    MaxCommands = 4
    Users = {a, b}
    Versions = {o1, o2}
    WritesOverlap = FALSE
    MaxUses = 4
CHECK_DEADLOCK FALSE
INVARIANTS
    PartsTypeOK
    
    
    
    OneLoopPerSession
    RunsAreApproved
PROPERTIES
    
    PartsEnd
