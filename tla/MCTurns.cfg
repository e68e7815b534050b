SPECIFICATION FairParts
CONSTANTS
    c1 = c1
    c2 = c2
    k1 = k1
    k2 = k2
    k3 = k3
    Tools = {"search", "fetch"}
    MaxIterations = 3
    ToolLimit = 3
    MaxAttempts = 2
    MaxBatch = 2
    Workloads <- PartWorkloads
    MaxMessages = 3
    MaxEntries = 2
    MaxParts = 2
    MaxRepeats = 1
    MaxCrashes = 1
    CodexCalls = {c1, c2}
    CodexMaxCalls = 1
    Chains <- PartChains
    NoKey = {"openrouter"}
    Judged = {"openai", "openrouter"}
    ProviderAttempts = 2
    BodiesBreak = TRUE
    MaxRounds = 2
    Searches = {c1, c2}
    Commands = {k1, k2}
    HasCommand = TRUE
    Retries = 0
    Grace = 0
    ProbeGap = 1
    MaxTime = 2
    MaxJobs = 2
    Urls <- PartUrls
    Workers = {c1, c2}
    MaxPages = 2
    PlaywrightWorks = TRUE
    Chats = {c1, c2}
    Users = {1, 2}
    Controllers = {k1, k2, k3}
    Shared = FALSE
    MaxTabs = 2
    MaxToolCalls = 3
CHECK_DEADLOCK FALSE
INVARIANTS
    PartsTypeOK
    ToolBudgetsKept
    
    
PROPERTIES
    ScheduledTurnsSelect
    RepliesKeepOrder
    EveryTurnEnds
