SPECIFICATION FairSpec
CONSTANTS
    a = a
    b = b
    c = c
    d = d
    Calls <- FourCalls
    Workloads <- AllWorkloads
    Concurrency = 1
    MemoryMayFail = TRUE
    CancelCalls = {a}
    MaxBoots = 2
CHECK_DEADLOCK FALSE
INVARIANTS
    TypeOK
    OneRunPerRequest
    ContextSeesPredecessors
    UnfinishedRunHasATurn
PROPERTIES
    RunsFinishOnce
