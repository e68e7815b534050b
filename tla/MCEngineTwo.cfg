SPECIFICATION Spec
CONSTANTS
    t1 = t1
    t2 = t2
    Tasks <- TwoTasks
    Request <- WakeAndWatch
    CycleLimit = 2
    ClaimLease = 2
    MinDelay = 0
    MaxHorizon = 3
    DefaultWatchLifetime = 3
    MaxWatchLifetime = 3
    MaxConcurrency = 1
    TickMax = 1
    WakeInterval = 1
    RenewEvery = 1
    RescheduleDelays = {0}
    PrincipalQuota = 2
    GlobalQuota = 2
    LogMayFail = TRUE
    EventsArrive = TRUE
    CancelCallers = {}
    MaxTime = 1
    MaxBoots = 1
CHECK_DEADLOCK FALSE
INVARIANTS
    SlotsAreCounted
    EngineNeverSleeps
PROPERTIES
    WakesAreSpaced
