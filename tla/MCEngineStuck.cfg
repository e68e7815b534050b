SPECIFICATION FairSpec
CONSTANTS
    t1 = t1
    t2 = t2
    Tasks <- OneTask
    Request <- OneWake
    CycleLimit = 2
    ClaimLease = 2
    MinDelay = 0
    MaxHorizon = 3
    DefaultWatchLifetime = 3
    MaxWatchLifetime = 3
    MaxConcurrency = 1
    TickMax = 1
    WakeInterval = 1
    RenewEvery = 1
    RescheduleDelays = {1}
    PrincipalQuota = 2
    GlobalQuota = 2
    LogMayFail = FALSE
    EventsArrive = FALSE
    CancelCallers = {}
    MaxTime = 2
    MaxBoots = 2
CHECK_DEADLOCK FALSE
PROPERTIES
    ClaimsAreClosed
