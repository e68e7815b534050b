SPECIFICATION FairSpec
CONSTANTS
    r = r
    w = w
    x = x
    CycleLimit = 3
    ClaimLease = 1
    MinDelay = 0
    MaxHorizon = 1
    DefaultWatchLifetime = 1
    MaxWatchLifetime = 1
    Tasks <- ThreeTasks
    Mixes <- AloneOrTwo
    Kind <- KindOf
    Recurring <- OneTurn
    Telegram <- WithTelegram
    MaxCycles <- Twice
    MaxAttempts = 2
    SendsMayFail = TRUE
    AnswersGetLost = TRUE
    WritesMayFail = TRUE
    LeasesMayHold = TRUE
    MaxBoots = 2
CHECK_DEADLOCK FALSE
INVARIANTS
    TypeOK
    LedgerIsTrue
    RepeatsNeedAFault
PROPERTIES
    LoopsEnd
