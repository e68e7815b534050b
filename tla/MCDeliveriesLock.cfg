SPECIFICATION FairSpec
CONSTANTS
    r = r
    w = w
    x = x
    CycleLimit = 3
    ClaimLease = 1
    MinDelay = 0
    MaxHorizon = 1
    DefaultWatchLifetime = 1
    MaxWatchLifetime = 1
    Tasks <- OneReminder
    Mixes <- JustReminder
    Kind <- KindOf
    Recurring <- Nothing
    Telegram <- Nothing
    MaxCycles <- Thrice
    MaxAttempts = 2
    SendsMayFail = FALSE
    AnswersGetLost = FALSE
    WritesMayFail = FALSE
    LeasesMayHold = FALSE
    MaxBoots = 2
CHECK_DEADLOCK FALSE
PROPERTIES
    DueReminderIsSent
