SPECIFICATION FairParts
CONSTANTS
    Runs = {r1, r2}
    Scheduled = {r2}
    Clients = {c1}
    Retained = 2
    HistoryLimit = 1
    MaxRevision = 2
    MaxCrashes = 1
    MaxDrops = 1
    Sessions = {s1, s2}
    WebRuns = {r1, r2}
    Slots = {1, 2}
    Overlaps = FALSE
    Reorders = FALSE
    MaxActs = 2
    MaxErrors = 1
    Logins = {s1, s2}
    Calls = {1, 2}
    OneChunk = TRUE
    MayCrash = TRUE
    MaxCalls = 2
    MaxRefusals = 1
    MaxLimits = 0
CHECK_DEADLOCK FALSE
INVARIANTS
    PartsTypeOK
    CursorCovers
    
PROPERTIES
    RevisionsNeverGoBack
    ClientsEnd
