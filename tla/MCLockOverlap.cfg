SPECIFICATION Spec
CONSTANTS
    Procs = {a, b}
    MaxAttempts = 8
    StartsOverlap = TRUE
    SlowWrites = FALSE
    WriteMayFail = FALSE
    MayCrash = TRUE
    MaxStarts = 2
CHECK_DEADLOCK FALSE
INVARIANTS
    OneOwner
