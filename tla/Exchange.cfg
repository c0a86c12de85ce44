\* Two commands, one of them guarded, without retries; one report; a crash; the
\* device's cache and the Gateway's receipts overflow.
SPECIFICATION Spec
CONSTANTS
    plain         = plain
    guarded       = guarded
    Command       = {plain, guarded}
    NoCommand     = NoCommand
    Guarded       = {guarded}
    MaxRetries    = 0
    CacheSize     = 1
    ReceiptWindow = 2
    MaxRuns       = 3
    MaxReports    = 1
    MaxCopies     = 2
    MaxCrashes    = 1
INVARIANTS
    SampleStoredOnce
    RunsOnce
    SuccessIsEarned
    FailureIsHonest
    RowIsConfirmed
    SuccessReachesRow
CHECK_DEADLOCK FALSE
