\* One plain command that is retried once.
SPECIFICATION Spec
CONSTANTS
    plain         = plain
    guarded       = guarded
    Command       = {plain}
    NoCommand     = NoCommand
    Guarded       = {}
    MaxRetries    = 1
    CacheSize     = 1
    ReceiptWindow = 1
    MaxRuns       = 3
    MaxReports    = 0
    MaxCopies     = 2
    MaxCrashes    = 0
INVARIANTS
    RetryCanBeAnswered
CHECK_DEADLOCK FALSE
