\* Two commands, one of them guarded, each retried at most once; no reports.
SPECIFICATION Spec
CONSTANTS
    plain         = plain
    guarded       = guarded
    Command       = {plain, guarded}
    NoCommand     = NoCommand
    Guarded       = {guarded}
    MaxRetries    = 1
    CacheSize     = 1
    ReceiptWindow = 1
    MaxRuns       = 3
    MaxReports    = 0
    MaxCopies     = 2
    MaxCrashes    = 0
INVARIANTS
    ReceiptSettles
    ExchangeInv
PROPERTIES
    StoreKept
CHECK_DEADLOCK FALSE
