\* The instance of Services.cfg.
SPECIFICATION ServicesSpec
CONSTANTS
    n1 = n1
    n2 = n2
    n3 = n3
    m1 = m1
    a1 = a1
    MeshNode     = {n1, n2, n3}
    NoNode       = NoNode
    Radio       <- MCRadio
    Quality      = {0, 1}
    RetryLimits  = {1}
    Message      = {m1}
    Reply        = {a1}
    Gateway      = Gateway
    Thread       = {t1, t2}
    Arrivals    <- MCArrivals
    MaxTtl       = 1
    QueueSize    = 1
    WindowSize   = 1
    MaxDrops     = 1
    Parameter    = {p1, p2}
    SensorThread = {t1, t2}
    MaxReadings  = 1
    MaxHalves    = 1
    File         = {db, key}
    Database     = {db}
    LastArchive  = 2
    Keep         = 2
INVARIANT
    RoutesAdvance
CHECK_DEADLOCK FALSE
