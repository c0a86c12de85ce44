\* A message each way, an operator, a crash; two nodes, two threads.
SPECIFICATION RecordsSpec
CONSTANTS
    Sent           = {s1}
    Received       = {r1}
    Operator       = {o1}
    OutboxLimit    = 1
    MaxAttempts    = 2
    MaxRaces       = 1
    MaxChatCrashes = 1
    RecordNode     = {d1, d2}
    RecordThread   = {t1, t2}
    Stamps         = {"AWARE"}
INVARIANT
    RecordsInv
PROPERTIES
    StatusAdvances
    MessagesSettle
    SilenceShows
CHECK_DEADLOCK FALSE
