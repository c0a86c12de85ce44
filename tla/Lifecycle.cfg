\* One command, of an enrolled device or of a legacy one, a retry and a crash.
CONSTANTS
  enrolled = enrolled
  legacy = legacy
  NoCommand = NoCommand
  Command = {enrolled, legacy}
  Enrolled = {enrolled}
  MaxRetries = 1
  Timeout = 2
  AckTimeout = 1
  ResponseTimeout = 2
  Expiry = 3
  Capacity = 1
  MaxTime = 6
  MaxCrashes = 1
SPECIFICATION OneSpec
INVARIANTS
  WireBudget
  FirstRoundCancelIsHonest
  TimeoutReasonIsHonest
  RefusalsAreFinal
  IndInv
PROPERTIES
  OutcomeIsFinal
  DoneIsForever
  EventuallySettles
  KeepsPromise
CHECK_DEADLOCK FALSE
