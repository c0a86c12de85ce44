SPECIFICATION FairSpec
CONSTANTS
    p0 = p0
    p1 = p1
    NoProfile = NoProfile
    Profile <- MCProfile
    FirstProfile = p0
    TestTime = 0
    SwitchTime = 1
    Trusted = {TRUE, FALSE}
    MaxTx = 2
    MaxNow = 3
    MaxCrashes = 1
INVARIANTS Agreement DecisionHasEvidence SwitchInv
PROPERTIES DecisionStands KeepsSwitchPromise WaitsAreBounded
CHECK_DEADLOCK FALSE
