SPECIFICATION Spec
CONSTANTS
    s1 = s1
    s2 = s2
    d1 = d1
    d2 = d2
    NoJob = NoJob
    Jobs = {s1, s2}
    Daily = {}
    Operational = {s1, s2}
    Keys = {s1}
    KeyOf <- OneKey
    LastStage = 1
    MaxGrants = 2
    MaxEpoch = 2
    AllowPause = TRUE
    MaySuspend = TRUE
INVARIANTS
    KeyGuard
    ReviewNotLost
    FuturesAreLeased
CHECK_DEADLOCK FALSE
