SPECIFICATION Spec
CONSTANTS
    s1 = s1
    s2 = s2
    d1 = d1
    d2 = d2
    NoJob = NoJob
    Jobs = {s1, d1}
    Daily = {d1}
    Operational = {s1, d1}
    Keys = {s1, d1}
    KeyOf <- OwnKey
    LastStage = 1
    MaxGrants = 2
    MaxEpoch = 2
    AllowPause = TRUE
    MaySuspend = FALSE
PROPERTIES
    FailedStays
CHECK_DEADLOCK FALSE
