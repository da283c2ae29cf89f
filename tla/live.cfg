SPECIFICATION FairSpec
CONSTANTS
    s1 = s1
    s2 = s2
    d1 = d1
    d2 = d2
    NoJob = NoJob
    Jobs = {d1}
    Daily = {d1}
    Operational = {}
    Keys = {d1}
    KeyOf <- OwnKey
    LastStage = 2
    MaxGrants = 3
    MaxEpoch = 2
    AllowPause = TRUE
    MaySuspend = FALSE
INVARIANTS
    NoStageTwice
PROPERTIES
    CancelAnswered
    DeadLeaseFreed
CHECK_DEADLOCK FALSE
