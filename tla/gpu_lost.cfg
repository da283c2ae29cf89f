SPECIFICATION Spec
CONSTANTS
    j1 = j1
    j2 = j2
    v1 = v1
    v2 = v2
    v3 = v3
    x = x
    y = y
    z = z
    NoImage = NoImage
    Jobs = {j1}
    Business = {j1}
    Loop8 = {}
    Items = {v1, v2}
    JobOf <- OneJob
    Images = {x, y, z}
    ImageOf <- Sharing
    Compositions <- GpuMayGo
    MayShrink = TRUE
    MaxEpoch = 2
INVARIANTS
    SchedulerSurvives
CHECK_DEADLOCK FALSE
