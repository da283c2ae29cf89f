SPECIFICATION Spec
CONSTANTS
    j1 = j1
    j2 = j2
    v1 = v1
    v2 = v2
    v3 = v3
    x = x
    y = y
    z = z
    NoImage = NoImage
    Jobs = {j1, j2}
    Business = {j1}
    Loop8 = {j1}
    Items = {v1, v2, v3}
    JobOf <- TwoJobs
    Images = {x, y}
    ImageOf <- Odd
    Compositions <- GpuMayGo
    MayShrink = TRUE
    MaxEpoch = 2
INVARIANTS
    BatchIntact
    OneRuntime
    NeverStranded
    VehicleBoundary
PROPERTIES
    EndedStays
CHECK_DEADLOCK FALSE
