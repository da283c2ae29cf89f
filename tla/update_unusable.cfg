SPECIFICATION Spec
CONSTANTS
    u1 = u1
    u2 = u2
    NoVersion = NoVersion
    Versions = {1, 2}
    Schema <- TwoRevisionsAhead
    Carries = {2}
    Updaters = {u1, u2}
    MaxWork = 2
INVARIANTS
    FailureLeavesUsable
SYMMETRY Symmetric
CHECK_DEADLOCK FALSE
