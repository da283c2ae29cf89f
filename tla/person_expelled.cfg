SPECIFICATION Spec
CONSTANTS
    Windows = {w1, w2}
    Mixes <- Settlements
    Readers = {executor, probe}
    Executor = executor
    None = None
PROPERTIES ExpiryLeavesPerson
CHECK_DEADLOCK FALSE
