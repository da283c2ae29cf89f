SPECIFICATION Spec
CONSTANTS
    Windows = {w1, w2}
    Mixes <- Formal
    Readers = {executor, probe}
    Executor = executor
    None = None
INVARIANTS StartupReturns
CHECK_DEADLOCK FALSE
