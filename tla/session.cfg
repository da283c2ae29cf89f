SPECIFICATION Spec
CONSTANTS
    Windows = {w1, w2}
    Mixes <- Different
    Readers = {executor, probe}
    Executor = executor
    None = None
SYMMETRY SymmetricWindows
INVARIANTS TypeOK HolderReads RebuiltAfterPerson
PROPERTIES PersonKeepsControl ReaderKeepsControl WindowSpared
CHECK_DEADLOCK FALSE
