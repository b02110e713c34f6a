SPECIFICATION LiveSpec
CONSTANTS
    Key = {1, 2}
    TxnCount = 3
    WorkerCount = 2
    Programs <- Conflicting
    Blocks = 2
INVARIANTS Deterministic ConflictsOrdered SerialEquivalent
PROPERTY ExecutesAll
CHECK_DEADLOCK FALSE
