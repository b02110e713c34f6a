CONSTANTS
    a = a
    x = x
    Key = {a, x}
    WorkerCount = 2
    Requests <- ConflictingRequests
    BlockLength = 3
    Blocks = 1
    Coordinators = {"mix", "plain", "write_based"}
SPECIFICATION Spec
INVARIANTS VotesCounted GetsConsistent ResultsAligned WriteBasedDeterministic
CHECK_DEADLOCK FALSE
