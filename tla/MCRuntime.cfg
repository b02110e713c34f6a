SPECIFICATION MCSpec
CONSTANTS
    WorkerCount = 3
    Calls = 2
    LateWake = FALSE
    Node = {0, 1, 2}
    Leader = 0
    MaxTerm = 3
    Disturbances = 1
    Client = {"a", "b"}
    Retry = 2
    Messages = 1
    Region = {"r1"}
    BCCSPWorker = 2
    Signatures = 1
    Contexts = 2
    Corrupted = 1
    Thread = {"t1"}
    TxnCount = 1
    MaxBlock = 2
    CacheSize = 1
    Elasticity = 1
    TopRetries = 1
    Failures = 1
INVARIANTS  MeasuredTruly
PROPERTIES  LeaderSettles  MonitorServed
CHECK_DEADLOCK FALSE
