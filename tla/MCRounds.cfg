SPECIFICATION MCSpec
CONSTANTS
    GroupCount = 2
    Faulty = {1}
    MaxBlock = 2
    EpochLength = 2
    IssMaxBlock = 2
    Several = {0}
    Source = {"p0", "p1"}
INVARIANTS EpochsSeparated 
PROPERTIES RoundsImplemented RoundsDelivered AllProposed
CHECK_DEADLOCK FALSE
