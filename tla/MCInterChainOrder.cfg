SPECIFICATION LiveSpec
CONSTANTS
    GroupCount = 3
    Faulty = {}
    MaxDelivered = 20
    Logs <- TripleLogs
INVARIANTS NotAborted OrderSafe NoGapNoRepeat NoStall
PROPERTIES DeliversAll
CHECK_DEADLOCK FALSE
