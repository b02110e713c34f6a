SPECIFICATION FailureSpec
CONSTANTS
    GroupCount = 3
    MaxBlock = 0
    Faulty = {0}
    MaxDelivered = 8
    Logs <- FailureLogs
INVARIANT Agreement
CHECK_DEADLOCK FALSE
