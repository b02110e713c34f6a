SPECIFICATION MCSpec
CONSTANTS
    GroupCount = 2
    MaxBlock = 1
    Faulty = {}
    MaxDelivered = 8
    Logs <- PairLogs
    Host = {h1, h2}
    MaxNodes = 2
    Tries = 1
    HelloTries = 1
    Requests = 7
    Faults = 2
SYMMETRY Hosts
INVARIANTS Agreement SetupSound 
CHECK_DEADLOCK FALSE
