SPECIFICATION LiveSpec
CONSTANTS
    GroupCount = 3
    Blocks <- OneOfFirst
    Unreachable = {2}
    FifoQueue = TRUE
    QueueSize = 2
INVARIANTS VotesSound
PROPERTY EveryoneVotes
CHECK_DEADLOCK FALSE
