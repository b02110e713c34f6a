SPECIFICATION LiveReplication
CONSTANTS
    MaxNodes = 5
    MaxFragments = 20
    MaxSize = 1
    Cap = 1
    Blocks = 2
    V2Groups <- V2Sizes
    DirectGroups <- DirectSizes
INVARIANTS FragmentsSuffice OnlyDamagedRefused 
 
CHECK_DEADLOCK FALSE
