SPECIFICATION Spec
CONSTANTS
    NodeCount = 3
    Quorum = 2
    MaxRequests = 2
    maxBatchSize = 2
    MaxTerms = 4
    SignatureSlots = 2
INVARIANTS OneChain RequestsOnce NodesSound
PROPERTIES AllDelivered
CHECK_DEADLOCK FALSE
