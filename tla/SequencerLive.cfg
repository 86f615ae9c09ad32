CONSTANTS
    NrLanes = 2
    NrVInsn = 2
    Regs = {0, 1}
    InsnQueueDepth <- MCDepth
    Requests <- LiveRequests
    Chaining = FALSE
    MaxDone = 1
    MaxMaskB = 2
SPECIFICATION FairSpec
PROPERTIES
    EveryRequestAnswered
    EveryInsnFinishes
