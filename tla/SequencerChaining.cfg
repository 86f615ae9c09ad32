CONSTANTS
    NrLanes = 2
    NrVInsn = 3
    Regs = {0, 1}
    InsnQueueDepth <- MCDepth
    Requests <- ReadRequests
    Chaining = TRUE
    MaxDone = 2
    MaxMaskB = 2
SPECIFICATION Spec
INVARIANT EveryWriteOrdered
