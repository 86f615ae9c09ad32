CONSTANTS
    NrLanes = 2
    NrVInsn = 3
    Regs = {0, 1}
    InsnQueueDepth <- MCDepth
    Requests <- MixRequests
    Chaining = FALSE
    MaxDone = 2
    MaxMaskB = 2
SPECIFICATION Spec
INVARIANTS
    TableSound
    QueuesSound
PROPERTY
    LoadAnsweredByOwnAck
