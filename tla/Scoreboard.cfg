CONSTANTS
    NrLanes = 1
    NrVInsn = 3
    Regs = {0, 1}
    InsnQueueDepth <- MCDepth
SPECIFICATION Spec
INVARIANTS
    OrderedByAge
    NoCircularWait
