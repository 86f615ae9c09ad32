SPECIFICATION Spec
CONSTANTS
    None = None
    VInsnQueueDepth = 4
    WordBits = 4
    NrVInsn = 2
    SlduDepth = 2
    Apart = FALSE
    Programs <- AddThenSum
INVARIANT ResultsRight
