SPECIFICATION Spec
CONSTANTS
    Programs <- OverwrittenSource
    WordsPerReg = 4
    NrBanks = 2
    DataBufDepth = 2
    ResultQueueDepth = 2
    MaxInsns = 3
INVARIANTS
    OperandsInOrder
