SPECIFICATION FairSpec
CONSTANTS
    Programs <- Chains
    WordsPerReg = 4
    NrBanks = 2
    DataBufDepth = 2
    ResultQueueDepth = 2
    MaxInsns = 3
INVARIANTS
    TypeOK
    OperandsInOrder
    OwnOperands
PROPERTIES
    WritesInOrder
    ProgramFinishes
