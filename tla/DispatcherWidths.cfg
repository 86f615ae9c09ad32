SPECIFICATION FairSpec
CONSTANTS
    NrRegs = 4
    VLENB = 4
    MaxEEW = 1
    MaxLMUL = 1
    Depth = 1
    Programs <- TwoWidths
INVARIANTS
    TableSound
    ReadsAsWritten
PROPERTIES
    EveryInsnTaken
