SPECIFICATION FairSpec
CONSTANTS
    NrRegs = 2
    VLENB = 4
    MaxEEW = 1
    MaxLMUL = 0
    Depth = 1
    Programs <- AccumulateOnly
PROPERTIES
    EveryInsnTaken
