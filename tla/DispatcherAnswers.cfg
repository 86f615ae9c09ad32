SPECIFICATION FairSpec
CONSTANTS
    NrRegs = 2
    VLENB = 4
    MaxEEW = 1
    MaxLMUL = 1
    Depth = 2
    Programs <- AllAnswers
INVARIANTS
    AnsweredOnce
    NoLostCompletion
PROPERTIES
    LabelsAfterNarrowing
    EveryInsnTaken
