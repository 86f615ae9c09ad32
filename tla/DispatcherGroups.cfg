SPECIFICATION Spec
CONSTANTS
    NrRegs = 2
    VLENB = 4
    MaxEEW = 1
    MaxLMUL = 1
    Depth = 1
    Programs <- Group2Only
INVARIANTS
    TableMatchesLayout
