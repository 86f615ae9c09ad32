SPECIFICATION Spec
CONSTANTS
    NrRegs = 3
    VLENB = 4
    MaxEEW = 1
    MaxLMUL = 0
    Depth = 1
    Programs <- OutsideOnly
INVARIANTS
    ReadsAsWritten
