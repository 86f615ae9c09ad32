SPECIFICATION FairSpec
CONSTANTS
    MaxTxns = 2
    L1LineWidth = 4
    None = None
    Bursts <- Mixed
INVARIANTS
    TypeOK
    EveryLineInvalidated
PROPERTIES
    EveryBurstLeaves
