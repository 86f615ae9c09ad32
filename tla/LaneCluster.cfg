SPECIFICATION FairSpec
CONSTANTS
    None = None
    VInsnQueueDepth = 4
    WordBits = 4
    NrVInsn = 2
    SlduDepth = 2
    Apart = TRUE
    Programs <- ClusterPrograms
INVARIANTS
    CountedAlike
    EveryElementOnce
    SampledOnce
    CompleteWhenReported
PROPERTIES
    EveryInsnFinishes
