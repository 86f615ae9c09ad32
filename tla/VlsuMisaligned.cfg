SPECIFICATION FairSpec
CONSTANTS
    AxiBytes = 4
    PageBytes = 16
    MaxBeats = 4
    NrLanes = 2
    VrfBytes = 8
    LoadDepth = 2
    StoreDepth = 4
    CmdDepth = 2
    None = None
    Programs <- OddLoads
INVARIANT LoadedFromItsAddress
