SPECIFICATION Spec
CONSTANT NrLanes = 4
INVARIANTS
    OrderedAsNoted
