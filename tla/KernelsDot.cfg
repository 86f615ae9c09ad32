\* A last strip that is not full.
CHECK_DEADLOCK FALSE
SPECIFICATION Spec
CONSTANTS
  Jobs <- OddDots
INVARIANT DotProductsRight
