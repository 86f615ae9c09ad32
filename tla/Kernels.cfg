SPECIFICATION Spec
CONSTANTS
  Jobs <- Calls
INVARIANTS
  StaysInside
  StoresItsResult
PROPERTIES
  EveryKernelReturns
\* The programs end.
CHECK_DEADLOCK FALSE
