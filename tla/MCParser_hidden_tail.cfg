CONSTANTS
  Inputs <- Varied
  MaxBytes = 15
  MaxBody = 20
  MaxSection = 6
  MaxRegions = 2
  MaxKept = 3
  Cap = 2
  Padding = 1
  None = None
SPECIFICATION Spec
INVARIANT EveryByteReported
CHECK_DEADLOCK FALSE
