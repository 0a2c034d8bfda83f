CONSTANTS
  Inputs <- Everything
  MaxBytes = 15
  MaxBody = 20
  MaxSection = 6
  MaxRegions = 2
  MaxKept = 3
  Cap = 2
  Padding = 1
  None = None
SPECIFICATION Spec
INVARIANTS TypeOK GapsAreUnread VerdictMatchesProblems BadCountLosesNothing
  UnreadIsAccounted DecoderIsHonest MemoryIsBounded AccessIsNotOurs
PROPERTY EveryInputProducesRow
CHECK_DEADLOCK FALSE
