CONSTANTS
  Writers = {w1, w2}
  Keys = {a, b}
  a = a
  b = b
  v1 = v1
  v2 = v2
  NoKey = NoKey
  Absent = Absent
  Versions = {v1, v2}
  MaxParts = 2
  Jobs <- SmallJobs
  CommitEvery = 2
  MaxRuns = 2
  MaxInterrupts = 1
  UndoInterruptible = FALSE
SPECIFICATION FairSpec
INVARIANTS TypeOK NoPartialRecord OneRowPerSource
PROPERTIES NothingLost OkMeansStored ImplementsLedger EveryRunEnds
CHECK_DEADLOCK FALSE
