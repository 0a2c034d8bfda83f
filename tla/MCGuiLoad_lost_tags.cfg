CONSTANTS
  A = A
  B = B
  E = E
  Typo = Typo
  f1 = f1
  f2 = f2
  n1 = n1
  n2 = n2
  Folders = {A, B, E}
  Unusable = {}
  Files = {f1, f2}
  Content <- ContentTable
  HasArtifacts = {A}
  Notes = {n1, n2}
  NoNote = NoNote
  NoFolder = NoFolder
  Reentrant = FALSE
  MaxLoads = 3
  MaxTags = 3
  MaxScans = 1
SPECIFICATION Spec
INVARIANT TagsSurvive
CHECK_DEADLOCK FALSE
