CONSTANTS
  A = A
  B = B
  E = E
  Typo = Typo
  f1 = f1
  f2 = f2
  n1 = n1
  n2 = n2
  Folders = {A, B, E, Typo}
  Unusable = {Typo}
  Files = {f1, f2}
  Content <- ContentTable
  HasArtifacts = {A, E}
  Notes = {n1, n2}
  NoNote = NoNote
  NoFolder = NoFolder
  Reentrant = TRUE
  MaxLoads = 3
  MaxTags = 2
  MaxScans = 1
SPECIFICATION Spec
PROPERTY RescanKeepsAnnotations
CHECK_DEADLOCK FALSE
