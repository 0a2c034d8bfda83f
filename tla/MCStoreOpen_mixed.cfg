CONSTANTS
  o1 = o1
  o2 = o2
  prefetch = prefetch
  residue = residue
  key = key
  wide = wide
  text = text
  Openers = {o1, o2}
  Build <- TwoBuilds
  Tables = {prefetch, residue}
  Columns = {key, wide, text}
  Schema <- SchemaTable
  Unaddable = {key}
  Files <- AllFiles
  NoView = NoView
  NoTable = NoTable
  MaxOpens = 4
  Faults = TRUE
SPECIFICATION Spec
INVARIANTS StampMeansComplete OpenMeansUsable
PROPERTY ReopenAltersNothing
CHECK_DEADLOCK FALSE
