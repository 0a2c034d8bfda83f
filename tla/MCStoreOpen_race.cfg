CONSTANTS
  o1 = o1
  o2 = o2
  prefetch = prefetch
  residue = residue
  key = key
  wide = wide
  text = text
  Openers = {o1, o2}
  Build <- SameBuild
  Tables = {prefetch, residue}
  Columns = {key, wide, text}
  Schema <- SchemaTable
  Unaddable = {key}
  Files <- Upgrades
  NoView = NoView
  NoTable = NoTable
  MaxOpens = 2
  Faults = FALSE
SPECIFICATION Spec
INVARIANT NoOpenRaces
CHECK_DEADLOCK FALSE
