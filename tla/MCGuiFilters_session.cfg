CONSTANTS
  r1 = r1
  r2 = r2
  name = name
  x = x
  y = y
  term = term
  tag = tag
  v = v
  Rows = {r1, r2}
  Folders <- FolderSets
  Columns = {name, tag}
  TagCol = tag
  Values = {x, y}
  Cell <- CellTable
  Terms = {term}
  padded = padded
  Typings = {padded}
  Strip <- StripTable
  Words <- WordTable
  Views = {v}
  NoText = NoText
  NoFilter = NoFilter
  NoPopup = NoPopup
  NoFolder = NoFolder
  Blank = Blank
  Star = Star
  MaxLoads = 2
SPECIFICATION Spec
INVARIANT NoHiddenFilter
PROPERTIES OfferedValuesMatch ApplyShowsTicked
