CONSTANTS
  Exporters = {x1, x2}
  csv = csv
  paths = paths
  summary = summary
  Targets = {csv, paths, summary}
  Plans <- CsvAndPair
  MaxExports = 3
  MaxKills = 1
  MaxPowerLosses = 1
SPECIFICATION Spec
INVARIANTS TargetsWhole NothingPublishedEarly
PROPERTY OkMeansPublished
CHECK_DEADLOCK FALSE
