CONSTANTS
  Places <- Trees
  Requests <- Scans
  Ceiling = 3
  None = None
  WordBits = 4
  Literals = 2
  LongNibble = 3
  BlockSize = 4
  HuffmanTable <- Tables
  PairBits = 4
  LeastOffset = 1
  ChunkSize = 8
  MaxOutput = 20
  MemSizes <- Sizes
  MaxDepth = 4
  PerBlock = 2
  MaxIoEvents = 6
  MaxRecords = 2
  MaxSources = 2
  ScanWindow = 2
  MaxArtifact = 3
  Letters <- Drive
  Server = "UNC"
  VolumeName <- Volumes1
  Upper <- Spellings
  Generic <- General
  StockRoots <- Roots
  MaxCreated = 8
  MinMatch = 50
  MaxOther = 20
  MinShared = 2
  MinSpecific = 1
SPECIFICATION Spec
INVARIANT CleanMeansLooked
CHECK_DEADLOCK FALSE
