CONSTANTS
  CB = 2
  RootBlocks = 1
  FatEntries = 9
  Texts <- ShortAndLong
  Paths <- DeepPaths
  Handles = {h}
  Flags <- StoreFlags
  MaxSize = 3
  MaxOps = 5
  ReadSizes = {1, 3}
  Formatted <- Blank
  NULL = NULL
  DIR = DIR
SPECIFICATION Spec
INVARIANTS Sound StopsKeepOthers
PROPERTY ImplementsStore
CHECK_DEADLOCK FALSE
