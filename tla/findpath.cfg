SPECIFICATION FairFind
CONSTANTS
  Rows = 3
  Cols = 4
  SizeLimit = 16
  Grids <- AllGrids
  Searches <- MCSearches
INVARIANTS
  FoundIsPath
  FoundIsShortest
  NoneMeansUnreachable
  JumpFoundIsPath
  JumpProbesAreDisjoint
PROPERTY
  SearchesEnd
CHECK_DEADLOCK FALSE
