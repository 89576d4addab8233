SPECIFICATION FairSpec
CONSTANTS
  Rows = 3
  Cols = 4
  SizeLimit = 16
  Grids <- AllGrids
  Searches <- OneSearch
PROPERTY
  Returns
CHECK_DEADLOCK FALSE
