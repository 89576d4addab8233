SPECIFICATION Spec
CONSTANTS
  Rows = 6
  Cols = 6
  SizeLimit = 16
  Grids <- OneWall
  Searches <- AroundTheWall
INVARIANT
  FindsPaths
CHECK_DEADLOCK FALSE
