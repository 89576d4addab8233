SPECIFICATION Spec
CONSTANTS
  Players = {p1}
  Monsters = {m}
  Areas = {a}
  AreaAt <- Edge
  Rows = 3
  Cols = 1
  Grids <- Walls
  Unit = 1
  Headings <- Straight
  Pace = 1
INVARIANTS
  StrikesAreInFront
  StuckOnlyWherePlaced
  CloseTargetsAreHit
PROPERTY
  ListenersKnow
