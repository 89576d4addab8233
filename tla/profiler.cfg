SPECIFICATION FairSpec
CONSTANTS
  Receivers = {r1, r2}
  Logger = logger
  Window = 2
  MaxPops = 1
  Limit = 2
  Header = 1
  Width = 2
  MaxRecords = 2
INVARIANTS
  TotalsAgree
PROPERTIES
  WindowIsKept
  TotalsDrain
