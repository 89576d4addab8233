SPECIFICATION FairSpec
CONSTANTS
  Players = {p1, p2}
  Monster = monster
  AttackDelay = 1
  RechaseAfter = 1
  MaxPath = 1
  MaxHealth = 1
INVARIANT
  AttackersReturn
PROPERTIES
  AttacksAreSpaced
  AttacksEnd
  LostTargetsAreGivenUp
CHECK_DEADLOCK FALSE
