SPECIFICATION Spec
CONSTANTS
  Players = {p1}
  Monster = monster
  AttackDelay = 1
  RechaseAfter = 1
  MaxPath = 1
  MaxHealth = 0
INVARIANT
  TargetIsHeld
CHECK_DEADLOCK FALSE
