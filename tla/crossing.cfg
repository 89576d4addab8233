SPECIFICATION Spec
CONSTANTS
  Zones = {z1, z2}
  AttackDelay = 2
PROPERTY
  AttackIntervalIsKept
CHECK_DEADLOCK FALSE
