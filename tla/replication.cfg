SPECIFICATION ReplicationSpec
CONSTANTS
  Clients = {c1, c2}
  Zones = {z1, z2}
  MaxPackets = 4
  Sends <- Enters
  Rude = {}
  CanStop = FALSE
INVARIANTS
  ClientsSeeEachOther
CHECK_DEADLOCK FALSE
