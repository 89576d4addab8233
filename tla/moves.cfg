SPECIFICATION Spec
CONSTANTS
  c1 = c1
  c2 = c2
  Clients = {c1, c2}
  Zones = {z1, z2}
  MaxPackets = 4
  Sends <- Movers
  Rude = {}
  CanStop = FALSE
SYMMETRY Alike
INVARIANTS
  MembershipFollowsServer
  RoutedPacketsFindTheirClient
  RunningZonesTick
  NoGhostEntities
PROPERTIES
  ImplementsDirectory
CHECK_DEADLOCK FALSE
