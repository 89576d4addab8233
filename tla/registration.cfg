SPECIFICATION FairSpec
CONSTANTS
  c1 = c1
  c2 = c2
  Clients = {c1, c2}
  Zones = {z1}
  MaxPackets = 2
  Sends <- Visitors
  Rude = {c2}
  CanStop = TRUE
INVARIANTS
  NoUncaughtException
  NoConnectionIsLost
  RemovedClientsAreStopped
  StopLeavesAtMostOneOpen
  NoNullPlayer
PROPERTIES
  StopReturns
  Departure
  EmptyZoneGoesQuiet
  EntriesComplete
CHECK_DEADLOCK FALSE
