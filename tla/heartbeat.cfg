SPECIFICATION FairSpec
CONSTANTS
  BeatInterval = 5
  MaxDeadBeats = 3
PROPERTIES
  NoEarlyTimeout
  SilentPeersAreStopped
  JoinOrLeave
  TimerEndsWithClient
