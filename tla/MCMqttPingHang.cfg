SPECIFICATION FairSpec
CONSTANTS
  MaxPings = 2
  MayDisconnect = FALSE
  Spuriously = 0
  NoPing = NoPing
PROPERTIES
  WaitEnds
CHECK_DEADLOCK FALSE
