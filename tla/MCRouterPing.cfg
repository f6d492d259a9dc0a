SPECIFICATION RouterFairSpec
CONSTANTS
  Capacity = 2
  MaxPings = 5
  NoPing = NoPing
INVARIANTS
  RouterInv
  NoPanic
  LostPingHangs
PROPERTIES
  EveryPingMeasured
\* In sequential mode a ping that is lost holds the main loop for ever.
CHECK_DEADLOCK FALSE
