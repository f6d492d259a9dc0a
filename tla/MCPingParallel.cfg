SPECIFICATION FairSpec
CONSTANTS
  Capacity = 2
  MaxPings = 9
  LinkMayFail = TRUE
  NoPing = NoPing
INVARIANTS
  PingInv
  PendingBounded
PROPERTIES
  EveryPingMeasured
  ImplementsRoundTrip
