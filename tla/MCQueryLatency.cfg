SPECIFICATION FairSpec
\* A lost reply leaves the main loop at the barrier for ever.
CHECK_DEADLOCK FALSE
CONSTANTS
  Programs <- MCPrograms
  Capacity = 2
  MaxPings = 6
  LinkMayFail = TRUE
  NoPing = NoPing
INVARIANTS
  QueryInv
PROPERTIES
  ReleasePairs
  LostQueryHangs
  LiveUnlessLost
  ImplementsRoundTrip
