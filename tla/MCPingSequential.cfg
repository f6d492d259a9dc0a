SPECIFICATION FairSpec
\* A lost pong leaves the main loop at its barrier for ever.
CHECK_DEADLOCK FALSE
CONSTANTS
  Capacity = 2
  MaxPings = 8
  LinkMayFail = TRUE
  NoPing = NoPing
INVARIANTS
  PingInv
  MeasuredAfterPong
PROPERTIES
  LostPongHangs
  LiveWhileOpen
  ImplementsRoundTrip
