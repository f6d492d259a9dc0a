SPECIFICATION SessionFairSpec
CONSTANTS
  Capacity = 2
  MaxPings = 8
  NoPing = NoPing
INVARIANTS
  SessionInv
  PrintedIsTimed
PROPERTIES
  SingleIsMeasured
\* A ping that is lost leaves the main loop waiting for ever.
CHECK_DEADLOCK FALSE
