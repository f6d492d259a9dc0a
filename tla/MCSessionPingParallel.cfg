SPECIFICATION SessionFairSpec
CONSTANTS
  Capacity = 2
  MaxPings = 2
  NoPing = NoPing
PROPERTIES
  ReadyIsMeasured
CHECK_DEADLOCK FALSE
