SPECIFICATION FairSpec
CONSTANTS
  MaxPings = 4
  MayDisconnect = TRUE
  Spuriously = 2
  NoPing = NoPing
INVARIANTS
  MqttInv
  PrintedLags
PROPERTIES
  MissedIsForever
  EveryPingReported
\* A missed signal or a lost message leaves main waiting for ever.
CHECK_DEADLOCK FALSE
