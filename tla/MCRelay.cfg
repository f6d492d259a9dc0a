SPECIFICATION FairSpec
CONSTANTS
  A = A
  B = B
  C = C
  D = D
  E = E
  F = F
  Nodes = {A, B, C, D, E, F}
  Setups <- MCSetups
  Capacity = 1
  MaxMsgs = 3
  Workers = 1
  None = None
INVARIANTS RelayInv EveryOpenEnds
PROPERTIES LockedForEver ImplementsBroadcast EveryMessageArrives
CHECK_DEADLOCK FALSE
