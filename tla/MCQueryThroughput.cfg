SPECIFICATION FairSpec
CONSTANTS
  Programs <- MCPrograms
  MaxQueries = 3
  PathMayFail = TRUE
  None = None
INVARIANTS QthrInv MeansKeepUp
PROPERTIES ImplementsTally LostQuerySilences EveryQueryPrinted
CHECK_DEADLOCK FALSE
