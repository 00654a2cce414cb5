SPECIFICATION Spec
CONSTANTS
  N = 3
  CatalogueBound = TRUE
  MaxReviewUses = 1
  MaxFaults = 2
  MaxExternal = 1
  MaxCrashes = 2
INVARIANTS
  TypeOK
  CatalogueFollowsJournal
  EntriesInOrder
PROPERTIES
  ImplementsBatch
CHECK_DEADLOCK FALSE
