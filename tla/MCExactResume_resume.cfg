SPECIFICATION FairResumeSpec
CONSTANTS
  N = 2
  CatalogueBound = FALSE
  MaxReviewUses = 1
  MaxFaults = 2
  MaxExternal = 2
  MaxCrashes = 2
INVARIANTS
  JournalBrackets
  RecordedIsDurable
  RolledBackMeansHome
PROPERTIES
  NeverClobbers
  WriteAhead
  ReverseOrder
  ReversalIsFinal
  ResumeSettles
  InFlightResolves
CHECK_DEADLOCK FALSE
