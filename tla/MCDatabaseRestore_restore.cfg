SPECIFICATION Spec
CONSTANTS
  None = None
  w1 = w1  w2 = w2  p1 = p1  p2 = p2
  Windows = {w1, w2}
  Plans = {p1, p2}
  Buttons <- Older
  Keeping = {w1}
  MaxConfirms = 1
  MaxUses = 1
  MaxNames = 5
  MaxTroubles = 2
INVARIANTS
  TypeOK
  NoCommitLost
  ReceiptsAreTrue
  ClassifiedTruly
  RollbackStaysPossible
CHECK_DEADLOCK FALSE
