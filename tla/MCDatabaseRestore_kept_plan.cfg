SPECIFICATION Spec
CONSTANTS
  None = None
  w1 = w1  w2 = w2  p1 = p1  p2 = p2
  Windows = {w1, w2}
  Plans = {p1}
  Buttons <- Older
  Keeping = {w1}
  MaxConfirms = 2
  MaxUses = 1
  MaxNames = 4
  MaxTroubles = 2
INVARIANTS
  NoCommitLost
CHECK_DEADLOCK FALSE
