SPECIFICATION Spec
CONSTANTS
  o1 = o1  o2 = o2  w1 = w1  w2 = w2
  Ops = {o1, o2}
  Workers = {w1, w2}
  Together = FALSE
  MaxTroubles = 3
INVARIANTS
  TypeOK
  OutputIsRecorded
  TerminalIsTrue
  PublishedIsOffered
PROPERTIES
  NeverClobbers
CHECK_DEADLOCK FALSE
