SPECIFICATION Spec
CONSTANTS
  o1 = o1  o2 = o2  w1 = w1  w2 = w2
  Ops = {o1}
  Workers = {w1, w2}
  Together = TRUE
  MaxTroubles = 0
PROPERTIES
  TerminalIsFinal
CHECK_DEADLOCK FALSE
