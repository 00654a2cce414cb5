SPECIFICATION Spec
CONSTANTS
  w = w  o1 = o1  o2 = o2  r1 = r1  r2 = r2  ui = ui  gui = gui
  None = None
  Threads = {w, r1, r2}
  Process <- OneProcess
  Page <- WorkerPages
  May <- WorkerTasks
  MaxEntries = 2
  Outcomes = {"skipped"}
  Initial = None
  MaxFaults = 2
  MaxExternals = 0
  MaxCrashes = 2
  MaxUnread = 1
INVARIANTS
  TypeOK
  RecoveryExcluded
  HonestStaysTrusted
  NothingLost
CHECK_DEADLOCK FALSE
