SPECIFICATION Spec
CONSTANTS
  w = w  o1 = o1  o2 = o2  r1 = r1  r2 = r2  ui = ui  gui = gui
  None = None
  Threads = {w, r2}
  Process <- OneProcess
  Page <- WorkerPages
  May <- RecoverTasks
  MaxEntries = 2
  Outcomes = {"skipped"}
  Initial = None
  MaxFaults = 0
  MaxExternals = 0
  MaxCrashes = 0
  MaxUnread = 1
PROPERTIES
  RecoveryKeepsResults
CHECK_DEADLOCK FALSE
