SPECIFICATION Spec
CONSTANTS
  w = w  o1 = o1  o2 = o2  r1 = r1  r2 = r2  ui = ui  gui = gui
  None = None
  Threads = {w, ui}
  Process <- OneProcess
  Page <- OnePage
  May <- PageTasks
  MaxEntries = 2
  Outcomes = {"skipped"}
  Initial <- Interrupted
  MaxFaults = 1
  MaxExternals = 2
  MaxCrashes = 2
  MaxUnread = 1
INVARIANTS
  NeverAdopted
CHECK_DEADLOCK FALSE
