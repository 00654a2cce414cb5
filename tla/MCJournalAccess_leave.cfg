SPECIFICATION Spec
CONSTANTS
  w = w  o1 = o1  o2 = o2  r1 = r1  r2 = r2  ui = ui  gui = gui
  None = None
  Threads = {w, ui}
  Process <- OneProcess
  Page <- OnePage
  May <- LeaveTasks
  MaxEntries = 1
  Outcomes = {"skipped"}
  Initial = None
  MaxFaults = 0
  MaxExternals = 0
  MaxCrashes = 0
  MaxUnread = 0
PROPERTIES
  LeaveKeepsEntries
CHECK_DEADLOCK FALSE
