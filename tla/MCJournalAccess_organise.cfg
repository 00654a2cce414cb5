SPECIFICATION FairSpec
CONSTANTS
  w = w  o1 = o1  o2 = o2  r1 = r1  r2 = r2  ui = ui  gui = gui
  None = None
  Threads = {o1, o2, r1}
  Process <- OneProcess
  Page <- OwnPages
  May <- OrganiseTasks
  MaxEntries = 1
  Outcomes = {"skipped"}
  Initial <- Interrupted
  MaxFaults = 0
  MaxExternals = 0
  MaxCrashes = 0
  MaxUnread = 0
PROPERTIES
  FenceHolds
  TasksEnd
CHECK_DEADLOCK FALSE
