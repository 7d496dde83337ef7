SPECIFICATION Spec
CONSTANTS
  Loops = {l1, l2}
  MaxSteps = 2
  MaxIterations = 3
  MaxTasks = 1
  MaxRestarts = 1
  MaxTime = 1
  DbMayFail = FALSE
  JournalTimeout = 0
  CacheTtl = 1
PROPERTIES
  CompletedNotReplayed
CHECK_DEADLOCK FALSE
