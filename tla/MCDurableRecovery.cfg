SPECIFICATION Either
CONSTANTS
  Loops = {l1, l2, l3}
  MaxSteps = 2
  MaxIterations = 2
  MaxTasks = 1
  MaxRestarts = 2
  MaxTime = 1
  DbMayFail = FALSE
  JournalTimeout = 0
  CacheTtl = 1
SYMMETRY Symmetry
INVARIANTS
  TypeOK
  NoStepSkipped
  WorkingRepeatsOneIteration
  WorkingDoubtNeedsHuman
CHECK_DEADLOCK FALSE
