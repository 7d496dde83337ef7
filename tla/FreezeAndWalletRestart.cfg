SPECIFICATION Spec
CONSTANTS
  Agents = {f1}
  Supply = 2
  DefaultBalance = 2
  Costs = {1}
  FreezeTicks = 1
  MaxFreezes = 1
  MaxRestarts = 1
  MaxTime = 2
  DbMayFail = FALSE
PROPERTIES
  FreezeSurvivesRestart
CHECK_DEADLOCK FALSE
