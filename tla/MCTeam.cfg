SPECIFICATION OneByOne
CONSTANTS
  N = 2
  MaxIdle = 1
  FailureLimit = 2
  MaxRounds = 1
  MaxSubmits = 2
  Misnames = FALSE
  Losses <- FewLosses
  Accounts = {anon, acc}
  Anonymous = anon
  Keys = {memory1}
  Alert = alert
  MaxWrites = 3
  MaxCases = 2
  MaxRestarts = 1
INVARIANTS
  TypesOK
  StagesInOrder
  CompletedOnlyIfReviewed
  EndedPlanLeavesNothing
  OwnersReadTheirOwnContent
  OneOpenCase
PROPERTIES
  EveryPlanEnds
  NoSilentReversal
  EveryCaseEnds
CHECK_DEADLOCK FALSE
