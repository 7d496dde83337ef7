SPECIFICATION OneByOne
CONSTANTS
  Agents = {f1, f2}
  Supply = 3
  DefaultBalance = 2
  Costs = {1, 2}
  FreezeTicks = 1
  MaxFreezes = 2
  MaxRestarts = 1
  MaxTime = 3
  DbMayFail = FALSE
  Root = d
  Siblings = {s1, s2}
  Domains = {x}
  Kids = {k1}
  Events = {"iteration.exited", "budget.exhausted", "goal.satisfied"}
  Answers = {"terminate"}
  MaxCycles = 2
  MaxRuns = 2
  MaxLive = 1
  Approvals = {a1, a2}
  Whitelisted = {a2}
  alice = alice
  worker = worker
  Timeout = 2
  Delay = 1
INVARIANTS
  TypesOK
  FreezeCoherent
  PeersHaveADomain
  NoFalseSuccess
  SuspendedIsSaved
PROPERTIES
  FrozenSpendsNothing
  EveryFreezeEnds
  EveryDialogueEnds
  EveryCallAnswered
CHECK_DEADLOCK FALSE
