SPECIFICATION Spec
CONSTANTS
  a1 = a1
  a2 = a2
  alice = alice
  bob = bob
  worker = worker
  auditorAgent = auditorAgent
  directorAgent = directorAgent
  regulatorAgent = regulatorAgent
  Approvals = {a1, a2}
  Accounts = {alice}
  Agents = {worker, auditorAgent}
  ExecRole <- RolesOfWorkerAndAuditor
  HumanApprovalSuffices = TRUE
  Whitelisted = {}
  Timeout = 1
  Delay = 0
  MaxTime = 2
  DbMayFail = FALSE
INVARIANTS
  TypeOK
  BlockedOnlyWhilePending
  ProceedsOnlyIfApproved
  TableAgrees
PROPERTIES
  ImplementsRegister
