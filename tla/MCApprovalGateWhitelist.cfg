SPECIFICATION Spec
CONSTANTS
  a1 = a1
  a2 = a2
  alice = alice
  bob = bob
  worker = worker
  auditorAgent = auditorAgent
  directorAgent = directorAgent
  regulatorAgent = regulatorAgent
  Approvals = {a1}
  Accounts = {alice}
  Agents = {worker}
  ExecRole <- RoleOfWorker
  HumanApprovalSuffices = TRUE
  Whitelisted = {a1}
  Timeout = 2
  Delay = 1
  MaxTime = 2
  DbMayFail = FALSE
INVARIANTS
  ProceedsOnlyIfApproved
