SPECIFICATION Spec
CONSTANTS
  a1 = a1
  a2 = a2
  alice = alice
  bob = bob
  worker = worker
  auditorAgent = auditorAgent
  directorAgent = directorAgent
  regulatorAgent = regulatorAgent
  Approvals = {a1}
  Accounts = {alice}
  Agents = {worker, regulatorAgent}
  ExecRole <- RolesOfWorkerAndRegulator
  HumanApprovalSuffices = TRUE
  Whitelisted = {}
  Timeout = 1
  Delay = 0
  MaxTime = 1
  DbMayFail = FALSE
INVARIANTS
  NoSelfReview
