--------------------------- MODULE MCApprovalGate ---------------------------
(* Small instances of ApprovalGate for TLC. *)
EXTENDS ApprovalGate, TLC

CONSTANTS a1, a2, alice, bob, worker, auditorAgent, directorAgent, regulatorAgent

\* The agents of each instance, with the role each really has.
RoleOfWorker == worker :> "worker"
RolesOfWorkerAndAuditor == RoleOfWorker @@ auditorAgent :> "auditor"
RolesOfWorkerAndRegulator == RoleOfWorker @@ regulatorAgent :> "regulator"
RolesOfExecutorsAndAuditor == RolesOfWorkerAndAuditor @@ directorAgent :> "prime_director"
=============================================================================
