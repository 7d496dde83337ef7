---------------------------- MODULE ApprovalGate ----------------------------
(***************************************************************************)
(* The approval gate of Services/LoopControl/approvalGate.ts with the      *)
(* table behind it (approvalPersistence.ts), the pool of deciders          *)
(* (governanceGuard.ts), the identity binding of the REST endpoint         *)
(* (approvalIdentity.ts, approvalApi.ts), the timers and the sweep         *)
(* (main.ts), and the caller: a tool call blocked in toolSafetyGate.ts.    *)
(*                                                                         *)
(* JavaScript runs each handler to its next await without interruption, so *)
(* one handler is one action; the interleaving is between REST decisions,  *)
(* agents' decisions, the waiter's timer, the 5 s sweep, the whitelist     *)
(* delay and a restart of the process.                                     *)
(***************************************************************************)
EXTENDS Integers, FiniteSets, VoteMatching

CONSTANTS
  Approvals,              \* identifiers of approvals, each used once
  Accounts,               \* human identities: accounts that may be active or verified
  Agents,                 \* registered agents
  ExecRole,               \* Agents -> role in the execution vocabulary
  HumanApprovalSuffices,  \* the policy flag of approvalGate.ts:71
  Whitelisted,            \* approvals whose tool is in autoApproveTools
  Timeout,                \* approvalTimeoutSec, in ticks
  Delay,                  \* autoApproveDelayMs, in ticks
  MaxTime,                \* bound on the clock
  DbMayFail               \* whether writes to pending_approvals may fail

L0 == {"regulator", "auditor", "arbitrator"}
L1 == {"prime_director", "partner"}
L2 == {"worker", "reviewer", "assembly_node"}
ExecRoles == L0 \cup L1 \cup L2
ApprovalRoles == {"user", "prime_director", "regulatory_authority", "auditor"}

ASSUME IdentitiesAssumption ==
  /\ Accounts \cap Agents = {}
  /\ IsFiniteSet(Approvals) /\ IsFiniteSet(Accounts) /\ IsFiniteSet(Agents)
  /\ ExecRole \in [Agents -> ExecRoles]
ASSUME PolicyAssumption ==
  /\ HumanApprovalSuffices \in BOOLEAN
  /\ DbMayFail \in BOOLEAN
  /\ Whitelisted \subseteq Approvals
ASSUME TimeAssumption ==
  /\ Timeout \in Nat \ {0}
  /\ Delay \in Nat /\ Delay < Timeout
  /\ MaxTime \in Nat

VARIABLES
  now,          \* the clock
  sessionAuto,  \* the session's "full permission" switch
  inQueue,      \* keys of approvalQueue, the Map of the running process
  queue,        \* the rows of that Map
  caller,       \* where the tool call of each approval stands
  answer,       \* what it was told
  disk,         \* status column of pending_approvals
  past          \* history: the verdicts reached in earlier processes

vars == <<now, sessionAuto, inQueue, queue, caller, answer, disk, past>>

Final == {"APPROVED", "REJECTED", "TIMEOUT"}
Identities == Accounts \cup Agents
Votes == ApprovalRoles \X Identities

NoRow == [status |-> "NONE", pool |-> {}, votes |-> {}, auto |-> FALSE,
          requester |-> "nobody", askedAt |-> 0]

Row == [status : {"NONE", "PENDING"} \cup Final, pool : SUBSET ApprovalRoles,
        votes : SUBSET Votes, auto : BOOLEAN,
        requester : Agents \cup {"nobody"}, askedAt : Nat]

TypeOK ==
  /\ now \in Nat
  /\ sessionAuto \in BOOLEAN
  /\ inQueue \subseteq Approvals
  /\ queue \in [Approvals -> Row]
  /\ caller \in [Approvals -> {"none", "waiting", "delaying", "done"}]
  /\ answer \in [Approvals -> {"NONE", "WAITING", "LOST"} \cup Final]
  /\ disk \in [Approvals -> {"NONE", "PENDING"} \cup Final]
  /\ past \in [Approvals -> {"NONE"} \cup Final]

-----------------------------------------------------------------------------
(* The pool of deciders and the identities that may speak for a role.      *)

\* The execution vocabulary's word for a role, in the approval vocabulary.
ToApprovalRole(role) == IF role = "regulator" THEN "regulatory_authority" ELSE role

BuildApprovalDecidersForgettingRequester(requesterRole) ==
  IF requesterRole \in L2
    THEN {"user", "prime_director", "auditor", "regulatory_authority"}
    ELSE {"user", "auditor", "regulatory_authority"}

\* The requester's own role never enters the pool: compared as written, in
\* the requester's vocabulary.
BuildApprovalDeciders(requesterRole) ==
  (IF requesterRole \in L2
     THEN {"user", "prime_director", "auditor", "regulatory_authority"}
     ELSE {"user", "auditor", "regulatory_authority"}) \ {requesterRole}

\* bindApprovalIdentity: the owner speaks as user, or as proxy for any role; a
\* registered agent speaks only for the role it really has.
Bound(role, id) ==
  \/ id \in Accounts
  \/ id \in Agents /\ ToApprovalRole(ExecRole[id]) = role

Required == 2

EffectiveRequired(id) ==
  IF HumanApprovalSuffices /\ id \notin Agents THEN 1 ELSE Required

-----------------------------------------------------------------------------
Init ==
  /\ now = 0
  /\ sessionAuto = FALSE
  /\ inQueue = {}
  /\ queue = [a \in Approvals |-> NoRow]
  /\ caller = [a \in Approvals |-> "none"]
  /\ answer = [a \in Approvals |-> "NONE"]
  /\ disk = [a \in Approvals |-> "NONE"]
  /\ past = [a \in Approvals |-> "NONE"]

\* The outcomes of writing new statuses for the approvals in S: fail-safe, a
\* failed write leaves the table as it was and nobody is told.
Persist(S, statuses) ==
  \E failed \in {{}} \cup (IF DbMayFail THEN SUBSET S ELSE {}) :
    disk' = [a \in Approvals |-> IF a \in S \ failed THEN statuses[a] ELSE disk[a]]

\* persistApprovalUpdated is an UPDATE: without the row it writes nothing.
PersistUpdated(S, rows) ==
  Persist({a \in S : disk[a] # "NONE"}, [a \in Approvals |-> rows[a].status])

NotifyWithoutResolving(S, rows) == UNCHANGED <<caller, answer>>

\* notifyWaiter, and finish() of the waiter's own timer: settled approvals
\* answer the callers blocked in waitForApprovalDecision.
Notify(S, rows) ==
  /\ caller' = [a \in Approvals |->
                  IF a \in S /\ caller[a] = "waiting" THEN "done" ELSE caller[a]]
  /\ answer' = [a \in Approvals |->
                  IF a \in S /\ caller[a] = "waiting" THEN rows[a].status ELSE answer[a]]

\* A new row, not used again after this process: the clock must be able to
\* reach its deadline.
Fresh(a) ==
  /\ caller[a] = "none"
  /\ now + Timeout <= MaxTime

\* toolSafetyGate creates a CRITICAL approval, registers it and blocks; a
\* whitelisted tool sleeps through the review animation instead.
Request(a, agent) ==
  LET pool == BuildApprovalDeciders(ExecRole[agent])
      row == [status |-> "PENDING", pool |-> pool, votes |-> {}, auto |-> FALSE,
              requester |-> agent, askedAt |-> now]
  IN /\ Fresh(a)
     /\ ~sessionAuto
     /\ Cardinality(pool) >= 2
     /\ inQueue' = inQueue \cup {a}
     /\ queue' = [queue EXCEPT ![a] = row]
     /\ Persist({a}, [b \in Approvals |-> "PENDING"])
     /\ caller' = [caller EXCEPT ![a] = IF a \in Whitelisted THEN "delaying" ELSE "waiting"]
     /\ answer' = [answer EXCEPT ![a] = "WAITING"]
     /\ UNCHANGED <<now, sessionAuto, past>>

\* Full permission: the approval is born APPROVED. Its record has no loop, no
\* requester and no request time, columns the table requires: the INSERT fails
\* and is swallowed, twice.
RequestAutoFull(a) ==
  LET row == [NoRow EXCEPT !.status = "APPROVED", !.auto = TRUE, !.askedAt = now]
  IN /\ Fresh(a)
     /\ sessionAuto
     /\ inQueue' = inQueue \cup {a}
     /\ queue' = [queue EXCEPT ![a] = row]
     /\ caller' = [caller EXCEPT ![a] = IF a \in Whitelisted THEN "delaying" ELSE "done"]
     /\ answer' = [answer EXCEPT ![a] = IF a \in Whitelisted THEN "WAITING" ELSE "APPROVED"]
     /\ UNCHANGED <<now, sessionAuto, disk, past>>

SetSessionAutoApprove ==
  /\ sessionAuto' = ~sessionAuto
  /\ UNCHANGED <<now, inQueue, queue, caller, answer, disk, past>>

-----------------------------------------------------------------------------
(* Decisions.                                                              *)

StillListed(a) == a \in inQueue

Pending(a) == a \in inQueue /\ queue[a].status = "PENDING"

DecidedWithOwnStatus(row, vote, approve) ==
  [row EXCEPT !.votes = row.votes \cup {vote},
              !.status = IF approve THEN "QUORUM_BLOCKED" ELSE "REJECTED"]

\* What decideApproval leaves in row for an accepted vote.
Decided(row, vote, approve) ==
  LET votes == row.votes \cup {vote}
  IN [row EXCEPT
        !.votes = votes,
        !.status = IF ~approve THEN "REJECTED"
                   ELSE IF Matches(row.pool, votes, EffectiveRequired(vote[2]))
                     THEN "APPROVED" ELSE "PENDING"]

\* POST /api/approvals/:id/decide and adjudicateApprovalByAgent: an identity
\* bound to a role of the pool approves or rejects.  Refused decisions change
\* nothing.
Decide(a, role, id, approve) ==
  LET vote == <<role, id>>
      rows == [queue EXCEPT ![a] = Decided(queue[a], vote, approve)]
  IN /\ Pending(a)
     /\ Bound(role, id)
     /\ role \in queue[a].pool
     /\ approve => Counts(queue[a].pool, queue[a].votes, vote)
     /\ queue' = rows
     /\ PersistUpdated({a}, rows)
     /\ IF rows[a].status = "PENDING" THEN UNCHANGED <<caller, answer>>
                                      ELSE Notify({a}, rows)
     /\ UNCHANGED <<now, sessionAuto, inQueue, past>>

\* forceApprove settles whatever is pending; toolSafetyGate ignores its result
\* and goes on, so the call proceeds even when the approval had been settled
\* otherwise while the animation played.
AutoApprove(a) ==
  LET rows == [queue EXCEPT ![a].status = "APPROVED", ![a].auto = TRUE]
  IN /\ caller[a] = "delaying"
     /\ now >= queue[a].askedAt + Delay
     /\ IF Pending(a)
          THEN queue' = rows /\ PersistUpdated({a}, rows)
          ELSE UNCHANGED <<queue, disk>>
     /\ caller' = [caller EXCEPT ![a] = "done"]
     /\ answer' = [answer EXCEPT ![a] = "APPROVED"]
     /\ UNCHANGED <<now, sessionAuto, inQueue, past>>

Expired(a) == now >= queue[a].askedAt + Timeout

TimeOut(S) == [a \in Approvals |->
                 IF a \in S THEN [queue[a] EXCEPT !.status = "TIMEOUT"] ELSE queue[a]]

\* The timer of waitForApprovalDecision: a pending approval is timed out, and
\* the caller is told the status the row has in any case.
WaiterTimeout(a) ==
  /\ caller[a] = "waiting"
  /\ Expired(a)
  /\ queue' = TimeOut({a} \cap {b \in Approvals : Pending(b)})
  /\ PersistUpdated({a}, queue')
  /\ Notify({a}, queue')
  /\ UNCHANGED <<now, sessionAuto, inQueue, past>>

Overdue == {a \in Approvals : Pending(a) /\ Expired(a)}

SweepForgettingWaiters ==
  /\ Overdue # {}
  /\ queue' = TimeOut(Overdue)
  /\ PersistUpdated(Overdue, queue')
  /\ UNCHANGED <<now, sessionAuto, inQueue, caller, answer, past>>

\* checkTimeoutApprovals, every five seconds.
Sweep ==
  /\ Overdue # {}
  /\ queue' = TimeOut(Overdue)
  /\ PersistUpdated(Overdue, queue')
  /\ Notify(Overdue, queue')
  /\ UNCHANGED <<now, sessionAuto, inQueue, past>>

ExpireNothing == UNCHANGED disk

\* expireStaleApprovals at start-up: what the table shows as pending is rejected.
ExpireStale ==
  Persist({a \in Approvals : disk[a] = "PENDING"}, [a \in Approvals |-> "TIMEOUT"])

\* The process dies, the callers with it, and the next one starts with an empty
\* queue and switch.
Restart ==
  /\ inQueue' = {}
  /\ caller' = [a \in Approvals |-> IF caller[a] = "none" THEN "none" ELSE "done"]
  /\ answer' = [a \in Approvals |-> IF answer[a] = "WAITING" THEN "LOST" ELSE answer[a]]
  /\ past' = [a \in Approvals |->
                IF a \notin inQueue THEN past[a]
                ELSE IF Pending(a) THEN "TIMEOUT" ELSE queue[a].status]
  /\ sessionAuto' = FALSE
  /\ ExpireStale
  /\ UNCHANGED <<now, queue>>

Tick ==
  /\ now < MaxTime
  /\ now' = now + 1
  /\ UNCHANGED <<sessionAuto, inQueue, queue, caller, answer, disk, past>>

Next ==
  \/ \E a \in Approvals, agent \in Agents : Request(a, agent)
  \/ \E a \in Approvals : RequestAutoFull(a) \/ AutoApprove(a) \/ WaiterTimeout(a)
  \/ \E a \in Approvals, role \in ApprovalRoles, id \in Identities, approve \in BOOLEAN :
       Decide(a, role, id, approve)
  \/ SetSessionAutoApprove
  \/ Sweep
  \/ Restart
  \/ Tick

Spec == Init /\ [][Next]_vars

\* Timers fire, the sweep's interval fires, and time passes.
Fairness ==
  /\ WF_vars(Tick)
  /\ WF_vars(Sweep)
  /\ \A a \in Approvals : WF_vars(AutoApprove(a)) /\ WF_vars(WaiterTimeout(a))

FairSpec == Spec /\ Fairness

-----------------------------------------------------------------------------
(* Properties.                                                             *)

\* Two-person control: an approval is granted only by policy, by a human's
\* approving vote under the "one human suffices" policy, or by two different
\* identities speaking for two different roles of the pool (approvalGate.ts:416,
\* 459) - whatever the order of the votes and however often one is repeated.
QuorumSound ==
  \A a \in Approvals : queue[a].status = "APPROVED" /\ ~queue[a].auto =>
    \/ HumanApprovalSuffices /\ \E v \in queue[a].votes :
         v[1] \in queue[a].pool /\ v[2] \in Accounts
    \/ \E v, w \in queue[a].votes :
         /\ v[1] # w[1] /\ v[2] # w[2]
         /\ {v[1], w[1]} \subseteq queue[a].pool

\* No lost wake-up: a tool call is blocked in waitForApprovalDecision only while
\* its approval is pending in the queue of the living process; whichever of the
\* vote, the timer or the sweep settles it wakes the caller (approvalGate.ts:230).
BlockedOnlyWhilePending ==
  \A a \in Approvals : caller[a] = "waiting" => Pending(a)

\* A call goes on only when its approval was granted and stays granted
\* (toolSafetyGate.ts:434): no vote, timer or sweep contradicts it later.
ProceedsOnlyIfApproved ==
  \A a \in Approvals : answer[a] = "APPROVED" =>
    IF a \in inQueue THEN queue[a].status = "APPROVED" ELSE past[a] = "APPROVED"

\* The table agrees with the queue on every approval it has a row for, and after
\* a restart shows nothing as pending that nobody can decide any more
\* (approvalPersistence.ts:182-188).
TableAgrees ==
  \A a \in Approvals : disk[a] # "NONE" =>
    disk[a] = IF a \in inQueue THEN queue[a].status ELSE past[a]

\* No agent takes part in deciding what it asked for itself
\* (governanceGuard.ts:75).
NoSelfReview ==
  \A a \in Approvals : \A v \in queue[a].votes : v[2] # queue[a].requester

\* Nobody waits for ever: a blocked call is answered or dies with its process,
\* by the timer if nobody decides (approvalGate.ts:312).
EveryCallAnswered ==
  \A a \in Approvals : answer[a] = "WAITING" ~> answer[a] # "WAITING"

\* The gate implements what ApprovalRegister promises its caller.
Register == INSTANCE ApprovalRegister WITH
  verdict <- [a \in Approvals |-> IF a \in inQueue THEN queue[a].status ELSE past[a]]

ImplementsRegister == Register!Spec
=============================================================================
