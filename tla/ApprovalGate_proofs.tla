------------------------- MODULE ApprovalGate_proofs -------------------------
(***************************************************************************)
(* Proofs about ApprovalGate, for every set of approvals, accounts and     *)
(* agents, every policy and every timing.                                  *)
(***************************************************************************)
EXTENDS ApprovalGate, TLAPS, FiniteSetTheorems

USE IdentitiesAssumption, PolicyAssumption, TimeAssumption

-----------------------------------------------------------------------------
(* Votes.                                                                  *)

\* Votes are finitely many, so that their cardinality means something.
LEMMA VotesAreFinite == IsFiniteSet(Votes)
<1>1. IsFiniteSet(Identities)
  BY FS_Union DEF Identities
<1>2. IsFiniteSet(ApprovalRoles)
  <2>1. IsFiniteSet({}) BY FS_EmptySet
  <2>2. IsFiniteSet({"user"}) BY FS_Singleton
  <2>3. IsFiniteSet({"user"} \cup {"prime_director"})
    BY <2>2, FS_Singleton, FS_Union
  <2>4. IsFiniteSet({"regulatory_authority"} \cup {"auditor"})
    BY FS_Singleton, FS_Union
  <2>5. ApprovalRoles = ({"user"} \cup {"prime_director"})
                        \cup ({"regulatory_authority"} \cup {"auditor"})
    BY DEF ApprovalRoles
  <2>. QED BY <2>3, <2>4, <2>5, FS_Union
<1>. QED BY <1>1, <1>2, FS_Product DEF Votes

\* A matching of two or more holds two votes that differ in role and identity.
LEMMA TwoDistinctVotes ==
  ASSUME NEW pool, NEW votes \in SUBSET Votes, Matches(pool, votes, 2)
  PROVE  \E v, w \in votes : v[1] # w[1] /\ v[2] # w[2] /\ {v[1], w[1]} \subseteq pool
<1>1. PICK m \in SUBSET votes : Matching(m, pool) /\ Cardinality(m) >= 2
  BY DEF Matches
<1>2. IsFiniteSet(m)
  BY VotesAreFinite, FS_Subset
<1>3. m # {}
  BY <1>1, FS_EmptySet
<1>4. PICK v \in m : TRUE
  BY <1>3
<1>5. m # {v}
  <2>1. Cardinality({v}) = 1
    BY FS_Singleton
  <2>. QED BY <1>1, <2>1
<1>6. PICK w \in m : w # v
  BY <1>4, <1>5
<1>. QED BY <1>1, <1>4, <1>6 DEF Matching

-----------------------------------------------------------------------------
(* Types and wake-ups.  A caller is told the status its row has when its   *)
(* own timer fires, which has the right type only because a blocked caller *)
(* has a pending row: the two invariants are inductive together.           *)

WakeUpInv == TypeOK /\ BlockedOnlyWhilePending

LEMMA PoolType ==
  ASSUME NEW role PROVE BuildApprovalDeciders(role) \in SUBSET ApprovalRoles
BY DEF BuildApprovalDeciders, ApprovalRoles

LEMMA NoRowType == NoRow \in Row
BY DEF NoRow, Row

\* What a vote leaves is a row, in one of the states a decision can lead to.
LEMMA DecidedType ==
  ASSUME NEW row \in Row, NEW vote \in Votes, NEW approve \in BOOLEAN
  PROVE  /\ Decided(row, vote, approve) \in Row
         /\ Decided(row, vote, approve).status \in {"PENDING", "APPROVED", "REJECTED"}
BY DEF Decided, Row, Final

\* A write of well-typed statuses, failing or not, leaves a well-typed table.
LEMMA PersistType ==
  ASSUME disk \in [Approvals -> {"NONE", "PENDING"} \cup Final],
         NEW S, NEW statuses,
         \A a \in Approvals : statuses[a] \in {"NONE", "PENDING"} \cup Final,
         Persist(S, statuses)
  PROVE  disk' \in [Approvals -> {"NONE", "PENDING"} \cup Final]
BY DEF Persist

\* The same for the statuses of rows.
LEMMA PersistUpdatedType ==
  ASSUME disk \in [Approvals -> {"NONE", "PENDING"} \cup Final],
         NEW S, NEW rows \in [Approvals -> Row],
         PersistUpdated(S, rows)
  PROVE  disk' \in [Approvals -> {"NONE", "PENDING"} \cup Final]
<1>1. \A a \in Approvals : [b \in Approvals |-> rows[b].status][a]
        \in {"NONE", "PENDING"} \cup Final
  BY DEF Row
<1>. QED BY <1>1, PersistType DEF PersistUpdated

\* Answering the callers of rows that are all settled keeps the types, and no
\* caller of one of them stays blocked.
LEMMA NotifyType ==
  ASSUME TypeOK, NEW S, NEW rows,
         \A a \in Approvals : a \in S /\ caller[a] = "waiting" => rows[a].status \in Final,
         Notify(S, rows)
  PROVE  /\ caller' \in [Approvals -> {"none", "waiting", "delaying", "done"}]
         /\ answer' \in [Approvals -> {"NONE", "WAITING", "LOST"} \cup Final]
         /\ \A a \in Approvals : caller'[a] = "waiting" => caller[a] = "waiting" /\ a \notin S
BY DEF TypeOK, Notify

LEMMA WakeUpInit == Init => WakeUpInv
<1> SUFFICES ASSUME Init PROVE WakeUpInv
  OBVIOUS
<1>1. queue \in [Approvals -> Row]
  BY NoRowType DEF Init
<1>2. TypeOK
  BY <1>1 DEF Init, TypeOK
<1>3. BlockedOnlyWhilePending
  BY DEF Init, BlockedOnlyWhilePending
<1>. QED BY <1>2, <1>3 DEF WakeUpInv

\* Each action preserves the types and leaves no caller blocked on a settled row.
LEMMA WakeUpStep == WakeUpInv /\ [Next]_vars => WakeUpInv'
<1> SUFFICES ASSUME WakeUpInv, [Next]_vars PROVE WakeUpInv'
  OBVIOUS
<1>0. TypeOK /\ BlockedOnlyWhilePending
  BY DEF WakeUpInv
<1>1. ASSUME NEW a \in Approvals, NEW agent \in Agents, Request(a, agent)
      PROVE  WakeUpInv'
  <2> DEFINE row == [status |-> "PENDING", pool |-> BuildApprovalDeciders(ExecRole[agent]),
                     votes |-> {}, auto |-> FALSE, requester |-> agent, askedAt |-> now]
  <2>1. row \in Row
    BY <1>0, PoolType DEF Row, TypeOK
  <2>2. queue' = [queue EXCEPT ![a] = row] /\ inQueue' = inQueue \cup {a}
    BY <1>1 DEF Request
  <2>3. disk' \in [Approvals -> {"NONE", "PENDING"} \cup Final]
    <3>1. Persist({a}, [b \in Approvals |-> "PENDING"]) BY <1>1 DEF Request
    <3>. QED BY <3>1, <1>0, PersistType DEF TypeOK
  <2> HIDE DEF row
  <2>4. TypeOK'
    <3>1. queue' \in [Approvals -> Row] /\ inQueue' \subseteq Approvals
      BY <1>0, <2>1, <2>2 DEF TypeOK
    <3>2. /\ caller' \in [Approvals -> {"none", "waiting", "delaying", "done"}]
          /\ answer' \in [Approvals -> {"NONE", "WAITING", "LOST"} \cup Final]
      BY <1>0, <1>1 DEF TypeOK, Request
    <3>3. UNCHANGED <<now, sessionAuto, past>>
      BY <1>1 DEF Request
    <3>. QED BY <1>0, <2>3, <3>1, <3>2, <3>3 DEF TypeOK
  <2>5. BlockedOnlyWhilePending'
    BY <1>0, <1>1, <2>2 DEF TypeOK, Request, BlockedOnlyWhilePending, Pending
  <2>. QED BY <2>4, <2>5 DEF WakeUpInv
<1>2. ASSUME NEW a \in Approvals, RequestAutoFull(a) PROVE WakeUpInv'
  <2> DEFINE row == [NoRow EXCEPT !.status = "APPROVED", !.auto = TRUE, !.askedAt = now]
  <2>1. row \in Row
    BY <1>0 DEF Row, NoRow, Final, TypeOK
  <2>2. queue' = [queue EXCEPT ![a] = row] /\ inQueue' = inQueue \cup {a}
    BY <1>2 DEF RequestAutoFull
  <2>3. TypeOK'
    BY <1>0, <1>2, <2>1, <2>2 DEF TypeOK, RequestAutoFull, Final
  <2>4. BlockedOnlyWhilePending'
    BY <1>0, <1>2, <2>2
    DEF TypeOK, RequestAutoFull, Fresh, BlockedOnlyWhilePending, Pending
  <2>. QED BY <2>3, <2>4 DEF WakeUpInv
<1>3. ASSUME NEW a \in Approvals, NEW role \in ApprovalRoles, NEW id \in Identities,
             NEW approve \in BOOLEAN, Decide(a, role, id, approve)
      PROVE  WakeUpInv'
  <2> DEFINE rows == [queue EXCEPT ![a] = Decided(queue[a], <<role, id>>, approve)]
  <2>1. /\ Decided(queue[a], <<role, id>>, approve) \in Row
        /\ Decided(queue[a], <<role, id>>, approve).status
             \in {"PENDING", "APPROVED", "REJECTED"}
    <3>1. queue[a] \in Row /\ <<role, id>> \in Votes BY <1>0 DEF TypeOK, Votes
    <3>. QED BY <3>1, DecidedType
  <2>2. queue' = rows /\ rows \in [Approvals -> Row]
    BY <1>0, <1>3, <2>1 DEF TypeOK, Decide
  <2>3. disk' \in [Approvals -> {"NONE", "PENDING"} \cup Final]
    <3>1. PersistUpdated({a}, rows) BY <1>3 DEF Decide
    <3>. QED BY <3>1, <2>2, <1>0, PersistUpdatedType DEF TypeOK
  <2>4. CASE rows[a].status = "PENDING"
    <3>1. UNCHANGED <<now, sessionAuto, inQueue, past, caller, answer>>
      BY <1>3, <2>4 DEF Decide
    <3>2. TypeOK'
      BY <1>0, <2>2, <2>3, <3>1 DEF TypeOK
    <3>3. BlockedOnlyWhilePending'
      BY <1>0, <2>2, <2>4, <3>1 DEF TypeOK, BlockedOnlyWhilePending, Pending
    <3>. QED BY <3>2, <3>3 DEF WakeUpInv
  <2>5. CASE rows[a].status # "PENDING"
    <3>1. Notify({a}, rows) /\ UNCHANGED <<now, sessionAuto, inQueue, past>>
      BY <1>3, <2>5 DEF Decide
    <3>2. rows[a].status \in Final
      BY <2>1, <2>2, <2>5, <1>0 DEF TypeOK, Final
    <3>3. /\ caller' \in [Approvals -> {"none", "waiting", "delaying", "done"}]
          /\ answer' \in [Approvals -> {"NONE", "WAITING", "LOST"} \cup Final]
          /\ \A b \in Approvals : caller'[b] = "waiting" => caller[b] = "waiting" /\ b \notin {a}
      BY <3>1, <3>2, <1>0, NotifyType
    <3>4. TypeOK'
      BY <1>0, <2>2, <2>3, <3>1, <3>3 DEF TypeOK
    <3>5. BlockedOnlyWhilePending'
      BY <1>0, <2>2, <3>1, <3>3 DEF TypeOK, BlockedOnlyWhilePending, Pending
    <3>. QED BY <3>4, <3>5 DEF WakeUpInv
  <2>. QED BY <2>4, <2>5
<1>4. ASSUME NEW a \in Approvals, AutoApprove(a) PROVE WakeUpInv'
  <2> DEFINE rows == [queue EXCEPT ![a].status = "APPROVED", ![a].auto = TRUE]
  <2>1. rows \in [Approvals -> Row]
    <3>1. rows = [queue EXCEPT ![a] = [queue[a] EXCEPT !.status = "APPROVED", !.auto = TRUE]]
      BY <1>0 DEF TypeOK
    <3>2. [queue[a] EXCEPT !.status = "APPROVED", !.auto = TRUE] \in Row
      <4>1. queue[a] \in Row BY <1>0 DEF TypeOK
      <4>. QED BY <4>1 DEF Row, Final
    <3>. QED BY <1>0, <3>1, <3>2 DEF TypeOK
  <2>2. /\ queue' \in [Approvals -> Row]
        /\ disk' \in [Approvals -> {"NONE", "PENDING"} \cup Final]
        /\ \A b \in Approvals : b # a => queue'[b] = queue[b]
    <3>1. CASE Pending(a)
      <4>1. queue' = rows /\ PersistUpdated({a}, rows) BY <1>4, <3>1 DEF AutoApprove
      <4>2. disk' \in [Approvals -> {"NONE", "PENDING"} \cup Final]
        BY <4>1, <2>1, <1>0, PersistUpdatedType DEF TypeOK
      <4>. QED BY <4>1, <4>2, <2>1, <1>0 DEF TypeOK
    <3>2. CASE ~Pending(a)
      BY <1>0, <1>4, <3>2 DEF TypeOK, AutoApprove
    <3>. QED BY <3>1, <3>2
  <2>3. /\ caller' = [caller EXCEPT ![a] = "done"]
        /\ answer' = [answer EXCEPT ![a] = "APPROVED"]
        /\ UNCHANGED <<now, sessionAuto, inQueue, past>>
    BY <1>4 DEF AutoApprove
  <2>4. TypeOK'
    BY <1>0, <2>2, <2>3 DEF TypeOK, Final
  <2>5. BlockedOnlyWhilePending'
    BY <1>0, <2>2, <2>3 DEF TypeOK, BlockedOnlyWhilePending, Pending
  <2>. QED BY <2>4, <2>5 DEF WakeUpInv
<1>5. ASSUME NEW S \in SUBSET Approvals, queue' = TimeOut(S),
             NEW T, PersistUpdated(T, queue'), Notify(S, queue'),
             UNCHANGED <<now, sessionAuto, inQueue, past>>
      PROVE  WakeUpInv'
  <2>1. queue' \in [Approvals -> Row] /\ \A b \in S : queue'[b].status = "TIMEOUT"
    <3>1. \A row \in Row : /\ [row EXCEPT !.status = "TIMEOUT"] \in Row
                           /\ [row EXCEPT !.status = "TIMEOUT"].status = "TIMEOUT"
      BY DEF Row, Final
    <3>2. queue \in [Approvals -> Row]
      BY <1>0 DEF TypeOK
    <3>. QED BY <1>5, <3>1, <3>2 DEF TimeOut
  <2>2. disk' \in [Approvals -> {"NONE", "PENDING"} \cup Final]
    BY <1>0, <1>5, <2>1, PersistUpdatedType DEF TypeOK
  <2>3. /\ caller' \in [Approvals -> {"none", "waiting", "delaying", "done"}]
        /\ answer' \in [Approvals -> {"NONE", "WAITING", "LOST"} \cup Final]
        /\ \A b \in Approvals : caller'[b] = "waiting" => caller[b] = "waiting" /\ b \notin S
    BY <1>0, <1>5, <2>1, NotifyType DEF Final
  <2>4. TypeOK'
    BY <1>0, <1>5, <2>1, <2>2, <2>3 DEF TypeOK
  <2>5. BlockedOnlyWhilePending'
    BY <1>0, <1>5, <2>3 DEF TypeOK, BlockedOnlyWhilePending, Pending, TimeOut
  <2>. QED BY <2>4, <2>5 DEF WakeUpInv
<1>6. ASSUME NEW a \in Approvals, WaiterTimeout(a) PROVE WakeUpInv'
  <2>1. Pending(a)
    BY <1>0, <1>6 DEF WaiterTimeout, BlockedOnlyWhilePending
  <2>2. {a} \cap {b \in Approvals : Pending(b)} = {a}
    BY <2>1
  <2>3. queue' = TimeOut({a})
    BY <1>6, <2>2 DEF WaiterTimeout
  <2>. QED BY <1>5, <1>6, <2>3 DEF WaiterTimeout
<1>7. CASE Sweep
  <2>1. Overdue \in SUBSET Approvals BY DEF Overdue
  <2>. QED BY <1>5, <1>7, <2>1 DEF Sweep
<1>8. CASE Restart
  <2>1. disk' \in [Approvals -> {"NONE", "PENDING"} \cup Final]
    <3>1. \A a \in Approvals : [b \in Approvals |-> "TIMEOUT"][a] \in {"NONE", "PENDING"} \cup Final
      BY DEF Final
    <3>2. Persist({a \in Approvals : disk[a] = "PENDING"}, [b \in Approvals |-> "TIMEOUT"])
      BY <1>8 DEF Restart, ExpireStale
    <3>. QED BY <3>1, <3>2, <1>0, PersistType DEF TypeOK
  <2>2. past' \in [Approvals -> {"NONE"} \cup Final]
    BY <1>0, <1>8 DEF TypeOK, Restart, Row, Pending, Final
  <2>3. TypeOK'
    BY <1>0, <1>8, <2>1, <2>2 DEF TypeOK, Restart
  <2>4. BlockedOnlyWhilePending'
    BY <1>8 DEF BlockedOnlyWhilePending, Restart
  <2>. QED BY <2>3, <2>4 DEF WakeUpInv
<1>9. CASE SetSessionAutoApprove
  BY <1>0, <1>9
  DEF SetSessionAutoApprove, WakeUpInv, TypeOK, BlockedOnlyWhilePending, Pending
<1>10. CASE Tick
  BY <1>0, <1>10 DEF Tick, WakeUpInv, TypeOK, BlockedOnlyWhilePending, Pending
<1>11. CASE UNCHANGED vars
  BY <1>0, <1>11 DEF vars, WakeUpInv, TypeOK, BlockedOnlyWhilePending, Pending
<1>. QED BY <1>1, <1>2, <1>3, <1>4, <1>6, <1>7, <1>8, <1>9, <1>10, <1>11 DEF Next

\* Type correctness: rows, verdicts and answers take only the values the schema
\* and the gate know, in every reachable state.
THEOREM TypeCorrect == Spec => []TypeOK
<1>1. WakeUpInv => TypeOK BY DEF WakeUpInv
<1>. QED BY WakeUpInit, WakeUpStep, <1>1, PTL DEF Spec

\* No lost wake-up: a tool call is blocked only while its approval is pending in
\* the queue of the living process.
THEOREM NoLostWakeUp == Spec => []BlockedOnlyWhilePending
<1>1. WakeUpInv => BlockedOnlyWhilePending BY DEF WakeUpInv
<1>. QED BY WakeUpInit, WakeUpStep, <1>1, PTL DEF Spec

-----------------------------------------------------------------------------
(* Two-person control.  Only a decision can turn a pending row APPROVED    *)
(* without the auto flag, and it does so on the votes the row then has.    *)

Granted(row) ==
  row.status = "APPROVED" /\ ~row.auto =>
    \/ HumanApprovalSuffices /\ \E v \in row.votes : v[1] \in row.pool /\ v[2] \in Accounts
    \/ \E v, w \in row.votes :
         v[1] # w[1] /\ v[2] # w[2] /\ {v[1], w[1]} \subseteq row.pool

\* An approval a vote brings about rests on a human's vote, if one suffices, or
\* on the votes of two identities for two roles.
LEMMA DecidedIsGranted ==
  ASSUME NEW row \in Row, row.status = "PENDING",
         NEW role \in row.pool, NEW id \in Identities, NEW approve \in BOOLEAN
  PROVE  Granted(Decided(row, <<role, id>>, approve))
<1> DEFINE vote == <<role, id>>
           votes == row.votes \cup {vote}
           next == Decided(row, vote, approve)
<1>1. next.votes = votes /\ next.pool = row.pool /\ next.auto = row.auto
  BY DEF Decided, Row
<1>2. votes \in SUBSET Votes
  <2>1. vote \in Votes BY DEF Row, Votes
  <2>. QED BY <2>1 DEF Row
<1>3. CASE next.status # "APPROVED"
  BY <1>3 DEF Granted
<1>4. CASE next.status = "APPROVED"
  <2>1. Matches(row.pool, votes, EffectiveRequired(id))
    <3>1. vote[2] = id OBVIOUS
    <3>. QED BY <1>4, <3>1 DEF Decided, Row
  <2>2. CASE HumanApprovalSuffices /\ id \notin Agents
    <3>1. vote[1] \in row.pool /\ vote[2] \in Accounts BY <2>2 DEF Identities
    <3>. QED BY <1>1, <2>2, <3>1 DEF Granted
  <2>3. CASE ~(HumanApprovalSuffices /\ id \notin Agents)
    <3>1. Matches(row.pool, votes, 2) BY <2>1, <2>3 DEF EffectiveRequired, Required
    <3>2. \E v, w \in votes : v[1] # w[1] /\ v[2] # w[2] /\ {v[1], w[1]} \subseteq row.pool
      BY <1>2, <3>1, TwoDistinctVotes
    <3>. QED BY <1>1, <3>2 DEF Granted
  <2>. QED BY <2>2, <2>3
<1>. QED BY <1>3, <1>4

LEMMA QuorumInit == Init => QuorumSound
<1>1. NoRow.status # "APPROVED" BY DEF NoRow
<1>. QED BY <1>1 DEF Init, QuorumSound

\* Each action leaves every row granted that was, and grants no other wrongly.
LEMMA QuorumStep == TypeOK /\ QuorumSound /\ [Next]_vars => QuorumSound'
<1> SUFFICES ASSUME TypeOK, QuorumSound, [Next]_vars PROVE QuorumSound'
  OBVIOUS
<1>0. \A a \in Approvals : Granted(queue[a])
  BY DEF QuorumSound, Granted
<1>a. ASSUME \A a \in Approvals : Granted(queue'[a]) PROVE QuorumSound'
  BY <1>a DEF QuorumSound, Granted
<1>b. ASSUME NEW a \in Approvals, NEW row, Granted(row), queue' = [queue EXCEPT ![a] = row]
      PROVE  QuorumSound'
  <2>1. \A b \in Approvals : queue'[b] = IF b = a THEN row ELSE queue[b]
    BY <1>b DEF TypeOK
  <2>. QED BY <1>a, <1>b, <1>0, <2>1
<1>c. ASSUME NEW S, queue' = TimeOut(S) PROVE QuorumSound'
  <2>1. \A b \in Approvals : queue'[b] = queue[b] \/ queue'[b].status = "TIMEOUT"
    BY <1>c DEF TypeOK, TimeOut, Row
  <2>2. \A b \in Approvals : Granted(queue'[b])
    BY <1>0, <2>1 DEF Granted
  <2>. QED BY <1>a, <2>2
<1>d. ASSUME UNCHANGED queue PROVE QuorumSound'
  BY <1>0, <1>a, <1>d
<1>1. ASSUME NEW a \in Approvals, NEW agent \in Agents, Request(a, agent)
      PROVE  QuorumSound'
  <2> DEFINE row == [status |-> "PENDING", pool |-> BuildApprovalDeciders(ExecRole[agent]),
                     votes |-> {}, auto |-> FALSE, requester |-> agent, askedAt |-> now]
  <2>1. Granted(row) BY DEF Granted
  <2>2. queue' = [queue EXCEPT ![a] = row] BY <1>1 DEF Request
  <2>. QED BY <1>b, <2>1, <2>2
<1>2. ASSUME NEW a \in Approvals, RequestAutoFull(a) PROVE QuorumSound'
  <2> DEFINE row == [NoRow EXCEPT !.status = "APPROVED", !.auto = TRUE, !.askedAt = now]
  <2>1. Granted(row) BY DEF Granted, NoRow
  <2>2. queue' = [queue EXCEPT ![a] = row] BY <1>2 DEF RequestAutoFull
  <2>. QED BY <1>b, <2>1, <2>2
<1>3. ASSUME NEW a \in Approvals, NEW role \in ApprovalRoles, NEW id \in Identities,
             NEW approve \in BOOLEAN, Decide(a, role, id, approve)
      PROVE  QuorumSound'
  <2>1. /\ queue[a] \in Row /\ queue[a].status = "PENDING" /\ role \in queue[a].pool
        /\ queue' = [queue EXCEPT ![a] = Decided(queue[a], <<role, id>>, approve)]
    BY <1>3 DEF Decide, Pending, TypeOK
  <2>2. Granted(Decided(queue[a], <<role, id>>, approve))
    BY <2>1, DecidedIsGranted
  <2>. QED BY <1>b, <2>1, <2>2
<1>4. ASSUME NEW a \in Approvals, AutoApprove(a) PROVE QuorumSound'
  <2> DEFINE row == [queue[a] EXCEPT !.status = "APPROVED", !.auto = TRUE]
  <2>1. CASE Pending(a)
    <3>1. queue' = [queue EXCEPT ![a].status = "APPROVED", ![a].auto = TRUE]
      BY <1>4, <2>1 DEF AutoApprove
    <3>2. queue' = [queue EXCEPT ![a] = row] BY <3>1 DEF TypeOK
    <3>3. Granted(row)
      <4>1. queue[a] \in Row BY DEF TypeOK
      <4>. QED BY <4>1 DEF Granted, Row
    <3>. QED BY <1>b, <3>2, <3>3
  <2>2. CASE ~Pending(a)
    BY <1>4, <1>d, <2>2 DEF AutoApprove
  <2>. QED BY <2>1, <2>2
<1>5. ASSUME NEW a \in Approvals, WaiterTimeout(a) PROVE QuorumSound'
  BY <1>5, <1>c DEF WaiterTimeout
<1>6. CASE Sweep
  BY <1>6, <1>c DEF Sweep
<1>7. CASE SetSessionAutoApprove \/ Restart \/ Tick \/ UNCHANGED vars
  BY <1>7, <1>d DEF SetSessionAutoApprove, Restart, Tick, vars
<1>. QED BY <1>1, <1>2, <1>3, <1>4, <1>5, <1>6, <1>7 DEF Next

\* Two-person control: no interleaving of votes, timers and restarts grants an
\* approval on less than the policy asks for.
THEOREM TwoPersonControl == Spec => []QuorumSound
BY TypeCorrect, QuorumInit, QuorumStep, PTL DEF Spec

-----------------------------------------------------------------------------
(* Refinement.  Without a whitelist the gate implements ApprovalRegister:  *)
(* the exception is the call that goes on whatever AutoApprove found.      *)

NoWhitelist == Whitelisted = {}

Verdict(a) == IF a \in inQueue THEN queue[a].status ELSE past[a]

\* What relates the caller, its answer and the verdict between two steps.
CallerInv(a) ==
  /\ caller[a] # "delaying"
  /\ caller[a] = "none" => a \notin inQueue /\ past[a] = "NONE" /\ answer[a] = "NONE"
  /\ a \in inQueue => queue[a].status # "NONE"
  /\ answer[a] = "WAITING" <=> caller[a] = "waiting"
  /\ answer[a] \in Final => Verdict(a) = answer[a]

RegisterInv == WakeUpInv /\ \A a \in Approvals : CallerInv(a)

LEMMA CallerInit == Init => RegisterInv
<1> SUFFICES ASSUME Init PROVE RegisterInv
  OBVIOUS
<1>1. \A a \in Approvals : CallerInv(a)
  BY DEF Init, CallerInv, Final
<1>. QED BY <1>1, WakeUpInit DEF RegisterInv

\* A step that settles the pending approvals in S and answers their callers.
SettleStep(S) ==
  /\ inQueue' = inQueue /\ past' = past
  /\ \A a \in S : Pending(a) /\ queue'[a].status \in Final
  /\ \A a \in Approvals \ S : queue'[a].status = queue[a].status
  /\ Notify(S, queue')

\* A decision settles one approval or leaves every status as it is.
LEMMA DecideSettles ==
  ASSUME TypeOK, NEW a \in Approvals, NEW role \in ApprovalRoles, NEW id \in Identities,
         NEW approve \in BOOLEAN, Decide(a, role, id, approve)
  PROVE  \/ SettleStep({a})
         \/ /\ UNCHANGED <<inQueue, past, caller, answer>>
            /\ \A b \in Approvals : queue'[b].status = queue[b].status
<1> DEFINE row == Decided(queue[a], <<role, id>>, approve)
<1>1. /\ Pending(a) /\ UNCHANGED <<inQueue, past>>
      /\ queue' = [queue EXCEPT ![a] = row]
  BY DEF Decide
<1>2. row.status \in {"PENDING", "APPROVED", "REJECTED"}
  <2>1. queue[a] \in Row /\ <<role, id>> \in Votes BY DEF TypeOK, Votes
  <2>. QED BY <2>1, DecidedType
<1>3. queue'[a] = row /\ \A b \in Approvals \ {a} : queue'[b] = queue[b]
  BY <1>1 DEF TypeOK
<1>4. CASE row.status = "PENDING"
  <2>1. UNCHANGED <<caller, answer>>
    BY <1>1, <1>3, <1>4 DEF Decide
  <2>2. \A b \in Approvals : queue'[b].status = queue[b].status
    BY <1>1, <1>3, <1>4 DEF Pending
  <2>. QED BY <1>1, <2>1, <2>2
<1>5. CASE row.status # "PENDING"
  <2>1. Notify({a}, queue')
    BY <1>1, <1>3, <1>5 DEF Decide
  <2>2. queue'[a].status \in Final
    BY <1>2, <1>3, <1>5 DEF Final
  <2>. QED BY <1>1, <1>3, <2>1, <2>2 DEF SettleStep
<1>. QED BY <1>4, <1>5

\* A timer settles what it times out.
LEMMA TimeOutSettles ==
  ASSUME TypeOK, NEW S \in SUBSET Approvals, \A a \in S : Pending(a),
         queue' = TimeOut(S), Notify(S, queue'), UNCHANGED <<inQueue, past>>
  PROVE  SettleStep(S)
<1>1. \A a \in S : queue'[a].status = "TIMEOUT"
  BY DEF TimeOut, TypeOK, Row
<1>2. \A a \in Approvals \ S : queue'[a] = queue[a]
  BY DEF TimeOut
<1>. QED BY <1>1, <1>2 DEF SettleStep, Final

\* Every step of the gate, as seen from the caller: nothing, an opening, a
\* settlement or the death of the process.
Opens(a, status, told) ==
  /\ caller[a] = "none"
  /\ inQueue' = inQueue \cup {a} /\ past' = past
  /\ queue'[a].status = status
  /\ \A b \in Approvals \ {a} : queue'[b] = queue[b]
  /\ caller' = [caller EXCEPT ![a] = IF told = "WAITING" THEN "waiting" ELSE "done"]
  /\ answer' = [answer EXCEPT ![a] = told]

Quiet ==
  /\ UNCHANGED <<inQueue, past, caller, answer>>
  /\ \A a \in Approvals : queue'[a].status = queue[a].status

LEMMA StepsOfTheGate ==
  ASSUME NoWhitelist, RegisterInv, [Next]_vars
  PROVE  \/ Quiet
         \/ \E a \in Approvals : Opens(a, "PENDING", "WAITING") \/ Opens(a, "APPROVED", "APPROVED")
         \/ \E S \in SUBSET Approvals : SettleStep(S)
         \/ Restart
<1>0. TypeOK /\ BlockedOnlyWhilePending /\ \A a \in Approvals : CallerInv(a)
  BY DEF RegisterInv, WakeUpInv
<1>1. ASSUME NEW a \in Approvals, NEW agent \in Agents, Request(a, agent)
      PROVE  Opens(a, "PENDING", "WAITING")
  <2>1. caller' = [caller EXCEPT ![a] = "waiting"]
    BY <1>1 DEF Request, NoWhitelist
  <2>2. caller[a] = "none" /\ past' = past /\ inQueue' = inQueue \cup {a}
        /\ answer' = [answer EXCEPT ![a] = "WAITING"]
    BY <1>1 DEF Request, Fresh
  <2>3. queue'[a].status = "PENDING" /\ \A b \in Approvals \ {a} : queue'[b] = queue[b]
    BY <1>0, <1>1 DEF Request, TypeOK
  <2>. QED BY <2>1, <2>2, <2>3 DEF Opens
<1>2. ASSUME NEW a \in Approvals, RequestAutoFull(a)
      PROVE  Opens(a, "APPROVED", "APPROVED")
  <2>1. caller' = [caller EXCEPT ![a] = "done"] /\ answer' = [answer EXCEPT ![a] = "APPROVED"]
    BY <1>2 DEF RequestAutoFull, NoWhitelist
  <2>2. caller[a] = "none" /\ past' = past /\ inQueue' = inQueue \cup {a}
    BY <1>2 DEF RequestAutoFull, Fresh
  <2>3. queue'[a].status = "APPROVED" /\ \A b \in Approvals \ {a} : queue'[b] = queue[b]
    BY <1>0, <1>2 DEF RequestAutoFull, TypeOK, NoRow
  <2>. QED BY <2>1, <2>2, <2>3 DEF Opens
<1>3. ASSUME NEW a \in Approvals, NEW role \in ApprovalRoles, NEW id \in Identities,
             NEW approve \in BOOLEAN, Decide(a, role, id, approve)
      PROVE  Quiet \/ \E S \in SUBSET Approvals : SettleStep(S)
  <2>1. \/ SettleStep({a})
        \/ /\ UNCHANGED <<inQueue, past, caller, answer>>
           /\ \A b \in Approvals : queue'[b].status = queue[b].status
    BY <1>0, <1>3, DecideSettles
  <2>2. {a} \in SUBSET Approvals
    OBVIOUS
  <2>. QED BY <2>1, <2>2 DEF Quiet
<1>4. ASSUME NEW a \in Approvals PROVE ~AutoApprove(a)
  BY <1>0 DEF AutoApprove, CallerInv
<1>5. ASSUME NEW a \in Approvals, WaiterTimeout(a)
      PROVE  \E S \in SUBSET Approvals : SettleStep(S)
  <2>1. Pending(a)
    BY <1>0, <1>5 DEF WaiterTimeout, BlockedOnlyWhilePending
  <2>2. {a} \cap {b \in Approvals : Pending(b)} = {a}
    BY <2>1
  <2>3. queue' = TimeOut({a}) /\ Notify({a}, queue') /\ UNCHANGED <<inQueue, past>>
    BY <1>5, <2>2 DEF WaiterTimeout
  <2>. QED BY <1>0, <2>1, <2>3, TimeOutSettles
<1>6. CASE Sweep
  <2>1. Overdue \in SUBSET Approvals /\ \A a \in Overdue : Pending(a)
    BY DEF Overdue
  <2>. QED BY <1>0, <1>6, <2>1, TimeOutSettles DEF Sweep
<1>7. CASE SetSessionAutoApprove \/ Tick \/ UNCHANGED vars
  BY <1>7 DEF SetSessionAutoApprove, Tick, vars, Quiet
<1>. QED BY <1>1, <1>2, <1>3, <1>4, <1>5, <1>6, <1>7 DEF Next

\* The relation between caller, answer and verdict survives every step.
LEMMA CallerStep == NoWhitelist /\ RegisterInv /\ [Next]_vars => RegisterInv'
<1> SUFFICES ASSUME NoWhitelist, RegisterInv, [Next]_vars PROVE RegisterInv'
  OBVIOUS
<1>0. TypeOK /\ BlockedOnlyWhilePending /\ \A a \in Approvals : CallerInv(a)
  BY DEF RegisterInv, WakeUpInv
<1>1. WakeUpInv'
  BY WakeUpStep DEF RegisterInv
<1>2. ASSUME NEW a \in Approvals PROVE CallerInv(a)'
  <2>0. CallerInv(a) BY <1>0
  <2>1. CASE Quiet
    BY <2>0, <2>1 DEF Quiet, CallerInv, Verdict
  <2>2. ASSUME NEW b \in Approvals, Opens(b, "PENDING", "WAITING") PROVE CallerInv(a)'
    <3>1. CASE a = b
      BY <1>0, <2>2, <3>1 DEF Opens, CallerInv, Verdict, TypeOK, Final
    <3>2. CASE a # b
      BY <1>0, <2>0, <2>2, <3>2 DEF Opens, CallerInv, Verdict, TypeOK
    <3>. QED BY <3>1, <3>2
  <2>3. ASSUME NEW b \in Approvals, Opens(b, "APPROVED", "APPROVED") PROVE CallerInv(a)'
    <3>1. CASE a = b
      BY <1>0, <2>3, <3>1 DEF Opens, CallerInv, Verdict, TypeOK, Final
    <3>2. CASE a # b
      BY <1>0, <2>0, <2>3, <3>2 DEF Opens, CallerInv, Verdict, TypeOK
    <3>. QED BY <3>1, <3>2
  <2>4. ASSUME NEW S \in SUBSET Approvals, SettleStep(S) PROVE CallerInv(a)'
    <3>1. caller'[a] = (IF a \in S /\ caller[a] = "waiting" THEN "done" ELSE caller[a])
          /\ answer'[a] = (IF a \in S /\ caller[a] = "waiting" THEN queue'[a].status ELSE answer[a])
      BY <2>4 DEF SettleStep, Notify
    <3>2. CASE a \in S
      <4>1. a \in inQueue /\ queue[a].status = "PENDING" /\ queue'[a].status \in Final
        BY <2>4, <3>2 DEF SettleStep, Pending
      <4>2. answer[a] \notin Final
        BY <2>0, <4>1 DEF CallerInv, Verdict, Final
      <4>. QED BY <2>0, <2>4, <3>1, <3>2, <4>1, <4>2 DEF SettleStep, CallerInv, Verdict, Final
    <3>3. CASE a \notin S
      BY <2>0, <2>4, <3>1, <3>3 DEF SettleStep, CallerInv, Verdict
    <3>. QED BY <3>2, <3>3
  <2>5. CASE Restart
    <3>1. /\ caller'[a] = IF caller[a] = "none" THEN "none" ELSE "done"
          /\ answer'[a] = IF answer[a] = "WAITING" THEN "LOST" ELSE answer[a]
          /\ past'[a] = (IF a \notin inQueue THEN past[a]
                         ELSE IF Pending(a) THEN "TIMEOUT" ELSE queue[a].status)
          /\ inQueue' = {}
      BY <2>5 DEF Restart
    <3>2. answer[a] \in Final => past'[a] = answer[a]
      BY <2>0, <3>1 DEF CallerInv, Verdict, Pending, Final
    <3>. QED BY <2>0, <3>1, <3>2 DEF CallerInv, Verdict, Final
  <2>. QED BY <2>1, <2>2, <2>3, <2>4, <2>5, StepsOfTheGate
<1>. QED BY <1>1, <1>2 DEF RegisterInv

\* Every step of the gate is a step of the register or leaves it alone.
LEMMA RegisterStep ==
  ASSUME NoWhitelist, RegisterInv, [Next]_vars
  PROVE  [Register!Next]_<<[a \in Approvals |-> Verdict(a)], answer>>
<1> DEFINE verdict == [a \in Approvals |-> Verdict(a)]
<1>0. TypeOK /\ BlockedOnlyWhilePending /\ \A a \in Approvals : CallerInv(a)
  BY DEF RegisterInv, WakeUpInv
<1>1. CASE Quiet
  BY <1>1 DEF Quiet, Verdict
<1>2. ASSUME NEW a \in Approvals, Opens(a, "PENDING", "WAITING") PROVE Register!Open(a)
  <2>1. verdict[a] = "NONE" BY <1>0, <1>2 DEF Opens, CallerInv, Verdict
  <2>2. verdict' = [verdict EXCEPT ![a] = "PENDING"] BY <1>2 DEF Opens, Verdict
  <2>. QED BY <1>2, <2>1, <2>2 DEF Register!Open, Opens, Verdict
<1>3. ASSUME NEW a \in Approvals, Opens(a, "APPROVED", "APPROVED")
      PROVE  Register!OpenApproved(a)
  <2>1. verdict[a] = "NONE" BY <1>0, <1>3 DEF Opens, CallerInv, Verdict
  <2>2. verdict' = [verdict EXCEPT ![a] = "APPROVED"] BY <1>3 DEF Opens, Verdict
  <2>. QED BY <1>3, <2>1, <2>2 DEF Register!OpenApproved, Opens, Verdict
<1>4. ASSUME NEW S \in SUBSET Approvals, SettleStep(S) PROVE Register!Settle(S)
  <2>1. \A a \in S : verdict[a] = "PENDING"
    BY <1>4 DEF SettleStep, Verdict, Pending
  <2>2. \A a \in S : verdict'[a] = queue'[a].status /\ verdict'[a] \in Register!Final
    BY <1>4 DEF SettleStep, Verdict, Pending, Final, Register!Final
  <2>3. \A a \in Approvals \ S : verdict'[a] = verdict[a]
    BY <1>4 DEF SettleStep, Verdict
  <2>4. answer' = [a \in Approvals |->
                     IF a \in S /\ answer[a] = "WAITING" THEN verdict'[a] ELSE answer[a]]
    <3>1. \A a \in Approvals : caller[a] = "waiting" <=> answer[a] = "WAITING"
      BY <1>0 DEF CallerInv
    <3>. QED BY <1>4, <2>2, <3>1 DEF SettleStep, Notify
  <2> DEFINE v == [a \in S |-> verdict'[a]]
  <2>5. v \in [S -> Register!Final]
    BY <2>2
  <2>6. verdict' = [a \in Approvals |-> IF a \in S THEN v[a] ELSE verdict[a]]
    BY <2>3
  <2>. HIDE DEF v
  <2>. QED BY <2>1, <2>4, <2>5, <2>6 DEF Register!Settle, Verdict
<1>5. ASSUME Restart PROVE Register!Die
  <2>1. verdict' = [a \in Approvals |-> IF verdict[a] = "PENDING" THEN "TIMEOUT" ELSE verdict[a]]
    <3>1. \A a \in Approvals : past[a] # "PENDING" BY <1>0 DEF TypeOK, Final
    <3>. QED BY <1>5, <3>1 DEF Restart, Verdict, Pending
  <2>. QED BY <1>5, <2>1 DEF Restart, Register!Die, Verdict
<1>. QED BY <1>1, <1>2, <1>3, <1>4, <1>5, StepsOfTheGate DEF Register!Next

\* The gate tells its callers what ApprovalRegister promises: each approval
\* comes to one verdict, keeps it, and the blocked call is told that verdict.
THEOREM GateImplementsRegister ==
  ASSUME NoWhitelist PROVE Spec => ImplementsRegister
<1>1. Init => Register!Init
  BY DEF Init, Register!Init
<1>2. RegisterInv /\ [Next]_vars => RegisterInv'
  BY CallerStep
<1>3. RegisterInv /\ [Next]_vars
        => [Register!Next]_<<[a \in Approvals |-> Verdict(a)], answer>>
  BY RegisterStep
<1>4. [Register!Next]_<<[a \in Approvals |-> Verdict(a)], answer>>
        <=> [Register!Next]_<<[a \in Approvals |->
              IF a \in inQueue THEN queue[a].status ELSE past[a]], answer>>
  BY DEF Verdict
<1>. QED BY <1>1, <1>2, <1>3, <1>4, CallerInit, PTL DEF Spec, ImplementsRegister, Register!Spec

\* A tool call goes on only if its approval was granted, and the approval stays
\* granted afterwards, through votes, timers, sweeps and restarts.
THEOREM NoneProceedsUnapproved ==
  ASSUME NoWhitelist PROVE Spec => []ProceedsOnlyIfApproved
<1>1. RegisterInv => ProceedsOnlyIfApproved
  BY DEF RegisterInv, CallerInv, Verdict, ProceedsOnlyIfApproved, Final
<1>2. RegisterInv /\ [Next]_vars => RegisterInv'
  BY CallerStep
<1>. QED BY <1>1, <1>2, CallerInit, PTL DEF Spec

\* Whatever a tool call was told - granted, rejected or timed out - is the
\* verdict of its approval, and remains it.
THEOREM AnswersAreVerdicts ==
  ASSUME NoWhitelist PROVE Spec => []Register!ToldTheVerdict
<1>1. RegisterInv => Register!ToldTheVerdict
  BY DEF RegisterInv, CallerInv, Verdict, Register!ToldTheVerdict, Register!Final, Final
<1>2. RegisterInv /\ [Next]_vars => RegisterInv'
  BY CallerStep
<1>. QED BY <1>1, <1>2, CallerInit, PTL DEF Spec

-----------------------------------------------------------------------------
(* Self-review.  What the requester may not do rests on the pool its row   *)
(* was given, which nothing changes afterwards, and on the words for the   *)
(* roles: only a regulator's role has another name among the deciders.     *)

NoRegulatorRequests == \A a \in Agents : ExecRole[a] # "regulator"

\* A row is closed without a vote, or it has the pool of its requester and no vote
\* of the requester.
Unreviewed(row) ==
  \/ row.votes = {} /\ row.status # "PENDING"
  \/ /\ row.requester \in Agents
     /\ row.pool = BuildApprovalDeciders(ExecRole[row.requester])
     /\ \A v \in row.votes : v[2] # row.requester

ReviewInv == \A a \in Approvals : Unreviewed(queue[a])

\* Nobody is bound to a role of the pool its own request was given.
LEMMA RequesterIsNotBound ==
  ASSUME NoRegulatorRequests, NEW agent \in Agents,
         NEW role \in BuildApprovalDeciders(ExecRole[agent])
  PROVE  ~Bound(role, agent)
<1>1. agent \notin Accounts /\ ToApprovalRole(ExecRole[agent]) = ExecRole[agent]
  BY DEF NoRegulatorRequests, ToApprovalRole
<1>. QED BY <1>1 DEF Bound, BuildApprovalDeciders

\* Each action leaves every row unreviewed by its requester.
LEMMA ReviewStep ==
  ASSUME NoRegulatorRequests, TypeOK, ReviewInv, [Next]_vars
  PROVE  ReviewInv'
<1>a. ASSUME NEW a \in Approvals, NEW row, Unreviewed(row), queue' = [queue EXCEPT ![a] = row]
      PROVE  ReviewInv'
  <2>1. \A b \in Approvals : queue'[b] = IF b = a THEN row ELSE queue[b]
    BY <1>a DEF TypeOK
  <2>. QED BY <1>a, <2>1 DEF ReviewInv, Unreviewed
<1>b. ASSUME \A a \in Approvals :
               /\ queue'[a].requester = queue[a].requester
               /\ queue'[a].pool = queue[a].pool
               /\ queue'[a].votes = queue[a].votes
               /\ queue'[a].status \in {queue[a].status, "APPROVED", "TIMEOUT"}
      PROVE  ReviewInv'
  BY <1>b DEF ReviewInv, Unreviewed
<1>c. ASSUME NEW S, queue' = TimeOut(S) PROVE ReviewInv'
  <2>1. \A a \in Approvals : queue[a] \in Row BY DEF TypeOK
  <2>. QED BY <1>b, <1>c, <2>1 DEF TimeOut, Row
<1>1. ASSUME NEW a \in Approvals, NEW agent \in Agents, Request(a, agent)
      PROVE  ReviewInv'
  <2> DEFINE row == [status |-> "PENDING", pool |-> BuildApprovalDeciders(ExecRole[agent]),
                     votes |-> {}, auto |-> FALSE, requester |-> agent, askedAt |-> now]
  <2>1. Unreviewed(row) BY DEF Unreviewed
  <2>2. queue' = [queue EXCEPT ![a] = row] BY <1>1 DEF Request
  <2>. QED BY <1>a, <2>1, <2>2
<1>2. ASSUME NEW a \in Approvals, RequestAutoFull(a) PROVE ReviewInv'
  <2> DEFINE row == [NoRow EXCEPT !.status = "APPROVED", !.auto = TRUE, !.askedAt = now]
  <2>1. Unreviewed(row)
    BY DEF Unreviewed, NoRow
  <2>2. queue' = [queue EXCEPT ![a] = row] BY <1>2 DEF RequestAutoFull
  <2>. QED BY <1>a, <2>1, <2>2
<1>3. ASSUME NEW a \in Approvals, NEW role \in ApprovalRoles, NEW id \in Identities,
             NEW approve \in BOOLEAN, Decide(a, role, id, approve)
      PROVE  ReviewInv'
  <2> DEFINE row == Decided(queue[a], <<role, id>>, approve)
  <2>1. /\ Bound(role, id) /\ role \in queue[a].pool
        /\ queue' = [queue EXCEPT ![a] = row]
    BY <1>3 DEF Decide
  <2>2. /\ row.votes = queue[a].votes \cup {<<role, id>>}
        /\ row.pool = queue[a].pool /\ row.requester = queue[a].requester
    <3>1. queue[a] \in Row BY DEF TypeOK
    <3>. QED BY <3>1 DEF Decided, Row
  <2>3. Unreviewed(queue[a]) BY DEF ReviewInv
  <2>4. queue[a].requester \in Agents /\ queue[a].pool = BuildApprovalDeciders(ExecRole[queue[a].requester])
        /\ \A v \in queue[a].votes : v[2] # queue[a].requester
    BY <1>3, <2>3 DEF Unreviewed, Decide, Pending
  <2>5. id # queue[a].requester
    BY <2>1, <2>4, RequesterIsNotBound
  <2>6. Unreviewed(row)
    BY <2>2, <2>4, <2>5 DEF Unreviewed
  <2>. QED BY <1>a, <2>1, <2>6
<1>4. ASSUME NEW a \in Approvals, AutoApprove(a) PROVE ReviewInv'
  <2>1. \A b \in Approvals : queue[b] \in Row BY DEF TypeOK
  <2>2. CASE Pending(a)
    <3>1. queue' = [queue EXCEPT ![a].status = "APPROVED", ![a].auto = TRUE]
      BY <1>4, <2>2 DEF AutoApprove
    <3>. QED BY <1>b, <2>1, <3>1 DEF Row, TypeOK
  <2>3. CASE ~Pending(a)
    BY <1>4, <1>b, <2>3 DEF AutoApprove
  <2>. QED BY <2>2, <2>3
<1>5. ASSUME NEW a \in Approvals, WaiterTimeout(a) PROVE ReviewInv'
  BY <1>5, <1>c DEF WaiterTimeout
<1>6. CASE Sweep
  BY <1>6, <1>c DEF Sweep
<1>7. CASE SetSessionAutoApprove \/ Restart \/ Tick \/ UNCHANGED vars
  BY <1>7, <1>b DEF SetSessionAutoApprove, Restart, Tick, vars
<1>. QED BY <1>1, <1>2, <1>3, <1>4, <1>5, <1>6, <1>7 DEF Next

\* No agent takes part in deciding what it asked for itself, whatever roles the
\* agents have except a regulator's (governanceGuard.ts:75).
THEOREM NoneReviewsItself ==
  ASSUME NoRegulatorRequests PROVE Spec => []NoSelfReview
<1>1. Init => ReviewInv
  BY DEF Init, ReviewInv, Unreviewed, NoRow
<1>2. TypeOK /\ ReviewInv /\ [Next]_vars => ReviewInv'
  BY ReviewStep
<1>3. ReviewInv => NoSelfReview
  BY DEF ReviewInv, Unreviewed, NoSelfReview
<1>. QED BY <1>1, <1>2, <1>3, TypeCorrect, PTL DEF Spec

-----------------------------------------------------------------------------
(* The table.  As long as every write reaches it, a row of the table shows *)
(* the verdict of its approval.  An approval is not asked for twice, so a  *)
(* new one has no row yet.                                                 *)

TableInv ==
  \A a \in Approvals :
    /\ disk[a] # "NONE" => disk[a] = Verdict(a)
    /\ caller[a] = "none" => disk[a] = "NONE"

\* A step that gives rows of the living queue new verdicts and writes them.
LEMMA UpdateKeepsTable ==
  ASSUME DbMayFail = FALSE, TypeOK, TableInv,
         NEW S \in SUBSET inQueue, NEW rows, PersistUpdated(S, rows), queue' = rows,
         \A a \in Approvals \ S : rows[a] = queue[a],
         UNCHANGED <<inQueue, past>>,
         \A a \in Approvals : caller'[a] = "none" => caller[a] = "none"
  PROVE  TableInv'
<1>1. Persist({b \in S : disk[b] # "NONE"}, [b \in Approvals |-> rows[b].status])
  BY DEF PersistUpdated
<1>2. \A a \in Approvals :
        disk'[a] = IF a \in S /\ disk[a] # "NONE" THEN rows[a].status ELSE disk[a]
  BY <1>1 DEF Persist
<1>. QED BY <1>2 DEF TableInv, Verdict

\* Each action leaves the table in agreement with the queue and the history.
LEMMA TableStep ==
  ASSUME DbMayFail = FALSE, WakeUpInv, TableInv, [Next]_vars
  PROVE  TableInv'
<1>0. TypeOK /\ BlockedOnlyWhilePending /\ inQueue \subseteq Approvals
  BY DEF WakeUpInv, TypeOK
<1>1. ASSUME NEW a \in Approvals, NEW agent \in Agents, Request(a, agent) PROVE TableInv'
  <2>1. /\ inQueue' = inQueue \cup {a} /\ past' = past
        /\ Persist({a}, [b \in Approvals |-> "PENDING"])
        /\ caller' = [caller EXCEPT ![a] = IF a \in Whitelisted THEN "delaying" ELSE "waiting"]
    BY <1>1 DEF Request
  <2>2. queue'[a].status = "PENDING" /\ \A b \in Approvals \ {a} : queue'[b] = queue[b]
    BY <1>0, <1>1 DEF Request, TypeOK
  <2>3. \A b \in Approvals : disk'[b] = IF b = a THEN "PENDING" ELSE disk[b]
    BY <2>1 DEF Persist
  <2>. QED BY <1>0, <2>1, <2>2, <2>3 DEF TableInv, Verdict, TypeOK
<1>2. ASSUME NEW a \in Approvals, RequestAutoFull(a) PROVE TableInv'
  <2>1. /\ caller[a] = "none" /\ inQueue' = inQueue \cup {a} /\ UNCHANGED <<past, disk>>
        /\ caller'[a] # "none" /\ \A b \in Approvals \ {a} : caller'[b] = caller[b]
        /\ \A b \in Approvals \ {a} : queue'[b] = queue[b]
    BY <1>0, <1>2 DEF RequestAutoFull, Fresh, TypeOK
  <2>. QED BY <2>1 DEF TableInv, Verdict
<1>3. ASSUME NEW a \in Approvals, NEW role \in ApprovalRoles, NEW id \in Identities,
             NEW approve \in BOOLEAN, Decide(a, role, id, approve)
      PROVE  TableInv'
  <2>1. /\ a \in inQueue /\ UNCHANGED <<inQueue, past>> /\ PersistUpdated({a}, queue')
        /\ \A b \in Approvals \ {a} : queue'[b] = queue[b]
    BY <1>0, <1>3 DEF Decide, Pending, TypeOK
  <2>2. \A b \in Approvals : caller'[b] = "none" => caller[b] = "none"
    BY <1>3 DEF Decide, Notify
  <2>. QED BY <1>0, <2>1, <2>2, UpdateKeepsTable
<1>4. ASSUME NEW a \in Approvals, AutoApprove(a) PROVE TableInv'
  <2>1. /\ UNCHANGED <<inQueue, past>>
        /\ \A b \in Approvals : caller'[b] = "none" => caller[b] = "none"
    BY <1>0, <1>4 DEF AutoApprove, TypeOK
  <2>2. CASE Pending(a)
    <3>1. /\ a \in inQueue /\ PersistUpdated({a}, queue')
          /\ \A b \in Approvals \ {a} : queue'[b] = queue[b]
      BY <1>0, <1>4, <2>2 DEF AutoApprove, Pending, TypeOK
    <3>. QED BY <1>0, <2>1, <3>1, UpdateKeepsTable
  <2>3. CASE ~Pending(a)
    BY <1>4, <2>1, <2>3 DEF AutoApprove, TableInv, Verdict
  <2>. QED BY <2>2, <2>3
<1>5. ASSUME NEW S \in SUBSET inQueue, queue' = TimeOut(S), PersistUpdated(S, queue'),
             NEW T, Notify(T, queue'), UNCHANGED <<inQueue, past>>
      PROVE  TableInv'
  <2>1. \A a \in Approvals \ S : queue'[a] = queue[a]
    BY <1>5 DEF TimeOut
  <2>2. \A a \in Approvals : caller'[a] = "none" => caller[a] = "none"
    BY <1>5 DEF Notify
  <2>. QED BY <1>0, <1>5, <2>1, <2>2, UpdateKeepsTable
<1>6. ASSUME NEW a \in Approvals, WaiterTimeout(a) PROVE TableInv'
  <2>1. Pending(a)
    BY <1>0, <1>6 DEF WaiterTimeout, BlockedOnlyWhilePending
  <2>2. {a} \cap {b \in Approvals : Pending(b)} = {a}
    BY <2>1
  <2>. QED BY <1>5, <1>6, <2>1, <2>2 DEF WaiterTimeout, Pending
<1>7. CASE Sweep
  BY <1>5, <1>7 DEF Sweep, Overdue, Pending
<1>8. CASE Restart
  <2>1. \A a \in Approvals : disk'[a] = IF disk[a] = "PENDING" THEN "TIMEOUT" ELSE disk[a]
    <3>1. Persist({a \in Approvals : disk[a] = "PENDING"}, [a \in Approvals |-> "TIMEOUT"])
      BY <1>8 DEF Restart, ExpireStale
    <3>. QED BY <3>1 DEF Persist
  <2>2. \A a \in Approvals : past[a] # "PENDING"
    BY <1>0 DEF TypeOK, Final
  <2>3. \A a \in Approvals : Verdict(a)' = IF Verdict(a) = "PENDING" THEN "TIMEOUT" ELSE Verdict(a)
    BY <1>8, <2>2 DEF Restart, Verdict, Pending
  <2>4. \A a \in Approvals : caller'[a] = "none" => caller[a] = "none"
    BY <1>8 DEF Restart
  <2>. QED BY <2>1, <2>3, <2>4 DEF TableInv
<1>9. CASE SetSessionAutoApprove \/ Tick \/ UNCHANGED vars
  BY <1>9 DEF SetSessionAutoApprove, Tick, vars, TableInv, Verdict
<1>. QED BY <1>1, <1>2, <1>3, <1>4, <1>6, <1>7, <1>8, <1>9 DEF Next

\* As long as the database works, the table shows the verdict of every approval it
\* has a row for, across restarts, and nothing as pending that nobody can decide any
\* more (approvalPersistence.ts:182-188).
THEOREM TableShowsTheVerdicts ==
  ASSUME DbMayFail = FALSE PROVE Spec => []TableAgrees
<1>1. Init => TableInv
  BY DEF Init, TableInv
<1>2. WakeUpInv /\ TableInv /\ [Next]_vars => TableInv'
  BY TableStep
<1>3. TableInv => TableAgrees
  BY DEF TableInv, Verdict, TableAgrees
<1>. QED BY <1>1, <1>2, <1>3, WakeUpInit, WakeUpStep, PTL DEF Spec
=============================================================================
