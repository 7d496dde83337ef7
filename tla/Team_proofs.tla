---------------------------- MODULE Team_proofs ----------------------------
(***************************************************************************)
(* Proofs about Orchestration, for any number of assignments and any       *)
(* limits, and, where a hypothesis says so, for workers that submit under  *)
(* the id of their own assignment; and about the run MCTeam, in which a    *)
(* behaviour is one of Orchestration or of SharedMemory, whose own         *)
(* theorems are in SharedMemory_proofs.                                    *)
(*                                                                         *)
(* What the events change is one record, and an event sets off a chain of  *)
(* functions on it: the tracker, the orchestrator, the gate, the pump, and *)
(* the monitor that fails several assignments one after the other.  The    *)
(* invariant is therefore stated of such a record, with the assignments    *)
(* that a reviewer has accepted, and each function is shown to keep it.    *)
(***************************************************************************)
EXTENDS MCTeam, TLAPS, FiniteSetTheorems, SequenceTheorems, WellFoundedInduction

USE ParametersAssumption

Ended == {"none", "missing"} \cup Terminal

\* The row of an assignment is not left open, or its last write was lost.
Closed(p, a) == p.row[a] \in Ended \/ a \in p.stale

-----------------------------------------------------------------------------
(* The invariant of the record.                                            *)

\* acc are the accepted assignments; e is the one whose row is about to be written,
\* by the tool after the events of a verdict, or 0.

\* Before the task arrives there is nothing.
Empty(p) ==
  p.members = {} =>
    /\ ~p.active /\ p.waiting = {} /\ p.inFlight = {}
    /\ \A a \in Assignments : p.row[a] = "none" /\ p.progress[a] = "none" /\ p.agent[a] = "none"

\* What waits has no row.  If workers submit under their own ids, it has not been
\* reviewed either, and while anything waits, an assignment has left the gate by
\* failing or by being accepted.
GateInv(p, acc) ==
  /\ \A a \in p.waiting : p.row[a] = "none"
  /\ ~Misnames =>
       /\ \A a \in p.waiting : a \notin acc
       /\ p.waiting # {} => \A a \in Assignments :
            a \in p.waiting \/ a \in p.inFlight \/ a \in p.gateFailed \/ a \in acc

\* Then a stage has a row only behind an accepted one,
StagesInv(p, acc) ==
  ~Misnames /\ p.chained => \A a \in Assignments \ {1} : p.row[a] # "none" => a - 1 \in acc

\* the agent of an accepted assignment runs no more, and only what is accepted
\* completes.
AcceptedInv(p, acc) ==
  ~Misnames =>
    /\ \A a \in acc : p.agent[a] # "running"
    /\ \A a \in Assignments : p.progress[a] = "completed" => a \in acc
    /\ p.task = "completed" => acc # {}

\* The row of an assignment ends with it, if the write is not lost, and everything ends
\* with the plan.
EndInv(p, e) ==
  /\ \A a \in Assignments : a # e /\ p.progress[a] \in Terminal => Closed(p, a)
  /\ p.members # {} /\ ~p.active =>
       /\ p.waiting = {} /\ p.inFlight = {}
       /\ \A a \in p.members : p.agent[a] = "gone" /\ (a # e => Closed(p, a))

\* What is dispatched has a row.
SentInv(p) == \A i \in 1..Len(p.sent) : p.row[p.sent[i]] # "none"

Consistent(p, acc, e) ==
  /\ Empty(p) /\ GateInv(p, acc) /\ StagesInv(p, acc) /\ AcceptedInv(p, acc)
  /\ EndInv(p, e) /\ SentInv(p)

\* A row once written is not taken away.
Keeps(p, q) == \A a \in Assignments : p.row[a] # "none" => q.row[a] # "none"

Good(p, acc, e) == p \in Plan /\ Consistent(p, acc, e)

-----------------------------------------------------------------------------
(* A set of assignments in ascending order.                                *)

LEMMA LeastOf ==
  ASSUME NEW S \in SUBSET Nat, S # {}
  PROVE  \E n \in S : \A k \in S : ~(k < n)
<1>1. PICK n \in S : \A k \in S : ~(<<k, n>> \in OpToRel(<, Nat))
  BY NatLessThanWellFounded, WFMin
<1>. QED BY <1>1 DEF OpToRel

LEMMA LargestOf ==
  ASSUME NEW S \in SUBSET Assignments, S # {}
  PROVE  \E m \in S : \A x \in S : x <= m
<1> DEFINE T == {N - x : x \in S}
<1>1. \A x \in S : N - x \in Nat
  BY DEF Assignments
<1>2. T \subseteq Nat /\ T # {}
  BY <1>1
<1>3. PICK t \in T : \A u \in T : ~(u < t)
  BY <1>2, LeastOf
<1>4. PICK m \in S : t = N - m
  BY <1>3
<1>5. \A x \in S : ~(N - x < N - m)
  BY <1>3, <1>4
<1>. QED BY <1>5 DEF Assignments

IsAscending(s, S) ==
  /\ s \in [1..Cardinality(S) -> S]
  /\ \A i, j \in DOMAIN s : i < j => s[i] < s[j]

\* By induction on the number of assignments: a largest one comes last.
LEMMA AscendingExists ==
  ASSUME NEW S \in SUBSET Assignments PROVE \E s : IsAscending(s, S)
<1> DEFINE Bad == {T \in SUBSET Assignments : ~\E s : IsAscending(s, T)}
           Sizes == {Cardinality(T) : T \in Bad}
<1>0. \A T \in SUBSET Assignments : IsFiniteSet(T) /\ Cardinality(T) \in Nat
  <2>1. IsFiniteSet(Assignments)
    BY FS_Interval DEF Assignments
  <2>. QED BY <2>1, FS_Subset, FS_CardinalityType
<1> SUFFICES ASSUME Bad # {} PROVE FALSE
  OBVIOUS
<1>1. Sizes \subseteq Nat /\ Sizes # {}
  BY <1>0
<1>2. PICK n \in Sizes : \A k \in Sizes : ~(k < n)
  BY <1>1, LeastOf
<1>3. PICK T \in Bad : n = Cardinality(T)
  BY <1>2
<1>4. CASE T = {}
  <2>1. Cardinality(T) = 0
    BY <1>4, FS_EmptySet
  <2>2. IsAscending([i \in 1..0 |-> i], T)
    BY <1>4, <2>1 DEF IsAscending
  <2>. QED BY <1>3, <2>2
<1>5. CASE T # {}
  <2>1. PICK m \in T : \A x \in T : x <= m
    BY <1>5, LargestOf
  <2> DEFINE U == T \ {m}
  <2>2. U \in SUBSET Assignments /\ Cardinality(U) = n - 1 /\ n \in Nat /\ n # 0
    <3>1. IsFiniteSet(T) /\ n \in Nat
      BY <1>0, <1>3
    <3>2. Cardinality(T \ {m}) = Cardinality(T) - 1
      BY <3>1, FS_RemoveElement
    <3>3. n # 0
      BY <1>3, <1>5, <3>1, FS_EmptySet
    <3>. QED BY <1>3, <3>1, <3>2, <3>3
  <2>3. Cardinality(U) < n
    BY <2>2
  <2>4. U \notin Bad
    BY <1>2, <2>3
  <2>5. PICK s : IsAscending(s, U)
    BY <2>2, <2>4
  <2> DEFINE r == [i \in 1..n |-> IF i = n THEN m ELSE s[i]]
  <2>6. s \in [1..(n - 1) -> U] /\ \A i, j \in 1..(n - 1) : i < j => s[i] < s[j]
    BY <2>2, <2>5 DEF IsAscending
  <2>7. \A i \in 1..(n - 1) : s[i] \in U /\ s[i] < m
    <3>1. \A x \in U : x < m
      BY <1>3, <2>1 DEF Assignments
    <3>. QED BY <2>6, <3>1
  <2>8. r \in [1..n -> T]
    BY <2>2, <2>7
  <2>9. \A i, j \in 1..n : i < j => r[i] < r[j]
    BY <2>2, <2>6, <2>7
  <2>10. IsAscending(r, T)
    BY <1>3, <2>8, <2>9 DEF IsAscending
  <2>. QED BY <1>3, <2>10
<1>. QED BY <1>4, <1>5

LEMMA AscendingIs ==
  ASSUME NEW S \in SUBSET Assignments
  PROVE  /\ Ascending(S) \in Seq(S) /\ Ascending(S) \in Seq(Assignments)
         /\ \A i \in 1..Len(Ascending(S)) : Ascending(S)[i] \in S
<1>1. PICK s : IsAscending(s, S)
  BY AscendingExists
<1>2. Ascending(S) \in [1..Cardinality(S) -> S]
  BY <1>1 DEF IsAscending, Ascending
<1>3. Cardinality(S) \in Nat
  <2>1. IsFiniteSet(Assignments)
    BY FS_Interval DEF Assignments
  <2>. QED BY <2>1, FS_Subset, FS_CardinalityType
<1>4. Ascending(S) \in Seq(S)
  BY <1>2, <1>3
<1>. QED BY <1>4, ElementOfSeq, SeqMonotonic

-----------------------------------------------------------------------------
(* The pump and the gate.                                                  *)

LEMMA ReleasedIs ==
  ASSUME NEW p \in Plan
  PROVE  /\ Blocked(p) \subseteq p.waiting
         /\ Released(p) \subseteq p.waiting \ Blocked(p)
         /\ \A a \in Released(p) : DependsOn(p, a) \cap (p.waiting \cup p.inFlight) = {}
BY DEF Blocked, Released, FirstOf

\* What the pump makes of each field, B being the blocked and R the released.
LEMMA PumpIs ==
  ASSUME NEW p \in Plan, NEW B, B = Blocked(p), NEW R, R = Released(p),
         NEW q, q = Pump(p)
  PROVE  /\ q \in Plan
         /\ q.task = p.task /\ q.active = p.active /\ q.members = p.members
         /\ q.chained = p.chained /\ q.stale = p.stale
         /\ q.waiting = p.waiting \ (B \cup R) /\ q.inFlight = p.inFlight \cup R
         /\ q.gateFailed = p.gateFailed \cup B
         /\ \A a \in Assignments :
              /\ q.progress[a] = IF a \in R THEN "pending"
                                 ELSE IF a \in B THEN "failed" ELSE p.progress[a]
              /\ IF a \in R THEN q.row[a] \in {"missing", "assigned"} ELSE q.row[a] = p.row[a]
              /\ q.agent[a] = IF a \in R THEN "running" ELSE p.agent[a]
         /\ q.sent = p.sent \o Ascending(R)
<1> DEFINE progress == Set(Set(p.progress, B, "failed"), R, "pending")
           idle == Set(p.idle, B \cup R, 0)
           row == [a \in Assignments |->
                     IF a \notin R THEN p.row[a]
                     ELSE IF Fails(p, "insert", a) THEN "missing" ELSE "assigned"]
           agent == Set(p.agent, R, "running")
<1>1. B \subseteq Assignments /\ R \subseteq Assignments
  BY ReleasedIs DEF Plan
<1>2. /\ progress \in [Assignments -> {"none", "pending"} \cup Terminal]
      /\ \A a \in Assignments : progress[a] = IF a \in R THEN "pending"
                                  ELSE IF a \in B THEN "failed" ELSE p.progress[a]
  <2>1. p.progress \in [Assignments -> {"none", "pending"} \cup Terminal]
    BY DEF Plan
  <2>. QED BY <2>1 DEF Set, Terminal
<1>3. idle \in [Assignments -> 0..MaxIdle]
  <2>1. p.idle \in [Assignments -> 0..MaxIdle]
    BY DEF Plan
  <2>. QED BY <2>1 DEF Set
<1>4. /\ row \in [Assignments -> Rows]
      /\ \A a \in Assignments :
           IF a \in R THEN row[a] \in {"missing", "assigned"} ELSE row[a] = p.row[a]
  <2>1. p.row \in [Assignments -> Rows]
    BY DEF Plan
  <2>. QED BY <2>1 DEF Rows
<1>5. /\ agent \in [Assignments -> {"none", "ready", "running", "expelled", "gone"}]
      /\ \A a \in Assignments : agent[a] = IF a \in R THEN "running" ELSE p.agent[a]
  <2>1. p.agent \in [Assignments -> {"none", "ready", "running", "expelled", "gone"}]
    BY DEF Plan
  <2>. QED BY <2>1 DEF Set
<1>6. p.sent \o Ascending(R) \in Seq(Assignments)
  BY <1>1, AscendingIs, ConcatProperties DEF Plan
<1> DEFINE waiting == p.waiting \ (B \cup R)
           inFlight == p.inFlight \cup R
           gateFailed == p.gateFailed \cup B
           sent == p.sent \o Ascending(R)
<1>7. q = [p EXCEPT !.waiting = waiting, !.inFlight = inFlight,
                    !.gateFailed = gateFailed, !.progress = progress, !.idle = idle,
                    !.row = row, !.agent = agent, !.sent = sent]
  BY DEF Pump, Plan
<1>8. /\ waiting = p.waiting \ (B \cup R) /\ inFlight = p.inFlight \cup R
      /\ gateFailed = p.gateFailed \cup B /\ sent = p.sent \o Ascending(R)
      /\ waiting \in SUBSET Assignments /\ inFlight \in SUBSET Assignments
      /\ gateFailed \in SUBSET Assignments /\ sent \in Seq(Assignments)
  BY <1>1, <1>6 DEF Plan
<1> HIDE DEF progress, idle, row, agent, waiting, inFlight, gateFailed, sent
<1>9. q = [task |-> p.task, active |-> p.active, members |-> p.members,
           chained |-> p.chained, parallel |-> p.parallel, progress |-> progress,
           failures |-> p.failures, idle |-> idle, waiting |-> waiting,
           inFlight |-> inFlight, gateFailed |-> gateFailed,
           row |-> row, stale |-> p.stale, lost |-> p.lost, agent |-> agent,
           sent |-> sent]
  <2> DEFINE r == [p EXCEPT !.waiting = waiting, !.inFlight = inFlight,
                            !.gateFailed = gateFailed, !.sent = sent]
  <2>1. r = [task |-> p.task, active |-> p.active, members |-> p.members,
             chained |-> p.chained, parallel |-> p.parallel, progress |-> p.progress,
             failures |-> p.failures, idle |-> p.idle, waiting |-> waiting,
             inFlight |-> inFlight, gateFailed |-> gateFailed,
             row |-> p.row, stale |-> p.stale, lost |-> p.lost, agent |-> p.agent,
             sent |-> sent]
    <3>1. p = [task |-> p.task, active |-> p.active, members |-> p.members,
               chained |-> p.chained, parallel |-> p.parallel, progress |-> p.progress,
               failures |-> p.failures, idle |-> p.idle, waiting |-> p.waiting,
               inFlight |-> p.inFlight, gateFailed |-> p.gateFailed,
               row |-> p.row, stale |-> p.stale, lost |-> p.lost, agent |-> p.agent,
               sent |-> p.sent]
      BY DEF Plan
    <3>2. r = [p EXCEPT !.waiting = waiting, !.inFlight = inFlight,
                        !.gateFailed = gateFailed, !.sent = sent]
      OBVIOUS
    <3> HIDE DEF r
    <3>. QED BY <3>1, <3>2
  <2>2. q = [r EXCEPT !.progress = progress, !.idle = idle, !.row = row, !.agent = agent]
    BY <1>7
  <2> HIDE DEF r
  <2>. QED BY <2>1, <2>2
<1>10. q \in Plan
  BY <1>2, <1>3, <1>4, <1>5, <1>8, <1>9 DEF Plan
<1>. QED BY <1>2, <1>4, <1>5, <1>8, <1>9, <1>10

LEMMA PumpKeeps ==
  ASSUME NEW p, NEW acc \in SUBSET Assignments, NEW e \in 0..N, Good(p, acc, e)
  PROVE  Good(Pump(p), acc, e) /\ Keeps(p, Pump(p))
<1> DEFINE B == Blocked(p)
           R == Released(p)
           q == Pump(p)
<1>1. p \in Plan /\ Consistent(p, acc, e)
  BY DEF Good
<1>2. /\ B \subseteq p.waiting /\ R \subseteq p.waiting \ B
      /\ \A a \in R : DependsOn(p, a) \cap (p.waiting \cup p.inFlight) = {}
  BY <1>1, ReleasedIs
<1>3. /\ q \in Plan
      /\ q.task = p.task /\ q.active = p.active /\ q.members = p.members
      /\ q.chained = p.chained /\ q.stale = p.stale
      /\ q.waiting = p.waiting \ (B \cup R) /\ q.inFlight = p.inFlight \cup R
      /\ q.gateFailed = p.gateFailed \cup B
      /\ \A a \in Assignments :
           /\ q.progress[a] = IF a \in R THEN "pending"
                              ELSE IF a \in B THEN "failed" ELSE p.progress[a]
           /\ IF a \in R THEN q.row[a] \in {"missing", "assigned"} ELSE q.row[a] = p.row[a]
           /\ q.agent[a] = IF a \in R THEN "running" ELSE p.agent[a]
      /\ q.sent = p.sent \o Ascending(R)
  BY <1>1, PumpIs
<1>4. p.waiting \subseteq Assignments /\ p.members \subseteq Assignments
      /\ p.sent \in Seq(Assignments)
  BY <1>1 DEF Plan
<1>5. /\ \A a \in p.waiting : p.row[a] = "none"
      /\ ~Misnames =>
           /\ \A a \in p.waiting : a \notin acc
           /\ p.waiting # {} => \A a \in Assignments :
                a \in p.waiting \/ a \in p.inFlight \/ a \in p.gateFailed \/ a \in acc
  BY <1>1 DEF Consistent, GateInv
\* A stage that is released follows one that has left the gate, and not by failing.
<1>6. ASSUME ~Misnames, p.chained, NEW a \in R, a # 1 PROVE a - 1 \in acc
  <2>1. a \in Assignments /\ a > 1 /\ a - 1 \in Assignments /\ DependsOn(p, a) = {a - 1}
    BY <1>2, <1>4, <1>6 DEF DependsOn, Assignments
  <2>2. a - 1 \notin p.waiting /\ a - 1 \notin p.inFlight
    BY <1>2, <2>1
  <2>3. a - 1 \in p.gateFailed \/ a - 1 \in acc
    BY <1>2, <1>5, <1>6, <2>1, <2>2
  <2>4. a - 1 \notin p.gateFailed
    <3>1. a \in p.waiting /\ a \notin B
      BY <1>2
    <3>2. \A b \in (a - 1) + 1..a : b = a
      BY <2>1 DEF Assignments
    <3>3. a - 1 < a
      BY <2>1 DEF Assignments
    <3>. QED BY <2>1, <3>1, <3>2, <3>3 DEF Blocked
  <2>. QED BY <2>3, <2>4
<1> HIDE DEF B, R, q
<1>7. Empty(q)
  BY <1>1, <1>2, <1>3, <1>4 DEF Consistent, Empty
<1>8. GateInv(q, acc)
  BY <1>2, <1>3, <1>4, <1>5 DEF GateInv
<1>9. StagesInv(q, acc)
  BY <1>1, <1>3, <1>6 DEF Consistent, StagesInv
<1>10. AcceptedInv(q, acc)
  BY <1>1, <1>2, <1>3, <1>5 DEF Consistent, AcceptedInv
<1>11. EndInv(q, e)
  BY <1>1, <1>2, <1>3, <1>4, <1>5 DEF Consistent, EndInv, Closed, Terminal, Ended
<1>12. SentInv(q)
  <2>1. R \in SUBSET Assignments
    BY <1>2, <1>4
  <2> DEFINE s == Ascending(R)
  <2>2. s \in Seq(Assignments) /\ \A i \in 1..Len(s) : s[i] \in R
    BY <2>1, AscendingIs
  <2>3. \A i \in 1..Len(p.sent) : p.row[p.sent[i]] # "none" /\ p.sent[i] \in Assignments
    BY <1>1, <1>4, ElementOfSeq DEF Consistent, SentInv
  <2> HIDE DEF s
  <2>4. \A i \in 1..Len(q.sent) : \/ i \in 1..Len(p.sent) /\ q.sent[i] = p.sent[i]
                                  \/ i - Len(p.sent) \in 1..Len(s) /\ q.sent[i] = s[i - Len(p.sent)]
    BY <1>3, <1>4, <2>2 DEF s
  <2>5. \A a \in Assignments : a \in R \/ p.row[a] # "none" => q.row[a] # "none"
    BY <1>3
  <2>6. \A i \in 1..Len(q.sent) : q.row[q.sent[i]] # "none"
    <3> TAKE i \in 1..Len(q.sent)
    <3>1. CASE i \in 1..Len(p.sent) /\ q.sent[i] = p.sent[i]
      BY <2>3, <2>5, <3>1
    <3>2. CASE i - Len(p.sent) \in 1..Len(s) /\ q.sent[i] = s[i - Len(p.sent)]
      BY <2>1, <2>2, <2>5, <3>2
    <3>. QED BY <2>4, <3>1, <3>2
  <2>. QED BY <2>6 DEF SentInv
<1>13. Keeps(p, q)
  BY <1>3 DEF Keeps
<1>. QED BY <1>3, <1>7, <1>8, <1>9, <1>10, <1>11, <1>12, <1>13 DEF Good, Consistent, q

\* An assignment leaves the gate: it has failed, or it has been accepted.
LEMMA GateKeeps ==
  ASSUME NEW p, NEW acc \in SUBSET Assignments, NEW e \in 0..N, Good(p, acc, e),
         NEW a \in Assignments, NEW failed \in BOOLEAN, failed \/ Misnames \/ a \in acc
  PROVE  Good(GateTerminal(p, a, failed), acc, e) /\ Keeps(p, GateTerminal(p, a, failed))
<1> DEFINE q == [p EXCEPT !.waiting = @ \ {a}, !.inFlight = @ \ {a},
                          !.gateFailed = IF failed THEN @ \cup {a} ELSE @]
<1>1. p \in Plan /\ Consistent(p, acc, e)
  BY DEF Good
<1>2. /\ q.task = p.task /\ q.active = p.active /\ q.members = p.members
      /\ q.chained = p.chained /\ q.progress = p.progress /\ q.row = p.row /\ q.stale = p.stale
      /\ q.agent = p.agent /\ q.sent = p.sent
      /\ q.waiting = p.waiting \ {a} /\ q.inFlight = p.inFlight \ {a}
      /\ q.gateFailed = IF failed THEN p.gateFailed \cup {a} ELSE p.gateFailed
  BY <1>1 DEF Plan
<1>3. q \in Plan
  BY <1>1 DEF Plan
<1> HIDE DEF q
<1>4. Empty(q) /\ StagesInv(q, acc) /\ AcceptedInv(q, acc) /\ SentInv(q)
  BY <1>1, <1>2 DEF Consistent, Empty, StagesInv, AcceptedInv, SentInv
<1>5. GateInv(q, acc)
  BY <1>1, <1>2 DEF Consistent, GateInv
<1>6. EndInv(q, e)
  BY <1>1, <1>2 DEF Consistent, EndInv, Closed
<1>7. Good(q, acc, e) /\ Keeps(p, q)
  BY <1>2, <1>3, <1>4, <1>5, <1>6 DEF Good, Consistent, Keeps
<1>8. Good(Pump(q), acc, e) /\ Keeps(q, Pump(q))
  BY <1>7, PumpKeeps
<1>9. Keeps(p, Pump(q))
  BY <1>7, <1>8 DEF Keeps
<1>10. GateTerminal(p, a, failed) = IF a \notin p.waiting \cup p.inFlight THEN p ELSE Pump(q)
  BY DEF GateTerminal, q
<1>. QED BY <1>8, <1>9, <1>10 DEF Keeps

-----------------------------------------------------------------------------
(* The end of the plan, and the terminal events.                           *)

\* What finalizeOrchestration makes of each field.
LEMMA FinalizeIs ==
  ASSUME NEW p \in Plan, NEW q, q = Finalize(p)
  PROVE  /\ q \in Plan
         /\ \/ q.task = p.task
            \/ q.task = IF \A a \in p.members : p.progress[a] = "failed"
                          THEN "failed" ELSE "completed"
         /\ ~q.active /\ q.members = p.members /\ q.chained = p.chained
         /\ q.waiting = {} /\ q.inFlight = {}
         /\ q.progress = p.progress /\ q.row = p.row /\ q.stale = p.stale /\ q.sent = p.sent
         /\ \A a \in Assignments : q.agent[a] = IF a \in p.members THEN "gone" ELSE p.agent[a]
<1> DEFINE agent == Set(p.agent, p.members, "gone")
           task == IF p.task = "none" \/ Fails(p, "update", 0) THEN p.task
                   ELSE IF \A a \in p.members : p.progress[a] = "failed"
                     THEN "failed" ELSE "completed"
<1>1. p.agent \in [Assignments -> {"none", "ready", "running", "expelled", "gone"}]
  BY DEF Plan
<1>2. /\ agent \in [Assignments -> {"none", "ready", "running", "expelled", "gone"}]
      /\ \A a \in Assignments : agent[a] = IF a \in p.members THEN "gone" ELSE p.agent[a]
  BY <1>1 DEF Set
<1>3. task \in {p.task, "failed", "completed"}
  OBVIOUS
<1>4. q = [p EXCEPT !.active = FALSE, !.waiting = {}, !.inFlight = {}, !.gateFailed = {},
                    !.task = task, !.agent = agent]
  BY DEF Finalize, Plan
<1> HIDE DEF agent
<1>5. \/ task = p.task
      \/ task = IF \A a \in p.members : p.progress[a] = "failed" THEN "failed" ELSE "completed"
  OBVIOUS
<1> HIDE DEF task
<1>6. q = [task |-> task, active |-> FALSE, members |-> p.members,
           chained |-> p.chained, parallel |-> p.parallel, progress |-> p.progress,
           failures |-> p.failures, idle |-> p.idle, waiting |-> {},
           inFlight |-> {}, gateFailed |-> {},
           row |-> p.row, stale |-> p.stale, lost |-> p.lost, agent |-> agent,
           sent |-> p.sent]
  <2>1. p = [task |-> p.task, active |-> p.active, members |-> p.members,
             chained |-> p.chained, parallel |-> p.parallel, progress |-> p.progress,
             failures |-> p.failures, idle |-> p.idle, waiting |-> p.waiting,
             inFlight |-> p.inFlight, gateFailed |-> p.gateFailed,
             row |-> p.row, stale |-> p.stale, lost |-> p.lost, agent |-> p.agent,
             sent |-> p.sent]
    BY DEF Plan
  <2>. QED BY <1>4, <2>1
<1>7. q \in Plan
  BY <1>2, <1>3, <1>6 DEF Plan
<1>. QED BY <1>2, <1>5, <1>6, <1>7

LEMMA FinalizeKeeps ==
  ASSUME NEW p, NEW acc \in SUBSET Assignments, NEW e \in 0..N, Good(p, acc, e),
         p.active, AllTerminal(p)
  PROVE  Good(Finalize(p), acc, e) /\ Keeps(p, Finalize(p))
<1> DEFINE q == Finalize(p)
<1>1. p \in Plan /\ Consistent(p, acc, e)
  BY DEF Good
<1>2. p.members \subseteq Assignments /\ \A a \in p.members : p.progress[a] \in Terminal
  BY <1>1 DEF Plan, AllTerminal
<1>3. /\ q \in Plan
      /\ \/ q.task = p.task
         \/ q.task = IF \A a \in p.members : p.progress[a] = "failed"
                       THEN "failed" ELSE "completed"
      /\ ~q.active /\ q.members = p.members /\ q.chained = p.chained
      /\ q.waiting = {} /\ q.inFlight = {}
      /\ q.progress = p.progress /\ q.row = p.row /\ q.stale = p.stale /\ q.sent = p.sent
      /\ \A a \in Assignments : q.agent[a] = IF a \in p.members THEN "gone" ELSE p.agent[a]
  BY <1>1, FinalizeIs
<1> HIDE DEF q
<1>4. Empty(q) /\ GateInv(q, acc) /\ StagesInv(q, acc) /\ SentInv(q)
  BY <1>1, <1>3 DEF Consistent, Empty, GateInv, StagesInv, SentInv
<1>5. AcceptedInv(q, acc)
  <2>1. q.task = "completed" => \/ p.task = "completed"
                                \/ \E a \in p.members : p.progress[a] = "completed"
    BY <1>2, <1>3 DEF Terminal
  <2>. QED BY <1>1, <1>2, <1>3, <2>1 DEF Consistent, AcceptedInv
<1>6. EndInv(q, e)
  BY <1>1, <1>2, <1>3 DEF Consistent, EndInv, Closed
<1>7. Keeps(p, q)
  BY <1>3 DEF Keeps
<1>. QED BY <1>3, <1>4, <1>5, <1>6, <1>7 DEF Good, Consistent, q

LEMMA TerminalKeeps ==
  ASSUME NEW p, NEW acc \in SUBSET Assignments, NEW e \in 0..N, Good(p, acc, e),
         NEW a \in Assignments, NEW failed \in BOOLEAN, failed \/ Misnames \/ a \in acc
  PROVE  /\ Good(OrchestratorTerminal(p, a, failed), acc, e)
         /\ Keeps(p, OrchestratorTerminal(p, a, failed))
BY FinalizeKeeps, GateKeeps DEF OrchestratorTerminal

\* What writing the end of an assignment makes of its row, and of no other.
Closes(p, q, a) ==
  /\ q = [p EXCEPT !.row = q.row, !.stale = q.stale]
  /\ q.row \in [Assignments -> Rows] /\ q.stale \in SUBSET Assignments
  /\ \A b \in Assignments : q.row[b] = "none" <=> p.row[b] = "none"
  /\ \A b \in Assignments : b = a \/ Closed(p, b) => Closed(q, b)

LEMMA EndRowIs ==
  ASSUME NEW p \in Plan, NEW a \in Assignments, NEW status \in Terminal
  PROVE  Closes(p, EndRow(p, a, status), a)
<1>0. p.row \in [Assignments -> Rows] /\ p.stale \in SUBSET Assignments
  BY DEF Plan
<1>1. CASE p.row[a] \in {"none", "missing"}
  <2>1. EndRow(p, a, status) = p
    BY <1>1 DEF EndRow
  <2>2. p = [p EXCEPT !.row = p.row, !.stale = p.stale]
    BY DEF Plan
  <2>. QED BY <1>0, <1>1, <2>1, <2>2 DEF Closes, Closed, Ended
<1>2. CASE p.row[a] \notin {"none", "missing"} /\ Fails(p, "update", a)
  <2> DEFINE stale == p.stale \cup {a}
             q == [p EXCEPT !.row = p.row, !.stale = stale]
  <2>1. EndRow(p, a, status) = q
    BY <1>2 DEF EndRow, Plan
  <2>2. q.row = p.row /\ q.stale = stale
    BY DEF Plan
  <2>3. q = [p EXCEPT !.row = q.row, !.stale = q.stale]
    BY <2>2
  <2> HIDE DEF q
  <2>. QED BY <1>0, <2>1, <2>2, <2>3 DEF Closes, Closed
<1>3. CASE p.row[a] \notin {"none", "missing"} /\ ~Fails(p, "update", a)
  <2> DEFINE row == [p.row EXCEPT ![a] = status]
             stale == p.stale \ {a}
             q == [p EXCEPT !.row = row, !.stale = stale]
  <2>1. EndRow(p, a, status) = q
    BY <1>3 DEF EndRow, Plan
  <2>2. q.row = row /\ q.stale = stale
    BY DEF Plan
  <2>3. q = [p EXCEPT !.row = q.row, !.stale = q.stale]
    BY <2>2
  <2>4. row \in [Assignments -> Rows]
    BY <1>0 DEF Rows
  <2>5. \A b \in Assignments : row[b] = IF b = a THEN status ELSE p.row[b]
    BY <1>0
  <2>6. status # "none" /\ status \in Ended /\ p.row[a] # "none"
    BY <1>3 DEF Terminal, Ended
  <2> HIDE DEF q, row
  <2>. QED BY <1>0, <2>1, <2>2, <2>3, <2>4, <2>5, <2>6 DEF Closes, Closed
<1>. QED BY <1>1, <1>2, <1>3

LEMMA MarkFailedIs ==
  ASSUME NEW p \in Plan, NEW a \in Assignments
  PROVE  Closes(p, MarkFailed(p, a), a)
<1>1. CASE p.row[a] \in Terminal /\ ~Fails(p, "read", a)
  <2>1. MarkFailed(p, a) = p /\ Closed(p, a)
    BY <1>1 DEF MarkFailed, Closed, Ended
  <2>2. p = [p EXCEPT !.row = p.row, !.stale = p.stale]
    BY DEF Plan
  <2>3. p.row \in [Assignments -> Rows] /\ p.stale \in SUBSET Assignments
    BY DEF Plan
  <2>. QED BY <2>1, <2>2, <2>3 DEF Closes
<1>2. CASE ~(p.row[a] \in Terminal /\ ~Fails(p, "read", a))
  <2>1. "failed" \in Terminal
    BY DEF Terminal
  <2>. QED BY <1>2, <2>1, EndRowIs DEF MarkFailed
<1>. QED BY <1>1, <1>2

\* An assignment fails: its row has ended, or is the one the tool is about to write.
LEMMA FailureKeeps ==
  ASSUME NEW p, NEW acc \in SUBSET Assignments, NEW e \in 0..N, Good(p, acc, e),
         NEW a \in Assignments, NEW fromReview \in BOOLEAN, fromReview => a = e
  PROVE  Good(TaskFailed(p, a, fromReview), acc, e) /\ Keeps(p, TaskFailed(p, a, fromReview))
<1> DEFINE progress == [p.progress EXCEPT ![a] = IF Tracked(p, a) THEN "failed" ELSE @]
           failures == [p.failures EXCEPT ![a] =
                          IF Tracked(p, a) /\ @ < FailureLimit THEN @ + 1 ELSE @]
           idle == [p.idle EXCEPT ![a] = 0]
           row == IF fromReview THEN p.row ELSE MarkFailed(p, a).row
           stale == IF fromReview THEN p.stale ELSE MarkFailed(p, a).stale
           q == [p EXCEPT !.progress = progress, !.failures = failures, !.idle = idle,
                          !.row = row, !.stale = stale]
<1>1. p \in Plan /\ Consistent(p, acc, e)
  BY DEF Good
<1>2. /\ p.progress \in [Assignments -> {"none", "pending"} \cup Terminal]
      /\ p.failures \in [Assignments -> 0..FailureLimit]
      /\ p.idle \in [Assignments -> 0..MaxIdle]
      /\ p.row \in [Assignments -> Rows]
  BY <1>1 DEF Plan
<1>3. /\ progress \in [Assignments -> {"none", "pending"} \cup Terminal]
      /\ \A b \in Assignments : progress[b] = IF b = a /\ Tracked(p, a) THEN "failed" ELSE p.progress[b]
  BY <1>2 DEF Terminal
<1>4. failures \in [Assignments -> 0..FailureLimit]
  <2>1. \A x \in 0..FailureLimit : x < FailureLimit => x + 1 \in 0..FailureLimit
    OBVIOUS
  <2>. QED BY <1>2, <2>1
<1>5. idle \in [Assignments -> 0..MaxIdle]
  BY <1>2
<1>6. /\ row \in [Assignments -> Rows] /\ stale \in SUBSET Assignments
      /\ \A b \in Assignments : row[b] = "none" <=> p.row[b] = "none"
      /\ \A b \in Assignments : Closed(p, b) => row[b] \in Ended \/ b \in stale
      /\ ~fromReview => row[a] \in Ended \/ a \in stale
  <2>1. CASE fromReview
    BY <1>1, <1>2, <2>1 DEF Closed, Plan
  <2>2. CASE ~fromReview
    <3> DEFINE m == MarkFailed(p, a)
    <3>1. row = m.row /\ stale = m.stale
      BY <2>2
    <3>2. Closes(p, m, a)
      BY <1>1, MarkFailedIs
    <3> HIDE DEF m, row, stale
    <3>. QED BY <3>1, <3>2 DEF Closes, Closed
  <2>. QED BY <2>1, <2>2
<1>7. TaskFailed(p, a, fromReview) = OrchestratorTerminal(q, a, TRUE)
  <2> DEFINE m == IF fromReview THEN p ELSE MarkFailed(p, a)
             n == [m EXCEPT !.progress[a] = IF Tracked(p, a) THEN "failed" ELSE @,
                            !.failures[a] = IF Tracked(p, a) /\ @ < FailureLimit THEN @ + 1 ELSE @,
                            !.idle[a] = 0]
  <2>1. m = [p EXCEPT !.row = row, !.stale = stale]
    <3>1. CASE fromReview
      BY <1>1, <3>1 DEF Plan
    <3>2. CASE ~fromReview
      BY <1>1, <3>2, MarkFailedIs DEF Closes
    <3>. QED BY <3>1, <3>2
  <2>2. Tracked(m, a) <=> Tracked(p, a)
    <3> HIDE DEF m, row, stale
    <3>. QED BY <1>1, <2>1 DEF Tracked, Plan
  <2>3. TaskFailed(p, a, fromReview) = OrchestratorTerminal(n, a, TRUE)
    <3> HIDE DEF m
    <3>1. m = IF fromReview THEN p ELSE MarkFailed(p, a)
      BY DEF m
    <3>. QED BY <2>2, <3>1 DEF TaskFailed
  <2> HIDE DEF m, row, stale
  <2>4. n = q
    BY <1>1, <2>1 DEF Plan
  <2>. QED BY <2>3, <2>4
<1> HIDE DEF progress, failures, idle, row, stale
<1>0. q = [p EXCEPT !.progress = progress, !.failures = failures, !.idle = idle,
                    !.row = row, !.stale = stale]
  OBVIOUS
<1> HIDE DEF q
<1>8. q = [task |-> p.task, active |-> p.active, members |-> p.members,
           chained |-> p.chained, parallel |-> p.parallel, progress |-> progress,
           failures |-> failures, idle |-> idle, waiting |-> p.waiting,
           inFlight |-> p.inFlight, gateFailed |-> p.gateFailed,
           row |-> row, stale |-> stale, lost |-> p.lost, agent |-> p.agent,
           sent |-> p.sent]
  BY <1>0, <1>1 DEF Plan
<1>9. q \in Plan
  BY <1>1, <1>3, <1>4, <1>5, <1>6, <1>8 DEF Plan
<1>10. Keeps(p, q)
  BY <1>6, <1>8 DEF Keeps
<1>11. Empty(q)
  BY <1>1, <1>3, <1>6, <1>8 DEF Consistent, Empty, Tracked
<1>12. GateInv(q, acc)
  <2>1. p.waiting \subseteq Assignments
    BY <1>1 DEF Plan
  <2>2. \A b \in Assignments : row[b] = "none" <=> p.row[b] = "none"
    BY <1>6
  <2>. QED BY <1>1, <1>8, <2>1, <2>2 DEF Consistent, GateInv
<1>13. StagesInv(q, acc)
  <2>1. \A b \in Assignments : row[b] = "none" <=> p.row[b] = "none"
    BY <1>6
  <2>. QED BY <1>1, <1>8, <2>1 DEF Consistent, StagesInv
<1>14. AcceptedInv(q, acc)
  BY <1>1, <1>3, <1>8 DEF Consistent, AcceptedInv
<1>15. EndInv(q, e)
  <2>1. p.members \subseteq Assignments
    BY <1>1 DEF Plan
  <2>2. \A b \in Assignments : Closed(p, b) => Closed(q, b)
    BY <1>6, <1>8 DEF Closed
  <2>3. EndInv(p, e)
    BY <1>1 DEF Consistent
  <2>4. ASSUME NEW b \in Assignments, b # e, q.progress[b] \in Terminal PROVE Closed(q, b)
    <3>1. CASE b = a /\ ~fromReview
      BY <1>6, <1>8, <3>1 DEF Closed
    <3>2. CASE b # a \/ fromReview
      <4>1. q.progress[b] = p.progress[b]
        BY <1>3, <1>8, <2>4, <3>2
      <4>. QED BY <2>2, <2>3, <2>4, <4>1 DEF EndInv
    <3>. QED BY <3>1, <3>2
  <2>. QED BY <1>8, <2>1, <2>2, <2>3, <2>4 DEF EndInv
<1>16. SentInv(q)
  <2>1. \A i \in 1..Len(p.sent) : p.sent[i] \in Assignments
    BY <1>1, ElementOfSeq DEF Plan
  <2>. QED BY <1>1, <1>8, <1>10, <2>1 DEF Consistent, SentInv, Keeps
<1>17. Good(q, acc, e)
  BY <1>9, <1>11, <1>12, <1>13, <1>14, <1>15, <1>16 DEF Good, Consistent
<1>18. /\ Good(OrchestratorTerminal(q, a, TRUE), acc, e)
       /\ Keeps(q, OrchestratorTerminal(q, a, TRUE))
  BY <1>17, TerminalKeeps
<1>. QED BY <1>7, <1>10, <1>18 DEF Keeps

\* An accepted assignment completes, before the tool has written its row.
LEMMA CompletionKeeps ==
  ASSUME NEW p, NEW acc \in SUBSET Assignments, NEW e \in Assignments,
         Misnames \/ e \in acc, Good(p, acc, e)
  PROVE  Good(TaskCompleted(p, e), acc, e) /\ Keeps(p, TaskCompleted(p, e))
<1> DEFINE progress == [p.progress EXCEPT ![e] = IF Tracked(p, e) THEN "completed" ELSE @]
           idle == [p.idle EXCEPT ![e] = 0]
           q == [p EXCEPT !.progress = progress, !.idle = idle]
<1>1. p \in Plan /\ Consistent(p, acc, e)
  BY DEF Good
<1>2. /\ p.progress \in [Assignments -> {"none", "pending"} \cup Terminal]
      /\ p.idle \in [Assignments -> 0..MaxIdle]
  BY <1>1 DEF Plan
<1>3. /\ progress \in [Assignments -> {"none", "pending"} \cup Terminal]
      /\ \A b \in Assignments : progress[b] = IF b = e /\ Tracked(p, e) THEN "completed" ELSE p.progress[b]
  BY <1>2 DEF Terminal
<1>4. idle \in [Assignments -> 0..MaxIdle]
  BY <1>2
<1>5. TaskCompleted(p, e) = OrchestratorTerminal(q, e, FALSE)
  BY <1>1 DEF TaskCompleted, Plan
<1> HIDE DEF progress, idle
<1>6. q = [p EXCEPT !.progress = progress, !.idle = idle]
  OBVIOUS
<1> HIDE DEF q
<1>7. q = [task |-> p.task, active |-> p.active, members |-> p.members,
           chained |-> p.chained, parallel |-> p.parallel, progress |-> progress,
           failures |-> p.failures, idle |-> idle, waiting |-> p.waiting,
           inFlight |-> p.inFlight, gateFailed |-> p.gateFailed,
           row |-> p.row, stale |-> p.stale, lost |-> p.lost, agent |-> p.agent,
           sent |-> p.sent]
  BY <1>1, <1>6 DEF Plan
<1>8. q \in Plan
  BY <1>1, <1>3, <1>4, <1>7 DEF Plan
<1>9. Empty(q)
  BY <1>1, <1>3, <1>7 DEF Consistent, Empty, Tracked
<1>10. GateInv(q, acc) /\ StagesInv(q, acc) /\ SentInv(q) /\ Keeps(p, q)
  BY <1>1, <1>7 DEF Consistent, GateInv, StagesInv, SentInv, Keeps
<1>11. AcceptedInv(q, acc)
  BY <1>1, <1>3, <1>7 DEF Consistent, AcceptedInv
<1>12. EndInv(q, e)
  BY <1>1, <1>3, <1>7 DEF Consistent, EndInv, Closed
<1>13. Good(q, acc, e)
  BY <1>8, <1>9, <1>10, <1>11, <1>12 DEF Good, Consistent
<1>14. /\ Good(OrchestratorTerminal(q, e, FALSE), acc, e)
       /\ Keeps(q, OrchestratorTerminal(q, e, FALSE))
  <2>1. e \in Assignments /\ e \in 0..N /\ FALSE \in BOOLEAN /\ (FALSE \/ Misnames \/ e \in acc)
    BY DEF Assignments
  <2>. QED BY <1>13, <2>1, TerminalKeeps
<1>. QED BY <1>5, <1>10, <1>14 DEF Keeps

-----------------------------------------------------------------------------
(* The monitor: one failure after the other.                               *)

FailIf(q, n, S) == IF n \in S THEN TaskFailed(q, n, FALSE) ELSE q

IsRun(f, p, S, n) ==
  f = [k \in 0..n |-> IF k = 0 THEN p ELSE FailIf(f[k - 1], k, S)]

\* By induction on the length of the run.
LEMMA RunExists ==
  ASSUME NEW p, NEW S PROVE \A n \in Nat : \E f : IsRun(f, p, S, n)
<1> DEFINE Bad == {n \in Nat : ~\E f : IsRun(f, p, S, n)}
<1> SUFFICES ASSUME Bad # {} PROVE FALSE
  OBVIOUS
<1>1. PICK n \in Bad : \A k \in Bad : ~(k < n)
  <2>1. Bad \in SUBSET Nat
    OBVIOUS
  <2> HIDE DEF Bad
  <2>. QED BY <2>1, LeastOf
<1>2. CASE n = 0
  <2>1. IsRun([k \in 0..0 |-> p], p, S, 0)
    BY DEF IsRun
  <2>. QED BY <1>2, <2>1
<1>3. CASE n # 0
  <2>1. n - 1 \in Nat /\ n - 1 \notin Bad
    BY <1>1, <1>3
  <2>2. PICK f : IsRun(f, p, S, n - 1)
    BY <2>1
  <2> DEFINE g == [k \in 0..n |-> IF k = n THEN FailIf(f[n - 1], n, S) ELSE f[k]]
  <2>3. \A k \in 0..(n - 1) : f[k] = IF k = 0 THEN p ELSE FailIf(f[k - 1], k, S)
    BY <2>2 DEF IsRun
  <2>4. \A k \in 0..n : g[k] = IF k = 0 THEN p ELSE FailIf(g[k - 1], k, S)
    <3>1. \A k \in 0..n : k # n => k \in 0..(n - 1)
      BY <1>1
    <3>2. \A k \in 1..n : k - 1 \in 0..(n - 1) /\ k - 1 \in 0..n /\ k - 1 # n
      BY <1>1
    <3>3. \A k \in 0..n : g[k] = IF k = n THEN FailIf(f[n - 1], n, S) ELSE f[k]
      OBVIOUS
    <3> HIDE DEF g
    <3>4. \A k \in 1..n : g[k - 1] = f[k - 1]
      BY <3>2, <3>3
    <3>. QED BY <1>3, <2>3, <3>1, <3>3, <3>4
  <2>5. IsRun(g, p, S, n)
    BY <2>4 DEF IsRun
  <2>. QED BY <2>5
<1>. QED BY <1>2, <1>3

LEMMA FailEachIs ==
  ASSUME NEW p, NEW S
  PROVE  \E f : IsRun(f, p, S, N) /\ FailEach(p, S) = f[N]
<1>1. N \in Nat
  OBVIOUS
<1>2. PICK f : IsRun(f, p, S, N)
  BY <1>1, RunExists
<1> DEFINE after == CHOOSE g : IsRun(g, p, S, N)
<1>3. IsRun(after, p, S, N)
  BY <1>2
<1>4. FailEach(p, S) = after[N]
  BY DEF FailEach, IsRun, FailIf
<1>. QED BY <1>3, <1>4

LEMMA FailEachKeeps ==
  ASSUME NEW p, NEW acc \in SUBSET Assignments, NEW e \in 0..N, Good(p, acc, e), NEW S
  PROVE  Good(FailEach(p, S), acc, e) /\ Keeps(p, FailEach(p, S))
<1>1. PICK f : IsRun(f, p, S, N) /\ FailEach(p, S) = f[N]
  BY FailEachIs
<1>2. \A n \in 0..N : f[n] = IF n = 0 THEN p ELSE FailIf(f[n - 1], n, S)
  BY <1>1 DEF IsRun
<1> DEFINE Kept(n) == Good(f[n], acc, e) /\ Keeps(p, f[n])
           Bad == {n \in 0..N : ~Kept(n)}
<1>3. Kept(0)
  BY <1>2 DEF Keeps
<1>4. ASSUME NEW n \in 1..N, Kept(n - 1) PROVE Kept(n)
  <2> DEFINE q == f[n - 1]
  <2>1. Good(q, acc, e) /\ Keeps(p, q)
    BY <1>4
  <2>2. f[n] = FailIf(q, n, S)
    BY <1>2
  <2> HIDE DEF q
  <2>3. Good(TaskFailed(q, n, FALSE), acc, e) /\ Keeps(q, TaskFailed(q, n, FALSE))
    BY <2>1, FailureKeeps DEF Assignments
  <2>. QED BY <2>1, <2>2, <2>3 DEF FailIf, Keeps
<1> HIDE DEF Kept
<1>5. Bad = {}
  <2> SUFFICES ASSUME Bad # {} PROVE FALSE
    OBVIOUS
  <2>1. PICK n \in Bad : \A k \in Bad : ~(k < n)
    <3>1. Bad \in SUBSET Nat
      OBVIOUS
    <3> HIDE DEF Bad
    <3>. QED BY <3>1, LeastOf
  <2>2. n \in 1..N /\ n - 1 \in 0..N /\ n - 1 < n
    BY <1>3, <2>1
  <2>3. Kept(n - 1)
    BY <2>1, <2>2
  <2>. QED BY <1>4, <2>1, <2>2, <2>3
<1>6. Kept(N)
  BY <1>5
<1>. QED BY <1>1, <1>6 DEF Kept

LEMMA ReapKeeps ==
  ASSUME NEW p, NEW acc \in SUBSET Assignments, NEW e \in 0..N, Good(p, acc, e)
  PROVE  Good(Reap(p), acc, e) /\ Keeps(p, Reap(p))
<1>1. CASE ~(p.active /\ Stale(p))
  BY <1>1 DEF Reap, Keeps
<1>2. CASE p.active /\ Stale(p) /\ AllTerminal(p)
  BY <1>2, FinalizeKeeps DEF Reap
<1>3. CASE p.active /\ Stale(p) /\ ~AllTerminal(p)
  BY <1>3, FailEachKeeps DEF Reap
<1>. QED BY <1>1, <1>2, <1>3

-----------------------------------------------------------------------------
(* What holds in every state.                                              *)

Accepted == {a \in Assignments : review[a].status = "accepted"}

\* What has been queued or started has a row, so that it has left the gate; so has
\* what was submitted under its own id.
Behind ==
  /\ \A a \in Assignments :
       review[a].status # "none" =>
         review[a].by # 0 /\ (~Misnames => plan.row[a] # "none" /\ review[a].by = a)
  /\ looping # 0 => plan.row[looping] # "none"
  /\ \A i \in 1..Len(queue) : plan.row[queue[i]] # "none"

OrchInv == TypeOK /\ Consistent(plan, Accepted, 0) /\ Behind

LEMMA OrchInit == Init => OrchInv
<1> SUFFICES ASSUME Init PROVE OrchInv
  OBVIOUS
<1>1. plan \in Plan
  BY DEF Init, Plan, Rows, ForAll, Assignments
<1>2. TypeOK
  <2>1. review \in [Assignments -> [status : {"none", "pending", "accepted", "rejected"}, by : 0..N]]
    BY DEF Init, ForAll
  <2>2. queue \in Seq(Assignments)
    BY DEF Init
  <2>3. judging \in [Assignments -> Nat]
    BY DEF Init, ForAll
  <2>4. plan.sent = <<>> /\ plan.lost = {} /\ looping \in 0..N /\ due \in BOOLEAN
    <3>1. plan.sent = <<>> /\ plan.lost = {}
      BY DEF Init
    <3>2. looping = 0 /\ 0 \in 0..N /\ due = FALSE
      BY DEF Init
    <3>. QED BY <3>1, <3>2
  <2>5. /\ rounds = [a \in Assignments |-> 0] /\ 0 \in 0..MaxRounds
        /\ submits = [a \in Assignments |-> 0] /\ 0 \in 0..MaxSubmits
    BY DEF Init, ForAll
  <2>6. /\ rounds \in [Assignments -> 0..MaxRounds]
        /\ submits \in [Assignments -> 0..MaxSubmits]
    BY <2>5
  <2>. QED BY <1>1, <2>1, <2>2, <2>3, <2>4, <2>6 DEF TypeOK
<1>3. Accepted = {}
  BY DEF Accepted, Init, ForAll
<1>4. Consistent(plan, {}, 0)
  BY DEF Init, ForAll, Consistent, Empty, GateInv, StagesInv, AcceptedInv, EndInv, Closed, SentInv, Terminal
<1>5. Behind
  BY DEF Init, ForAll, Behind
<1>. QED BY <1>2, <1>3, <1>4, <1>5 DEF OrchInv

\* Publishing what the events have made of the plan.
LEMMA PublishKeeps ==
  ASSUME NEW p, NEW acc \in SUBSET Assignments, Good(p, acc, 0), Keeps(plan, p),
         OrchInv, Publish(p)
  PROVE  /\ plan' \in Plan /\ plan'.sent = <<>> /\ plan'.lost = {} /\ Consistent(plan', acc, 0)
         /\ Keeps(plan, plan')
         /\ queue' \in Seq(Assignments)
         /\ \A i \in 1..Len(queue') : plan'.row[queue'[i]] # "none"
<1> DEFINE q == [p EXCEPT !.sent = <<>>, !.lost = {}]
<1>1. plan' = q /\ queue' = queue \o p.sent
  BY DEF Publish
<1>0. q = [p EXCEPT !.sent = <<>>, !.lost = {}]
  OBVIOUS
<1> HIDE DEF q
<1>2. p \in Plan /\ Consistent(p, acc, 0)
  BY DEF Good
<1>3. q = [task |-> p.task, active |-> p.active, members |-> p.members,
           chained |-> p.chained, parallel |-> p.parallel, progress |-> p.progress,
           failures |-> p.failures, idle |-> p.idle, waiting |-> p.waiting,
           inFlight |-> p.inFlight, gateFailed |-> p.gateFailed,
           row |-> p.row, stale |-> p.stale, lost |-> {}, agent |-> p.agent,
           sent |-> <<>>]
  BY <1>0, <1>2 DEF Plan
<1>4. q \in Plan /\ q.sent = <<>> /\ q.lost = {}
  <2>1. <<>> \in Seq(Assignments)
    OBVIOUS
  <2>. QED BY <1>2, <1>3, <2>1 DEF Plan
<1>5. Consistent(q, acc, 0)
  BY <1>2, <1>3 DEF Consistent, Empty, GateInv, StagesInv, AcceptedInv, EndInv, Closed, SentInv
<1>6. Keeps(plan, q)
  BY <1>3 DEF Keeps
<1>7. queue \in Seq(Assignments) /\ p.sent \in Seq(Assignments)
  BY <1>2 DEF OrchInv, TypeOK, Plan
<1>8. queue \o p.sent \in Seq(Assignments)
  BY <1>7, ConcatProperties
<1>9. \A i \in 1..Len(queue \o p.sent) : q.row[(queue \o p.sent)[i]] # "none"
  <2> DEFINE s == p.sent
             r == queue \o p.sent
  <2>1. \A i \in 1..Len(queue) : queue[i] \in Assignments /\ q.row[queue[i]] # "none"
    BY <1>6, <1>7, ElementOfSeq DEF OrchInv, Behind, Keeps
  <2>2. \A i \in 1..Len(s) : q.row[s[i]] # "none"
    BY <1>2, <1>3 DEF Consistent, SentInv
  <2>3. \A i \in 1..Len(r) : \/ i \in 1..Len(queue) /\ r[i] = queue[i]
                             \/ i - Len(queue) \in 1..Len(s) /\ r[i] = s[i - Len(queue)]
    BY <1>7
  <2> HIDE DEF r, s
  <2>4. \A i \in 1..Len(r) : q.row[r[i]] # "none"
    BY <2>1, <2>2, <2>3
  <2>. QED BY <2>4 DEF r
<1>. QED BY <1>1, <1>4, <1>5, <1>6, <1>8, <1>9

\* A step that changes no review, submission or judge.
LEMMA QuietStep ==
  ASSUME NEW p, p = plan', p \in Plan, p.sent = <<>>, p.lost = {}, Consistent(p, Accepted, 0),
         Keeps(plan, p), OrchInv, UNCHANGED <<submits, review, judging>>,
         rounds' \in [Assignments -> 0..MaxRounds], due' \in BOOLEAN,
         queue' \in Seq(Assignments), \A i \in 1..Len(queue') : p.row[queue'[i]] # "none",
         looping' \in 0..N, looping' # 0 => p.row[looping'] # "none"
  PROVE  OrchInv'
<1>1. Accepted' = Accepted
  BY DEF Accepted
<1>2. TypeOK'
  BY DEF OrchInv, TypeOK
<1>3. Behind'
  BY DEF OrchInv, Behind, Keeps
<1>4. Consistent(plan', Accepted', 0)
  BY <1>1
<1>. QED BY <1>2, <1>3, <1>4 DEF OrchInv

\* A step that publishes, in which no loop is started.
LEMMA PublishStep ==
  ASSUME NEW p, Good(p, Accepted, 0), Keeps(plan, p), OrchInv, Publish(p),
         UNCHANGED <<rounds, submits, review, judging>>, due' \in BOOLEAN,
         looping' \in {0, looping}
  PROVE  OrchInv'
<1>1. /\ plan' \in Plan /\ plan'.sent = <<>> /\ plan'.lost = {}
      /\ Consistent(plan', Accepted, 0)
      /\ Keeps(plan, plan')
      /\ queue' \in Seq(Assignments)
      /\ \A i \in 1..Len(queue') : plan'.row[queue'[i]] # "none"
  <2>1. Accepted \in SUBSET Assignments
    BY DEF Accepted
  <2>. QED BY <2>1, PublishKeeps
<1>2. looping' \in 0..N /\ (looping' # 0 => plan'.row[looping'] # "none")
  <2>1. looping \in 0..N /\ (looping # 0 => looping \in Assignments /\ plan.row[looping] # "none")
    BY DEF OrchInv, TypeOK, Behind, Assignments
  <2>. QED BY <1>1, <2>1 DEF Keeps
<1>3. rounds' \in [Assignments -> 0..MaxRounds]
  BY DEF OrchInv, TypeOK
<1>. QED BY <1>1, <1>2, <1>3, QuietStep

-----------------------------------------------------------------------------
(* The actions.                                                            *)

\* The statements a step loses are no part of the invariant.
LEMMA LosingKeeps ==
  ASSUME OrchInv, NEW lost \in SUBSET Statements, NEW p, p = Losing(lost)
  PROVE  /\ p \in Plan /\ p.sent = <<>> /\ Good(p, Accepted, 0)
         /\ Accepted \in SUBSET Assignments
         /\ p.row = plan.row /\ p.agent = plan.agent /\ Keeps(plan, p)
<1>1. plan \in Plan /\ plan.sent = <<>> /\ Consistent(plan, Accepted, 0)
  BY DEF OrchInv, TypeOK
<1>2. p = [task |-> plan.task, active |-> plan.active, members |-> plan.members,
           chained |-> plan.chained, parallel |-> plan.parallel, progress |-> plan.progress,
           failures |-> plan.failures, idle |-> plan.idle, waiting |-> plan.waiting,
           inFlight |-> plan.inFlight, gateFailed |-> plan.gateFailed,
           row |-> plan.row, stale |-> plan.stale, lost |-> lost, agent |-> plan.agent,
           sent |-> plan.sent]
  BY <1>1 DEF Losing, Plan
<1>3. p \in Plan
  BY <1>1, <1>2 DEF Plan
<1>4. Consistent(p, Accepted, 0)
  BY <1>1, <1>2
     DEF Consistent, Empty, GateInv, StagesInv, AcceptedInv, EndInv, Closed, SentInv
<1>. QED BY <1>1, <1>2, <1>3, <1>4 DEF Good, Keeps, Accepted

\* An event that sets fields of the plan and disturbs nothing the invariant says.
LEMMA ReceiveDirectStep ==
  ASSUME NEW lost \in SUBSET Statements PROVE OrchInv /\ ReceiveDirect(lost) => OrchInv'
<1> SUFFICES ASSUME OrchInv, ReceiveDirect(lost) PROVE OrchInv'
  OBVIOUS
<1> DEFINE progress == [plan.progress EXCEPT ![1] = "pending"]
           agent == [plan.agent EXCEPT ![1] = "running"]
           task == IF Fails(Losing(lost), "insert", 0) THEN "none" ELSE "running"
           p == [plan EXCEPT !.lost = lost, !.active = TRUE, !.task = task, !.members = {1},
                             !.progress = progress, !.agent = agent]
<1>1. /\ plan \in Plan /\ Consistent(plan, Accepted, 0) /\ plan.members = {}
      /\ Accepted \in SUBSET Assignments
  BY DEF OrchInv, TypeOK, ReceiveDirect, Accepted
<1>2. /\ progress \in [Assignments -> {"none", "pending"} \cup Terminal]
      /\ agent \in [Assignments -> {"none", "ready", "running", "expelled", "gone"}]
  BY <1>1 DEF Plan
<1>3. /\ \A a \in Assignments : progress[a] = IF a = 1 THEN "pending" ELSE plan.progress[a]
      /\ \A a \in Assignments : agent[a] = IF a = 1 THEN "running" ELSE plan.agent[a]
  BY <1>1 DEF Plan
<1>4. Publish(p)
  BY <1>1 DEF ReceiveDirect, Arrived, Losing, Plan
<1>5. p = [plan EXCEPT !.lost = lost, !.active = TRUE, !.task = task, !.members = {1},
                       !.progress = progress, !.agent = agent]
  OBVIOUS
<1>0. task \in {"none", "running"}
  OBVIOUS
<1> HIDE DEF p, progress, agent, task
<1>6. p = [task |-> task, active |-> TRUE, members |-> {1},
           chained |-> plan.chained, parallel |-> plan.parallel, progress |-> progress,
           failures |-> plan.failures, idle |-> plan.idle, waiting |-> plan.waiting,
           inFlight |-> plan.inFlight, gateFailed |-> plan.gateFailed,
           row |-> plan.row, stale |-> plan.stale, lost |-> lost, agent |-> agent,
           sent |-> plan.sent]
  BY <1>1, <1>5 DEF Plan
<1>7. p \in Plan
  <2>1. {1} \in SUBSET Assignments
    BY DEF Assignments
  <2>. QED BY <1>0, <1>1, <1>2, <1>6, <2>1 DEF Plan
<1>8. \A a \in Assignments : plan.row[a] = "none"
  BY <1>1 DEF Consistent, Empty
<1>9. ~Misnames => Accepted = {}
  BY <1>8 DEF OrchInv, Behind, Accepted
<1>10. Consistent(p, Accepted, 0)
  <2>1. Empty(p) /\ GateInv(p, Accepted) /\ StagesInv(p, Accepted) /\ SentInv(p)
    BY <1>1, <1>6 DEF Consistent, Empty, GateInv, StagesInv, SentInv
  <2>2. AcceptedInv(p, Accepted)
    BY <1>0, <1>1, <1>3, <1>6, <1>9 DEF Consistent, AcceptedInv
  <2>3. EndInv(p, 0)
    BY <1>6, <1>8 DEF EndInv, Closed, Ended
  <2>. QED BY <2>1, <2>2, <2>3 DEF Consistent
<1>11. Good(p, Accepted, 0) /\ Keeps(plan, p)
  BY <1>6, <1>7, <1>10 DEF Good, Keeps
<1>. QED BY <1>4, <1>11, PublishStep DEF ReceiveDirect, loops, reviews, OrchInv, TypeOK

LEMMA ReceiveDecomposedStep ==
  ASSUME NEW lost \in SUBSET Statements PROVE OrchInv /\ ReceiveDecomposed(lost) => OrchInv'
<1> SUFFICES ASSUME OrchInv, ReceiveDecomposed(lost) PROVE OrchInv'
  OBVIOUS
<1>1. /\ plan \in Plan /\ Consistent(plan, Accepted, 0) /\ plan.members = {}
      /\ Accepted \in SUBSET Assignments
  BY DEF OrchInv, TypeOK, ReceiveDecomposed, Accepted
<1>2. PICK chained \in BOOLEAN, parallel \in 1..N :
        Publish(Pump([Arrived(lost) EXCEPT !.members = Assignments, !.waiting = Assignments,
                                           !.chained = chained, !.parallel = parallel,
                                           !.agent = ForAll("ready")]))
  BY DEF ReceiveDecomposed
<1> DEFINE task == IF Fails(Losing(lost), "insert", 0) THEN "none" ELSE "running"
           p == [plan EXCEPT !.lost = lost, !.active = TRUE, !.task = task,
                             !.members = Assignments, !.waiting = Assignments,
                             !.chained = chained, !.parallel = parallel,
                             !.agent = ForAll("ready")]
<1>0. task \in {"none", "running"}
  OBVIOUS
<1>3. p = [plan EXCEPT !.lost = lost, !.active = TRUE, !.task = task,
                       !.members = Assignments, !.waiting = Assignments,
                       !.chained = chained, !.parallel = parallel, !.agent = ForAll("ready")]
  OBVIOUS
<1>4. Publish(Pump(p))
  BY <1>1, <1>2 DEF Arrived, Losing, Plan
<1> HIDE DEF p, task
<1>5. p = [task |-> task, active |-> TRUE, members |-> Assignments,
           chained |-> chained, parallel |-> parallel, progress |-> plan.progress,
           failures |-> plan.failures, idle |-> plan.idle, waiting |-> Assignments,
           inFlight |-> plan.inFlight, gateFailed |-> plan.gateFailed,
           row |-> plan.row, stale |-> plan.stale, lost |-> lost, agent |-> ForAll("ready"),
           sent |-> plan.sent]
  BY <1>1, <1>3 DEF Plan
<1>6. /\ ForAll("ready") \in [Assignments -> {"none", "ready", "running", "expelled", "gone"}]
      /\ \A a \in Assignments : ForAll("ready")[a] = "ready"
  BY DEF ForAll
<1>7. p \in Plan
  BY <1>0, <1>1, <1>5, <1>6 DEF Plan
<1>8. \A a \in Assignments : plan.row[a] = "none"
  BY <1>1 DEF Consistent, Empty
<1>9. ~Misnames => Accepted = {}
  BY <1>8 DEF OrchInv, Behind, Accepted
<1>10. Consistent(p, Accepted, 0)
  <2>1. Empty(p)
    BY <1>5 DEF Empty, Assignments
  <2>4. GateInv(p, Accepted) /\ StagesInv(p, Accepted)
    BY <1>5, <1>8, <1>9 DEF GateInv, StagesInv
  <2>5. SentInv(p)
    BY <1>1, <1>5 DEF Consistent, SentInv
  <2>2. AcceptedInv(p, Accepted)
    BY <1>0, <1>1, <1>5, <1>9 DEF Consistent, AcceptedInv
  <2>3. EndInv(p, 0)
    BY <1>5, <1>8 DEF EndInv, Closed, Ended
  <2>. QED BY <2>1, <2>2, <2>3, <2>4, <2>5 DEF Consistent
<1>11. Good(p, Accepted, 0) /\ Keeps(plan, p)
  BY <1>5, <1>7, <1>10 DEF Good, Keeps
<1>12. Good(Pump(p), Accepted, 0) /\ Keeps(p, Pump(p))
  BY <1>1, <1>11, PumpKeeps
<1>13. Keeps(plan, Pump(p))
  BY <1>11, <1>12 DEF Keeps
<1>. QED BY <1>4, <1>12, <1>13, PublishStep DEF ReceiveDecomposed, loops, reviews, OrchInv, TypeOK

LEMMA CancelStep ==
  ASSUME NEW lost \in SUBSET Statements PROVE OrchInv /\ Cancel(lost) => OrchInv'
<1> SUFFICES ASSUME OrchInv, Cancel(lost) PROVE OrchInv'
  OBVIOUS
<1>1. plan \in Plan /\ plan.sent = <<>> /\ plan.lost = {} /\ Consistent(plan, Accepted, 0)
  BY DEF OrchInv, TypeOK
<1>2. plan' = [plan EXCEPT !.task = "cancelled"]
  BY DEF Cancel
<1>3. plan' = [task |-> "cancelled", active |-> plan.active, members |-> plan.members,
           chained |-> plan.chained, parallel |-> plan.parallel, progress |-> plan.progress,
           failures |-> plan.failures, idle |-> plan.idle, waiting |-> plan.waiting,
           inFlight |-> plan.inFlight, gateFailed |-> plan.gateFailed,
           row |-> plan.row, stale |-> plan.stale, lost |-> plan.lost, agent |-> plan.agent,
           sent |-> plan.sent]
  BY <1>1, <1>2 DEF Plan
<1>4. plan' \in Plan
  BY <1>1, <1>3 DEF Plan
<1>5. Consistent(plan', Accepted, 0)
  BY <1>1, <1>3 DEF Consistent, Empty, GateInv, StagesInv, AcceptedInv, EndInv, Closed, SentInv
<1>6. Keeps(plan, plan')
  BY <1>3 DEF Keeps
<1>7. plan'.row = plan.row /\ plan'.sent = <<>> /\ plan'.lost = {}
  BY <1>1, <1>3
<1>. QED BY <1>4, <1>5, <1>6, <1>7, QuietStep DEF OrchInv, TypeOK, Behind, Cancel, loops, reviews

LEMMA DriveStep ==
  ASSUME NEW lost \in SUBSET Statements PROVE OrchInv /\ Drive(lost) => OrchInv'
<1> SUFFICES ASSUME OrchInv, Drive(lost) PROVE OrchInv'
  OBVIOUS
<1> DEFINE a == Head(queue)
           row == MarkStarted(Losing(lost), a).row
<1>1. plan \in Plan /\ plan.sent = <<>> /\ plan.lost = {} /\ Consistent(plan, Accepted, 0)
  BY DEF OrchInv, TypeOK
<1>2. queue \in Seq(Assignments) /\ queue # <<>>
  BY DEF OrchInv, TypeOK, Drive
<1>3. /\ a \in Assignments /\ plan.row[a] # "none"
      /\ Tail(queue) \in Seq(Assignments)
      /\ \A i \in 1..Len(Tail(queue)) : i + 1 \in 1..Len(queue) /\ Tail(queue)[i] = queue[i + 1]
                                        /\ Tail(queue)[i] \in Assignments
  BY <1>2 DEF OrchInv, Behind
<1>4. plan.row \in [Assignments -> Rows]
  BY <1>1 DEF Plan
<1>5. /\ row \in [Assignments -> Rows]
      /\ \A b \in Assignments : \/ row[b] = plan.row[b]
                                \/ plan.row[b] = "assigned" /\ row[b] = "in_progress"
  BY <1>1, <1>3, <1>4 DEF MarkStarted, Losing, Rows, Plan
<1>6. plan' = [plan EXCEPT !.row = row]
  <2>1. plan' = [MarkStarted(Losing(lost), a) EXCEPT !.lost = {}]
    BY DEF Drive
  <2>2. MarkStarted(Losing(lost), a) = [plan EXCEPT !.lost = lost, !.row = row]
    BY <1>1 DEF MarkStarted, Losing, Plan
  <2> HIDE DEF row
  <2>. QED BY <1>1, <2>1, <2>2 DEF Plan
<1>7. looping' \in {0, a}
  BY DEF Drive
<1>8. queue' = Tail(queue) /\ UNCHANGED <<rounds, submits, review, judging, due>>
  BY DEF Drive, loops, reviews
<1> HIDE DEF a, row
<1>9. plan' = [task |-> plan.task, active |-> plan.active, members |-> plan.members,
           chained |-> plan.chained, parallel |-> plan.parallel, progress |-> plan.progress,
           failures |-> plan.failures, idle |-> plan.idle, waiting |-> plan.waiting,
           inFlight |-> plan.inFlight, gateFailed |-> plan.gateFailed,
           row |-> row, stale |-> plan.stale, lost |-> plan.lost, agent |-> plan.agent,
           sent |-> plan.sent]
  BY <1>1, <1>6 DEF Plan
<1>10. plan' \in Plan /\ plan'.sent = <<>> /\ plan'.lost = {}
  BY <1>1, <1>5, <1>9 DEF Plan
<1>11. \A b \in Assignments : /\ row[b] = "none" <=> plan.row[b] = "none"
                              /\ plan.row[b] \in Ended => row[b] \in Ended
  BY <1>5 DEF Ended, Terminal
<1>12. plan.waiting \subseteq Assignments /\ plan.members \subseteq Assignments
  BY <1>1 DEF Plan
<1>13. Keeps(plan, plan')
  BY <1>9, <1>11 DEF Keeps
<1>14. Consistent(plan', Accepted, 0)
  <2>1. Empty(plan') /\ GateInv(plan', Accepted) /\ AcceptedInv(plan', Accepted)
    BY <1>1, <1>9, <1>11, <1>12 DEF Consistent, Empty, GateInv, AcceptedInv
  <2>2. StagesInv(plan', Accepted)
    BY <1>1, <1>9, <1>11 DEF Consistent, StagesInv
  <2>3. EndInv(plan', 0)
    BY <1>1, <1>9, <1>11, <1>12 DEF Consistent, EndInv, Closed
  <2>4. SentInv(plan')
    BY <1>10 DEF SentInv
  <2>. QED BY <2>1, <2>2, <2>3, <2>4 DEF Consistent
<1>15. \A i \in 1..Len(queue') : plan'.row[queue'[i]] # "none"
  BY <1>3, <1>8, <1>13 DEF OrchInv, Behind, Keeps
<1>16. looping' \in 0..N /\ (looping' # 0 => plan'.row[looping'] # "none")
  BY <1>3, <1>7, <1>13 DEF Keeps, Assignments
<1>17. rounds' \in [Assignments -> 0..MaxRounds] /\ due' \in BOOLEAN
  BY <1>8 DEF OrchInv, TypeOK
<1>. QED BY <1>3, <1>8, <1>10, <1>13, <1>14, <1>15, <1>16, <1>17, QuietStep

\* What the tracker and the monitor's clock do to how long an assignment is silent.
LEMMA IdleStep ==
  ASSUME NEW idle \in [Assignments -> 0..MaxIdle], plan' = [plan EXCEPT !.idle = idle],
         OrchInv, UNCHANGED <<queue, looping, submits, review, judging>>,
         rounds' \in [Assignments -> 0..MaxRounds], due' \in BOOLEAN
  PROVE  OrchInv'
<1>1. plan \in Plan /\ plan.sent = <<>> /\ plan.lost = {} /\ Consistent(plan, Accepted, 0)
  BY DEF OrchInv, TypeOK
<1>2. plan' = [task |-> plan.task, active |-> plan.active, members |-> plan.members,
           chained |-> plan.chained, parallel |-> plan.parallel, progress |-> plan.progress,
           failures |-> plan.failures, idle |-> idle, waiting |-> plan.waiting,
           inFlight |-> plan.inFlight, gateFailed |-> plan.gateFailed,
           row |-> plan.row, stale |-> plan.stale, lost |-> plan.lost, agent |-> plan.agent,
           sent |-> plan.sent]
  BY <1>1 DEF Plan
<1>3. plan' \in Plan
  BY <1>1, <1>2 DEF Plan
<1>4. Consistent(plan', Accepted, 0)
  BY <1>1, <1>2 DEF Consistent, Empty, GateInv, StagesInv, AcceptedInv, EndInv, Closed, SentInv
<1>5. Keeps(plan, plan') /\ plan'.row = plan.row /\ plan'.sent = <<>> /\ plan'.lost = {}
  BY <1>1, <1>2 DEF Keeps
<1>. QED BY <1>3, <1>4, <1>5, QuietStep DEF OrchInv, TypeOK, Behind

LEMMA IterateStep == OrchInv /\ Iterate => OrchInv'
<1> SUFFICES ASSUME OrchInv, Iterate PROVE OrchInv'
  OBVIOUS
<1>1. plan \in Plan /\ looping \in Assignments
  BY DEF OrchInv, TypeOK, Iterate, Assignments
<1> DEFINE idle == [plan.idle EXCEPT ![looping] = 0]
<1>2. idle \in [Assignments -> 0..MaxIdle]
  BY <1>1 DEF Plan
<1>3. plan' = [plan EXCEPT !.idle = idle]
  BY <1>1 DEF Iterate, Plan
<1>4. rounds' \in [Assignments -> 0..MaxRounds]
  BY <1>1 DEF OrchInv, TypeOK, Iterate
<1>5. due' \in BOOLEAN /\ UNCHANGED <<queue, looping, submits, review, judging>>
  BY DEF OrchInv, TypeOK, Iterate, reviews
<1> HIDE DEF idle
<1>. QED BY <1>2, <1>3, <1>4, <1>5, IdleStep

LEMMA TickStep == OrchInv /\ Tick => OrchInv'
<1> SUFFICES ASSUME OrchInv, Tick PROVE OrchInv'
  OBVIOUS
<1> DEFINE idle == [a \in Assignments |-> IF Tracked(plan, a) /\ plan.idle[a] < MaxIdle
                                            THEN plan.idle[a] + 1 ELSE plan.idle[a]]
<1>1. plan \in Plan
  BY DEF OrchInv, TypeOK
<1>2. idle \in [Assignments -> 0..MaxIdle]
  <2>1. plan.idle \in [Assignments -> 0..MaxIdle]
    BY <1>1 DEF Plan
  <2>2. \A x \in 0..MaxIdle : x < MaxIdle => x + 1 \in 0..MaxIdle
    OBVIOUS
  <2>. QED BY <2>1, <2>2
<1>3. plan' = [plan EXCEPT !.idle = idle]
  BY <1>1 DEF Tick, Plan
<1>4. /\ rounds' \in [Assignments -> 0..MaxRounds] /\ due' \in BOOLEAN
      /\ UNCHANGED <<queue, looping, submits, review, judging>>
  BY DEF OrchInv, TypeOK, Tick, loops, reviews
<1> HIDE DEF idle
<1>. QED BY <1>2, <1>3, <1>4, IdleStep

LEMMA LoopEndsStep ==
  ASSUME NEW failed \in BOOLEAN, NEW lost \in SUBSET Statements
  PROVE  OrchInv /\ LoopEnds(failed, lost) => OrchInv'
<1> SUFFICES ASSUME OrchInv, LoopEnds(failed, lost) PROVE OrchInv'
  OBVIOUS
<1>1. /\ plan \in Plan /\ Good(plan, Accepted, 0) /\ looping \in Assignments
      /\ Accepted \in SUBSET Assignments
  BY DEF OrchInv, TypeOK, Good, LoopEnds, Accepted, Assignments
<1>2. looping' = 0 /\ UNCHANGED <<rounds, submits, review, judging, due>>
  BY DEF LoopEnds, loops, reviews
<1>3. CASE UNCHANGED <<plan, queue>>
  <2>1. /\ plan' = plan /\ plan.sent = <<>> /\ plan.lost = {} /\ Consistent(plan, Accepted, 0)
        /\ Keeps(plan, plan)
    BY <1>3 DEF OrchInv, TypeOK, Keeps
  <2>2. /\ rounds' \in [Assignments -> 0..MaxRounds] /\ due' \in BOOLEAN
        /\ queue' \in Seq(Assignments) /\ \A i \in 1..Len(queue') : plan.row[queue'[i]] # "none"
    BY <1>2, <1>3 DEF OrchInv, TypeOK, Behind
  <2>3. looping' \in 0..N /\ looping' = 0
    BY <1>2
  <2>. QED BY <1>1, <1>2, <2>1, <2>2, <2>3, QuietStep
<1>4. CASE Publish(TaskFailed(Losing(lost), looping, FALSE))
  <2> DEFINE p == TaskFailed(Losing(lost), looping, FALSE)
  <2>1. Good(p, Accepted, 0) /\ Keeps(plan, p)
    <3>1. 0 \in 0..N /\ FALSE \in BOOLEAN /\ (FALSE => looping = 0)
      OBVIOUS
    <3>2. Good(Losing(lost), Accepted, 0) /\ Keeps(plan, Losing(lost))
      BY LosingKeeps
    <3>3. Good(p, Accepted, 0) /\ Keeps(Losing(lost), p)
      BY <1>1, <3>1, <3>2, FailureKeeps
    <3>. QED BY <3>2, <3>3 DEF Keeps
  <2>2. due' \in BOOLEAN
    BY <1>2 DEF OrchInv, TypeOK
  <2> HIDE DEF p
  <2>3. Publish(p)
    BY <1>4 DEF p
  <2>. QED BY <1>2, <2>1, <2>2, <2>3, PublishStep
<1>. QED BY <1>3, <1>4 DEF LoopEnds

LEMMA PollStep ==
  ASSUME NEW lost \in SUBSET Statements PROVE OrchInv /\ Poll(lost) => OrchInv'
<1> SUFFICES ASSUME OrchInv, Poll(lost) PROVE OrchInv'
  OBVIOUS
<1> DEFINE p == FailEach(Losing(lost), {a \in Assignments : plan.failures[a] = FailureLimit})
<1>1. /\ Good(Losing(lost), Accepted, 0) /\ Keeps(plan, Losing(lost))
      /\ Accepted \in SUBSET Assignments
  BY LosingKeeps
<1>2. Publish(Reap(p)) /\ due' = FALSE /\ UNCHANGED <<looping, rounds, submits, review, judging>>
  BY DEF Poll, loops, reviews
<1>3. Good(p, Accepted, 0) /\ Keeps(Losing(lost), p)
  BY <1>1, FailEachKeeps
<1> HIDE DEF p
<1>4. Good(Reap(p), Accepted, 0) /\ Keeps(p, Reap(p))
  BY <1>1, <1>3, ReapKeeps
<1>5. Keeps(plan, Reap(p))
  BY <1>1, <1>3, <1>4 DEF Keeps
<1>. QED BY <1>2, <1>4, <1>5, PublishStep

\* An agent is made something other than running.
AgentSet(p, a, v) == [p EXCEPT !.agent = [@ EXCEPT ![a] = v]]

LEMMA AgentSetKeeps ==
  ASSUME NEW p, NEW acc \in SUBSET Assignments, Good(p, acc, 0), NEW a \in Assignments,
         p.agent[a] = "running", NEW v \in {"ready", "expelled"}
  PROVE  /\ Good(AgentSet(p, a, v), acc, 0) /\ AgentSet(p, a, v).row = p.row
         /\ AgentSet(p, a, v).agent[a] = v /\ AgentSet(p, a, v).sent = p.sent
         /\ AgentSet(p, a, v).lost = p.lost
<1> DEFINE agent == [p.agent EXCEPT ![a] = v]
           q == AgentSet(p, a, v)
<1>1. p \in Plan /\ Consistent(p, acc, 0)
  BY DEF Good
<1>2. /\ agent \in [Assignments -> {"none", "ready", "running", "expelled", "gone"}]
      /\ \A b \in Assignments : agent[b] = IF b = a THEN v ELSE p.agent[b]
  BY <1>1 DEF Plan
<1>3. q = [p EXCEPT !.agent = agent]
  BY <1>1 DEF AgentSet, Plan
<1> HIDE DEF q, agent
<1>4. q = [task |-> p.task, active |-> p.active, members |-> p.members,
           chained |-> p.chained, parallel |-> p.parallel, progress |-> p.progress,
           failures |-> p.failures, idle |-> p.idle, waiting |-> p.waiting,
           inFlight |-> p.inFlight, gateFailed |-> p.gateFailed,
           row |-> p.row, stale |-> p.stale, lost |-> p.lost, agent |-> agent,
           sent |-> p.sent]
  BY <1>1, <1>3 DEF Plan
<1>5. q \in Plan
  BY <1>1, <1>2, <1>4 DEF Plan
<1>6. /\ Empty(q) /\ GateInv(q, acc) /\ StagesInv(q, acc) /\ SentInv(q)
  BY <1>1, <1>2, <1>4 DEF Consistent, Empty, GateInv, StagesInv, SentInv
<1>7. AcceptedInv(q, acc)
  BY <1>1, <1>2, <1>4 DEF Consistent, AcceptedInv
<1>8. EndInv(q, 0)
  <2>1. p.members \subseteq Assignments
    BY <1>1 DEF Plan
  <2>. QED BY <1>1, <1>2, <1>4, <2>1 DEF Consistent, EndInv, Closed
<1>. QED BY <1>2, <1>4, <1>5, <1>6, <1>7, <1>8 DEF Good, Consistent, q

LEMMA ExpelStep ==
  ASSUME NEW a \in Assignments PROVE OrchInv /\ Expel(a) => OrchInv'
<1> SUFFICES ASSUME OrchInv, Expel(a) PROVE OrchInv'
  OBVIOUS
<1> DEFINE p == AgentSet(plan, a, "expelled")
<1>1. /\ plan \in Plan /\ plan.sent = <<>> /\ plan.lost = {} /\ Good(plan, Accepted, 0)
      /\ Accepted \in SUBSET Assignments /\ plan.agent[a] = "running"
  BY DEF OrchInv, TypeOK, Good, Accepted, Expel
<1>2. Good(p, Accepted, 0) /\ p.row = plan.row /\ p.sent = plan.sent /\ p.lost = plan.lost
  BY <1>1, AgentSetKeeps
<1>3. plan' = p
  BY <1>1 DEF Expel, Plan, AgentSet
<1>4. UNCHANGED <<queue, looping, rounds, submits, review, judging, due>>
  BY DEF Expel, loops, reviews
<1> HIDE DEF p
<1>5. p \in Plan /\ p.sent = <<>> /\ p.lost = {} /\ Consistent(p, Accepted, 0) /\ Keeps(plan, p)
  BY <1>1, <1>2 DEF Good, Keeps
<1>6. /\ rounds' \in [Assignments -> 0..MaxRounds] /\ due' \in BOOLEAN
      /\ queue' \in Seq(Assignments) /\ \A i \in 1..Len(queue') : p.row[queue'[i]] # "none"
      /\ looping' \in 0..N /\ (looping' # 0 => p.row[looping'] # "none")
  BY <1>2, <1>4 DEF OrchInv, TypeOK, Behind
<1>. QED BY <1>3, <1>4, <1>5, <1>6, QuietStep

LEMMA SubmitStep ==
  ASSUME NEW t \in Assignments PROVE OrchInv /\ Submit(t) => OrchInv'
<1> SUFFICES ASSUME OrchInv, Submit(t) PROVE OrchInv'
  OBVIOUS
<1> DEFINE new == [status |-> "pending", by |-> looping]
<1>1. /\ looping \in Assignments /\ plan.agent[looping] = "running"
      /\ ~Misnames => looping = t
      /\ UNCHANGED <<plan, queue, looping, rounds, due>>
  BY DEF Submit, OrchInv, TypeOK, Assignments
<1>2. /\ review \in [Assignments -> [status : {"none", "pending", "accepted", "rejected"}, by : 0..N]]
      /\ submits \in [Assignments -> 0..MaxSubmits] /\ judging \in [Assignments -> Nat]
  BY DEF OrchInv, TypeOK
<1>3. /\ review' \in [Assignments -> [status : {"none", "pending", "accepted", "rejected"}, by : 0..N]]
      /\ \A a \in Assignments : review'[a] = IF a = t THEN new ELSE review[a]
  <2>1. new \in [status : {"none", "pending", "accepted", "rejected"}, by : 0..N]
    BY <1>1 DEF Assignments
  <2>2. review' = [review EXCEPT ![t] = new]
    BY DEF Submit
  <2> HIDE DEF new
  <2>. QED BY <1>2, <2>1, <2>2
<1>4. submits' \in [Assignments -> 0..MaxSubmits]
  <2>1. submits[looping] + 1 \in 0..MaxSubmits
    BY <1>1, <1>2 DEF Submit
  <2>. QED BY <1>1, <1>2, <2>1 DEF Submit
<1>5. judging' \in [Assignments -> Nat]
  BY <1>2 DEF Submit
\* The agent of an accepted assignment runs no more, so that it submits no more.
<1>6. ~Misnames => Accepted' = Accepted
  <2>1. ~Misnames => t \notin Accepted
    BY <1>1 DEF OrchInv, Consistent, AcceptedInv
  <2>. QED BY <1>3, <2>1 DEF Accepted
<1>7. TypeOK'
  BY <1>1, <1>3, <1>4, <1>5 DEF OrchInv, TypeOK
<1>8. Behind'
  <2>1. looping # 0 /\ plan.row[looping] # "none" /\ new.by = looping
    BY <1>1 DEF OrchInv, Behind, Assignments
  <2>2. \A a \in Assignments :
          review'[a].status # "none" =>
            review'[a].by # 0 /\ (~Misnames => plan'.row[a] # "none" /\ review'[a].by = a)
    BY <1>1, <1>3, <2>1 DEF OrchInv, Behind
  <2>3. /\ looping' # 0 => plan'.row[looping'] # "none"
        /\ \A i \in 1..Len(queue') : plan'.row[queue'[i]] # "none"
    BY <1>1 DEF OrchInv, Behind
  <2>. QED BY <2>2, <2>3 DEF Behind
<1>9. Consistent(plan', Accepted', 0)
  <2>1. Consistent(plan, Accepted, 0)
    BY DEF OrchInv
  <2>2. CASE ~Misnames
    BY <1>1, <1>6, <2>1, <2>2
  <2>3. CASE Misnames
    BY <1>1, <2>1, <2>3 DEF Consistent, Empty, GateInv, StagesInv, AcceptedInv, EndInv, Closed, SentInv
  <2>. QED BY <2>2, <2>3
<1>. QED BY <1>7, <1>8, <1>9 DEF OrchInv

\* The verdict accepts what is pending: nothing else changes yet.
LEMMA AcceptedToo ==
  ASSUME NEW p, NEW acc \in SUBSET Assignments, Good(p, acc, 0), NEW t \in Assignments,
         Misnames \/ (p.row[t] # "none" /\ p.agent[t] # "running")
  PROVE  Good(p, acc \cup {t}, t)
<1>1. p \in Plan /\ Consistent(p, acc, 0) /\ p.members \subseteq Assignments
  BY DEF Good, Plan
<1>2. Empty(p) /\ SentInv(p)
  BY <1>1 DEF Consistent
<1>3. GateInv(p, acc \cup {t})
  BY <1>1 DEF Consistent, GateInv
<1>4. StagesInv(p, acc \cup {t})
  BY <1>1 DEF Consistent, StagesInv
<1>5. AcceptedInv(p, acc \cup {t})
  BY <1>1 DEF Consistent, AcceptedInv
<1>6. EndInv(p, t)
  <2>1. EndInv(p, 0) /\ \A a \in Assignments : a # 0
    BY <1>1 DEF Consistent, Assignments
  <2>. QED BY <1>1, <2>1 DEF EndInv, Closed
<1>. QED BY <1>1, <1>2, <1>3, <1>4, <1>5, <1>6 DEF Good, Consistent

\* The tool writes the row of the assignment that was reviewed.
LEMMA MarkKeeps ==
  ASSUME NEW p, NEW acc \in SUBSET Assignments, NEW t \in Assignments, Good(p, acc, t),
         NEW accepted \in BOOLEAN
  PROVE  Good(MarkReviewed(p, t, accepted), acc, 0) /\ Keeps(p, MarkReviewed(p, t, accepted))
<1> DEFINE q == MarkReviewed(p, t, accepted)
<1>1. p \in Plan /\ Consistent(p, acc, t)
  BY DEF Good
<1>2. Closes(p, q, t)
  BY <1>1, EndRowIs DEF MarkReviewed, Terminal
<1> HIDE DEF q
<1>3. /\ q.row \in [Assignments -> Rows] /\ q.stale \in SUBSET Assignments
      /\ \A b \in Assignments : q.row[b] = "none" <=> p.row[b] = "none"
      /\ \A b \in Assignments : b = t \/ Closed(p, b) => Closed(q, b)
  BY <1>2 DEF Closes
<1>4. q = [p EXCEPT !.row = q.row, !.stale = q.stale]
  BY <1>2 DEF Closes
<1> DEFINE row == q.row
           stale == q.stale
<1>5. row = q.row /\ stale = q.stale /\ q = [p EXCEPT !.row = row, !.stale = stale]
  BY <1>4
<1> HIDE DEF row, stale
<1>6. q = [task |-> p.task, active |-> p.active, members |-> p.members,
           chained |-> p.chained, parallel |-> p.parallel, progress |-> p.progress,
           failures |-> p.failures, idle |-> p.idle, waiting |-> p.waiting,
           inFlight |-> p.inFlight, gateFailed |-> p.gateFailed,
           row |-> row, stale |-> stale, lost |-> p.lost, agent |-> p.agent,
           sent |-> p.sent]
  BY <1>1, <1>5 DEF Plan
<1>7. q \in Plan
  BY <1>1, <1>3, <1>5, <1>6 DEF Plan
<1>8. /\ p.waiting \subseteq Assignments /\ p.members \subseteq Assignments
      /\ \A i \in 1..Len(p.sent) : p.sent[i] \in Assignments
  BY <1>1, ElementOfSeq DEF Plan
<1>9. Empty(q) /\ GateInv(q, acc) /\ AcceptedInv(q, acc)
  BY <1>1, <1>3, <1>6, <1>8 DEF Consistent, Empty, GateInv, AcceptedInv
<1>10. StagesInv(q, acc) /\ SentInv(q)
  BY <1>1, <1>3, <1>6, <1>8 DEF Consistent, StagesInv, SentInv
<1>11. EndInv(q, 0)
  <2>1. EndInv(p, t)
    BY <1>1 DEF Consistent
  <2>. QED BY <1>3, <1>6, <1>8, <2>1 DEF EndInv
<1>12. Keeps(p, q)
  BY <1>3 DEF Keeps
<1>. QED BY <1>7, <1>9, <1>10, <1>11, <1>12 DEF Good, Consistent, q

\* A judge of one submission is done; the plan changes to p, with what is accepted now.
LEMMA JudgedStep ==
  ASSUME NEW t \in Assignments, NEW accepted \in BOOLEAN, NEW p, OrchInv,
         review[t].status = "pending", judging' \in [Assignments -> Nat],
         review' = [review EXCEPT ![t].status = IF accepted THEN "accepted" ELSE "rejected"],
         Good(p, IF accepted THEN Accepted \cup {t} ELSE Accepted, 0), Keeps(plan, p),
         Publish(p), UNCHANGED <<looping, rounds, submits, due>>
  PROVE  OrchInv'
<1> DEFINE acc == IF accepted THEN Accepted \cup {t} ELSE Accepted
           status == IF accepted THEN "accepted" ELSE "rejected"
<1>1. review \in [Assignments -> [status : {"none", "pending", "accepted", "rejected"}, by : 0..N]]
  BY DEF OrchInv, TypeOK
<1>2. /\ review' \in [Assignments -> [status : {"none", "pending", "accepted", "rejected"}, by : 0..N]]
      /\ \A a \in Assignments : review'[a].status = (IF a = t THEN status ELSE review[a].status)
                                /\ review'[a].by = review[a].by
  BY <1>1
<1>3. Accepted' = acc
  BY <1>2 DEF Accepted
<1>4. acc \in SUBSET Assignments
  BY DEF Accepted
<1>5. Good(p, acc, 0)
  OBVIOUS
<1> HIDE DEF acc, status
<1>6. /\ plan' \in Plan /\ plan'.sent = <<>> /\ plan'.lost = {} /\ Consistent(plan', acc, 0)
      /\ Keeps(plan, plan')
      /\ queue' \in Seq(Assignments)
      /\ \A i \in 1..Len(queue') : plan'.row[queue'[i]] # "none"
  BY <1>4, <1>5, PublishKeeps
<1>8. TypeOK'
  BY <1>2, <1>6 DEF OrchInv, TypeOK
<1>9. Behind'
  <2>2. \A a \in Assignments :
          review'[a].status # "none" =>
            review'[a].by # 0 /\ (~Misnames => plan'.row[a] # "none" /\ review'[a].by = a)
    BY <1>2, <1>6 DEF OrchInv, Behind, Keeps
  <2>3. looping' # 0 => plan'.row[looping'] # "none"
    <3>1. looping' = looping /\ (looping # 0 => looping \in Assignments)
      BY DEF OrchInv, TypeOK, Assignments
    <3>2. looping # 0 => plan.row[looping] # "none"
      BY DEF OrchInv, Behind
    <3>. QED BY <1>6, <3>1, <3>2 DEF Keeps
  <2>. QED BY <1>6, <2>2, <2>3 DEF Behind
<1>10. Consistent(plan', Accepted', 0)
  BY <1>3, <1>6
<1>. QED BY <1>8, <1>9, <1>10 DEF OrchInv

LEMMA VerdictStep ==
  ASSUME NEW t \in Assignments, NEW accepted \in BOOLEAN, NEW lost \in SUBSET Statements
  PROVE  OrchInv /\ Verdict(t, accepted, lost) => OrchInv'
<1> SUFFICES ASSUME OrchInv, Verdict(t, accepted, lost) PROVE OrchInv'
  OBVIOUS
<1> DEFINE p == Losing(lost)
<1>1. /\ p \in Plan /\ Good(p, Accepted, 0) /\ Keeps(plan, p)
      /\ p.row = plan.row /\ p.agent = plan.agent /\ Accepted \in SUBSET Assignments
  BY LosingKeeps
<1> HIDE DEF p
<1>2. judging' \in [Assignments -> Nat] /\ UNCHANGED <<looping, rounds, submits, due>>
  BY DEF Verdict, loops, OrchInv, TypeOK
<1>3. CASE review[t].status # "pending"
  <2>1. UNCHANGED <<plan, queue, looping, rounds, submits, review, due>>
    BY <1>2, <1>3 DEF Verdict
  <2>2. TypeOK' /\ Behind'
    BY <1>2, <2>1 DEF OrchInv, TypeOK, Behind
  <2>3. Consistent(plan', Accepted', 0)
    BY <2>1 DEF OrchInv, Accepted
  <2>. QED BY <2>2, <2>3 DEF OrchInv
<1>4. CASE review[t].status = "pending"
  <2> DEFINE acc == IF accepted THEN Accepted \cup {t} ELSE Accepted
             by == review[t].by
             r == Reviewed(p, t, by, accepted)
  <2>1. by \in Assignments /\ (~Misnames => p.row[t] # "none" /\ by = t)
    <3>1. by \in 0..N
      BY DEF OrchInv, TypeOK
    <3>2. by # 0 /\ (~Misnames => p.row[t] # "none" /\ by = t)
      BY <1>1, <1>4 DEF OrchInv, Behind
    <3>3. N \in Nat
      BY ParametersAssumption
    <3>. QED BY <3>1, <3>2, <3>3 DEF Assignments
  <2>2. /\ review' = [review EXCEPT ![t].status = IF accepted THEN "accepted" ELSE "rejected"]
        /\ Publish(MarkReviewed(r, t, accepted))
    BY <1>4 DEF Verdict, p
  <2> HIDE DEF by
  <2>3. Good(r, acc, t) /\ Keeps(p, r)
    <3>1. CASE accepted
      <4>1. CASE p.agent[by] = "gone"
        <5>1. r = p /\ acc = Accepted \cup {t}
          BY <3>1, <4>1 DEF Reviewed
        <5>2. Misnames \/ (p.row[t] # "none" /\ p.agent[t] # "running")
          BY <2>1, <4>1
        <5>. QED BY <1>1, <5>1, <5>2, AcceptedToo DEF Keeps
      <4>2. CASE p.agent[by] # "gone"
        <5> DEFINE q == IF p.agent[by] = "running" THEN AgentSet(p, by, "ready") ELSE p
        <5>1. Good(q, Accepted, 0) /\ q.row = p.row /\ q.agent[by] # "running"
          BY <1>1, <2>1, AgentSetKeeps
        <5>2. [p EXCEPT !.agent[by] = IF @ = "running" THEN "ready" ELSE @] = q
          BY <1>1, <2>1 DEF AgentSet, Plan
        <5>3. r = TaskCompleted(q, t)
          BY <3>1, <4>2, <5>2 DEF Reviewed
        <5> HIDE DEF q
        <5>4. Misnames \/ (q.row[t] # "none" /\ q.agent[t] # "running")
          BY <2>1, <5>1
        <5>5. Good(q, acc, t)
          BY <1>1, <3>1, <5>1, <5>4, AcceptedToo
        <5>6. t \in acc /\ acc \in SUBSET Assignments
          BY <1>1, <3>1
        <5>7. Good(TaskCompleted(q, t), acc, t) /\ Keeps(q, TaskCompleted(q, t))
          BY <5>5, <5>6, CompletionKeeps
        <5>. QED BY <5>1, <5>3, <5>7 DEF Keeps
      <4>. QED BY <4>1, <4>2
    <3>2. CASE ~accepted
      <4>1. Good(p, Accepted, t) /\ acc = Accepted
        <5>1. p.members \subseteq Assignments /\ \A a \in Assignments : a # 0
          BY <1>1 DEF Plan, Assignments
        <5>2. EndInv(p, t)
          BY <1>1, <5>1 DEF Good, Consistent, EndInv, Closed
        <5>. QED BY <1>1, <3>2, <5>2 DEF Good, Consistent
      <4>2. t \in 0..N /\ TRUE \in BOOLEAN
        BY DEF Assignments
      <4>3. Good(TaskFailed(p, t, TRUE), Accepted, t) /\ Keeps(p, TaskFailed(p, t, TRUE))
        BY <1>1, <4>1, <4>2, FailureKeeps
      <4>. QED BY <3>2, <4>1, <4>3 DEF Reviewed, Keeps
    <3>. QED BY <3>1, <3>2
  <2>4. acc \in SUBSET Assignments
    BY <1>1
  <2> HIDE DEF r
  <2>5. /\ Good(MarkReviewed(r, t, accepted), acc, 0)
        /\ Keeps(r, MarkReviewed(r, t, accepted))
    <3> HIDE DEF acc
    <3>. QED BY <2>3, <2>4, MarkKeeps
  <2>6. Keeps(plan, MarkReviewed(r, t, accepted))
    BY <1>1, <2>3, <2>5 DEF Keeps
  <2>. QED BY <1>2, <1>4, <2>2, <2>5, <2>6, JudgedStep
<1>. QED BY <1>3, <1>4

LEMMA OrchStep == OrchInv /\ [Next]_vars => OrchInv'
<1> SUFFICES ASSUME OrchInv, [Next]_vars PROVE OrchInv'
  OBVIOUS
<1>1. CASE UNCHANGED vars
  <2>1. UNCHANGED <<plan, queue, looping, rounds, submits, review, judging, due>>
    BY <1>1 DEF vars
  <2>. QED BY <2>1 DEF OrchInv, TypeOK, Behind, Accepted
<1>2. ASSUME NEW lost \in Losses, Persisting(lost) PROVE OrchInv'
  <2>1. lost \in SUBSET Statements
    BY LossesAssumption
  <2>. QED BY <1>2, <2>1, ReceiveDirectStep, ReceiveDecomposedStep, CancelStep, DriveStep,
              LoopEndsStep, VerdictStep, PollStep DEF Persisting
<1>3. CASE Next
  BY <1>2, <1>3, IterateStep, SubmitStep, ExpelStep, TickStep DEF Next
<1>. QED BY <1>1, <1>3

LEMMA OrchSafety == Spec => []OrchInv
BY OrchInit, OrchStep, PTL DEF Spec

-----------------------------------------------------------------------------
(* What follows, for the tasks.                                            *)

LEMMA OrchImplies ==
  OrchInv => /\ TypeOK /\ EndedPlanLeavesNothing
             /\ ~Misnames => StagesInOrder /\ CompletedOnlyIfReviewed
<1> SUFFICES ASSUME OrchInv
             PROVE  /\ TypeOK /\ EndedPlanLeavesNothing
                    /\ ~Misnames => StagesInOrder /\ CompletedOnlyIfReviewed
  OBVIOUS
<1>1. TypeOK
  BY DEF OrchInv
<1>2. ~Misnames => StagesInOrder
  BY DEF OrchInv, Consistent, StagesInv, StagesInOrder, Accepted
<1>3. ~Misnames => CompletedOnlyIfReviewed
  BY DEF OrchInv, Consistent, AcceptedInv, CompletedOnlyIfReviewed, Accepted
<1>4. EndedPlanLeavesNothing
  <2>1. plan.members \subseteq Assignments /\ \A a \in Assignments : a # 0
    BY DEF OrchInv, TypeOK, Plan, Assignments
  <2>. QED BY <2>1 DEF OrchInv, Consistent, EndInv, Closed, EndedPlanLeavesNothing, Ended
<1>. QED BY <1>1, <1>2, <1>3, <1>4

\* A stage of a chain is dispatched only behind an accepted one, for any number of
\* assignments, any limit on those that run at once, and whatever fails, is cancelled,
\* expelled or reaped in between, if workers submit under their own ids
\* (dispatchGate.ts pump, onTerminal).
THEOREM StagesComeInOrder == ASSUME Misnames = FALSE PROVE Spec => []StagesInOrder
<1>1. OrchInv => StagesInOrder
  BY OrchImplies
<1>. QED BY <1>1, OrchSafety, PTL

\* No worker, no loop and no watchdog can declare a task done: one that ends as
\* completed has an accepted assignment, if workers submit under their own ids
\* (orchestrator.ts finalizeOrchestration).
THEOREM NothingCompletesUnreviewed ==
  ASSUME Misnames = FALSE PROVE Spec => []CompletedOnlyIfReviewed
<1>1. OrchInv => CompletedOnlyIfReviewed
  BY OrchImplies
<1>. QED BY <1>1, OrchSafety, PTL

\* An ended plan leaves no agent behind, and no open row but of an assignment the last
\* write of whose end was lost; nothing that comes late, from the queue, a loop, a judge
\* or the monitor, brings one back, under whatever id a worker submits and whatever
\* statements any step loses, to an account that changed or a database that failed
\* (subtaskDispatcher.ts, subtaskRepository.ts, orchestrator.ts finalizeOrchestration).
THEOREM NothingOutlivesThePlan == Spec => []EndedPlanLeavesNothing
BY OrchSafety, OrchImplies, PTL

-----------------------------------------------------------------------------
(* The specification of the run, in which a behaviour is one of the tasks  *)
(* or one of the shared memory.                                            *)

Proved == INSTANCE SharedMemory_proofs

LEMMA SameMemory ==
  /\ Memory!Init => Proved!Init
  /\ Memory!Next => Proved!Next
  /\ Proved!TypeOK => Memory!TypeOK
<1>1. Memory!Init => Proved!Init
  BY DEF Memory!Init, Proved!Init
<1>2. Memory!Next => Proved!Next
  <2>1. /\ \A k : Memory!Active(k) = Proved!Active(k) /\ Memory!Open(k) = Proved!Open(k)
        /\ \A a : Memory!RowsOf(a) = Proved!RowsOf(a)
    BY DEF Memory!Active, Proved!Active, Memory!Open, Proved!Open, Memory!RowsOf, Proved!RowsOf
  <2>2. \A S : Memory!Max(S) = Proved!Max(S) /\ Memory!Min(S) = Proved!Min(S)
    BY DEF Memory!Max, Proved!Max, Memory!Min, Proved!Min
  <2>3. \A k, claim : Memory!Opposed(k, claim) = Proved!Opposed(k, claim)
    BY <2>1 DEF Memory!Opposed, Proved!Opposed
  <2>4. \A k : Memory!Heard(k) = Proved!Heard(k)
    BY <2>1, <2>2 DEF Memory!Heard, Proved!Heard, Memory!Refused, Proved!Refused,
       Memory!FiledAbout, Proved!FiledAbout
  <2>5. \A k, claim : Memory!Write(k, claim) => Proved!Write(k, claim)
    <3>1. \A k, claim, S : Memory!Store(k, claim, S) => Proved!Store(k, claim, S)
      BY DEF Memory!Store, Proved!Store, Memory!Upsert, Proved!Upsert, Memory!Active,
         Proved!Active, Memory!Max, Proved!Max
    <3>2. \A S : Memory!Cardinality(S) = Proved!Cardinality(S)
      BY DEF Memory!Cardinality, Proved!Cardinality
    <3>. QED BY <2>3, <2>4, <3>1, <3>2 DEF Memory!Write, Proved!Write, Memory!Filed, Proved!Filed,
                Memory!Ruling, Proved!Ruling
  <2>6. /\ \A a : Memory!SwitchAccount(a) => Proved!SwitchAccount(a)
        /\ \A k, mayRule : Memory!FileByHand(k, mayRule) => Proved!FileByHand(k, mayRule)
        /\ Memory!FileForAlert => Proved!FileForAlert
        /\ \A i : Memory!Ages(i) => Proved!Ages(i)
    BY <2>1 DEF Memory!SwitchAccount, Proved!SwitchAccount, Memory!FileByHand,
       Proved!FileByHand, Memory!FileForAlert, Proved!FileForAlert, Memory!Ages, Proved!Ages,
       Memory!Refused, Proved!Refused, Memory!Filed, Proved!Filed, Memory!Ruling, Proved!Ruling
  <2>7. Memory!Sweep => Proved!Sweep
    BY DEF Memory!Sweep, Proved!Sweep, Memory!Stale, Proved!Stale
  <2>8. Memory!Restart => Proved!Restart
    BY <2>1, <2>2 DEF Memory!Restart, Proved!Restart, Memory!LastNumber, Proved!LastNumber
  <2>. QED BY <2>5, <2>6, <2>7, <2>8 DEF Memory!Next, Proved!Next, Memory!Claims, Proved!Claims
<1>3. Proved!TypeOK => Memory!TypeOK
  BY DEF Memory!TypeOK, Proved!TypeOK, Memory!Entry, Proved!Entry, Memory!Case, Proved!Case,
     Memory!Claims, Proved!Claims
<1>. QED BY <1>1, <1>2, <1>3

TeamInv == (part = "tasks" => OrchInv) /\ (part = "memory" => Proved!MemoryInv)

LEMMA TeamSafety ==
  ASSUME Proved!Parameters PROVE OneByOne => []TeamInv
<1>1. OneByOneInit => TeamInv
  BY OrchInit, Proved!MemoryInit, SameMemory DEF OneByOneInit, TeamInv
<1>2. TeamInv /\ [OneByOneNext]_<<part, tables, tasks, memory>> => TeamInv'
  <2> SUFFICES ASSUME TeamInv, [OneByOneNext]_<<part, tables, tasks, memory>> PROVE TeamInv'
    OBVIOUS
  <2>1. part' = part
    BY DEF OneByOneNext
  <2>2. part = "tasks" => [Next]_vars
    BY DEF OneByOneNext, TaskStep, Next, tasks
  <2>3. part = "memory" => [Proved!Next]_Proved!vars
    BY SameMemory DEF OneByOneNext, memory, Proved!vars
  <2>4. part = "tasks" => OrchInv'
    BY <2>2, OrchStep DEF TeamInv
  <2>5. part = "memory" => Proved!MemoryInv'
    BY <2>3, Proved!MemoryStep DEF TeamInv
  <2>. QED BY <2>1, <2>4, <2>5 DEF TeamInv
<1>. QED BY <1>1, <1>2, PTL DEF OneByOne

\* The state of each part keeps its type.
THEOREM TypesCorrect ==
  ASSUME Proved!Parameters PROVE OneByOne => []TypesOK
<1>1. TeamInv => TypesOK
  BY OrchImplies, Proved!MemoryImplies, SameMemory DEF TeamInv, TypesOK
<1>. QED BY <1>1, TeamSafety, PTL

\* The content an account reads was written under it, in the behaviours of the run
\* (globalWorkspace.ts read, ownedBy, persistEntry).
THEOREM RunContentStaysWithItsOwner ==
  ASSUME Proved!Parameters PROVE OneByOne => []OwnersReadTheirOwnContent
<1>1. Proved!OwnersReadTheirOwnContent => Memory!OwnersReadTheirOwnContent
  BY DEF Memory!OwnersReadTheirOwnContent, Proved!OwnersReadTheirOwnContent, Memory!Read, Proved!Read,
     Memory!Active, Proved!Active, Memory!Current, Proved!Current, Memory!RowsOf, Proved!RowsOf,
     Memory!Max, Proved!Max
<1>2. TeamInv => OwnersReadTheirOwnContent
  BY <1>1, Proved!MemoryImplies DEF TeamInv, OwnersReadTheirOwnContent
<1>. QED BY <1>2, TeamSafety, PTL

\* A conflict is never before two cases at once, in the behaviours of the run
\* (tribunal.ts fileCase).
THEOREM RunNoTwoTribunals ==
  ASSUME Proved!Parameters PROVE OneByOne => []OneOpenCase
<1>1. Proved!OneOpenCase => Memory!OneOpenCase
  BY DEF Memory!OneOpenCase, Proved!OneOpenCase, Memory!Open, Proved!Open,
     Memory!Cardinality, Proved!Cardinality
<1>2. TeamInv => OneOpenCase
  BY <1>1, Proved!MemoryImplies DEF TeamInv, OneOpenCase
<1>. QED BY <1>2, TeamSafety, PTL

\* A claim is turned into its opposite only by a ruling, in the behaviours of the run;
\* where the tasks go on, nothing is written (globalWorkspace.ts, arbitrationWiring.ts).
THEOREM RunReversalsAreRuled ==
  ASSUME Proved!Parameters PROVE OneByOne => NoSilentReversal
<1> DEFINE Next1 == [OneByOneNext]_<<part, tables, tasks, memory>>
           Ruled1 == [Proved!Ruled]_memory
<1>1. TeamInv /\ TeamInv' /\ Next1 => Ruled1
  <2> SUFFICES ASSUME TeamInv, TeamInv', Next1, memory' # memory PROVE Proved!Ruled
    OBVIOUS
  <2>1. part = "memory" /\ part' = part /\ Memory!Next
    BY DEF OneByOneNext
  <2>2. Proved!MemoryInv /\ Proved!MemoryInv' /\ Proved!Next
    BY <2>1, SameMemory DEF TeamInv
  <2>. QED BY <2>2, Proved!RuledStep
<1>2. OneByOne => [][Proved!Ruled]_memory
  BY <1>1, TeamSafety, PTL DEF OneByOne
<1>3. [][Proved!Ruled]_memory => NoSilentReversal
  <2>1. [Proved!Ruled]_memory =>
          [restarts' = restarts =>
             \A k \in Keys :
               (Memory!Active(k) # {} /\ Memory!Active(k)' # {}
                /\ entries[Memory!Current(k)].claim # (entries[Memory!Current(k)].claim)') =>
               \E i \in DOMAIN cases' \ DOMAIN cases : cases'[i].about = k]_Memory!vars
    BY DEF memory, Memory!vars, Proved!Ruled, Memory!Active, Proved!Active, Memory!Current,
       Proved!Current, Memory!Max, Proved!Max
  <2>. QED BY <2>1, PTL DEF NoSilentReversal, Memory!NoSilentReversal
<1>. QED BY <1>2, <1>3, PTL
=============================================================================
