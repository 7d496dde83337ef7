----------------------- MODULE DurableRecovery_proofs -----------------------
(***************************************************************************)
(* Proofs about DurableRecovery, for any set of loops, tasks of any        *)
(* length, any limits, and crashes at any moment.  That no resumption      *)
(* skips a step holds however often statements fail; what a resumption     *)
(* repeats, and what it leaves to a human, is proved of a database that    *)
(* works, and is false of one that does not.                               *)
(***************************************************************************)
EXTENDS MCDurableRecovery, TLAPS, FiniteSetTheorems

USE LoopsAssumption, LimitsAssumption, JournalAssumption

Journals == [Steps -> EffectRow]
Checkpoints == [iteration : 0..MaxIterations, known : SUBSET Steps]

-----------------------------------------------------------------------------
(* The rows of the journal.                                                *)

\* A status update keeps every row's type and start.
LEMMA UpdateEffect ==
  ASSUME NEW j \in Journals, NEW eid \in Nat, NEW status \in EffectStatuses
  PROVE  UpdateEffectStatus(j, eid, status) \in Journals
BY DEF UpdateEffectStatus, Journals, EffectRow

\* What the resolution of timed-out effects does to a row.
LEMMA ResolveTimedOut ==
  ASSUME NEW j \in Journals, NEW t \in Nat
  PROVE  /\ ResolveTimedOutEffects(j, t) \in Journals
         /\ \A s \in Steps :
              LET row == ResolveTimedOutEffects(j, t)[s]
              IN  /\ row.startedAt = j[s].startedAt
                  /\ row.status \in {"EXECUTING", "UNKNOWN"} =>
                       j[s].status \in {"EXECUTING", "UNKNOWN"}
                  /\ row.status = "EXECUTING" => t - j[s].startedAt <= JournalTimeout
BY DEF ResolveTimedOutEffects, Journals, EffectRow, EffectStatuses, Stale

-----------------------------------------------------------------------------
(* The inductive invariants.                                               *)

\* A loop that has not been started has left no trace.
Untouched ==
  \A l \in Loops : stage[l] = "none" =>
    /\ iter[l] = 0 /\ known[l] = {} /\ happened[l] = {}
    /\ l \notin hasRow /\ ckpt[l] = NoCheckpoint /\ parent[l] = l

\* A loop that is alive may complete an iteration; what it calls, or will call, its
\* conversation does not show as done; and what has returned has had its effect.
InStep ==
  \A l \in Loops :
    /\ stage[l] \in Living => iter[l] < MaxIterations
    /\ stage[l] \in InCall => step[l] \in Steps \ known[l]
    /\ stage[l] = "happened" => step[l] \in happened[l]
    /\ results[l] \subseteq happened[l] /\ todo[l] \cap known[l] = {}

\* A checkpoint is never ahead of its loop.
CheckpointBehind == \A l \in Loops : ckpt[l].known \subseteq known[l]

RecoveryInv == TypeOK /\ Untouched /\ InStep /\ CheckpointBehind /\ NoStepSkipped

\* While statements succeed, the checkpoint of a loop is that of its last iteration.
CheckpointCurrent == \A l \in hasRow : ckpt[l].known = known[l]

\* A loop that was resumed from another began where the other's last checkpoint
\* stood, and brings about nothing that this one shows as done; the other does
\* nothing any more.
ParentsAtRest ==
  \A l \in Loops : parent[l] # l =>
    /\ parent[l] \in hasRow /\ stage[parent[l]] \in {"finished", "dead"}
    /\ ckpt[parent[l]].known \subseteq known[l]
    /\ happened[l] \cap ckpt[parent[l]].known = {}

WorkingInv == CheckpointCurrent /\ ParentsAtRest /\ DoubtNeedsHuman

LEMMA RecoveryInit == Init => RecoveryInv /\ WorkingInv
<1> SUFFICES ASSUME Init PROVE RecoveryInv /\ WorkingInv
  OBVIOUS
<1>1. TypeOK
  BY DEF Init, TypeOK, NoCheckpoint, NoEffect, EffectRow, Strategies
<1>2. Untouched /\ InStep /\ CheckpointBehind /\ NoStepSkipped
  BY DEF Init, Untouched, InStep, CheckpointBehind, NoStepSkipped, NoCheckpoint, Living, InCall
<1>3. WorkingInv
  BY DEF Init, WorkingInv, CheckpointCurrent, ParentsAtRest, DoubtNeedsHuman
<1>. QED BY <1>1, <1>2, <1>3 DEF RecoveryInv

-----------------------------------------------------------------------------
(* What a restart does to each loop.                                       *)

Remains(l) ==
  /\ stage'[l] = IF stage[l] # "none" THEN "dead" ELSE "none"
  /\ known'[l] = known[l] /\ parent'[l] = parent[l] /\ task'[l] = task[l]
  /\ resumedAt'[l] = resumedAt[l]

ResumesFrom(l, p) ==
  /\ stage[l] = "none" /\ stage'[l] = "thinking" /\ p \in hasRow
  /\ known'[l] \in {{}, ckpt[p].known}
  /\ parent'[l] = p /\ task'[l] = task[p] /\ resumedAt'[l] = now
  /\ ~DbMayFail => /\ known'[l] = ckpt[p].known
                   /\ \A s \in Steps : journal'[p][s].status # "UNKNOWN"

\* A restart resolves the journals, or leaves them as they were.
LEMMA RestartJournal ==
  ASSUME TypeOK, Restart
  PROVE  /\ journal' \in [Loops -> Journals]
         /\ \A l \in Loops : \/ journal'[l] = ResolveTimedOutEffects(journal[l], now)
                             \/ DbMayFail /\ journal'[l] = journal[l]
<1>1. \A l \in Loops : ResolveTimedOutEffects(journal[l], now) \in Journals
  BY ResolveTimedOut DEF TypeOK, Journals
<1>. QED BY <1>1 DEF Restart, Attempted, TypeOK, Journals

\* A restart proposes to resume automatically only what has a row; if statements
\* succeed, only what has no unknown effect.
LEMMA RestartPlan ==
  ASSUME TypeOK, Restart
  PROVE  /\ plan' \in [Loops -> Strategies]
         /\ \A p \in Loops : plan'[p] = "AUTO_RESUME" =>
              /\ p \in hasRow
              /\ ~DbMayFail => \A s \in Steps : journal'[p][s].status # "UNKNOWN"
<1>1. PICK unread \in IF DbMayFail THEN SUBSET hasRow ELSE {{}} : plan' = Scan(unread)
  BY DEF Restart
<1>2. plan' \in [Loops -> Strategies]
  BY <1>1 DEF Scan, Classify, Strategies
<1>3. ASSUME NEW p \in Loops, plan'[p] = "AUTO_RESUME"
      PROVE  /\ p \in hasRow
             /\ ~DbMayFail => \A s \in Steps : journal'[p][s].status # "UNKNOWN"
  <2>1. p \in hasRow
    BY <1>1, <1>3 DEF Scan
  <2>2. ASSUME ~DbMayFail PROVE \A s \in Steps : journal'[p][s].status # "UNKNOWN"
    <3>1. plan'[p] = Classify(p, UnknownEffects(journal'[p]))
      BY <1>1, <2>1, <2>2 DEF Scan
    <3>2. UnknownEffects(journal'[p]) = {}
      BY <1>3, <3>1 DEF Classify
    <3>3. DOMAIN journal'[p] = Steps
      BY RestartJournal DEF Journals
    <3>. QED BY <3>2, <3>3 DEF UnknownEffects
  <2>. QED BY <2>1, <2>2
<1>. QED BY <1>2, <1>3

\* The loops in started are resumed as their children, from nothing where blank.
Resumption(started, child, blank) ==
  LET born == {child[p] : p \in started}
      From(l) == CHOOSE p \in started : child[p] = l
  IN /\ stage' = [l \in Loops |-> IF l \in born THEN "thinking"
                                  ELSE IF stage[l] # "none" THEN "dead"
                                  ELSE "none"]
     /\ known' = [l \in Loops |-> IF l \notin born THEN known[l]
                                  ELSE IF From(l) \in blank THEN {}
                                  ELSE Resumed(From(l))]
     /\ parent' = [l \in Loops |-> IF l \in born THEN From(l) ELSE parent[l]]
     /\ task' = [l \in Loops |-> IF l \in born THEN task[From(l)] ELSE task[l]]
     /\ resumedAt' = [l \in Loops |-> IF l \in born THEN now ELSE resumedAt[l]]

\* Every loop either remains what it was, or dies, or is a new one that is resumed
\* from a loop with a row.
LEMMA RestartFate ==
  ASSUME TypeOK, Restart
  PROVE  /\ stage' \in [Loops -> {"none", "finished", "dead"} \cup Living]
         /\ known' \in [Loops -> SUBSET Steps]
         /\ parent' \in [Loops -> Loops] /\ task' \in [Loops -> Loops]
         /\ resumedAt' \in [Loops -> Nat]
         /\ \A l \in Loops : Remains(l) \/ \E p \in Loops : ResumesFrom(l, p)
<1>a. PICK started \in SUBSET {l \in Loops : plan'[l] = "AUTO_RESUME"} :
        \E child \in Injection(started, {l \in Loops : stage[l] = "none"}) :
        \E blank \in IF DbMayFail THEN SUBSET started ELSE {{}} :
          Resumption(started, child, blank)
  BY DEF Restart, Resumption
<1>b. PICK child \in Injection(started, {l \in Loops : stage[l] = "none"}) :
        \E blank \in IF DbMayFail THEN SUBSET started ELSE {{}} :
          Resumption(started, child, blank)
  BY <1>a
<1>1. PICK blank \in IF DbMayFail THEN SUBSET started ELSE {{}} :
        Resumption(started, child, blank)
  BY <1>b
<1> DEFINE born == {child[p] : p \in started}
           From(l) == CHOOSE p \in started : child[p] = l
<1>2. child \in [started -> {l \in Loops : stage[l] = "none"}]
  BY DEF Injection
<1>3. \A l \in born : From(l) \in started /\ child[From(l)] = l
  OBVIOUS
<1>4. \A p \in started : /\ p \in Loops /\ p \in hasRow
                         /\ ~DbMayFail => \A s \in Steps : journal'[p][s].status # "UNKNOWN"
  BY RestartPlan
<1>5. \A l \in born : From(l) \in Loops /\ l \in Loops /\ stage[l] = "none"
  BY <1>2, <1>3, <1>4
<1>6. ~DbMayFail => blank = {}
  OBVIOUS
<1> HIDE DEF born, From
<1>7. /\ stage' = [l \in Loops |-> IF l \in born THEN "thinking"
                                   ELSE IF stage[l] # "none" THEN "dead"
                                   ELSE "none"]
      /\ known' = [l \in Loops |-> IF l \notin born THEN known[l]
                                   ELSE IF From(l) \in blank THEN {}
                                   ELSE Resumed(From(l))]
      /\ parent' = [l \in Loops |-> IF l \in born THEN From(l) ELSE parent[l]]
      /\ task' = [l \in Loops |-> IF l \in born THEN task[From(l)] ELSE task[l]]
      /\ resumedAt' = [l \in Loops |-> IF l \in born THEN now ELSE resumedAt[l]]
  BY <1>1 DEF Resumption, born, From
<1>8. stage' \in [Loops -> {"none", "finished", "dead"} \cup Living]
  BY <1>7 DEF TypeOK, Living
<1>9. known' \in [Loops -> SUBSET Steps]
  BY <1>5, <1>7 DEF TypeOK, Resumed
<1>10. /\ parent' \in [Loops -> Loops] /\ task' \in [Loops -> Loops]
       /\ resumedAt' \in [Loops -> Nat]
  BY <1>5, <1>7 DEF TypeOK
<1>11. ASSUME NEW l \in Loops, l \notin born PROVE Remains(l)
  BY <1>7, <1>11 DEF Remains
<1>12. ASSUME NEW l \in born PROVE ResumesFrom(l, From(l))
  BY <1>3, <1>4, <1>5, <1>6, <1>7 DEF ResumesFrom, Resumed
<1>. QED BY <1>5, <1>8, <1>9, <1>10, <1>11, <1>12

-----------------------------------------------------------------------------
(* The invariant that holds however often statements fail.                 *)

\* Effect identifiers are natural numbers.
LEMMA EffectIds ==
  ASSUME TypeOK, NEW l \in Loops, NEW s \in 0..MaxSteps
  PROVE  EffectId(l, s) \in Nat
<1>1. iter[l] \in Nat /\ s \in Nat /\ MaxSteps \in Nat
  BY DEF TypeOK
<1>2. iter[l] * MaxSteps \in Nat
  BY <1>1
<1>. QED BY <1>1, <1>2 DEF EffectId

\* Accepting an intent and marking a call keep the journal's type, and touch no
\* journal but the loop's own.
LEMMA IntentJournal ==
  ASSUME TypeOK, NEW l \in Loops, NEW s \in Steps, RecordIntent(l, s)
  PROVE  /\ journal' \in [Loops -> Journals]
         /\ \A k \in Loops \ {l} : journal'[k] = journal[k]
<1> DEFINE row == IntentRow(journal[l][s], EffectId(l, s), now)
<1>1. journal \in [Loops -> Journals] /\ EffectId(l, s) \in Nat
  BY EffectIds DEF TypeOK, Journals, Steps
<1>2. row \in EffectRow
  BY <1>1 DEF TypeOK, Journals, EffectRow, EffectStatuses, IntentRow
<1>3. journal' = journal \/ journal' = [journal EXCEPT ![l][s] = row]
  BY DEF RecordIntent
<1> HIDE DEF row
<1>. QED BY <1>1, <1>2, <1>3 DEF Journals

LEMMA MarkedJournal ==
  ASSUME TypeOK, NEW l \in Loops, NEW status \in EffectStatuses,
         journal' \in Attempted(Marked(l, status), journal)
  PROVE  /\ journal' \in [Loops -> Journals]
         /\ \A k \in Loops \ {l} : journal'[k] = journal[k]
<1> DEFINE j == UpdateEffectStatus(journal[l], EffectId(l, step[l]), status)
<1>1. journal \in [Loops -> Journals] /\ EffectId(l, step[l]) \in Nat
  BY EffectIds DEF TypeOK, Journals
<1>2. journal[l] \in Journals
  BY <1>1
<1>3. j \in Journals
  BY <1>1, <1>2, UpdateEffect
<1>4. journal' = journal \/ journal' = [journal EXCEPT ![l] = j]
  BY DEF Marked, Attempted
<1> HIDE DEF j
<1>. QED BY <1>1, <1>3, <1>4

\* A checkpoint shows what its loop has learned, or is not written.
LEMMA CheckpointWritten ==
  ASSUME TypeOK, NEW l \in Loops, WriteCheckpoint(l), iter[l] < MaxIterations
  PROVE  /\ hasRow' \in {hasRow, hasRow \cup {l}} /\ hasRow' \subseteq Loops
         /\ ckpt' \in [Loops -> Checkpoints]
         /\ \A k \in Loops \ {l} : ckpt'[k] = ckpt[k]
         /\ ckpt'[l] = ckpt[l] \/ ckpt'[l].known = Learned(l)
         /\ l \in hasRow' \/ ckpt'[l] = ckpt[l]
         /\ ~DbMayFail => ckpt'[l].known = Learned(l)
<1> DEFINE written == [iteration |-> iter[l] + 1, known |-> Learned(l)]
<1>1. written \in Checkpoints /\ ckpt \in [Loops -> Checkpoints] /\ hasRow \subseteq Loops
  BY DEF TypeOK, Checkpoints, Learned
<1>2. \/ hasRow' = hasRow \cup {l} /\ ckpt' = [ckpt EXCEPT ![l] = written]
      \/ DbMayFail /\ hasRow' = hasRow \cup {l} /\ ckpt' = ckpt
      \/ DbMayFail /\ l \notin hasRow /\ hasRow' = hasRow /\ ckpt' = ckpt
  BY DEF WriteCheckpoint, Attempted
<1>3. written.known = Learned(l)
  OBVIOUS
<1> HIDE DEF written
<1>. QED BY <1>1, <1>2, <1>3

LEMMA RecoveryStep == RecoveryInv /\ [Next]_vars => RecoveryInv'
<1> SUFFICES ASSUME RecoveryInv, [Next]_vars PROVE RecoveryInv'
  OBVIOUS
<1> USE DEF RecoveryInv
<1>1. ASSUME NEW l \in Loops, StartTask(l) PROVE RecoveryInv'
  <2>1. TypeOK'
    BY <1>1 DEF TypeOK, StartTask, Goes, Living, InCall, history, answer
  <2>2. Untouched' /\ InStep'
    BY <1>1 DEF StartTask, TypeOK, Goes, Living, InCall, Untouched, InStep, history, answer
  <2>3. CheckpointBehind' /\ NoStepSkipped'
    BY <1>1 DEF StartTask, CheckpointBehind, NoStepSkipped, history
  <2>. QED BY <2>1, <2>2, <2>3
<1>2. ASSUME NEW l \in Loops, NEW calls \in SUBSET (Steps \ known[l]), AskFor(l, calls)
      PROVE  RecoveryInv'
  <2>1. TypeOK'
    BY <1>2 DEF TypeOK, AskFor, Goes, Living, InCall, history
  <2>2. Untouched' /\ InStep'
    BY <1>2 DEF AskFor, TypeOK, Goes, Living, InCall, Untouched, InStep, history, answer
  <2>3. CheckpointBehind' /\ NoStepSkipped'
    BY <1>2 DEF AskFor, CheckpointBehind, NoStepSkipped, history
  <2>. QED BY <2>1, <2>2, <2>3
<1>3. ASSUME NEW l \in Loops, NEW s \in Steps, RecordIntent(l, s) PROVE RecoveryInv'
  <2>1. TypeOK'
    <3>1. journal' \in [Loops -> Journals]
      BY <1>3, IntentJournal
    <3>2. /\ todo' = [todo EXCEPT ![l] = @ \ {s}]
          /\ \/ step' = [step EXCEPT ![l] = s] /\ stage' = [stage EXCEPT ![l] = "intent"]
             \/ UNCHANGED <<step, stage>>
      BY <1>3 DEF RecordIntent, Goes
    <3>4. stage' \in [Loops -> {"none", "finished", "dead"} \cup Living]
      BY <3>2 DEF TypeOK, Living, InCall
    <3>5. todo' \in [Loops -> SUBSET Steps] /\ step' \in [Loops -> 0..MaxSteps]
      <4>1. s \in 0..MaxSteps
        BY DEF Steps
      <4>2. todo \in [Loops -> SUBSET Steps] /\ step \in [Loops -> 0..MaxSteps]
        BY DEF TypeOK
      <4>3. step' \in [Loops -> 0..MaxSteps]
        BY <3>2, <4>1, <4>2
      <4>. QED BY <3>2, <4>2, <4>3
    <3>3. UNCHANGED <<now, restarts, iter, known, results, hasRow, ckpt, plan, happened, history>>
      BY <1>3 DEF RecordIntent
    <3>. QED BY <3>1, <3>3, <3>4, <3>5 DEF TypeOK, history, Journals
  <2>2. Untouched' /\ InStep'
    <3>1. /\ UNCHANGED <<iter, known, results, hasRow, ckpt, happened, history>>
          /\ stage[l] = "calling" /\ s \in todo[l]
          /\ todo' = [todo EXCEPT ![l] = @ \ {s}]
      BY <1>3 DEF RecordIntent
    <3>2. \/ step' = [step EXCEPT ![l] = s] /\ stage' = [stage EXCEPT ![l] = "intent"]
          \/ UNCHANGED <<step, stage>>
      BY <1>3 DEF RecordIntent, Goes
    <3>. QED BY <3>1, <3>2 DEF TypeOK, Untouched, InStep, Living, InCall, history
  <2>3. CheckpointBehind' /\ NoStepSkipped'
    BY <1>3 DEF RecordIntent, CheckpointBehind, NoStepSkipped, history
  <2>. QED BY <2>1, <2>2, <2>3
<1>4. ASSUME NEW l \in Loops, MarkExecuting(l) PROVE RecoveryInv'
  <2>1. journal' \in [Loops -> Journals]
    BY <1>4, MarkedJournal DEF MarkExecuting, EffectStatuses
  <2>2. TypeOK'
    BY <1>4, <2>1 DEF TypeOK, MarkExecuting, Goes, Living, InCall, history, answer, Journals
  <2>3. Untouched' /\ InStep'
    BY <1>4 DEF MarkExecuting, TypeOK, Goes, Living, InCall, Untouched, InStep, history, answer
  <2>4. CheckpointBehind' /\ NoStepSkipped'
    BY <1>4 DEF MarkExecuting, CheckpointBehind, NoStepSkipped, history
  <2>. QED BY <2>2, <2>3, <2>4
<1>5. ASSUME NEW l \in Loops, EffectHappens(l) PROVE RecoveryInv'
  <2>1. step[l] \in Steps
    BY <1>5 DEF EffectHappens, InStep, InCall
  <2>2. TypeOK'
    BY <1>5, <2>1 DEF TypeOK, EffectHappens, Goes, Living, InCall, history, answer
  <2>3. Untouched' /\ InStep'
    BY <1>5 DEF EffectHappens, TypeOK, Goes, Living, InCall, Untouched, InStep, history, answer
  <2>4. CheckpointBehind' /\ NoStepSkipped'
    BY <1>5 DEF TypeOK, EffectHappens, CheckpointBehind, NoStepSkipped, history
  <2>. QED BY <2>2, <2>3, <2>4
<1>6. ASSUME NEW l \in Loops, CallSucceeds(l) PROVE RecoveryInv'
  <2>1. step[l] \in Steps /\ step[l] \in happened[l]
    BY <1>6 DEF CallSucceeds, InStep, InCall
  <2>2. journal' \in [Loops -> Journals]
    BY <1>6, MarkedJournal DEF CallSucceeds, EffectStatuses
  <2>3. TypeOK'
    <3>1. stage' \in [Loops -> {"none", "finished", "dead"} \cup Living]
      BY <1>6 DEF TypeOK, CallSucceeds, CallEnds, Goes, Living
    <3>2. step' \in [Loops -> 0..MaxSteps] /\ results' \in [Loops -> SUBSET Steps]
      BY <1>6, <2>1 DEF TypeOK, CallSucceeds, CallEnds
    <3>3. UNCHANGED <<now, restarts, iter, known, todo, hasRow, ckpt, plan, happened, history>>
      BY <1>6 DEF CallSucceeds, CallEnds
    <3>. QED BY <2>2, <3>1, <3>2, <3>3 DEF TypeOK, history, Journals
  <2>4. Untouched' /\ InStep'
    BY <1>6, <2>1 DEF CallSucceeds, CallEnds, TypeOK, Goes, Living, InCall, Untouched, InStep, history, answer
  <2>5. CheckpointBehind' /\ NoStepSkipped'
    BY <1>6 DEF CallSucceeds, CallEnds, CheckpointBehind, NoStepSkipped, history
  <2>. QED BY <2>3, <2>4, <2>5
<1>7. ASSUME NEW l \in Loops, CallFails(l) PROVE RecoveryInv'
  <2>1. journal' \in [Loops -> Journals]
    BY <1>7, MarkedJournal DEF CallFails, EffectStatuses
  <2>2. TypeOK'
    <3>1. stage' \in [Loops -> {"none", "finished", "dead"} \cup Living]
      BY <1>7 DEF TypeOK, CallFails, CallEnds, Goes, Living
    <3>2. step' \in [Loops -> 0..MaxSteps]
      BY <1>7 DEF TypeOK, CallFails, CallEnds
    <3>3. /\ UNCHANGED <<now, restarts, iter, known, todo, results, hasRow, ckpt, plan>>
          /\ UNCHANGED <<happened, history>>
      BY <1>7 DEF CallFails, CallEnds
    <3>. QED BY <2>1, <3>1, <3>2, <3>3 DEF TypeOK, history, Journals
  <2>3. Untouched' /\ InStep'
    BY <1>7 DEF CallFails, CallEnds, TypeOK, Goes, Living, InCall, Untouched, InStep, history, answer
  <2>4. CheckpointBehind' /\ NoStepSkipped'
    BY <1>7 DEF CallFails, CallEnds, CheckpointBehind, NoStepSkipped, history
  <2>. QED BY <2>2, <2>3, <2>4
<1>8. ASSUME NEW l \in Loops, EndIteration(l) PROVE RecoveryInv'
  <2>1. iter[l] < MaxIterations
    BY <1>8 DEF EndIteration, InStep, Living
  <2>2. /\ hasRow' \in {hasRow, hasRow \cup {l}} /\ hasRow' \subseteq Loops
        /\ ckpt' \in [Loops -> Checkpoints]
        /\ \A k \in Loops \ {l} : ckpt'[k] = ckpt[k]
        /\ ckpt'[l] = ckpt[l] \/ ckpt'[l].known = Learned(l)
        /\ l \in hasRow' \/ ckpt'[l] = ckpt[l]
    BY <1>8, <2>1, CheckpointWritten DEF EndIteration
  <2>3. /\ known' = [known EXCEPT ![l] = Learned(l)]
        /\ Learned(l) = known[l] \cup results[l] /\ results[l] \subseteq happened[l]
        /\ UNCHANGED <<now, restarts, todo, step, journal, plan, happened, history>>
    BY <1>8 DEF EndIteration, Learned, InStep
  <2>4. TypeOK'
    <3>1. stage' \in [Loops -> {"none", "finished", "dead"} \cup Living]
      BY <1>8 DEF TypeOK, EndIteration, Goes, Living
    <3>2. iter' \in [Loops -> 0..MaxIterations] /\ results' \in [Loops -> SUBSET Steps]
      BY <1>8, <2>1 DEF TypeOK, EndIteration
    <3>3. known' \in [Loops -> SUBSET Steps]
      BY <2>3 DEF TypeOK
    <3>. QED BY <2>2, <2>3, <3>1, <3>2, <3>3 DEF TypeOK, history, Checkpoints
  <2>5. Untouched'
    BY <1>8, <2>2, <2>3 DEF TypeOK, EndIteration, Goes, Untouched, history
  <2>6. InStep'
    BY <1>8, <2>1, <2>3 DEF TypeOK, EndIteration, MayContinue, Goes, Living, InCall, InStep
  <2>7. CheckpointBehind'
    <3>1. ASSUME NEW k \in Loops PROVE ckpt'[k].known \subseteq known'[k]
      <4>1. CASE k = l
        BY <2>2, <2>3, <4>1 DEF TypeOK, CheckpointBehind
      <4>2. CASE k # l
        BY <2>2, <2>3, <4>2 DEF TypeOK, CheckpointBehind
      <4>. QED BY <4>1, <4>2
    <3>. QED BY <3>1 DEF CheckpointBehind
  <2>8. NoStepSkipped'
    BY <2>3 DEF TypeOK, NoStepSkipped, history
  <2>. QED BY <2>4, <2>5, <2>6, <2>7, <2>8
<1>9. ASSUME NEW l \in Loops, FailLoop(l) PROVE RecoveryInv'
  <2>1. TypeOK'
    BY <1>9 DEF TypeOK, FailLoop, Goes, Living, history
  <2>2. Untouched' /\ InStep'
    BY <1>9 DEF FailLoop, TypeOK, Goes, Living, InCall, Untouched, InStep, history, answer
  <2>3. CheckpointBehind' /\ NoStepSkipped'
    BY <1>9 DEF FailLoop, CheckpointBehind, NoStepSkipped, history
  <2>. QED BY <2>1, <2>2, <2>3
<1>10. CASE Restart
  <2>1. /\ stage' \in [Loops -> {"none", "finished", "dead"} \cup Living]
        /\ known' \in [Loops -> SUBSET Steps]
        /\ parent' \in [Loops -> Loops] /\ task' \in [Loops -> Loops]
        /\ resumedAt' \in [Loops -> Nat]
        /\ \A l \in Loops : Remains(l) \/ \E p \in Loops : ResumesFrom(l, p)
    BY <1>10, RestartFate
  <2>2. /\ iter' = [l \in Loops |-> 0] /\ todo' = [l \in Loops |-> {}]
        /\ step' = [l \in Loops |-> 0] /\ results' = [l \in Loops |-> {}]
        /\ UNCHANGED <<now, hasRow, ckpt, happened>> /\ restarts' = restarts + 1
    BY <1>10 DEF Restart
  <2>3. TypeOK'
    BY <1>10, <2>1, <2>2, RestartJournal, RestartPlan DEF TypeOK, Journals
  <2>4. Untouched' /\ InStep'
    <3>1. ASSUME NEW l \in Loops, stage'[l] = "none" PROVE stage[l] = "none" /\ Remains(l)
      BY <2>1, <3>1 DEF Remains, ResumesFrom
    <3>2. Untouched'
      BY <2>2, <3>1 DEF Untouched, Remains
    <3>3. \A l \in Loops : stage'[l] \notin InCall
      BY <2>1 DEF Remains, ResumesFrom, InCall
    <3>4. \A l \in Loops : 0 < MaxIterations /\ iter'[l] = 0
      BY <2>2
    <3>. QED BY <2>2, <3>2, <3>3, <3>4 DEF InStep, InCall
  <2>5. CheckpointBehind'
    <3>1. ASSUME NEW l \in Loops PROVE ckpt[l].known \subseteq known'[l]
      <4>1. CASE Remains(l)
        BY <4>1 DEF Remains, CheckpointBehind
      <4>2. ASSUME NEW p \in Loops, ResumesFrom(l, p) PROVE ckpt[l].known = {}
        BY <4>2 DEF ResumesFrom, Untouched, NoCheckpoint
      <4>. QED BY <2>1, <4>1, <4>2
    <3>. QED BY <2>2, <3>1 DEF CheckpointBehind
  <2>6. ASSUME NEW l \in Loops, NEW s \in known'[l]
        PROVE  \E k \in Loops : task'[k] = task'[l] /\ s \in happened'[k]
    <3>1. \A k \in Loops : happened[k] # {} => task'[k] = task[k]
      BY <2>1 DEF Untouched, Remains, ResumesFrom
    <3>2. CASE Remains(l)
      BY <2>2, <3>1, <3>2 DEF NoStepSkipped, Remains
    <3>3. ASSUME NEW p \in Loops, ResumesFrom(l, p)
          PROVE  \E k \in Loops : task'[k] = task'[l] /\ s \in happened'[k]
      <4>1. s \in known[p] /\ task'[l] = task[p]
        BY <3>3 DEF ResumesFrom, CheckpointBehind
      <4>. QED BY <2>2, <3>1, <4>1 DEF NoStepSkipped
    <3>. QED BY <2>1, <3>2, <3>3
  <2>. QED BY <2>3, <2>4, <2>5, <2>6 DEF NoStepSkipped
<1>11. CASE Tick
  BY <1>11 DEF Tick, history, answer, TypeOK, Untouched, InStep, CheckpointBehind, NoStepSkipped
<1>12. CASE UNCHANGED vars
  BY <1>12 DEF vars, history, answer, TypeOK, Untouched, InStep, CheckpointBehind, NoStepSkipped
<1>. QED
  BY <1>1, <1>2, <1>3, <1>4, <1>5, <1>6, <1>7, <1>8, <1>9, <1>10, <1>11, <1>12 DEF Next

\* What is recorded always has its type.
THEOREM TypeCorrect == Spec => []TypeOK
<1>1. Init => RecoveryInv
  BY RecoveryInit
<1>2. RecoveryInv /\ [Next]_vars => RecoveryInv'
  BY RecoveryStep
<1>3. RecoveryInv => TypeOK
  BY DEF RecoveryInv
<1>. QED BY <1>1, <1>2, <1>3, PTL DEF Spec

\* What a loop believes done has been done by it or by a loop of its task before
\* it: no resumption skips a step, wherever the process died, whatever statement
\* failed, and whether or not the checkpoint could be read (checkpointStore.ts:117).
\* It rests on the checkpoint never being ahead of its loop.
THEOREM NothingIsSkipped == Spec => []NoStepSkipped
<1>1. Init => RecoveryInv
  BY RecoveryInit
<1>2. RecoveryInv /\ [Next]_vars => RecoveryInv'
  BY RecoveryStep
<1>3. RecoveryInv => NoStepSkipped
  BY DEF RecoveryInv
<1>. QED BY <1>1, <1>2, <1>3, PTL DEF Spec

-----------------------------------------------------------------------------
(* What holds while statements succeed.                                    *)

\* A loop that has ended or died takes no step.
AtRest(l) == stage[l] \in {"finished", "dead"}

\* A step of one loop: it has not ended, brings about nothing it knows to be done,
\* and leaves alone what is recorded of the other loops and whose child each one is.
LoopStep(l) ==
  /\ ~AtRest(l) /\ UNCHANGED history
  /\ \A k \in Loops \ {l} : /\ stage'[k] = stage[k] /\ known'[k] = known[k]
                            /\ ckpt'[k] = ckpt[k] /\ happened'[k] = happened[k]
                            /\ journal'[k] = journal[k]
  /\ known[l] \subseteq known'[l] /\ happened'[l] \cap known[l] \subseteq happened[l]
  /\ hasRow \subseteq hasRow'

\* No step of a loop disturbs what is known of parents: one at rest takes none.
LEMMA LoopStepKeepsParents ==
  ASSUME RecoveryInv, WorkingInv, NEW l \in Loops, LoopStep(l)
  PROVE  ParentsAtRest' /\ DoubtNeedsHuman'
<1>1. parent' = parent /\ resumedAt' = resumedAt
  BY DEF LoopStep, history
<1>2. ASSUME NEW k \in Loops, parent[k] # k
      PROVE  /\ parent[k] \in Loops /\ parent[k] # l
             /\ parent[k] \in hasRow /\ stage[parent[k]] \in {"finished", "dead"}
             /\ ckpt[parent[k]].known \subseteq known[k]
             /\ happened[k] \cap ckpt[parent[k]].known = {}
  BY <1>2 DEF RecoveryInv, TypeOK, WorkingInv, ParentsAtRest, AtRest, LoopStep
<1>3. ParentsAtRest'
  <2>1. ASSUME NEW k \in Loops, parent[k] # k
        PROVE  /\ parent[k] \in hasRow' /\ stage'[parent[k]] \in {"finished", "dead"}
               /\ ckpt'[parent[k]].known \subseteq known'[k]
               /\ happened'[k] \cap ckpt'[parent[k]].known = {}
    <3>1. /\ ckpt'[parent[k]] = ckpt[parent[k]] /\ stage'[parent[k]] = stage[parent[k]]
          /\ hasRow \subseteq hasRow'
      BY <1>2, <2>1 DEF LoopStep
    <3>2. known[k] \subseteq known'[k] /\ happened'[k] \cap known[k] \subseteq happened[k]
      BY DEF LoopStep
    <3>. QED BY <1>2, <2>1, <3>1, <3>2
  <2>. QED BY <1>1, <2>1 DEF ParentsAtRest
<1>4. DoubtNeedsHuman'
  <2>1. \A k \in Loops : parent[k] # k => journal'[parent[k]] = journal[parent[k]]
    BY <1>2 DEF LoopStep
  <2>. QED BY <1>1, <2>1 DEF WorkingInv, DoubtNeedsHuman
<1>. QED BY <1>3, <1>4

\* A resumption takes up where the checkpoint stands, and only a loop whose doubts
\* are recent; the loop it was resumed from is at rest from then on.
LEMMA RestartKeepsParents ==
  ASSUME RecoveryInv, WorkingInv, Restart, DbMayFail = FALSE
  PROVE  ParentsAtRest' /\ DoubtNeedsHuman'
<1>1. TypeOK
  BY DEF RecoveryInv
<1>2. \A l \in Loops : Remains(l) \/ \E p \in Loops : ResumesFrom(l, p)
  BY <1>1, RestartFate
<1>3. UNCHANGED <<hasRow, ckpt, happened>>
  BY DEF Restart
<1>4. \A p \in hasRow : p \in Loops /\ stage'[p] \in {"finished", "dead"}
  <2>1. \A p \in hasRow : p \in Loops /\ stage[p] # "none"
    BY DEF RecoveryInv, TypeOK, Untouched
  <2>. QED BY <1>1, <1>2, <2>1 DEF TypeOK, Remains, ResumesFrom, Living
<1>5. \A l \in Loops : journal'[l] = ResolveTimedOutEffects(journal[l], now)
  BY <1>1, RestartJournal
<1>6. now \in Nat /\ \A l \in Loops : journal[l] \in Journals
  BY <1>1 DEF TypeOK, Journals
<1>7. ASSUME NEW l \in Loops, parent'[l] # l
      PROVE  /\ parent'[l] \in hasRow' /\ stage'[parent'[l]] \in {"finished", "dead"}
             /\ ckpt'[parent'[l]].known \subseteq known'[l]
             /\ happened'[l] \cap ckpt'[parent'[l]].known = {}
  <2>1. CASE Remains(l)
    <3>1. parent'[l] = parent[l] /\ known'[l] = known[l] /\ parent[l] # l
      BY <1>7, <2>1 DEF Remains
    <3>. QED BY <1>3, <1>4, <3>1 DEF WorkingInv, ParentsAtRest
  <2>2. ASSUME NEW p \in Loops, ResumesFrom(l, p)
        PROVE  /\ parent'[l] \in hasRow' /\ stage'[parent'[l]] \in {"finished", "dead"}
               /\ ckpt'[parent'[l]].known \subseteq known'[l]
               /\ happened'[l] \cap ckpt'[parent'[l]].known = {}
    <3>1. parent'[l] = p /\ p \in hasRow /\ known'[l] = ckpt[p].known /\ stage[l] = "none"
      BY <2>2 DEF ResumesFrom
    <3>2. happened[l] = {}
      BY <3>1 DEF RecoveryInv, Untouched
    <3>. QED BY <1>3, <1>4, <3>1, <3>2
  <2>. QED BY <1>2, <2>1, <2>2
<1>8. ASSUME NEW l \in Loops, parent'[l] # l, NEW s \in Steps,
             journal'[parent'[l]][s].status \in {"EXECUTING", "UNKNOWN"}
      PROVE  resumedAt'[l] - journal'[parent'[l]][s].startedAt <= JournalTimeout
  <2>1. CASE Remains(l)
    <3>1. parent'[l] = parent[l] /\ resumedAt'[l] = resumedAt[l] /\ parent[l] # l
      BY <1>8, <2>1 DEF Remains
    <3>2. parent[l] \in Loops
      BY <1>1 DEF TypeOK
    <3> DEFINE row == journal[parent[l]][s]
    <3>3. /\ journal'[parent'[l]][s].startedAt = row.startedAt
          /\ row.status \in {"EXECUTING", "UNKNOWN"}
      BY <1>5, <1>6, <1>8, <3>1, <3>2, ResolveTimedOut
    <3>. QED BY <3>1, <3>3 DEF WorkingInv, DoubtNeedsHuman
  <2>2. ASSUME NEW p \in Loops, ResumesFrom(l, p)
        PROVE  resumedAt'[l] - journal'[parent'[l]][s].startedAt <= JournalTimeout
    <3>1. parent'[l] = p /\ resumedAt'[l] = now /\ journal'[p][s].status # "UNKNOWN"
      BY <2>2 DEF ResumesFrom
    <3>2. journal'[p][s].status = "EXECUTING"
      BY <1>8, <3>1
    <3>3. /\ journal'[p][s].startedAt = journal[p][s].startedAt
          /\ now - journal[p][s].startedAt <= JournalTimeout
      BY <1>5, <1>6, <3>2, ResolveTimedOut
    <3>. QED BY <3>1, <3>3
  <2>. QED BY <1>2, <2>1, <2>2
<1>. QED BY <1>7, <1>8 DEF ParentsAtRest, DoubtNeedsHuman

LEMMA WorkingStep ==
  ASSUME DbMayFail = FALSE
  PROVE  RecoveryInv /\ WorkingInv /\ [Next]_vars => WorkingInv'
<1> SUFFICES ASSUME RecoveryInv, WorkingInv, [Next]_vars PROVE WorkingInv'
  OBVIOUS
<1>0. TypeOK /\ Untouched /\ InStep /\ CheckpointBehind /\ CheckpointCurrent
  BY DEF RecoveryInv, WorkingInv
<1>1. ASSUME NEW l \in Loops, StartTask(l) PROVE WorkingInv'
  <2>1. \A k \in Loops \ {l} : journal'[k] = journal[k]
    BY <1>0, <1>1 DEF StartTask
  <2>2. LoopStep(l)
    BY <1>0, <1>1, <2>1 DEF StartTask, Goes, LoopStep, AtRest, TypeOK, InStep, InCall
  <2>3. CheckpointCurrent'
    BY <1>0, <1>1 DEF StartTask, CheckpointCurrent
  <2>. QED BY <2>2, <2>3, LoopStepKeepsParents DEF WorkingInv
<1>2. ASSUME NEW l \in Loops, NEW calls \in SUBSET (Steps \ known[l]), AskFor(l, calls)
      PROVE  WorkingInv'
  <2>1. \A k \in Loops \ {l} : journal'[k] = journal[k]
    BY <1>0, <1>2 DEF AskFor
  <2>2. LoopStep(l)
    BY <1>0, <1>2, <2>1 DEF AskFor, Goes, LoopStep, AtRest, TypeOK, InStep, InCall
  <2>3. CheckpointCurrent'
    BY <1>0, <1>2 DEF AskFor, CheckpointCurrent
  <2>. QED BY <2>2, <2>3, LoopStepKeepsParents DEF WorkingInv
<1>3. ASSUME NEW l \in Loops, NEW s \in Steps, RecordIntent(l, s) PROVE WorkingInv'
  <2>1. \A k \in Loops \ {l} : journal'[k] = journal[k]
    BY <1>0, <1>3, IntentJournal
  <2>2. LoopStep(l)
    BY <1>0, <1>3, <2>1 DEF RecordIntent, Goes, LoopStep, AtRest, TypeOK, InStep, InCall
  <2>3. CheckpointCurrent'
    BY <1>0, <1>3 DEF RecordIntent, CheckpointCurrent
  <2>. QED BY <2>2, <2>3, LoopStepKeepsParents DEF WorkingInv
<1>4. ASSUME NEW l \in Loops, MarkExecuting(l) PROVE WorkingInv'
  <2>1. \A k \in Loops \ {l} : journal'[k] = journal[k]
    BY <1>0, <1>4, MarkedJournal DEF MarkExecuting, EffectStatuses
  <2>2. LoopStep(l)
    BY <1>0, <1>4, <2>1 DEF MarkExecuting, Goes, LoopStep, AtRest, TypeOK, InStep, InCall
  <2>3. CheckpointCurrent'
    BY <1>0, <1>4 DEF MarkExecuting, CheckpointCurrent
  <2>. QED BY <2>2, <2>3, LoopStepKeepsParents DEF WorkingInv
<1>5. ASSUME NEW l \in Loops, EffectHappens(l) PROVE WorkingInv'
  <2>1. \A k \in Loops \ {l} : journal'[k] = journal[k]
    BY <1>0, <1>5 DEF EffectHappens
  <2>2. LoopStep(l)
    BY <1>0, <1>5, <2>1 DEF EffectHappens, Goes, LoopStep, AtRest, TypeOK, InStep, InCall
  <2>3. CheckpointCurrent'
    BY <1>0, <1>5 DEF EffectHappens, CheckpointCurrent
  <2>. QED BY <2>2, <2>3, LoopStepKeepsParents DEF WorkingInv
<1>6. ASSUME NEW l \in Loops, CallSucceeds(l) PROVE WorkingInv'
  <2>1. \A k \in Loops \ {l} : journal'[k] = journal[k]
    BY <1>0, <1>6, MarkedJournal DEF CallSucceeds, EffectStatuses
  <2>2. LoopStep(l)
    BY <1>0, <1>6, <2>1 DEF CallSucceeds, CallEnds, Goes, LoopStep, AtRest, TypeOK, InStep, InCall
  <2>3. CheckpointCurrent'
    BY <1>0, <1>6 DEF CallSucceeds, CallEnds, CheckpointCurrent
  <2>. QED BY <2>2, <2>3, LoopStepKeepsParents DEF WorkingInv
<1>7. ASSUME NEW l \in Loops, CallFails(l) PROVE WorkingInv'
  <2>1. \A k \in Loops \ {l} : journal'[k] = journal[k]
    BY <1>0, <1>7, MarkedJournal DEF CallFails, EffectStatuses
  <2>2. LoopStep(l)
    BY <1>0, <1>7, <2>1 DEF CallFails, CallEnds, Goes, LoopStep, AtRest, TypeOK, InStep, InCall
  <2>3. CheckpointCurrent'
    BY <1>0, <1>7 DEF CallFails, CallEnds, CheckpointCurrent
  <2>. QED BY <2>2, <2>3, LoopStepKeepsParents DEF WorkingInv
<1>8. ASSUME NEW l \in Loops, FailLoop(l) PROVE WorkingInv'
  <2>1. \A k \in Loops \ {l} : journal'[k] = journal[k]
    BY <1>0, <1>8 DEF FailLoop
  <2>2. LoopStep(l)
    BY <1>0, <1>8, <2>1 DEF FailLoop, Goes, LoopStep, AtRest, TypeOK, InStep, InCall
  <2>3. CheckpointCurrent'
    BY <1>0, <1>8 DEF FailLoop, CheckpointCurrent
  <2>. QED BY <2>2, <2>3, LoopStepKeepsParents DEF WorkingInv
<1>9. ASSUME NEW l \in Loops, EndIteration(l) PROVE WorkingInv'
  <2>1. iter[l] < MaxIterations
    BY <1>0, <1>9 DEF EndIteration, InStep, Living
  <2>2. /\ hasRow' \in {hasRow, hasRow \cup {l}}
        /\ \A k \in Loops \ {l} : ckpt'[k] = ckpt[k]
        /\ ckpt'[l].known = Learned(l)
    BY <1>0, <1>9, <2>1, CheckpointWritten DEF EndIteration
  <2>3. known' = [known EXCEPT ![l] = Learned(l)] /\ known[l] \subseteq Learned(l)
    BY <1>9 DEF EndIteration, Learned
  <2>4. LoopStep(l)
    BY <1>0, <1>9, <2>2, <2>3 DEF EndIteration, Goes, LoopStep, AtRest, TypeOK
  <2>5. CheckpointCurrent'
    <3>1. ASSUME NEW k \in hasRow' PROVE ckpt'[k].known = known'[k]
      <4>1. k \in Loops /\ (k = l \/ k \in hasRow)
        BY <1>0, <2>2 DEF TypeOK
      <4>2. CASE k = l
        BY <1>0, <2>2, <2>3, <4>2 DEF TypeOK
      <4>3. CASE k # l
        BY <1>0, <2>2, <2>3, <4>1, <4>3 DEF TypeOK, CheckpointCurrent
      <4>. QED BY <4>2, <4>3
    <3>. QED BY <3>1 DEF CheckpointCurrent
  <2>. QED BY <2>4, <2>5, LoopStepKeepsParents DEF WorkingInv
<1>10. CASE Restart
  <2>1. CheckpointCurrent'
    <3>1. \A l \in Loops : Remains(l) \/ \E p \in Loops : ResumesFrom(l, p)
      BY <1>0, <1>10, RestartFate
    <3>2. \A l \in hasRow : l \in Loops /\ stage[l] # "none"
      BY <1>0 DEF TypeOK, Untouched
    <3>3. \A l \in hasRow : Remains(l)
      BY <3>1, <3>2 DEF ResumesFrom
    <3>4. UNCHANGED <<hasRow, ckpt>>
      BY <1>10 DEF Restart
    <3>. QED BY <1>0, <3>3, <3>4 DEF CheckpointCurrent, Remains
  <2>. QED BY <1>10, <2>1, RestartKeepsParents DEF WorkingInv
<1>11. CASE Tick
  BY <1>11 DEF Tick, history, WorkingInv, CheckpointCurrent, ParentsAtRest, DoubtNeedsHuman
<1>12. CASE UNCHANGED vars
  BY <1>12
  DEF vars, history, WorkingInv, CheckpointCurrent, ParentsAtRest, DoubtNeedsHuman
<1>. QED
  BY <1>1, <1>2, <1>3, <1>4, <1>5, <1>6, <1>7, <1>8, <1>9, <1>10, <1>11, <1>12 DEF Next

\* A crash costs one iteration: the last checkpoint shows all that the dead loop knew,
\* and the resumed one brings about nothing of that.
LEMMA OneIterationBeyond ==
  ASSUME RecoveryInv, WorkingInv PROVE RepeatsOneIteration
BY DEF RecoveryInv, WorkingInv, TypeOK, CheckpointCurrent, ParentsAtRest, RepeatsOneIteration

LEMMA WorkingSafety ==
  ASSUME DbMayFail = FALSE
  PROVE  Spec => [](RecoveryInv /\ WorkingInv)
<1>1. Init => RecoveryInv /\ WorkingInv
  BY RecoveryInit
<1>2. RecoveryInv /\ WorkingInv /\ [Next]_vars => (RecoveryInv /\ WorkingInv)'
  BY RecoveryStep, WorkingStep
<1>. QED BY <1>1, <1>2, PTL DEF Spec

\* While statements succeed, a resumed loop repeats nothing that the conversation of
\* the loop it was resumed from had shown as done: only calls of the one iteration that
\* one died in, wherever it died, however many calls an answer had, and however often
\* the process restarts (iterationCheckpoint.ts:12).
THEOREM CrashCostsOneIteration ==
  ASSUME DbMayFail = FALSE
  PROVE  Spec => []RepeatsOneIteration
<1>1. Spec => [](RecoveryInv /\ WorkingInv)
  BY WorkingSafety
<1>2. RecoveryInv /\ WorkingInv => RepeatsOneIteration
  BY OneIterationBeyond
<1>. QED BY <1>1, <1>2, PTL

\* While statements succeed, a loop whose journal leaves a step in doubt for longer
\* than its timeout is never resumed automatically (recoveryScanner.ts:172).
THEOREM DoubtIsLeftToHumans ==
  ASSUME DbMayFail = FALSE
  PROVE  Spec => []DoubtNeedsHuman
<1>1. Spec => [](RecoveryInv /\ WorkingInv)
  BY WorkingSafety
<1>2. RecoveryInv /\ WorkingInv => DoubtNeedsHuman
  BY DEF WorkingInv
<1>. QED BY <1>1, <1>2, PTL

-----------------------------------------------------------------------------
(* The specification of the run, in which the database works in some       *)
(* behaviours and may fail in the others.                                  *)

LEMMA WorkingBehaviours ==
  ASSUME DbMayFail = FALSE
  PROVE  Either => [](~failing => RecoveryInv /\ WorkingInv)
<1> DEFINE Inv == ~failing => RecoveryInv /\ WorkingInv
<1>1. EitherInit => Inv
  BY RecoveryInit DEF EitherInit
<1>2. Inv /\ [EitherNext]_<<vars, failing, brief>> => Inv'
  <2> SUFFICES ASSUME Inv, [EitherNext]_<<vars, failing, brief>>, ~failing' PROVE Inv'
    OBVIOUS
  <2>1. ~failing /\ [Next]_vars
    BY DEF EitherNext
  <2>2. RecoveryInv /\ WorkingInv
    BY <2>1
  <2>3. RecoveryInv' /\ WorkingInv'
    BY <2>1, <2>2, RecoveryStep, WorkingStep
  <2>. QED BY <2>3
<1>. QED BY <1>1, <1>2, PTL DEF Either

\* A crash costs one iteration, in the behaviours of the run in which the database works.
THEOREM RunCrashCostsOneIteration ==
  ASSUME DbMayFail = FALSE
  PROVE  Either => []WorkingRepeatsOneIteration
<1>1. (~failing => RecoveryInv /\ WorkingInv) => WorkingRepeatsOneIteration
  BY OneIterationBeyond DEF WorkingRepeatsOneIteration
<1>. QED BY <1>1, WorkingBehaviours, PTL

\* Doubt is left to a human, in the behaviours of the run in which the database works.
THEOREM RunDoubtIsLeftToHumans ==
  ASSUME DbMayFail = FALSE
  PROVE  Either => []WorkingDoubtNeedsHuman
<1>1. (~failing => RecoveryInv /\ WorkingInv) => WorkingDoubtNeedsHuman
  BY DEF WorkingDoubtNeedsHuman, WorkingInv
<1>. QED BY <1>1, WorkingBehaviours, PTL
=============================================================================
