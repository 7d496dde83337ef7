-------------------------- MODULE DurableRecovery --------------------------
(***************************************************************************)
(* Crash and recovery of the agents' loops: the iteration with its journal *)
(* entries and its checkpoint (runIteration.ts, iterationCheckpoint.ts,    *)
(* checkpointStore.ts, loopRepository.ts), the scan at start-up            *)
(* (recoveryScanner.ts, recoveryExecutor.ts) and the automatic resumption  *)
(* (main.ts, agentExecutor.ts).                                            *)
(*                                                                         *)
(* A task is a set of steps, each one a journaled tool call with a key of  *)
(* its own.  An answer of the model asks for any of those that the         *)
(* conversation does not show as done; they are called one after the       *)
(* other, and only then the conversation learns of them and the checkpoint *)
(* is written.  The process may die between any two statements.            *)
(***************************************************************************)
EXTENDS Integers, FiniteSets, Functions, EffectJournal

CONSTANTS
  Loops,          \* identifiers of loops, each used once
  MaxSteps,       \* the number of steps of a task
  MaxIterations,  \* loopState.iteration.max
  MaxTasks,       \* bound on the tasks assigned
  MaxRestarts,    \* bound on the restarts of the process
  MaxTime,        \* bound on the clock
  DbMayFail       \* whether a statement on the database may fail

ASSUME LoopsAssumption == IsFiniteSet(Loops)
ASSUME LimitsAssumption ==
  /\ MaxSteps \in Nat \ {0} /\ MaxIterations \in Nat \ {0}
  /\ MaxTasks \in Nat /\ MaxRestarts \in Nat /\ MaxTime \in Nat /\ DbMayFail \in BOOLEAN

Steps == 1..MaxSteps

VARIABLES
  now,       \* the clock
  restarts,  \* how often the process has been restarted
  stage,     \* loop -> where it stands
  iter,      \* loop -> iterations completed
  known,     \* loop -> steps its conversation shows as succeeded
  todo,      \* loop -> calls of the model's answer that have not begun
  step,      \* loop -> the call it is at, 0 if it is at none
  results,   \* loop -> calls of the answer that have returned with success
  hasRow,    \* loops that have a row in table loops; its phase is always "running"
  ckpt,      \* loop_checkpoints: the latest one of each loop
  journal,   \* effect_journal: loop -> step -> row
  plan,      \* what the last scan proposed for each loop
  happened,  \* history: loop -> steps whose effect it has brought about
  parent,    \* history: the loop a loop was resumed from, itself if from none
  task,      \* history: the first loop of its task
  resumedAt  \* history: when a loop was resumed, 0 if it was not

answer == <<todo, step, results>>
history == <<parent, task, resumedAt>>

vars == <<now, restarts, stage, iter, known, answer, hasRow, ckpt, journal, plan,
          happened, history>>

InCall == {"intent", "executing", "happened"}
Living == {"thinking", "calling"} \cup InCall
Strategies == {"NONE", "AUTO_RESUME", "REQUIRE_HUMAN", "RESTART_FROM_SCRATCH"}
NoCheckpoint == [iteration |-> 0, known |-> {}]

TypeOK ==
  /\ now \in Nat /\ restarts \in Nat
  /\ stage \in [Loops -> {"none", "finished", "dead"} \cup Living]
  /\ iter \in [Loops -> 0..MaxIterations] /\ known \in [Loops -> SUBSET Steps]
  /\ todo \in [Loops -> SUBSET Steps] /\ step \in [Loops -> 0..MaxSteps]
  /\ results \in [Loops -> SUBSET Steps]
  /\ hasRow \subseteq Loops
  /\ ckpt \in [Loops -> [iteration : 0..MaxIterations, known : SUBSET Steps]]
  /\ journal \in [Loops -> [Steps -> EffectRow]]
  /\ plan \in [Loops -> Strategies]
  /\ happened \in [Loops -> SUBSET Steps]
  /\ parent \in [Loops -> Loops] /\ task \in [Loops -> Loops] /\ resumedAt \in [Loops -> Nat]

Init ==
  /\ now = 0 /\ restarts = 0
  /\ stage = [l \in Loops |-> "none"]
  /\ iter = [l \in Loops |-> 0] /\ known = [l \in Loops |-> {}]
  /\ todo = [l \in Loops |-> {}] /\ step = [l \in Loops |-> 0]
  /\ results = [l \in Loops |-> {}]
  /\ hasRow = {} /\ ckpt = [l \in Loops |-> NoCheckpoint]
  /\ journal = [l \in Loops |-> [s \in Steps |-> NoEffect]]
  /\ plan = [l \in Loops |-> "NONE"]
  /\ happened = [l \in Loops |-> {}]
  /\ parent = [l \in Loops |-> l] /\ task = [l \in Loops |-> l]
  /\ resumedAt = [l \in Loops |-> 0]

\* A statement succeeds, or fails, is logged, and leaves the rows as they were.
Attempted(new, old) == IF DbMayFail THEN {new, old} ELSE {new}

Goes(l, to) == stage' = [stage EXCEPT ![l] = to]

-----------------------------------------------------------------------------
(* The living process.                                                     *)

\* An agent is assigned a task.
StartTask(l) ==
  /\ stage[l] = "none"
  /\ Cardinality({k \in Loops : stage[k] # "none" /\ task[k] = k}) < MaxTasks
  /\ Goes(l, "thinking")
  /\ UNCHANGED <<now, restarts, iter, known, answer, hasRow, ckpt, journal, plan,
                 happened, history>>

\* The model answers with tool calls.
AskFor(l, calls) ==
  /\ stage[l] = "thinking"
  /\ todo' = [todo EXCEPT ![l] = calls]
  /\ Goes(l, "calling")
  /\ UNCHANGED <<now, restarts, iter, known, step, results, hasRow, ckpt, journal, plan,
                 happened, history>>

\* Each attempt has an effect id of its own: one that tries a step again in a later
\* iteration does not have the id the row keeps.
EffectId(l, s) == iter[l] * MaxSteps + s

\* The next call of the answer, whatever became of those before it: recordIntent
\* accepts it or ends the call.
RecordIntent(l, s) ==
  /\ stage[l] = "calling" /\ s \in todo[l]
  /\ todo' = [todo EXCEPT ![l] = @ \ {s}]
  /\ LET row == journal[l][s]
     IN \/ /\ IntentAccepted(row, now)
           /\ journal' = [journal EXCEPT ![l][s] = IntentRow(row, EffectId(l, s), now)]
           /\ step' = [step EXCEPT ![l] = s]
           /\ Goes(l, "intent")
        \/ /\ ~IntentAccepted(row, now) \/ DbMayFail
           /\ UNCHANGED <<stage, step, journal>>
  /\ UNCHANGED <<now, restarts, iter, known, results, hasRow, ckpt, plan, happened, history>>

Marked(l, status) ==
  [journal EXCEPT ![l] = UpdateEffectStatus(@, EffectId(l, step[l]), status)]

\* The row is marked as executing and the tool started.
MarkExecuting(l) ==
  /\ stage[l] = "intent"
  /\ journal' \in Attempted(Marked(l, "EXECUTING"), journal)
  /\ Goes(l, "executing")
  /\ UNCHANGED <<now, restarts, iter, known, answer, hasRow, ckpt, plan, happened, history>>

\* The side effect takes place; the process has not heard of it yet.
EffectHappens(l) ==
  /\ stage[l] = "executing"
  /\ happened' = [happened EXCEPT ![l] = @ \cup {step[l]}]
  /\ Goes(l, "happened")
  /\ UNCHANGED <<now, restarts, iter, known, answer, hasRow, ckpt, journal, plan, history>>

\* The call is over and the next one of the answer may begin.
CallEnds(l) ==
  /\ step' = [step EXCEPT ![l] = 0]
  /\ Goes(l, "calling")
  /\ UNCHANGED <<now, restarts, iter, known, todo, hasRow, ckpt, plan, happened, history>>

\* The tool has returned: the journal is closed and the result kept.
CallSucceeds(l) ==
  /\ stage[l] = "happened"
  /\ journal' \in Attempted(Marked(l, "SUCCEEDED"), journal)
  /\ results' = [results EXCEPT ![l] = @ \cup {step[l]}]
  /\ CallEnds(l)

CallFailsUnnoticed(l) ==
  /\ stage[l] \in {"executing", "happened"}
  /\ journal' \in Attempted(Marked(l, "FAILED"), journal)
  /\ results' = [results EXCEPT ![l] = @ \cup {step[l]}]
  /\ CallEnds(l)

\* An error does not mean that nothing has happened.
CallFails(l) ==
  /\ stage[l] \in {"executing", "happened"}
  /\ journal' \in Attempted(Marked(l, "FAILED"), journal)
  /\ CallEnds(l) /\ UNCHANGED results

\* What the conversation shows once the results of the answer are appended to it.
Learned(l) == known[l] \cup results[l]

\* writeIterationCheckpoint: the row of the loop, then the checkpoint that
\* refers to it; either may fail, and the loop goes on.
WriteCheckpoint(l) ==
  \/ /\ hasRow' = hasRow \cup {l}
     /\ ckpt' \in Attempted([ckpt EXCEPT ![l] =
                   [iteration |-> iter[l] + 1, known |-> Learned(l)]], ckpt)
  \/ DbMayFail /\ l \notin hasRow /\ UNCHANGED <<hasRow, ckpt>>

MayContinueOnceMore(l) == iter[l] + 1 <= MaxIterations

\* for (iter = 1; iter <= max; iter++)
MayContinue(l) == iter[l] + 1 < MaxIterations

\* An iteration ends when all calls of the answer have been made: their results are
\* appended to the conversation, and the checkpoint is written.  An iteration without
\* a tool call is the last one; so is the one the limit allows, or any other the stop
\* rules end.  Nothing writes to table loops that the loop has ended.
EndIteration(l) ==
  /\ stage[l] \in {"thinking", "calling"} /\ todo[l] = {}
  /\ WriteCheckpoint(l)
  /\ known' = [known EXCEPT ![l] = Learned(l)]
  /\ results' = [results EXCEPT ![l] = {}]
  /\ iter' = [iter EXCEPT ![l] = @ + 1]
  /\ \/ stage[l] = "calling" /\ MayContinue(l) /\ Goes(l, "thinking")
     \/ Goes(l, "finished")
  /\ UNCHANGED <<now, restarts, todo, step, journal, plan, happened, history>>

\* The provider fails, the loop is aborted, or something throws between two calls of
\* an answer: no checkpoint, and the conversation learns of no result.
FailLoop(l) ==
  /\ stage[l] \in {"thinking", "calling"}
  /\ Goes(l, "finished")
  /\ todo' = [todo EXCEPT ![l] = {}] /\ results' = [results EXCEPT ![l] = {}]
  /\ UNCHANGED <<now, restarts, iter, known, step, hasRow, ckpt, journal, plan, happened,
                 history>>

-----------------------------------------------------------------------------
(* Death and recovery.                                                     *)

ClassifyIgnoringUnknown(l, unknown) ==
  IF ckpt[l] = NoCheckpoint THEN "RESTART_FROM_SCRATCH" ELSE "AUTO_RESUME"

\* classify, with autoResumeMaxUnknownEffects = 0 and a budget ratio that is
\* always 0.
Classify(l, unknown) ==
  IF unknown # {} THEN "REQUIRE_HUMAN"
  ELSE IF ckpt[l] = NoCheckpoint THEN "RESTART_FROM_SCRATCH" ELSE "AUTO_RESUME"

\* scanAndProposeRecovery: phase NOT IN ('completed', 'failed') is true of every
\* row.  A query for unknown effects that fails counts as finding none.
Scan(unread) ==
  [l \in Loops |->
     IF l \in hasRow
       THEN Classify(l, IF l \in unread THEN {} ELSE UnknownEffects(journal'[l]))
       ELSE "NONE"]

ResumedFromNothing(p) == {}

\* resumeFromCheckpoint: the conversation as of the latest checkpoint.
Resumed(p) == ckpt[p].known

\* The process dies with its loops.  The next one resolves what has timed out
\* (whether or not that succeeds), scans, and resumes what may be resumed as
\* loops of their own; a plan may fail to start (its agent is gone, its
\* checkpoint cannot be read), or start from the goal alone (the second read of
\* the checkpoint fails); the other plans are dropped.
Restart ==
  /\ restarts < MaxRestarts
  /\ restarts' = restarts + 1
  /\ journal' \in
       Attempted([l \in Loops |-> ResolveTimedOutEffects(journal[l], now)], journal)
  /\ \E unread \in IF DbMayFail THEN SUBSET hasRow ELSE {{}} : plan' = Scan(unread)
  /\ \E started \in SUBSET {l \in Loops : plan'[l] = "AUTO_RESUME"} :
     \E child \in Injection(started, {l \in Loops : stage[l] = "none"}) :
     \E blank \in IF DbMayFail THEN SUBSET started ELSE {{}} :
       LET born == {child[p] : p \in started}
           From(l) == CHOOSE p \in started : child[p] = l
       IN /\ stage' = [l \in Loops |-> IF l \in born THEN "thinking"
                                       ELSE IF stage[l] # "none" THEN "dead"
                                       ELSE "none"]
          /\ known' = [l \in Loops |-> IF l \notin born THEN known[l]
                                       ELSE IF From(l) \in blank THEN {}
                                       ELSE Resumed(From(l))]
          /\ parent' = [l \in Loops |-> IF l \in born THEN From(l) ELSE parent[l]]
          /\ task' = [l \in Loops |-> IF l \in born THEN task[From(l)] ELSE task[l]]
          /\ resumedAt' = [l \in Loops |-> IF l \in born THEN now ELSE resumedAt[l]]
  /\ iter' = [l \in Loops |-> 0] /\ todo' = [l \in Loops |-> {}]
  /\ step' = [l \in Loops |-> 0] /\ results' = [l \in Loops |-> {}]
  /\ UNCHANGED <<now, hasRow, ckpt, happened>>

Tick ==
  /\ now < MaxTime
  /\ now' = now + 1
  /\ UNCHANGED <<restarts, stage, iter, known, answer, hasRow, ckpt, journal, plan,
                 happened, history>>

Next ==
  \/ \E l \in Loops :
       \/ StartTask(l)
       \/ \E calls \in SUBSET (Steps \ known[l]) \ {{}} : AskFor(l, calls)
       \/ \E s \in Steps : RecordIntent(l, s)
       \/ MarkExecuting(l) \/ EffectHappens(l) \/ CallSucceeds(l) \/ CallFails(l)
       \/ EndIteration(l) \/ FailLoop(l)
  \/ Restart
  \/ Tick

Spec == Init /\ [][Next]_vars

-----------------------------------------------------------------------------
(* Properties.                                                             *)

\* What a loop believes done has been done, by it or by a loop of the same task
\* before it: no resumption skips a step (checkpointStore.ts:117).
NoStepSkipped ==
  \A l \in Loops : \A s \in known[l] :
    \E k \in Loops : task[k] = task[l] /\ s \in happened[k]

\* A crash costs one iteration: no loop repeats a step that the conversation of the
\* loop it was resumed from had shown as done when that one died, wherever it died and
\* however often it is resumed.  What may be repeated is the calls of the one iteration
\* it died in, all of them if it had made them all (iterationCheckpoint.ts:12).
RepeatsOneIteration ==
  \A l \in Loops : parent[l] # l => happened[l] \cap known[parent[l]] = {}

\* A loop whose journal leaves a step in doubt for longer than its timeout is
\* never resumed automatically, at the next restart or at a later one
\* (recoveryScanner.ts:172).
DoubtNeedsHuman ==
  \A l \in Loops : parent[l] # l =>
    \A s \in Steps : journal[parent[l]][s].status \in {"EXECUTING", "UNKNOWN"} =>
      resumedAt[l] - journal[parent[l]][s].startedAt <= JournalTimeout

\* No step that an earlier loop of the task has completed is executed again
\* (checkpointStore.ts:119).
CompletedNotReplayed ==
  [][\A l \in Loops : \A s \in happened'[l] \ happened[l] :
       \A k \in Loops : task[k] = task[l] => journal[k][s].status # "SUCCEEDED"]_vars
=============================================================================
