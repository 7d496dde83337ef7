--------------------------- MODULE Orchestration ---------------------------
(***************************************************************************)
(* One task on its way through the orchestrator (Core/Decision/            *)
(* orchestrator/): the plan and its dispatch gate, the progress tracker,   *)
(* the driver that runs one loop at a time, the reviews the workers ask    *)
(* for (Core/AgentRuntime/agentRuntime.ts), and the monitor that ends what *)
(* has gone silent.                                                        *)
(*                                                                         *)
(* Events are handled inside the publish that raises them, by the tracker, *)
(* the orchestrator and the gate in this order; an action is therefore one *)
(* publish with everything it sets off.  What the events change is one     *)
(* record, plan, so that the monitor can raise several in one step.        *)
(***************************************************************************)
EXTENDS Integers, Sequences, FiniteSets

CONSTANTS
  N,             \* assignments of a decomposed task
  MaxIdle,       \* stagnationTimeoutMs, in ticks
  FailureLimit,  \* consecutiveFailureLimit
  MaxRounds,     \* bound on the iterations of one loop
  MaxSubmits,    \* bound on the submissions of one worker
  Misnames,      \* whether a worker may submit under another assignment's id
  Losses         \* sets of statements on the tables that one step may lose

ASSUME ParametersAssumption ==
  /\ N \in Nat \ {0} /\ MaxIdle \in Nat /\ FailureLimit \in Nat \ {0}
  /\ MaxRounds \in Nat /\ MaxSubmits \in Nat /\ Misnames \in BOOLEAN

Assignments == 1..N

\* A row of table subtasks for each assignment, and 0 for that of the task.  A
\* statement that fails is logged and no more; one under another account than the
\* row's finds no row.
Statements == {"insert", "read", "update"} \X (0..N)

ASSUME LossesAssumption == Losses \subseteq SUBSET Statements

VARIABLES
  plan,     \* what the events change, see Plan
  queue,    \* taskDriver: assignments whose loop has not been started
  looping,  \* the assignment whose loop runs, 0 for none
  rounds,   \* iterations of each loop
  submits,  \* submissions made from each loop
  review,   \* pendingReviews: assignment -> its last submission
  judging,  \* performReview calls under way for each assignment
  due       \* the monitor polls before the next tick

vars == <<plan, queue, looping, rounds, submits, review, judging, due>>

loops == <<rounds, submits>>
reviews == <<review, judging>>

Terminal == {"completed", "failed"}

\* Of an assignment that has not been dispatched there is none; of one that has, the
\* row may be missing.
Rows == {"none", "missing", "assigned", "in_progress"} \cup Terminal

\* stale is history: the assignments the last write of whose end was lost.  The
\* statements the step loses, and what it dispatches, are nothing between two steps.
Plan == [task : {"none", "running", "completed", "failed", "cancelled"},
         active : BOOLEAN, members : SUBSET Assignments,
         chained : BOOLEAN, parallel : 0..N,
         progress : [Assignments -> {"none", "pending"} \cup Terminal],
         failures : [Assignments -> 0..FailureLimit],
         idle : [Assignments -> 0..MaxIdle],
         waiting : SUBSET Assignments, inFlight : SUBSET Assignments,
         gateFailed : SUBSET Assignments,
         row : [Assignments -> Rows], stale : SUBSET Assignments, lost : SUBSET Statements,
         agent : [Assignments -> {"none", "ready", "running", "expelled", "gone"}],
         sent : Seq(Assignments)]

TypeOK ==
  /\ plan \in Plan /\ plan.sent = <<>> /\ plan.lost = {}
  /\ queue \in Seq(Assignments) /\ looping \in 0..N
  /\ rounds \in [Assignments -> 0..MaxRounds]
  /\ submits \in [Assignments -> 0..MaxSubmits]
  /\ review \in [Assignments -> [status : {"none", "pending", "accepted", "rejected"},
                                 by : 0..N]]
  /\ judging \in [Assignments -> Nat]
  /\ due \in BOOLEAN

ForAll(v) == [a \in Assignments |-> v]

Init ==
  /\ plan = [task |-> "none", active |-> FALSE, members |-> {},
             chained |-> FALSE, parallel |-> 0,
             progress |-> ForAll("none"), failures |-> ForAll(0), idle |-> ForAll(0),
             waiting |-> {}, inFlight |-> {}, gateFailed |-> {},
             row |-> ForAll("none"), stale |-> {}, lost |-> {},
             agent |-> ForAll("none"), sent |-> <<>>]
  /\ queue = <<>> /\ looping = 0
  /\ rounds = ForAll(0) /\ submits = ForAll(0)
  /\ review = ForAll([status |-> "none", by |-> 0]) /\ judging = ForAll(0)
  /\ due = FALSE

-----------------------------------------------------------------------------
(* The rows (subtaskRepository.ts, subtaskDispatcher.ts).                  *)

Fails(p, statement, r) == <<statement, r>> \in p.lost

\* Here every statement is carried out.
EndRowAlways(p, a, status) ==
  [p EXCEPT !.row[a] = IF @ \in {"none", "missing"} THEN @ ELSE status]

\* updateSubtaskStatus with a status that is an end.
EndRow(p, a, status) ==
  IF p.row[a] \in {"none", "missing"} THEN p
  ELSE IF Fails(p, "update", a) THEN [p EXCEPT !.stale = @ \cup {a}]
  ELSE [p EXCEPT !.row[a] = status, !.stale = @ \ {a}]

\* markSubtaskFailed leaves a row alone that it reads to have ended.
MarkFailed(p, a) ==
  IF p.row[a] \in Terminal /\ ~Fails(p, "read", a) THEN p ELSE EndRow(p, a, "failed")

\* Here the row is not looked at.
MarkStartedAlways(p, a) ==
  IF Fails(p, "update", a) THEN p ELSE [p EXCEPT !.row[a] = "in_progress"]

\* markSubtaskStarted never brings back a row that has ended.
MarkStarted(p, a) ==
  IF p.row[a] = "assigned" /\ ~Fails(p, "read", a) /\ ~Fails(p, "update", a)
    THEN [p EXCEPT !.row[a] = "in_progress"] ELSE p

-----------------------------------------------------------------------------
(* The dispatch gate (dispatchGate.ts).                                    *)

\* dependsOn: the decomposer and the assembly line chain an assignment to the one
\* before it, or to none.
DependsOn(p, a) == IF p.chained /\ a > 1 THEN {a - 1} ELSE {}

\* Behind a failed assignment nothing that waits will ever be ready.
Blocked(p) ==
  {a \in p.waiting : \E f \in p.gateFailed :
     f < a /\ \A b \in f + 1..a : b \in p.waiting /\ b - 1 \in DependsOn(p, b)}

FirstOf(k, S) == {a \in S : Cardinality({b \in S : b < a}) < k}

\* Here the limit is the only thing that holds an assignment back.
ReleasedInAnyOrder(p) ==
  FirstOf(p.parallel - Cardinality(p.inFlight), p.waiting \ Blocked(p))

\* What pump releases: in order, as far as the limit goes, what depends on
\* assignments that have all ended.
Released(p) ==
  FirstOf(p.parallel - Cardinality(p.inFlight),
          {a \in p.waiting \ Blocked(p) : DependsOn(p, a) \cap (p.waiting \cup p.inFlight) = {}})

Ascending(S) ==
  CHOOSE s \in [1..Cardinality(S) -> S] : \A i, j \in DOMAIN s : i < j => s[i] < s[j]

Set(f, S, v) == [x \in DOMAIN f |-> IF x \in S THEN v ELSE f[x]]

\* pump, with markFailed for what is blocked and dispatch for what is released: the
\* agent is assigned, the progress and the row are registered, and TASK_ASSIGNED
\* reaches the driver.
Pump(p) ==
  LET blocked == Blocked(p)
      released == Released(p)
  IN [p EXCEPT !.waiting = @ \ (blocked \cup released),
               !.inFlight = @ \cup released,
               !.gateFailed = @ \cup blocked,
               !.progress = Set(Set(@, blocked, "failed"), released, "pending"),
               !.idle = Set(@, blocked \cup released, 0),
               !.row = [a \in Assignments |->
                          IF a \notin released THEN @[a]
                          ELSE IF Fails(p, "insert", a) THEN "missing" ELSE "assigned"],
               !.agent = Set(@, released, "running"),
               !.sent = @ \o Ascending(released)]

\* onTerminal.
GateTerminal(p, a, failed) ==
  IF a \notin p.waiting \cup p.inFlight THEN p
  ELSE Pump([p EXCEPT !.waiting = @ \ {a}, !.inFlight = @ \ {a},
                      !.gateFailed = IF failed THEN @ \cup {a} ELSE @])

-----------------------------------------------------------------------------
(* The terminal events and the end of the plan (orchestrator.ts).          *)

AllTerminal(p) == \A a \in p.members : p.progress[a] \in Terminal

\* finalizeOrchestration: the task has failed if all its assignments have; the gate
\* is released, the row of the task is written whatever it holds, if there is one and
\* the statement succeeds, and the agents are destroyed.
Finalize(p) ==
  [p EXCEPT !.active = FALSE, !.waiting = {}, !.inFlight = {}, !.gateFailed = {},
            !.task = IF @ = "none" \/ Fails(p, "update", 0) THEN @
                     ELSE IF \A a \in p.members : p.progress[a] = "failed"
                       THEN "failed" ELSE "completed",
            !.agent = Set(@, p.members, "gone")]

\* handleAssignmentTerminal, then the gate; a gate that was released knows no plan.
OrchestratorTerminal(p, a, failed) ==
  IF p.active /\ AllTerminal(p) THEN Finalize(p) ELSE GateTerminal(p, a, failed)

Tracked(p, a) == p.progress[a] # "none"

\* TASK_FAILED for an assignment; the tool writes the row of a rejected review.
TaskFailed(p, a, fromReview) ==
  LET q == IF fromReview THEN p ELSE MarkFailed(p, a)
  IN OrchestratorTerminal(
       [q EXCEPT !.progress[a] = IF Tracked(p, a) THEN "failed" ELSE @,
                 !.failures[a] = IF Tracked(p, a) /\ @ < FailureLimit THEN @ + 1 ELSE @,
                 !.idle[a] = 0],
       a, TRUE)

\* TASK_COMPLETED for an assignment.
TaskCompleted(p, a) ==
  OrchestratorTerminal(
    [p EXCEPT !.progress[a] = IF Tracked(p, a) THEN "completed" ELSE @, !.idle[a] = 0],
    a, FALSE)

-----------------------------------------------------------------------------
(* The task arrives.                                                       *)

\* The plan as a step finds it that loses these statements.
Losing(lost) == [plan EXCEPT !.lost = lost]

\* What the events of a step have dispatched goes to the driver.
Publish(p) ==
  /\ plan' = [p EXCEPT !.sent = <<>>, !.lost = {}]
  /\ queue' = queue \o p.sent

\* The row of the task is inserted before anything else, and may be lost.
Arrived(lost) ==
  LET p == Losing(lost)
  IN [p EXCEPT !.active = TRUE, !.task = IF Fails(p, "insert", 0) THEN "none" ELSE "running"]

\* executeDirect: the director holds the one assignment, which no gate and no driver
\* ever sees.
ReceiveDirect(lost) ==
  /\ plan.members = {}
  /\ Publish([Arrived(lost) EXCEPT !.members = {1}, !.progress[1] = "pending",
                                   !.agent[1] = "running"])
  /\ UNCHANGED <<looping, loops, reviews, due>>

\* executeDelegation, executeAssemblyLine, executeConsortium: they differ in the
\* dependencies and the limit; every agent is created before the first dispatch.
ReceiveDecomposed(lost) ==
  /\ plan.members = {}
  /\ \E chained \in BOOLEAN, parallel \in 1..N :
       Publish(Pump([Arrived(lost) EXCEPT !.members = Assignments, !.waiting = Assignments,
                                          !.chained = chained, !.parallel = parallel,
                                          !.agent = ForAll("ready")]))
  /\ UNCHANGED <<looping, loops, reviews, due>>

\* cancelTask: the row is marked, unless it is read to have ended, and nothing else
\* stops.
Cancel(lost) ==
  /\ \/ plan.task = "running"
     \/ plan.task \in Terminal /\ Fails(Losing(lost), "read", 0)
  /\ ~Fails(Losing(lost), "update", 0)
  /\ plan' = [plan EXCEPT !.task = "cancelled"]
  /\ UNCHANGED <<queue, looping, loops, reviews, due>>

-----------------------------------------------------------------------------
(* The driver and its loops (taskDriver.ts, agentExecutor.ts).             *)

\* The next loop of the queue; for an agent that is gone or expelled the executor
\* returns an error, and no event.
Drive(lost) ==
  /\ looping = 0 /\ queue # <<>>
  /\ LET a == Head(queue)
     IN /\ plan' = [MarkStarted(Losing(lost), a) EXCEPT !.lost = {}]
        /\ looping' = IF plan.agent[a] \in {"ready", "running"} THEN a ELSE 0
  /\ queue' = Tail(queue)
  /\ UNCHANGED <<loops, reviews, due>>

\* TASK_PROGRESS at the end of an iteration.
Iterate ==
  /\ looping # 0
  /\ rounds[looping] < MaxRounds
  /\ rounds' = [rounds EXCEPT ![looping] = @ + 1]
  /\ plan' = [plan EXCEPT !.idle[looping] = 0]
  /\ UNCHANGED <<queue, looping, submits, reviews, due>>

\* Here a loop that has asked for a review is done.
LoopEndsTrusted(failed, lost) ==
  /\ looping # 0
  /\ looping' = 0
  /\ Publish(IF failed THEN TaskFailed(Losing(lost), looping, FALSE)
             ELSE TaskCompleted(Losing(lost), looping))
  /\ UNCHANGED <<loops, reviews, due>>

\* The loop fails, or ends; without a submission the assignment has failed too.
LoopEnds(failed, lost) ==
  /\ looping # 0
  /\ looping' = 0
  /\ IF failed \/ review[looping].status = "none"
       THEN Publish(TaskFailed(Losing(lost), looping, FALSE))
       ELSE UNCHANGED <<plan, queue>>
  /\ UNCHANGED <<loops, reviews, due>>

-----------------------------------------------------------------------------
(* Reviews (agentRuntime.ts, submitForReview.ts, reviewerAgent.ts).        *)

\* The submit tool, called from a loop: a new submission replaces the one before it.
\* The tool waits for the judge, but not longer than its timeout: the loop may go on,
\* submit again, or end, while the judge is still at it.
Submit(t) ==
  /\ looping # 0
  /\ t = looping \/ Misnames
  /\ plan.agent[looping] = "running"
  /\ submits[looping] < MaxSubmits
  /\ submits' = [submits EXCEPT ![looping] = @ + 1]
  /\ review' = [review EXCEPT ![t] = [status |-> "pending", by |-> looping]]
  /\ judging' = [judging EXCEPT ![t] = @ + 1]
  /\ UNCHANGED <<plan, queue, looping, rounds, due>>

\* reviewSubmission: the events; none if the worker is gone.
Reviewed(p, t, by, accepted) ==
  IF p.agent[by] = "gone" THEN p
  ELSE IF accepted
    THEN TaskCompleted([p EXCEPT !.agent[by] = IF @ = "running" THEN "ready" ELSE @], t)
    ELSE TaskFailed(p, t, TRUE)

\* markSubtaskReviewed, in the tool, after the events, looks at no row.
MarkReviewed(p, t, accepted) == EndRow(p, t, IF accepted THEN "completed" ELSE "failed")

\* A judge of assignment t is done: its verdict goes to whatever submission is pending
\* by now; if none is, it is refused.
Verdict(t, accepted, lost) ==
  /\ judging[t] > 0
  /\ judging' = [judging EXCEPT ![t] = @ - 1]
  /\ IF review[t].status = "pending"
       THEN /\ review' = [review EXCEPT ![t].status = IF accepted THEN "accepted" ELSE "rejected"]
            /\ Publish(MarkReviewed(Reviewed(Losing(lost), t, review[t].by, accepted),
                                    t, accepted))
       ELSE UNCHANGED <<review, plan, queue>>
  /\ UNCHANGED <<looping, loops, due>>

\* The recruiter expels a running agent.
Expel(a) ==
  /\ plan.agent[a] = "running"
  /\ plan' = [plan EXCEPT !.agent[a] = "expelled"]
  /\ UNCHANGED <<queue, looping, loops, reviews, due>>

-----------------------------------------------------------------------------
(* The monitor (orchestrationMonitor.ts).                                  *)

\* The assignments of S fail one after the other.
FailEach(p, S) ==
  LET after[n \in 0..N] == IF n = 0 THEN p
                           ELSE IF n \in S THEN TaskFailed(after[n - 1], n, FALSE)
                           ELSE after[n - 1]
  IN after[N]

\* reapStalePlans: a plan is as silent as the most silent of its assignments; the
\* assignments that had not ended when it was looked at are failed one by one.
Stale(p) == \E a \in p.members : Tracked(p, a) /\ p.idle[a] = MaxIdle

\* Here the watchdog leaves a plan to its events when nothing in it is running.
ReapOnlyRunning(p) ==
  IF ~(p.active /\ Stale(p)) \/ AllTerminal(p) THEN p
  ELSE FailEach(p, {a \in p.members : p.progress[a] \notin Terminal})

Reap(p) ==
  IF ~(p.active /\ Stale(p)) THEN p
  ELSE IF AllTerminal(p) THEN Finalize(p)
  ELSE FailEach(p, {a \in p.members : p.progress[a] \notin Terminal})

\* pollOrchestrationAnomalies: no assignment is ever in_progress, as nothing publishes
\* TASK_STARTED, so that the failures are the only anomaly there is.
Poll(lost) ==
  /\ due /\ due' = FALSE
  /\ Publish(Reap(FailEach(Losing(lost),
                           {a \in Assignments : plan.failures[a] = FailureLimit})))
  /\ UNCHANGED <<looping, loops, reviews>>

Tick ==
  /\ ~due /\ due' = TRUE
  /\ plan' = [plan EXCEPT !.idle = [a \in Assignments |->
                IF Tracked(plan, a) /\ @[a] < MaxIdle THEN @[a] + 1 ELSE @[a]]]
  /\ UNCHANGED <<queue, looping, loops, reviews>>

\* The steps that reach the tables, where they lose these statements.
Persisting(lost) ==
  \/ ReceiveDirect(lost) \/ ReceiveDecomposed(lost) \/ Cancel(lost)
  \/ Drive(lost) \/ Poll(lost)
  \/ \E failed \in BOOLEAN : LoopEnds(failed, lost)
  \/ \E t \in Assignments, accepted \in BOOLEAN : Verdict(t, accepted, lost)

Next ==
  \/ \E lost \in Losses : Persisting(lost)
  \/ Iterate \/ Tick
  \/ \E t \in Assignments : Submit(t) \/ Expel(t)

\* Time passes and the interval of the monitor keeps firing: Poll is enabled whenever it
\* is due, and what is due is polled.  No loop and no judge has to come to an end.
Fairness == WF_vars(Tick) /\ []<>~due

Spec == Init /\ [][Next]_vars /\ Fairness

-----------------------------------------------------------------------------
(* Properties.                                                             *)

\* A stage of a chain is dispatched only when the review of the stage before it has
\* accepted, however the stage before it ended (dispatchGate.ts:152).
StagesInOrder ==
  plan.chained => \A a \in Assignments \ {1} :
    plan.row[a] # "none" => review[a - 1].status = "accepted"

\* A task ends as completed only if a reviewer has accepted some of it: no worker, no
\* loop and no watchdog can declare it done (agentExecutor.ts:261).
CompletedOnlyIfReviewed ==
  plan.task = "completed" => \E a \in Assignments : review[a].status = "accepted"

\* When the plan has ended, its agents are gone, and so have the rows of its
\* assignments ended whose last write was not lost, whatever was lost before it:
\* nothing that was queued, dispatched late or reviewed late brings one of them back
\* (subtaskDispatcher.ts:94, orchestrator.ts:468).
EndedPlanLeavesNothing ==
  plan.members # {} /\ ~plan.active =>
    /\ plan.waiting \cup plan.inFlight = {}
    /\ \A a \in plan.members : plan.agent[a] = "gone"
    /\ \A a \in plan.members \ plan.stale : plan.row[a] \in {"none", "missing"} \cup Terminal

\* Every plan ends, even if a loop hangs, an agent is expelled before its loop, or the
\* last failure leaves only blocked assignments (orchestrator.ts:312).
EveryPlanEnds == plan.active ~> ~plan.active

-----------------------------------------------------------------------------
(* What the code's own comments say and the model refutes: nothing checks  *)
(* these; README.md tells the instances that show why.                     *)

\* A terminal state of a task is never written over (taskApi.ts:56).
TerminalTaskIsFinal ==
  [][plan.task \in Terminal \cup {"cancelled"} => plan'.task = plan.task]_vars

\* No row is left open by a plan that has ended (subtaskDispatcher.ts:66: "否则子任务
\* 列表永远显示"已派发"").
EndedPlanLeavesNoOpenRow ==
  plan.members # {} /\ ~plan.active =>
    \A a \in plan.members : plan.row[a] \notin {"assigned", "in_progress"}

\* A failed task has no completed assignment in its table (subtaskDispatcher.ts:66).
RowsAgreeWithTask ==
  plan.task = "failed" => \A a \in Assignments : plan.row[a] # "completed"
=============================================================================
