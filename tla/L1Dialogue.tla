----------------------------- MODULE L1Dialogue -----------------------------
(***************************************************************************)
(* The orchestration kernel: the outer loop of an L1 agent                 *)
(* (Core/Orchestration/outerLoop.ts, l1Entry.ts), the lifecycle controller *)
(* that decides what becomes of its component (Core/Lifecycle), the ledgers*)
(* of the agent's host (Core/Ledger, ledgerHub.ts), which all dialogues of *)
(* the agent share, and the split that starts a peer beside it             *)
(* (splitMergeToolPort.ts, splitAgent.ts).                                 *)
(***************************************************************************)
EXTENDS Integers, FiniteSets, FiniteSetsExt

CONSTANTS
  Root,            \* the agent the user talks to
  Siblings,        \* agents a split may create
  Domains,         \* conflict domains a split may name
  Kids,            \* children the executable may report
  Events,          \* what the executable may leave to be decided
  Answers,         \* what the model may answer; "none" is no usable answer
  MaxCycles,       \* maxCycles
  MaxRuns,         \* bound on the dialogues
  MaxLive          \* maxLive of the registry of children

L1Agents == {Root} \cup Siblings
Runs == 1..MaxRuns
States == {"running", "suspend", "terminate", "handoff", "degrade", "abandon"}

VARIABLES
  alive,     \* agents in the registry
  hosts,     \* agents whose ledgers are open
  self,      \* DomainLedger: agent -> selfState
  peers,     \* DomainLedger: agent -> its peers; no code tells it that one is done
  holds,     \* the conflict domain under which an agent was split off
  waits,     \* ChildRegistry: agent -> children registered and not settled
  settled,   \* ChildRegistry: agent -> children settled
  starting,  \* agents split off whose own loop has not begun
  joining,   \* splits between the creation of the peer and its registration
  runs,      \* the dialogues: agent, component state, node, cycles, outcome
  saved      \* dialogues whose suspended component has a checkpoint

vars == <<alive, hosts, self, peers, holds, waits, settled, starting, joining,
          runs, saved>>

ledgers == <<hosts, self, peers, holds, waits, settled>>

NoRun == [agent |-> Root, comp |-> "running", node |-> "open", cycles |-> 0,
          outcome |-> "none"]

TypeOK ==
  /\ Root \in alive /\ alive \subseteq L1Agents /\ hosts \subseteq L1Agents
  /\ self \in [L1Agents -> {"running", "done"}]
  /\ peers \in [L1Agents -> SUBSET Siblings]
  /\ holds \in [Siblings -> Domains \cup {"none"}]
  /\ waits \in [L1Agents -> SUBSET Kids] /\ settled \in [L1Agents -> SUBSET Kids]
  /\ \A a \in L1Agents : Cardinality(waits[a]) <= MaxLive /\ waits[a] \cap settled[a] = {}
  /\ starting \subseteq Siblings
  /\ joining \subseteq [by : L1Agents, peer : Siblings]
  /\ runs \in [Runs -> [agent : L1Agents, comp : States, node : {"open", "settled"},
                        cycles : 0..MaxCycles,
                        outcome : {"none", "going", "complete", "error"}]]
  /\ saved \subseteq Runs

Init ==
  /\ alive = {Root} /\ hosts = {} /\ starting = {} /\ joining = {} /\ saved = {}
  /\ self = [a \in L1Agents |-> "running"] /\ peers = [a \in L1Agents |-> {}]
  /\ holds = [s \in Siblings |-> "none"]
  /\ waits = [a \in L1Agents |-> {}] /\ settled = [a \in L1Agents |-> {}]
  /\ runs = [r \in Runs |-> NoRun]

-----------------------------------------------------------------------------
(* What the controller decides.                                            *)

Final == {"terminate", "abandon"}

\* DEFAULT_LEGALITY, for the events that reach a controller.
Legal(e, s, outstanding) ==
  IF s \in Final THEN {s} ELSE
  CASE e = "component.entered" -> {"running"}
    [] e = "iteration.exited" -> IF outstanding # {} THEN {"suspend", "handoff", "abandon"}
                                 ELSE {"terminate"}
    [] e = "dependency.blocked" -> {"suspend", "degrade", "abandon"}
    [] e = "deadline.reached" -> {"degrade", "abandon"}
    [] e = "budget.exhausted" -> {"suspend", "abandon"}
    [] e = "goal.unmet" -> {"running", "suspend", "degrade"}
    [] e = "goal.satisfied" -> {"running", "terminate"}

\* failureFallback, which no table checks.
Fallback(outstanding) == IF outstanding # {} THEN "suspend" ELSE "abandon"

\* onEvent: an answer outside the legal set is refused, and after three refused
\* ones the controller decides alone. (An answer taken from the cache is one the
\* model gave before; no instruction of the supervision is ever placed.)
Decisions(e, s, outstanding) ==
  LET legal == Legal(e, s, outstanding)
  IN  (Answers \cap legal) \cup (IF Answers \subseteq legal THEN {} ELSE {Fallback(outstanding)})

-----------------------------------------------------------------------------
(* The outer loop.                                                         *)

\* The convergence of the host: its domain, and its children.
Converged(a) == self'[a] = "done" /\ peers'[a] = {} /\ waits'[a] = {}

\* The head of the loop, reached without waiting after a start or a step.
Head(run) ==
  [run EXCEPT !.outcome = CASE Converged(run.agent) -> "complete"
                            [] ~Converged(run.agent) /\ run.cycles >= MaxCycles -> "error"
                            [] OTHER -> "going"]

\* Here a cycle in which the component had nothing left to do is not counted.
NextCycleIfWorked(run) == Head([run EXCEPT !.cycles = IF run.node = "settled" THEN @ ELSE @ + 1])

\* A cycle is counted when its step and its decisions are done.
NextCycle(run) == Head([run EXCEPT !.cycles = @ + 1])

Going(r) == runs[r].outcome = "going"

Fresh(r) == runs[r].outcome = "none" /\ \A s \in 1..(r - 1) : runs[s].outcome # "none"

\* runL1Dialogue: the host is opened once, and is the one all its dialogues share.
Begin(a) ==
  \E r \in Runs :
    /\ Fresh(r) /\ a \in alive
    /\ hosts' = hosts \cup {a}
    /\ UNCHANGED <<alive, self, peers, holds, waits, settled, joining, saved>>
    /\ runs' = [runs EXCEPT ![r] = Head([NoRun EXCEPT !.agent = a])]

\* executeAssignedTask, for a task given to an agent.
Execute(a) == Begin(a) /\ UNCHANGED starting

\* An iteration that does not end the component, or a workflow that has no node
\* left to run.
StepGoesOn(r) ==
  /\ Going(r)
  /\ UNCHANGED <<alive, ledgers, starting, joining, saved>>
  /\ runs' = [runs EXCEPT ![r] = NextCycle(@)]

\* The inner loop fails: so does the dialogue.
StepFails(r) ==
  /\ Going(r) /\ runs[r].node = "open"
  /\ runs' = [runs EXCEPT ![r].outcome = "error"]
  /\ UNCHANGED <<alive, ledgers, starting, joining, saved>>

\* handleDecisions, for an event about a child: the ledger registers or settles
\* it, or refuses and so ends the dialogue.
StepReportsChild(r, k) ==
  LET a == runs[r].agent
      known == k \in waits[a] \cup settled[a]
  IN  /\ Going(r) /\ runs[r].node = "open"
      /\ UNCHANGED <<alive, hosts, self, peers, holds, starting, joining, saved>>
      /\ \/ /\ ~known /\ Cardinality(waits[a]) < MaxLive
            /\ waits' = [waits EXCEPT ![a] = @ \cup {k}]
            /\ runs' = [runs EXCEPT ![r] = NextCycle(@)]
            /\ UNCHANGED settled
         \/ /\ k \in waits[a]
            /\ waits' = [waits EXCEPT ![a] = @ \ {k}]
            /\ settled' = [settled EXCEPT ![a] = @ \cup {k}]
            /\ runs' = [runs EXCEPT ![r] = NextCycle(@)]
         \/ /\ known \/ Cardinality(waits[a]) = MaxLive
            /\ runs' = [runs EXCEPT ![r].outcome = "error"]
            /\ UNCHANGED <<waits, settled>>

\* Here the state moves first.
CommitFirst(r, d, written) == d

\* commit: the state moves once a suspended component is on disk.
Commit(r, d, written) == IF d = "suspend" /\ ~written THEN runs[r].comp ELSE d

\* Here a component that was given up is finished too.
FinishesOrGivesUp(d) == d \in Final

\* The decision that makes an agent a finished member of its domain.
Finishes(d) == d = "terminate"

\* handleDecisions, for an event to be judged: a component that terminates makes
\* its agent a finished member of the domain. The end of an iteration settles the
\* node; what a component reports in passing does not.
StepDecides(r, e) ==
  \E d \in Decisions(e, runs[r].comp, waits[runs[r].agent]),
     written \in BOOLEAN, node \in {"open", "settled"} :
    LET a == runs[r].agent
        moved == [runs[r] EXCEPT !.comp = Commit(r, d, written), !.node = node]
    IN  /\ Going(r) /\ runs[r].node = "open"
        /\ e \in {"iteration.exited", "budget.exhausted"} => node = "settled"
        /\ d # "suspend" => written
        /\ saved' = IF d = "suspend" /\ written THEN saved \cup {r} ELSE saved
        /\ self' = IF Finishes(d) THEN [self EXCEPT ![a] = "done"] ELSE self
        /\ UNCHANGED <<alive, hosts, peers, holds, waits, settled, starting, joining>>
        /\ runs' = [runs EXCEPT ![r] = IF written THEN NextCycle(moved)
                                       ELSE [moved EXCEPT !.outcome = "error"]]

-----------------------------------------------------------------------------
(* A split, which a tool call of an iteration asks for.                    *)

\* spawnSiblingAgent: the agent and its host are there, its loop is on its way.
Split(r, s, domain) ==
  /\ Going(r) /\ runs[r].node = "open"
  /\ ~\E j \in joining : j.by = runs[r].agent
  /\ s \notin alive /\ holds[s] = "none"
  /\ alive' = alive \cup {s} /\ hosts' = hosts \cup {s}
  /\ holds' = [holds EXCEPT ![s] = domain]
  /\ starting' = starting \cup {s}
  /\ joining' = joining \cup {[by |-> runs[r].agent, peer |-> s]}
  /\ UNCHANGED <<self, peers, waits, settled, runs, saved>>

\* Here the peer the domain refused is left where it is.
AbandonNot(s) == UNCHANGED <<alive, hosts>>

\* abandonSiblingAgent.
Abandon(s) == alive' = alive \ {s} /\ hosts' = hosts \ {s}

\* addPeer: two peers of a domain never hold the same conflict domain.
Join(j) ==
  LET taken == \E p \in peers[j.by] : holds[p] = holds[j.peer]
  IN  /\ j \in joining
      /\ joining' = joining \ {j}
      /\ \/ /\ ~taken
            /\ peers' = [peers EXCEPT ![j.by] = @ \cup {j.peer}]
            /\ UNCHANGED <<alive, hosts>>
         \/ /\ taken /\ Abandon(j.peer)
            /\ UNCHANGED peers
      /\ UNCHANGED <<self, holds, waits, settled, starting, runs, saved>>

\* executeAssignedTask of the peer, imported and then called: an agent that has
\* been taken back is refused.
StartPeer(s) ==
  /\ s \in starting
  /\ starting' = starting \ {s}
  /\ \/ Begin(s)
     \/ s \notin alive /\ UNCHANGED <<alive, ledgers, joining, runs, saved>>

-----------------------------------------------------------------------------

Step(r) ==
  \/ StepGoesOn(r) \/ StepFails(r)
  \/ \E k \in Kids : StepReportsChild(r, k)
  \/ \E e \in Events : StepDecides(r, e)

Next ==
  \/ \E a \in L1Agents : Execute(a)
  \/ \E r \in Runs : Step(r)
  \/ \E r \in Runs, s \in Siblings, domain \in Domains : Split(r, s, domain)
  \/ \E j \in [by : L1Agents, peer : Siblings] : Join(j)
  \/ \E s \in Siblings : StartPeer(s)

\* The steps of a dialogue go on as long as the process does: nothing outside of
\* it can hold up its loop, whose iterations have a timeout of their own.
Fairness == \A r \in Runs : WF_vars(Step(r))

Spec == Init /\ [][Next]_vars /\ Fairness

-----------------------------------------------------------------------------
(* Properties.                                                             *)

\* A split leaves nobody behind: outside of the few lines in which a peer is
\* created and registered, every agent that was split off and still exists has
\* ledgers of its own and belongs to exactly one other agent's domain, alone in its
\* conflict domain there; the others are gone from both registries (splitAgent.ts,
\* splitMergeToolPort.ts split).
PeersHaveADomain ==
  \A s \in Siblings \ {j.peer : j \in joining} :
    IF s \in alive
      THEN /\ s \in hosts
           /\ \E a \in L1Agents \ {s} :
                /\ {b \in L1Agents : s \in peers[b]} = {a}
                /\ \A p \in peers[a] \ {s} : holds[p] # holds[s]
      ELSE s \notin hosts /\ \A a \in L1Agents : s \notin peers[a]

\* No false success: a dialogue of an agent reports a complete domain only if some
\* dialogue of that agent brought its component to its end, and never because its
\* component was given up, suspended or cut short, as long as the model's answers are
\* those of l1Entry.ts:218 (outerLoop.ts run, handleDecisions; lifecycleController.ts).
NoFalseSuccess ==
  \A r \in Runs : runs[r].outcome = "complete" =>
    \E t \in Runs : /\ runs[t].agent = runs[r].agent /\ runs[t].comp = "terminate"
                    /\ runs[t].outcome # "none"

\* A component is never suspended without the checkpoint from which it would go on,
\* whatever the checkpoint's write does (lifecycleController.ts commit).
SuspendedIsSaved == \A r \in Runs : runs[r].comp = "suspend" => r \in saved

\* Every dialogue ends, the one whose component has nothing left to do and whose
\* domain does not converge too: the cycles run out (outerLoop.ts run).
EveryDialogueEnds == \A r \in Runs : (runs[r].outcome = "going") ~> (runs[r].outcome # "going")

-----------------------------------------------------------------------------
(* What the code's own comments say and the model refutes: nothing checks  *)
(* these; README.md tells the instances that show why.                     *)

\* What the answer of the split tool promises (agentSplit.ts: "it does not enter your
\* ledger of children - you need not wait for it to converge"): an agent whose
\* component has ended, with no child waiting, is not failed for its peers.
PeersAreNotWaitedFor ==
  \A r \in Runs :
    (runs[r].comp = "terminate" /\ waits[runs[r].agent] = {}) => runs[r].outcome # "error"

\* What executeAssignedTask says it does, "drive the agent through its assigned
\* task": a dialogue that reports success has run its own component to its end.
SuccessMeansTheTaskRan ==
  \A r \in Runs : runs[r].outcome = "complete" => runs[r].comp = "terminate"

\* The table of the lifecycle: a component that terminated or was abandoned stays so
\* (lifecycleTypes.ts DEFAULT_LEGALITY, "absorbing").
TerminalAbsorbs == [][\A r \in Runs : runs[r].comp \in Final => runs'[r].comp = runs[r].comp]_vars
=============================================================================
