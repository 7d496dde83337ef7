----------------------------- MODULE MCSingleAgent -----------------------------
(***************************************************************************)
(* What an agent goes through, checked in one run: a behaviour is one of   *)
(* FreezeAndWallet (what it may spend), L1Dialogue (its outer loop and its *)
(* splits) or ApprovalGate (a call of it that waits), which share no       *)
(* state, chosen at the start; the variables of the others stay as they    *)
(* began.  Each has the fairness its module states.                        *)
(***************************************************************************)
EXTENDS FreezeAndWallet

CONSTANTS
  Root, Siblings, Domains, Kids, Events, Answers, MaxCycles, MaxRuns,
  MaxLive,                                                             \* L1Dialogue
  Approvals, Whitelisted, alice, worker, Timeout, Delay                \* ApprovalGate

VARIABLES
  part,
  alive, hosts, self, peers, holds, waits, settled, starting, joining, runs, saved,
  gateNow, sessionAuto, inQueue, queue, caller, answer, disk, past

Dialogues == INSTANCE L1Dialogue
Gate == INSTANCE ApprovalGate WITH
  Accounts <- {alice}, Agents <- {worker}, ExecRole <- [a \in {worker} |-> "worker"],
  HumanApprovalSuffices <- TRUE, DbMayFail <- TRUE, now <- gateNow

freeze == vars
dialogues == <<alive, hosts, self, peers, holds, waits, settled, starting, joining, runs, saved>>
gate == <<gateNow, sessionAuto, inQueue, queue, caller, answer, disk, past>>

OneByOneInit ==
  /\ part \in {"freeze", "dialogues", "gate"}
  /\ Init /\ Dialogues!Init /\ Gate!Init

OneByOneNext ==
  \/ part = "freeze" /\ Next /\ UNCHANGED <<part, dialogues, gate>>
  \/ part = "dialogues" /\ Dialogues!Next /\ UNCHANGED <<part, freeze, gate>>
  \/ part = "gate" /\ Gate!Next /\ UNCHANGED <<part, freeze, dialogues>>

\* The Fairness of each module, for the behaviours of its part.
FairlyOneByOne ==
  /\ WF_freeze(part = "freeze" /\ Tick)
  /\ WF_freeze(part = "freeze" /\ AuditCycle)
  /\ \A r \in 1..MaxRuns : WF_dialogues(part = "dialogues" /\ Dialogues!Step(r))
  /\ WF_gate(part = "gate" /\ Gate!Tick)
  /\ WF_gate(part = "gate" /\ Gate!Sweep)
  /\ \A a \in Approvals : /\ WF_gate(part = "gate" /\ Gate!AutoApprove(a))
                          /\ WF_gate(part = "gate" /\ Gate!WaiterTimeout(a))

OneByOne ==
  OneByOneInit /\ [][OneByOneNext]_<<part, freeze, dialogues, gate>> /\ FairlyOneByOne

-----------------------------------------------------------------------------
(* What is checked, beside what FreezeAndWallet states.                    *)

\* The state of every part has its type.
TypesOK ==
  /\ part = "freeze" => TypeOK
  /\ part = "dialogues" => Dialogues!TypeOK
  /\ part = "gate" => Gate!TypeOK

\* L1Dialogue: a split leaves no peer without a domain (splitAgent.ts).
PeersHaveADomain == part = "dialogues" => Dialogues!PeersHaveADomain

\* L1Dialogue: success is reported only of what was brought to its end
\* (outerLoop.ts, lifecycleController.ts).
NoFalseSuccess == part = "dialogues" => Dialogues!NoFalseSuccess

\* L1Dialogue: what is suspended can go on (lifecycleController.ts).
SuspendedIsSaved == part = "dialogues" => Dialogues!SuspendedIsSaved

\* L1Dialogue: every dialogue ends (outerLoop.ts).
EveryDialogueEnds == Dialogues!EveryDialogueEnds

\* ApprovalGate: nobody waits for ever, even when no row can be written
\* (approvalGate.ts).
EveryCallAnswered == Gate!EveryCallAnswered
================================================================================
