-------------------------------- MODULE MCTeam --------------------------------
(***************************************************************************)
(* What agents do together, checked in one run: a behaviour is one of      *)
(* Orchestration (a task, its plan and its workers) or of SharedMemory     *)
(* (what they write, and the cases about it), which share no state, chosen *)
(* at the start; the variables of the other stay as they began.  Each has  *)
(* the fairness its module states.                                         *)
(***************************************************************************)
EXTENDS Orchestration

CONSTANTS
  Accounts, Anonymous, Keys, Alert, MaxWrites, MaxCases, MaxRestarts   \* SharedMemory

VARIABLES
  part,
  tables,   \* what became of the tables
  account, entries, counter, rows, cases, restarts

Memory == INSTANCE SharedMemory

tasks == vars
memory == <<account, entries, counter, rows, cases, restarts>>

OneByOneInit == tables = "sound" /\ part \in {"tasks", "memory"} /\ Init /\ Memory!Init

Everything == {"insert", "read", "update"} \X (0..N)
Elsewhere == {"read", "update"} \X (0..N)

\* What a step may lose: nothing; one statement, or all, once in a behaviour; or, from
\* some step on, what finds no row under another account.
FewLosses == {{}, Everything, Elsewhere} \cup {{st} : st \in Everything}

Loses(lost) ==
  \/ lost = {} /\ tables # "elsewhere" /\ tables' = tables
  \/ lost \notin {{}, Elsewhere} /\ tables = "sound" /\ tables' = "spoilt"
  \/ lost = Elsewhere /\ tables # "spoilt" /\ tables' = "elsewhere"

\* Where something is lost a worker submits once.
TaskStep ==
  /\ \/ \E lost \in Losses : Persisting(lost) /\ Loses(lost)
     \/ UNCHANGED tables /\ (Iterate \/ Tick \/ \E t \in Assignments : Submit(t) \/ Expel(t))
  /\ tables' = "sound" \/ \A a \in Assignments : submits'[a] <= 1

OneByOneNext ==
  \/ part = "tasks" /\ TaskStep /\ UNCHANGED <<part, memory>>
  \/ part = "memory" /\ Memory!Next /\ UNCHANGED <<part, tables, tasks>>

\* The Fairness of each module, for the behaviours of its part.
FairlyOneByOne ==
  /\ WF_tasks(part = "tasks" /\ Tick)
  /\ []<>(part = "tasks" => ~due)
  /\ WF_memory(part = "memory" /\ \E i \in DOMAIN cases : Memory!Ages(i))
  /\ WF_memory(part = "memory" /\ Memory!Sweep)

OneByOne == OneByOneInit /\ [][OneByOneNext]_<<part, tables, tasks, memory>> /\ FairlyOneByOne

-----------------------------------------------------------------------------
(* What is checked, beside what Orchestration states.            *)

\* The state of both parts has its type.
TypesOK == (part = "tasks" => TypeOK) /\ (part = "memory" => Memory!TypeOK)

\* SharedMemory: the content an account reads was written under it
\* (globalWorkspace.ts).
OwnersReadTheirOwnContent == part = "memory" => Memory!OwnersReadTheirOwnContent

\* SharedMemory: a claim is turned into its opposite only by a ruling
\* (globalWorkspace.ts, arbitrationWiring.ts).
NoSilentReversal == Memory!NoSilentReversal

\* SharedMemory: a conflict is never before two cases at once (tribunal.ts).
OneOpenCase == part = "memory" => Memory!OneOpenCase

\* SharedMemory: no conflict is left undecided for ever (tribunal.ts).
EveryCaseEnds == Memory!EveryCaseEnds
================================================================================
