-------------------------- MODULE MCDurableRecovery --------------------------
(***************************************************************************)
(* A small instance of DurableRecovery for TLC.  A behaviour is chosen at  *)
(* the start to be brief, which is to say that loops end after one         *)
(* iteration and the process restarts twice, or to have loops of more      *)
(* iterations and one restart.  In some of the brief ones any statement on *)
(* the database may fail, and there the process restarts once.             *)
(***************************************************************************)
EXTENDS DurableRecovery, TLC

VARIABLES
  failing,  \* whether the database may fail in this behaviour
  brief     \* whether its loops end after one iteration

Failing == INSTANCE DurableRecovery WITH DbMayFail <- TRUE, MaxRestarts <- 1

OneIterationEach ==
  \A l \in Loops : ckpt[l].iteration <= 1 /\ (iter[l] = 1 => stage[l] \notin Living)

EitherInit == Init /\ failing \in BOOLEAN /\ brief \in BOOLEAN /\ (failing => brief)

EitherNext ==
  /\ \/ ~failing /\ Next /\ (restarts' <= 1 \/ brief)
     \/ failing /\ Failing!Next
  /\ brief => OneIterationEach'
  /\ UNCHANGED <<failing, brief>>

Either == EitherInit /\ [][EitherNext]_<<vars, failing, brief>>

\* While the database works, a resumed loop repeats, of what the loop it was resumed
\* from had done, calls of its last iteration only (iterationCheckpoint.ts:12).
WorkingRepeatsOneIteration == ~failing => RepeatsOneIteration

\* While the database works, a step in doubt for longer than the journal's timeout is
\* left to a human: a query that fails counts as no doubt (recoveryScanner.ts:172).
WorkingDoubtNeedsHuman == ~failing => DoubtNeedsHuman

\* Identifiers of loops are interchangeable.
Symmetry == Permutations(Loops)
=============================================================================
