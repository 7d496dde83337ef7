-------------------------- MODULE MCToolSafetyGate --------------------------
(***************************************************************************)
(* A call of each kind: read (safe), fetch and fetchNested (controlled,    *)
(* with a cached result), and deploy (dangerous).  The two fetches differ  *)
(* only in what is nested in their arguments and so share a key.  A        *)
(* behaviour is chosen at the start to be one in which any statement on    *)
(* the journal or the cache may fail, or one in which none does, where the *)
(* result of deploy is cached too.                                         *)
(***************************************************************************)
EXTENDS ToolSafetyGate

CONSTANTS fetch, fetchNested, deploy

SharedKeys == [c \in Calls |-> IF c = fetchNested THEN fetch ELSE c]

VARIABLE failing  \* whether the database may fail in this behaviour

Failing == INSTANCE ToolSafetyGate WITH
  DbMayFail <- TRUE, Cacheable <- {fetch, fetchNested}, MaxTime <- MaxTime - 1

EitherInit == Init /\ failing \in BOOLEAN

EitherNext ==
  \/ ~failing /\ Next /\ UNCHANGED failing
  \/ failing /\ Failing!Next /\ UNCHANGED failing

Either == EitherInit /\ [][EitherNext]_<<vars, failing>>

\* The behaviours in which the database works.
Working ==
  /\ Init /\ failing = FALSE
  /\ [][Next /\ UNCHANGED failing]_<<vars, failing>>

\* While the database works, a call has no further side effect while a result is
\* cached under its key, though the cache is read before the approval is asked for (idempotencyStore.ts:7).
WorkingNoEffectWhileCached == [][~failing => CachedRests]_<<vars, failing>>
=============================================================================
