---------------------------- MODULE EffectJournal ----------------------------
(***************************************************************************)
(* The effect journal (Infra/DurableExecution/effectJournal.ts) and the    *)
(* idempotency cache (idempotencyStore.ts), as operators on their rows.    *)
(*                                                                         *)
(* UNIQUE(loop_id, idempotency_key) gives a loop one journal row per       *)
(* idempotency key, so a journal is a function from keys to rows.  A key   *)
(* is computed from the tool and the arguments of a call, and not every    *)
(* two calls have different ones (makeIdempotencyKey): which calls share   *)
(* a key is for the module that issues them to say.  Effect identifiers    *)
(* are positive numbers.                                                   *)
(***************************************************************************)
EXTENDS Integers

CONSTANTS
  JournalTimeout,  \* timeout_ms of every row: defaultTimeoutMs, in ticks
  CacheTtl         \* cacheTtlMs, in ticks

ASSUME JournalAssumption == JournalTimeout \in Nat /\ CacheTtl \in Nat \ {0}

EffectStatuses == {"INTENT", "EXECUTING", "SUCCEEDED", "FAILED", "UNKNOWN"}

NoEffect == [eid |-> 0, status |-> "NONE", startedAt |-> 0]

EffectRow == [eid : Nat, status : EffectStatuses \cup {"NONE"}, startedAt : Nat]

Stale(row, now) == now - row.startedAt > JournalTimeout

RetryableEvenWhenDone(row, now) ==
  \/ row.status \in {"SUCCEEDED", "FAILED", "UNKNOWN"}
  \/ row.status \in {"INTENT", "EXECUTING"} /\ Stale(row, now)

\* What an INSERT that hits the unique key may take over.
Retryable(row, now) ==
  \/ row.status \in {"FAILED", "UNKNOWN"}
  \/ row.status \in {"INTENT", "EXECUTING"} /\ Stale(row, now)

\* recordIntent accepts: no row yet, or one that may be retried.
IntentAccepted(row, now) == row.status = "NONE" \/ Retryable(row, now)

\* The row recordIntent leaves: a retry keeps the effect_id of the first
\* attempt, whatever id the caller has generated for this one.
IntentRow(row, eid, now) ==
  [eid |-> IF row.status = "NONE" THEN eid ELSE row.eid,
   status |-> "INTENT", startedAt |-> now]

\* UPDATE ... WHERE effect_id = eid: no guard on the old status, and no row
\* with that id is no error.
UpdateEffectStatus(journal, eid, status) ==
  [k \in DOMAIN journal |->
     IF journal[k].eid = eid THEN [journal[k] EXCEPT !.status = status] ELSE journal[k]]

\* resolveTimedOutEffects: only rows marked as executing become unknown.
ResolveTimedOutEffects(journal, now) ==
  [k \in DOMAIN journal |->
     IF journal[k].status = "EXECUTING" /\ Stale(journal[k], now)
       THEN [journal[k] EXCEPT !.status = "UNKNOWN"] ELSE journal[k]]

UnknownEffects(journal) == {k \in DOMAIN journal : journal[k].status = "UNKNOWN"}

\* The cache maps a key to the time its entry expires, 0 if it has none.
CacheHit(cache, k, now) == cache[k] > now

CacheStore(cache, k, now) == [cache EXCEPT ![k] = now + CacheTtl]
==============================================================================
