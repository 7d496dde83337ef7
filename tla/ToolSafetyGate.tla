--------------------------- MODULE ToolSafetyGate ---------------------------
(***************************************************************************)
(* The wrapToolCall middleware of Services/LoopControl/middleware/         *)
(* toolSafetyGate.ts around the tool registry's executeTool, for one loop. *)
(* A loop issues its tool calls one after the other (runIteration.ts), and *)
(* may issue the same call again: a retry, or a model repeating itself.    *)
(* Each handler runs to its next await: the approval, the tool.  A tool    *)
(* that exceeds its timeout is answered for by the timer and goes on       *)
(* running.  The approval gate is here only its verdict (ApprovalGate).    *)
(***************************************************************************)
EXTENDS Integers, EffectJournal

CONSTANTS
  Calls,        \* distinct (tool, arguments) pairs
  Keys,         \* idempotency keys
  KeyOf,        \* makeIdempotencyKey: it drops what is nested in the arguments
  Safe,         \* calls of tools of danger level SAFE
  Dangerous,    \* calls of DANGEROUS and IRREVERSIBLE tools
  Cacheable,    \* calls of tools whose spec.idempotency is not "NO"
  MaxAttempts,  \* bound on the calls issued
  MaxTime,      \* bound on the clock
  DbMayFail     \* whether a statement on the journal or the cache may fail

ASSUME CallsAssumption ==
  /\ Safe \subseteq Calls /\ Dangerous \subseteq Calls /\ Cacheable \subseteq Calls
  /\ Safe \cap Dangerous = {}
  /\ KeyOf \in [Calls -> Keys]
ASSUME BoundsAssumption ==
  MaxAttempts \in Nat /\ MaxTime \in Nat /\ DbMayFail \in BOOLEAN

VARIABLES
  now,        \* the clock
  attempts,   \* calls issued so far; the number of a call is its effect id
  stage,      \* "idle" | "approval" | "running"
  call,       \* the call being handled
  journaled,  \* whether the running call has had its intent accepted
  journal,    \* effect_journal, the rows of this loop
  cache,      \* idempotency_cache
  late,       \* executions still running after their timeout, per call
  effects,    \* how often the side effect of a call has happened
  reply       \* what the model was last told of each call

vars == <<now, attempts, stage, call, journaled, journal, cache, late, effects, reply>>

Replies == {"none", "refused", "cached", "success", "error"}

TypeOK ==
  /\ now \in Nat /\ attempts \in Nat
  /\ stage \in {"idle", "approval", "running"}
  /\ call \in Calls /\ journaled \in BOOLEAN
  /\ journal \in [Keys -> EffectRow]
  /\ cache \in [Keys -> Nat]
  /\ late \in [Calls -> Nat] /\ effects \in [Calls -> Nat]
  /\ reply \in [Calls -> Replies]

\* A statement succeeds, or fails and leaves the rows as they were; no caller
\* in the gate looks at the result of an update or a store.
Attempted(new, old) == IF DbMayFail THEN {new, old} ELSE {new}

Init ==
  /\ now = 0 /\ attempts = 0
  /\ stage = "idle" /\ call \in Calls /\ journaled = FALSE
  /\ journal = [k \in Keys |-> NoEffect]
  /\ cache = [k \in Keys |-> 0]
  /\ late = [c \in Calls |-> 0] /\ effects = [c \in Calls |-> 0]
  /\ reply = [c \in Calls |-> "none"]

\* The model issues call c.
Issue(c) ==
  /\ stage = "idle" /\ attempts < MaxAttempts
  /\ call' = c
  /\ attempts' = attempts + 1

Answer(c, r) == stage' = "idle" /\ reply' = [reply EXCEPT ![c] = r]

\* FORBIDDEN, or an enforceable rule of the code of conduct matches.
Forbidden(c) ==
  /\ Issue(c)
  /\ Answer(c, "refused")
  /\ UNCHANGED <<now, journaled, journal, cache, late, effects>>

\* A fresh entry under the call's key answers without running the tool, be it
\* the result of this call or of another one with the same key.
AnswerFromCache(c) ==
  /\ Issue(c)
  /\ c \in Cacheable /\ CacheHit(cache, KeyOf[c], now)
  /\ Answer(c, "cached")
  /\ UNCHANGED <<now, journaled, journal, cache, late, effects>>

NeverLooksUp(c) == TRUE

\* No fresh entry, or the lookup failed and counts as a miss.
CacheMiss(c) == c \in Cacheable /\ CacheHit(cache, KeyOf[c], now) => DbMayFail

\* A safe tool runs without journal.
RunSafe(c) ==
  /\ Issue(c)
  /\ CacheMiss(c) /\ c \in Safe
  /\ stage' = "running" /\ journaled' = FALSE
  /\ UNCHANGED <<now, journal, cache, late, effects, reply>>

AskApproval(c) ==
  /\ Issue(c)
  /\ CacheMiss(c) /\ c \in Dangerous
  /\ stage' = "approval"
  /\ UNCHANGED <<now, journaled, journal, cache, late, effects, reply>>

ExecuteWithoutIntent(c, eid, approved) ==
  /\ journal' = journal /\ journaled' = TRUE
  /\ stage' = "running" /\ UNCHANGED reply

\* The intent is recorded and, if accepted, marked as executing under this
\* attempt's effect id; then the tool is started.  A refused intent ends the
\* call, unless a human (or the whitelist) has approved it: then it runs with
\* no intent of its own.
Execute(c, eid, approved) ==
  \/ /\ IntentAccepted(journal[KeyOf[c]], now)
     /\ LET intent == [journal EXCEPT ![KeyOf[c]] = IntentRow(@, eid, now)]
        IN journal' \in Attempted(UpdateEffectStatus(intent, eid, "EXECUTING"), intent)
     /\ stage' = "running" /\ journaled' = TRUE /\ UNCHANGED reply
  \/ /\ ~IntentAccepted(journal[KeyOf[c]], now) \/ DbMayFail
     /\ journal' = IF approved THEN UpdateEffectStatus(journal, eid, "EXECUTING")
                   ELSE journal
     /\ journaled' = FALSE
     /\ IF approved THEN stage' = "running" /\ UNCHANGED reply
                    ELSE Answer(c, "refused")

\* A controlled tool goes straight to the journal.
RunControlled(c) ==
  /\ Issue(c)
  /\ CacheMiss(c) /\ c \notin Safe \cup Dangerous
  /\ Execute(c, attempts + 1, FALSE)
  /\ UNCHANGED <<now, cache, late, effects>>

ApprovalGranted ==
  /\ stage = "approval"
  /\ Execute(call, attempts, TRUE)
  /\ UNCHANGED <<now, attempts, call, cache, late, effects>>

\* Rejected, timed out, or the approval could not be created.
ApprovalDenied ==
  /\ stage = "approval"
  /\ Answer(call, "refused")
  /\ UNCHANGED <<now, attempts, call, journaled, journal, cache, late, effects>>

-----------------------------------------------------------------------------
(* The tool returns; attempts is the effect id of the running call.        *)

CloseJournal(c, status) ==
  IF c \in Safe THEN UNCHANGED journal
  ELSE journal' \in Attempted(UpdateEffectStatus(journal, attempts, status), journal)

Happens(c) == effects' = [effects EXCEPT ![c] = @ + 1]

ToolSucceeds ==
  /\ stage = "running"
  /\ Happens(call)
  /\ CloseJournal(call, "SUCCEEDED")
  /\ IF call \in Cacheable \ Safe
       THEN cache' \in Attempted(CacheStore(cache, KeyOf[call], now), cache)
       ELSE UNCHANGED cache
  /\ Answer(call, "success")
  /\ UNCHANGED <<now, attempts, call, journaled, late>>

ToolFailsButCaches ==
  /\ stage = "running"
  /\ Happens(call) \/ UNCHANGED effects
  /\ CloseJournal(call, "FAILED")
  /\ IF call \in Cacheable \ Safe
       THEN cache' = CacheStore(cache, KeyOf[call], now) ELSE UNCHANGED cache
  /\ Answer(call, "error")
  /\ UNCHANGED <<now, attempts, call, journaled, late>>

\* An error does not mean that nothing has happened.
ToolFails ==
  /\ stage = "running"
  /\ Happens(call) \/ UNCHANGED effects
  /\ CloseJournal(call, "FAILED")
  /\ Answer(call, "error")
  /\ UNCHANGED <<now, attempts, call, journaled, cache, late>>

\* Promise.race: the timer answers, the execution is not stopped.
ToolTimesOut ==
  /\ stage = "running"
  /\ late' = [late EXCEPT ![call] = @ + 1]
  /\ CloseJournal(call, "FAILED")
  /\ Answer(call, "error")
  /\ UNCHANGED <<now, attempts, call, journaled, cache, effects>>

LateToolEndsTwice(c) ==
  /\ late' = [late EXCEPT ![c] = @ - 1]
  /\ Happens(c) \/ UNCHANGED effects
  /\ UNCHANGED <<now, attempts, stage, call, journaled, journal, cache, reply>>

\* An execution that outlived its timeout comes to its end; nobody hears of it.
LateToolEnds(c) ==
  /\ late[c] > 0
  /\ late' = [late EXCEPT ![c] = @ - 1]
  /\ Happens(c) \/ UNCHANGED effects
  /\ UNCHANGED <<now, attempts, stage, call, journaled, journal, cache, reply>>

Tick ==
  /\ now < MaxTime
  /\ now' = now + 1
  /\ UNCHANGED <<attempts, stage, call, journaled, journal, cache, late, effects, reply>>

ToolReturns == ToolSucceeds \/ ToolFails \/ ToolTimesOut
ApprovalSettles == ApprovalGranted \/ ApprovalDenied

Next ==
  \/ \E c \in Calls : Forbidden(c) \/ AnswerFromCache(c) \/ RunSafe(c)
                      \/ AskApproval(c) \/ RunControlled(c) \/ LateToolEnds(c)
  \/ ApprovalSettles
  \/ ToolReturns
  \/ Tick

Spec == Init /\ [][Next]_vars

-----------------------------------------------------------------------------
(* Properties.                                                             *)

\* A row that says a call has succeeded says so for ever: no later attempt, late
\* execution or failed statement takes it back, nor does another call with the same
\* key (effectJournal.ts:91).
SucceededIsFinal ==
  [][\A k \in Keys : journal[k].status = "SUCCEEDED" => journal'[k] = journal[k]]_vars

\* Written ahead: while a tool runs whose intent was accepted its row is open,
\* and nothing ever happened for a controlled call without a row to show for it
\* (toolSafetyGate.ts:513).
WrittenAhead ==
  /\ stage = "running" /\ journaled => journal[KeyOf[call]].status \in {"INTENT", "EXECUTING"}
  /\ \A c \in Calls \ (Safe \cup Dangerous) :
       effects[c] + late[c] > 0 => journal[KeyOf[c]].status # "NONE"

\* The model is told that a call ran and succeeded only if its side effect has
\* happened, and is given a cached success only if a call with that key has had its
\* effect (toolSafetyGate.ts:285, 543).
SuccessIsReal ==
  \A c \in Calls :
    /\ reply[c] = "success" => effects[c] > 0
    /\ reply[c] = "cached" => \E d \in Calls : KeyOf[d] = KeyOf[c] /\ effects[d] > 0

\* What the comments promise of the key, "all the arguments" (effectJournal.ts:72,
\* idempotencyStore.ts:50), would give more: a cached success is the call's own.  It
\* does not hold where two calls share a key.
CachedSuccessIsItsOwn ==
  \A c \in Calls : reply[c] = "cached" => effects[c] > 0

\* As long as a result is cached under its key a call has no further side effect,
\* though the cache is read before the approval is asked for and the tool run after
\* it (idempotencyStore.ts:7); executions that outlived their timeout aside.
CachedRests ==
  \A c \in Cacheable :
    CacheHit(cache, KeyOf[c], now) /\ late[c] = 0 => effects'[c] = effects[c]

NoEffectWhileCached == [][CachedRests]_vars

\* A controlled call that has succeeded has no further side effect
\* (effectJournal.ts:91), executions that outlived their timeout aside.
NoEffectAfterSuccess ==
  [][\A c \in Calls \ (Safe \cup Dangerous) :
       reply[c] = "success" /\ late[c] = 0 => effects'[c] = effects[c]]_vars
=============================================================================
