------------------------------ MODULE StatsSync ------------------------------
(***************************************************************************)
(* The report of an account's usage to the account server: what the local  *)
(* database holds is derived into events (Interface/RestApi/syncApi), sent *)
(* in batches by the client (services/syncService.pushAll) and stored once *)
(* per idempotency key (StatsRepository.insertEvents).                     *)
(*                                                                         *)
(* The client remembers how far it has come as a point in time.  A batch   *)
(* holds what is later than that point, oldest first, cut at a limit; the  *)
(* cut may go through what happened in the same millisecond.               *)
(* A tool call leaves a row when its side effect starts, if it has one,    *)
(* and a row when it ends; it must be reported under one key, whether the  *)
(* deriver sees one row of it or both.                                     *)
(***************************************************************************)
EXTENDS Integers, FiniteSets, FiniteSetsExt

CONSTANTS
  Turns,        \* assistant messages (token transactions are derived alike)
  SafeCalls,    \* tool calls without a side effect: no row in the journal
  Effects,      \* tool calls with a row in the effect journal
  Limit,        \* events of a batch
  Window,       \* PAIRING_WINDOW_MS
  LookBack,     \* PAIRING_LOOKBACK_MS
  MaxTime       \* bound on the time

Calls == SafeCalls \cup Effects

VARIABLES
  now,       \* the clock, in milliseconds: rows may have the same time
  turn,      \* message -> the time of its row
  started,   \* call -> the time of its row in effect_journal
  ended,     \* call -> the time of its event agent:tool_call_result
  since,     \* statsSyncSince
  sending,   \* the batch under way, none when the client does not push
  counted    \* the keys in usage_events

vars == <<now, turn, started, ended, since, sending, counted>>

Keys == {"msg", "eff", "tool"} \X (Turns \cup Calls)
Batch == [keys : SUBSET Keys, next : 0..MaxTime]

TypeOK ==
  /\ now \in 1..MaxTime /\ since \in 0..MaxTime
  /\ DOMAIN turn \subseteq Turns /\ DOMAIN started \subseteq Effects /\ DOMAIN ended \subseteq Calls
  /\ \A r \in {turn, started, ended} : \A x \in DOMAIN r : r[x] \in 1..MaxTime
  /\ sending \subseteq Batch /\ Cardinality(sending) <= 1
  /\ counted \subseteq Keys

Init ==
  /\ now = 1 /\ turn = <<>> /\ started = <<>> /\ ended = <<>>
  /\ since = 0 /\ sending = {} /\ counted = {}

-----------------------------------------------------------------------------
(* deriveStatsEvents.                                                      *)

\* What an order and a limit leave of a set: any of the orders, where Before leaves a choice.
Firsts(S, n, Before(_, _)) ==
  {T \in SUBSET S :
     /\ Cardinality(T) <= n /\ (T = S \/ Cardinality(T) = n)
     /\ \A x \in T, y \in S \ T : ~Before(y, x)}

\* What a query may return: the oldest of the rows later than a time, so many at most.
Rows(table, after, n) ==
  Firsts({x \in DOMAIN table : table[x] > after}, n, LAMBDA x, y : table[x] < table[y])

Event(kind, x, at) == [key |-> <<kind, x>>, at |-> at]

\* Events of one time are in the order of their keys, which begin with their kind.
Kind == [eff |-> 1, msg |-> 2, tool |-> 3]
Earlier(e, f) ==
  \/ e.at < f.at
  \/ e.at = f.at /\ Kind[e.key[1]] < Kind[f.key[1]]

Distance(s, t) == IF s < t THEN t - s ELSE s - t

\* The journal row an event of a call is paired with: its own, or, when that is not
\* there or taken, the one nearest in time within the window.
Paired(c, free) ==
  LET near == {e \in free : Distance(started[e], ended[c]) <= Window}
  IN IF c \in free THEN {c}
     ELSE {e \in near : \A f \in near :
             Distance(started[e], ended[c]) <= Distance(started[f], ended[c])}

Oldest(rows) == {e \in rows : \A f \in rows : started[e] <= started[f]}

\* The journal rows the calls that ended may take: each in its turn, the oldest first,
\* one of those left that it is paired with, if there is one.
Pairings(calls, rows) ==
  {row \in [calls -> {R \in SUBSET rows : Cardinality(R) <= 1}] :
     \E nth \in [calls -> 1..Cardinality(calls)] :
       /\ \A c, d \in calls : c # d => nth[c] # nth[d] /\ (ended[c] < ended[d] => nth[c] < nth[d])
       /\ \A c \in calls :
            LET free == rows \ UNION {row[d] : d \in {x \in calls : nth[x] < nth[c]}}
                best == Oldest(Paired(c, free))
            IN row[c] \subseteq best /\ (best # {} => row[c] # {})}

\* A call goes by the key of the row it took, and by one of its own without; the rows
\* left stand for calls that have only started.
CallEvents(calls, rows, row) ==
  {Event("tool", c, ended[c]) : c \in {x \in calls : row[x] = {}}}
    \cup {Event("eff", e, started[e]) : e \in rows \ UNION {row[c] : c \in calls}}
    \cup UNION {{Event("eff", e, ended[c]) : e \in row[c]} : c \in calls}

\* What the three queries may return.
Queried(after) ==
  [messages : Rows(turn, after, Limit + 1),
   calls : Rows(ended, after, Limit + 1),
   rows : Rows(started, Max({0, after - LookBack}), Limit + 1)]

\* The sets of events that may be derived.
Derived(after) ==
  UNION {{{Event("msg", m, turn[m]) : m \in q.messages} \cup CallEvents(q.calls, q.rows, row) :
           row \in Pairings(q.calls, q.rows)} : q \in Queried(after)}

\* The oldest events make the batch, and the time of the last is where the next begins.
BatchOf(events, after) ==
  [keys |-> {e.key : e \in events},
   next |-> IF events = {} THEN after ELSE Max({e.at : e \in events})]

Batched(after) ==
  {BatchOf(events, after) : events \in UNION {Firsts(D, Limit, Earlier) : D \in Derived(after)}}

-----------------------------------------------------------------------------
(* The rows of the local database.                                         *)

At(table, x) == [y \in DOMAIN table \cup {x} |-> IF y = x THEN now ELSE table[y]]

Answer(m) ==
  /\ m \in Turns \ DOMAIN turn
  /\ turn' = At(turn, m)
  /\ UNCHANGED <<now, started, ended, since, sending, counted>>

StartEffect(c) ==
  /\ c \in Effects \ DOMAIN started
  /\ started' = At(started, c)
  /\ UNCHANGED <<now, turn, ended, since, sending, counted>>

EndCall(c) ==
  /\ c \in Calls \ DOMAIN ended /\ (c \in Effects => c \in DOMAIN started)
  /\ ended' = At(ended, c)
  /\ UNCHANGED <<now, turn, started, since, sending, counted>>

Tick ==
  /\ now < MaxTime
  /\ now' = now + 1
  /\ UNCHANGED <<turn, started, ended, since, sending, counted>>

-----------------------------------------------------------------------------
(* pushAll, the part that reports the usage.                               *)

\* One round: with nothing to report there is nothing to send.  The next round, of
\* this push when the batch was cut or of a later one, begins like the first.
Push ==
  /\ sending = {}
  /\ \E b \in Batched(since) : b.keys # {} /\ sending' = {b}
  /\ UNCHANGED <<now, turn, started, ended, since, counted>>

\* The server has stored the events, and the client hears of it.
Accepted(b) ==
  /\ b \in sending
  /\ counted' = counted \cup b.keys
  /\ since' = b.next
  /\ sending' = {}
  /\ UNCHANGED <<now, turn, started, ended>>

\* Here a failed request moves the watermark all the same.
SinceMovedOn(b) == b.next

\* The watermark after a failed request.
SinceAfterFailure(b) == since

\* The request or its answer is lost: the server may have stored the events.
Lost(b) ==
  /\ b \in sending
  /\ \/ UNCHANGED counted
     \/ counted' = counted \cup b.keys
  /\ since' = SinceAfterFailure(b)
  /\ sending' = {}
  /\ UNCHANGED <<now, turn, started, ended>>

\* adoptAccount: signing out and in again resets the watermark.
SignOut ==
  /\ since' = 0
  /\ UNCHANGED <<now, turn, started, ended, sending, counted>>

-----------------------------------------------------------------------------
Next ==
  \/ \E m \in Turns : Answer(m)
  \/ \E c \in Calls : StartEffect(c) \/ EndCall(c)
  \/ Tick
  \/ Push
  \/ \E b \in sending : Accepted(b) \/ Lost(b)
  \/ SignOut

Spec == Init /\ [][Next]_vars

-----------------------------------------------------------------------------
\* No other row was written in the millisecond of the message.
Alone(m) ==
  /\ \A x \in DOMAIN turn \ {m} : turn[x] # turn[m]
  /\ \A x \in DOMAIN started : started[x] # turn[m]
  /\ \A x \in DOMAIN ended : ended[x] # turn[m]

(* What lies behind the watermark has been reported: a batch that is cut,  *)
(* a lost answer, a sign-out or a pairing that pulls the watermark back    *)
(* never makes the client pass over an assistant message, unless another   *)
(* row was written in the same millisecond.                                *)
NothingBehindTheWatermark ==
  \A m \in DOMAIN turn : turn[m] <= since /\ Alone(m) => <<"msg", m>> \in counted

CallKeys == {k \in counted : k[1] # "msg"}

-----------------------------------------------------------------------------
(* What the code's own comments say and the model refutes: nothing checks  *)
(* these; README.md tells the instances that show why.                     *)

(* Every assistant message older than the watermark is counted (syncApi:   *)
(* "每次助手回复算一轮"): not one that shares its millisecond with the last    *)
(* event of a batch and was cut off, or was written after the query.       *)
EveryTurnIsCounted ==
  \A m \in DOMAIN turn : turn[m] < since => <<"msg", m>> \in counted

(* Every tool call that ended before the watermark is counted (syncApi:    *)
(* "`tool.call` 现覆盖全部工具调用").                                      *)
EveryCallIsCounted ==
  Cardinality({c \in DOMAIN ended : ended[c] <= since}) <= Cardinality(CallKeys)

(* No tool call is counted twice, also when everything is reported again   *)
(* (syncApi: "这样即使客户端重置水位、全量重传，也不会把同一次调用算两次").  *)
NoCallCountedTwice ==
  Cardinality(CallKeys) <= Cardinality(DOMAIN started \cup DOMAIN ended)
=============================================================================
