------------------------ MODULE ToolSafetyGate_proofs ------------------------
(***************************************************************************)
(* Proofs about ToolSafetyGate and the operators of EffectJournal, for     *)
(* every set of tools, every timeout and however often statements fail.    *)
(***************************************************************************)
EXTENDS MCToolSafetyGate, TLAPS

USE CallsAssumption, BoundsAssumption, JournalAssumption

Journals == [Keys -> EffectRow]

-----------------------------------------------------------------------------
(* The journal.                                                            *)

\* The absent row is a row of the journal's type.
LEMMA NoEffectType == NoEffect \in EffectRow
BY DEF NoEffect, EffectRow

\* Accepting an intent keeps rows well-typed.
LEMMA IntentRowType ==
  ASSUME NEW row \in EffectRow, NEW eid \in Nat, NEW t \in Nat
  PROVE  /\ IntentRow(row, eid, t) \in EffectRow
         /\ IntentRow(row, eid, t).status = "INTENT"
         /\ IntentRow(row, eid, t).eid \in {row.eid, eid}
BY DEF IntentRow, EffectRow, EffectStatuses

\* Updating a status touches the rows with that effect id, and their status only.
LEMMA UpdateEffect ==
  ASSUME NEW j \in Journals, NEW eid \in Nat, NEW status \in EffectStatuses,
         NEW new, new = UpdateEffectStatus(j, eid, status)
  PROVE  /\ new \in Journals
         /\ \A k \in Keys : /\ new[k].eid = j[k].eid
                            /\ j[k].eid # eid => new[k] = j[k]
                            /\ j[k].eid = eid => new[k].status = status
BY DEF UpdateEffectStatus, Journals, EffectRow

\* A statement has one of two outcomes, whether or not the database may fail.
LEMMA AttemptedIs ==
  ASSUME NEW new, NEW old, NEW x \in Attempted(new, old)
  PROVE  x = new \/ x = old
BY DEF Attempted

-----------------------------------------------------------------------------
(* The invariant.  The effect id of an attempt is its number, and a row    *)
(* keeps the id of the attempt that created it: the running attempt can    *)
(* reach the row it has created, still open, and no other.                 *)

EffectIds ==
  /\ \A k \in Keys : journal[k].eid <= attempts /\ (journal[k].status = "NONE" => journal[k].eid = 0)
  /\ stage = "approval" => attempts > 0 /\ \A k \in Keys : journal[k].eid < attempts
  /\ stage = "running" =>
       /\ attempts > 0
       /\ \A k \in Keys : journal[k].eid = attempts =>
            k = KeyOf[call] /\ journal[k].status \in {"INTENT", "EXECUTING"}

\* A controlled tool runs only on an accepted intent; the cache holds under a
\* key only the result of a call with that key that has had its effect.
Backed ==
  /\ stage = "running" /\ call \notin Safe \cup Dangerous => journaled
  /\ stage = "approval" => call \in Dangerous
  /\ \A k \in Keys : cache[k] > 0 => \E c \in Calls : KeyOf[c] = k /\ effects[c] > 0

GateInv == TypeOK /\ EffectIds /\ Backed /\ WrittenAhead /\ SuccessIsReal

LEMMA GateInit == Init => GateInv
<1> SUFFICES ASSUME Init PROVE GateInv
  OBVIOUS
<1>1. journal = [k \in Keys |-> NoEffect] /\ NoEffect \in EffectRow
  BY NoEffectType DEF Init
<1>2. TypeOK
  BY <1>1 DEF Init, TypeOK, Replies
<1>3. EffectIds
  BY DEF Init, EffectIds, NoEffect
<1>4. Backed /\ WrittenAhead /\ SuccessIsReal
  BY DEF Init, Backed, WrittenAhead, SuccessIsReal
<1>. QED BY <1>2, <1>3, <1>4 DEF GateInv

\* What starting the execution of c as attempt eid does to the journal.
LEMMA ExecuteStep ==
  ASSUME TypeOK, NEW c \in Calls, NEW eid \in Nat \ {0}, NEW approved \in BOOLEAN,
         \A d \in Keys : journal[d].eid < eid,
         \A d \in Keys : journal[d].status = "NONE" => journal[d].eid = 0,
         Execute(c, eid, approved)
  PROVE  /\ journal' \in Journals
         /\ \A d \in Keys : d # KeyOf[c] => journal'[d] = journal[d]
         /\ \A d \in Keys : journal'[d].eid <= eid
         /\ \/ /\ stage' = "running" /\ journaled' = TRUE /\ reply' = reply
               /\ IntentAccepted(journal[KeyOf[c]], now)
               /\ journal'[KeyOf[c]].status \in {"INTENT", "EXECUTING"}
            \/ /\ journaled' = FALSE /\ journal' = journal
               /\ \/ approved /\ stage' = "running" /\ reply' = reply
                  \/ stage' = "idle" /\ reply' = [reply EXCEPT ![c] = "refused"]
<1>1. journal \in Journals /\ now \in Nat /\ KeyOf[c] \in Keys
  BY DEF TypeOK, Journals
<1>2. ASSUME IntentAccepted(journal[KeyOf[c]], now),
             LET intent == [journal EXCEPT ![KeyOf[c]] = IntentRow(@, eid, now)]
             IN journal' \in Attempted(UpdateEffectStatus(intent, eid, "EXECUTING"), intent),
             stage' = "running", journaled' = TRUE, UNCHANGED reply
      PROVE  /\ journal' \in Journals
             /\ \A d \in Keys : d # KeyOf[c] => journal'[d] = journal[d]
             /\ \A d \in Keys : journal'[d].eid <= eid
             /\ journal'[KeyOf[c]].status \in {"INTENT", "EXECUTING"}
  <2> DEFINE row == IntentRow(journal[KeyOf[c]], eid, now)
             intent == [journal EXCEPT ![KeyOf[c]] = row]
             marked == UpdateEffectStatus(intent, eid, "EXECUTING")
  <2>1. journal[KeyOf[c]] \in EffectRow
    BY <1>1 DEF Journals
  <2>2. row \in EffectRow /\ row.status = "INTENT" /\ row.eid \in {journal[KeyOf[c]].eid, eid}
    BY <1>1, <2>1, IntentRowType
  <2>3. intent \in Journals /\ intent[KeyOf[c]] = row /\ \A d \in Keys : d # KeyOf[c] => intent[d] = journal[d]
    BY <1>1, <2>2 DEF Journals
  <2>4. \A d \in Keys : intent[d].eid <= eid /\ intent[d].eid \in Nat
    BY <1>1, <2>2, <2>3 DEF Journals, EffectRow
  <2>5. /\ marked \in Journals
        /\ \A d \in Keys : /\ marked[d].eid = intent[d].eid
                           /\ intent[d].eid # eid => marked[d] = intent[d]
                           /\ intent[d].eid = eid => marked[d].status = "EXECUTING"
    <3>1. "EXECUTING" \in EffectStatuses BY DEF EffectStatuses
    <3>2. marked = UpdateEffectStatus(intent, eid, "EXECUTING") OBVIOUS
    <3> HIDE DEF marked, intent
    <3>. QED BY <2>3, <3>1, <3>2, UpdateEffect
  <2>6. \A d \in Keys : d # KeyOf[c] => intent[d].eid # eid
    BY <1>1, <2>3 DEF Journals, EffectRow
  <2>7. journal' = marked \/ journal' = intent
    BY <1>2, AttemptedIs
  <2>8. CASE journal' = marked
    BY <1>1, <2>2, <2>3, <2>4, <2>5, <2>6, <2>8
  <2>9. CASE journal' = intent
    BY <1>1, <2>2, <2>3, <2>4, <2>9
  <2>. QED BY <2>7, <2>8, <2>9
<1>3. UpdateEffectStatus(journal, eid, "EXECUTING") = journal
  BY <1>1 DEF UpdateEffectStatus, Journals, EffectRow
<1>4. \A d \in Keys : journal[d].eid <= eid
  BY <1>1 DEF Journals, EffectRow
<1>5. CASE /\ IntentAccepted(journal[KeyOf[c]], now)
           /\ LET intent == [journal EXCEPT ![KeyOf[c]] = IntentRow(@, eid, now)]
              IN journal' \in Attempted(UpdateEffectStatus(intent, eid, "EXECUTING"), intent)
           /\ stage' = "running" /\ journaled' = TRUE /\ UNCHANGED reply
  BY <1>2, <1>5
<1>6. CASE /\ journal' = IF approved THEN UpdateEffectStatus(journal, eid, "EXECUTING")
                         ELSE journal
           /\ journaled' = FALSE
           /\ IF approved THEN stage' = "running" /\ UNCHANGED reply
                          ELSE Answer(c, "refused")
  BY <1>1, <1>3, <1>4, <1>6 DEF Answer
<1>. QED BY <1>5, <1>6 DEF Execute

\* What closing the row of the running attempt does to the journal.
LEMMA CloseStep ==
  ASSUME TypeOK, EffectIds, stage = "running",
         NEW status \in EffectStatuses, CloseJournal(call, status)
  PROVE  /\ journal' \in Journals
         /\ \A k \in Keys : /\ journal'[k].eid = journal[k].eid
                            /\ journal[k].eid # attempts => journal'[k] = journal[k]
         /\ \A k \in Keys : journal'[k].status = "NONE" => journal[k].status = "NONE"
<1>1. journal \in Journals /\ attempts \in Nat
  BY DEF TypeOK, Journals
<1>2. CASE journal' = journal
  BY <1>1, <1>2
<1>3. CASE journal' = UpdateEffectStatus(journal, attempts, status)
  <2>1. /\ journal' \in Journals
        /\ \A k \in Keys : /\ journal'[k].eid = journal[k].eid
                           /\ journal[k].eid # attempts => journal'[k] = journal[k]
                           /\ journal[k].eid = attempts => journal'[k].status = status
    BY <1>1, <1>3, UpdateEffect
  <2>2. \A k \in Keys : journal'[k].status = "NONE" => journal[k].status = "NONE"
    BY <2>1 DEF EffectStatuses
  <2>. QED BY <2>1, <2>2
<1>4. journal' = journal \/ journal' = UpdateEffectStatus(journal, attempts, status)
  BY AttemptedIs DEF CloseJournal
<1>. QED BY <1>2, <1>3, <1>4

\* The same steps, seen once: what each kind of step does to the rows, the
\* effects, the cache and the reply.
Finishes ==
  /\ stage = "running"
  /\ \E status \in EffectStatuses : CloseJournal(call, status)
  /\ UNCHANGED <<now, attempts, call, journaled>>
  /\ stage' = "idle"
  /\ \/ /\ reply' = [reply EXCEPT ![call] = "success"]
        /\ effects' = [effects EXCEPT ![call] = @ + 1] /\ late' = late
        /\ cache' = cache \/ cache' = [cache EXCEPT ![KeyOf[call]] = now + CacheTtl]
     \/ /\ reply' = [reply EXCEPT ![call] = "error"] /\ cache' = cache
        /\ \/ late' = late /\ effects' \in {effects, [effects EXCEPT ![call] = @ + 1]}
           \/ late' = [late EXCEPT ![call] = @ + 1] /\ effects' = effects

\* However the tool returns, the call is finished, and a success has happened.
LEMMA ReturnFinishes == ToolReturns => Finishes
<1>1. {"SUCCEEDED", "FAILED"} \subseteq EffectStatuses
  BY DEF EffectStatuses
<1>2. ASSUME ToolSucceeds PROVE Finishes
  <2>1. cache' = cache \/ cache' = [cache EXCEPT ![KeyOf[call]] = now + CacheTtl]
    BY <1>2, AttemptedIs DEF ToolSucceeds, CacheStore
  <2>2. /\ stage = "running" /\ CloseJournal(call, "SUCCEEDED") /\ stage' = "idle"
        /\ reply' = [reply EXCEPT ![call] = "success"]
        /\ effects' = [effects EXCEPT ![call] = @ + 1]
        /\ UNCHANGED <<now, attempts, call, journaled, late>>
    BY <1>2 DEF ToolSucceeds, Happens, Answer
  <2>. QED BY <1>1, <2>1, <2>2 DEF Finishes
<1>3. ASSUME ToolFails PROVE Finishes
  <2>1. /\ stage = "running" /\ CloseJournal(call, "FAILED") /\ stage' = "idle"
        /\ reply' = [reply EXCEPT ![call] = "error"]
        /\ effects' \in {effects, [effects EXCEPT ![call] = @ + 1]}
        /\ UNCHANGED <<now, attempts, call, journaled, late, cache>>
    BY <1>3 DEF ToolFails, Happens, Answer
  <2>. QED BY <1>1, <2>1 DEF Finishes
<1>4. ASSUME ToolTimesOut PROVE Finishes
  <2>1. /\ stage = "running" /\ CloseJournal(call, "FAILED") /\ stage' = "idle"
        /\ reply' = [reply EXCEPT ![call] = "error"]
        /\ late' = [late EXCEPT ![call] = @ + 1]
        /\ UNCHANGED <<now, attempts, call, journaled, effects, cache>>
    BY <1>4 DEF ToolTimesOut, Answer
  <2>. QED BY <1>1, <2>1 DEF Finishes
<1>. QED BY <1>2, <1>3, <1>4 DEF ToolReturns

\* A call that starts: issued as attempt eid, or approved after it was issued.
Starts(c, eid) ==
  /\ attempts' = eid /\ call' = c
  /\ \E approved \in BOOLEAN :
       /\ Execute(c, eid, approved)
       /\ approved <=> c \in Dangerous
  /\ UNCHANGED <<now, cache, late, effects>>

\* Each kind of step preserves the invariant.
LEMMA GateStep == GateInv /\ [Next]_vars => GateInv'
<1> SUFFICES ASSUME GateInv, [Next]_vars PROVE GateInv'
  OBVIOUS
<1>0. TypeOK /\ EffectIds /\ Backed /\ WrittenAhead /\ SuccessIsReal
  BY DEF GateInv
<1>1. ASSUME NEW c \in Calls, Forbidden(c) PROVE GateInv'
  <2>1. /\ stage = "idle" /\ stage' = "idle" /\ call' = c /\ attempts' = attempts + 1
        /\ reply' = [reply EXCEPT ![c] = "refused"]
        /\ UNCHANGED <<now, journaled, journal, cache, late, effects>>
    BY <1>1 DEF Forbidden, Issue, Answer
  <2>2. TypeOK' BY <1>0, <2>1 DEF TypeOK, Replies
  <2>3. EffectIds' BY <1>0, <2>1 DEF TypeOK, EffectIds, EffectRow
  <2>4. Backed' /\ WrittenAhead' BY <1>0, <2>1 DEF Backed, WrittenAhead
  <2>5. SuccessIsReal' BY <1>0, <2>1 DEF TypeOK, SuccessIsReal
  <2>. QED BY <2>2, <2>3, <2>4, <2>5 DEF GateInv
<1>2. ASSUME NEW c \in Calls, AnswerFromCache(c) PROVE GateInv'
  <2>1. /\ stage = "idle" /\ stage' = "idle" /\ call' = c /\ attempts' = attempts + 1
        /\ reply' = [reply EXCEPT ![c] = "cached"] /\ cache[KeyOf[c]] > now
        /\ UNCHANGED <<now, journaled, journal, cache, late, effects>>
    BY <1>2 DEF AnswerFromCache, Issue, Answer, CacheHit
  <2>2. TypeOK' BY <1>0, <2>1 DEF TypeOK, Replies
  <2>3. EffectIds' BY <1>0, <2>1 DEF TypeOK, EffectIds, EffectRow
  <2>4. Backed' /\ WrittenAhead' BY <1>0, <2>1 DEF Backed, WrittenAhead
  <2>5. SuccessIsReal'
    <3>1. \E d \in Calls : KeyOf[d] = KeyOf[c] /\ effects[d] > 0
      BY <1>0, <2>1 DEF TypeOK, Backed
    <3>. QED BY <1>0, <2>1, <3>1 DEF TypeOK, SuccessIsReal
  <2>. QED BY <2>2, <2>3, <2>4, <2>5 DEF GateInv
<1>3. ASSUME NEW c \in Calls, RunSafe(c) PROVE GateInv'
  <2>1. /\ c \in Safe /\ stage' = "running" /\ call' = c /\ attempts' = attempts + 1
        /\ journaled' = FALSE
        /\ UNCHANGED <<now, journal, cache, late, effects, reply>>
    BY <1>3 DEF RunSafe, Issue
  <2>2. TypeOK'
    <3>1. journaled' \in BOOLEAN BY <2>1
    <3>. QED BY <1>0, <2>1, <3>1 DEF TypeOK
  <2>3. EffectIds' BY <1>0, <2>1 DEF TypeOK, EffectIds, EffectRow
  <2>4. Backed' /\ WrittenAhead' BY <1>0, <2>1 DEF Backed, WrittenAhead
  <2>5. SuccessIsReal' BY <1>0, <2>1 DEF SuccessIsReal
  <2>. QED BY <2>2, <2>3, <2>4, <2>5 DEF GateInv
<1>4. ASSUME NEW c \in Calls, AskApproval(c) PROVE GateInv'
  <2>1. /\ c \in Dangerous /\ stage' = "approval" /\ call' = c /\ attempts' = attempts + 1
        /\ UNCHANGED <<now, journaled, journal, cache, late, effects, reply>>
    BY <1>4 DEF AskApproval, Issue
  <2>2. TypeOK' BY <1>0, <2>1 DEF TypeOK
  <2>3. EffectIds' BY <1>0, <2>1 DEF TypeOK, EffectIds, EffectRow
  <2>4. Backed' /\ WrittenAhead' BY <1>0, <2>1 DEF Backed, WrittenAhead
  <2>5. SuccessIsReal' BY <1>0, <2>1 DEF SuccessIsReal
  <2>. QED BY <2>2, <2>3, <2>4, <2>5 DEF GateInv
<1>5. ASSUME NEW c \in Calls, NEW eid \in Nat \ {0}, Starts(c, eid), c \notin Safe,
             \A d \in Keys : journal[d].eid < eid
      PROVE  GateInv'
  <2>1. /\ journal' \in Journals
        /\ \A d \in Keys : d # KeyOf[c] => journal'[d] = journal[d]
        /\ \A d \in Keys : journal'[d].eid <= eid
        /\ \/ /\ stage' = "running" /\ journaled' = TRUE /\ reply' = reply
              /\ journal'[KeyOf[c]].status \in {"INTENT", "EXECUTING"}
           \/ /\ journaled' = FALSE /\ journal' = journal
              /\ \/ c \in Dangerous /\ stage' = "running" /\ reply' = reply
                 \/ stage' = "idle" /\ reply' = [reply EXCEPT ![c] = "refused"]
    <3>1. PICK approved \in BOOLEAN :
            Execute(c, eid, approved) /\ (approved <=> c \in Dangerous)
      BY <1>5 DEF Starts
    <3>2. \A d \in Keys : journal[d].status = "NONE" => journal[d].eid = 0
      BY <1>0 DEF EffectIds
    <3>. QED BY <1>0, <1>5, <3>1, <3>2, ExecuteStep
  <2>2. attempts' = eid /\ call' = c /\ UNCHANGED <<now, cache, late, effects>>
    BY <1>5 DEF Starts
  <2>3. TypeOK'
    <3>1. reply' \in [Calls -> Replies] BY <1>0, <2>1 DEF TypeOK, Replies
    <3>2. stage' \in {"idle", "approval", "running"} /\ journaled' \in BOOLEAN BY <2>1
    <3>. QED BY <1>0, <1>5, <2>1, <2>2, <3>1, <3>2 DEF TypeOK, Journals
  <2>4. EffectIds'
    <3>1. \A d \in Keys : journal[d].eid \in Nat BY <1>0 DEF TypeOK, EffectRow
    <3>2. \A d \in Keys : journal'[d].status = "NONE" => journal'[d].eid = 0
      BY <1>0, <2>1 DEF EffectIds
    <3>3. \A d \in Keys : journal'[d].eid = eid =>
            d = KeyOf[c] /\ (journal' = journal \/ journal'[d].status \in {"INTENT", "EXECUTING"})
      BY <1>5, <2>1, <3>1
    <3>4. journal' = journal => \A d \in Keys : journal'[d].eid # eid
      BY <1>5, <3>1
    <3>. QED BY <1>5, <2>1, <2>2, <3>2, <3>3, <3>4 DEF EffectIds
  <2>5. Backed'
    BY <1>0, <2>1, <2>2 DEF Backed
  <2>6. WrittenAhead'
    BY <1>0, <2>1, <2>2 DEF WrittenAhead
  <2>7. SuccessIsReal'
    BY <1>0, <2>1, <2>2 DEF TypeOK, SuccessIsReal
  <2>. QED BY <2>3, <2>4, <2>5, <2>6, <2>7 DEF GateInv
<1>6. ASSUME NEW c \in Calls, RunControlled(c) PROVE GateInv'
  <2>1. c \notin Safe \cup Dangerous /\ Starts(c, attempts + 1)
    <3>1. /\ c \notin Safe \cup Dangerous /\ attempts' = attempts + 1 /\ call' = c
          /\ Execute(c, attempts + 1, FALSE)
          /\ UNCHANGED <<now, cache, late, effects>>
      BY <1>6 DEF RunControlled, Issue
    <3>. QED BY <3>1 DEF Starts
  <2>2. attempts + 1 \in Nat \ {0} /\ \A d \in Keys : journal[d].eid < attempts + 1
    BY <1>0 DEF TypeOK, EffectIds, EffectRow
  <2>. QED BY <1>5, <2>1, <2>2
<1>7. CASE ApprovalGranted
  <2>1. call \in Dangerous /\ Starts(call, attempts)
    BY <1>0, <1>7 DEF ApprovalGranted, Starts, Backed
  <2>2. call \in Calls /\ attempts \in Nat \ {0} /\ \A d \in Keys : journal[d].eid < attempts
    BY <1>0, <1>7 DEF TypeOK, EffectIds, ApprovalGranted
  <2>. QED BY <1>5, <2>1, <2>2
<1>8. CASE ApprovalDenied
  <2>1. /\ stage = "approval" /\ stage' = "idle" /\ reply' = [reply EXCEPT ![call] = "refused"]
        /\ UNCHANGED <<now, attempts, call, journaled, journal, cache, late, effects>>
    BY <1>8 DEF ApprovalDenied, Answer
  <2>2. TypeOK' BY <1>0, <2>1 DEF TypeOK, Replies
  <2>3. EffectIds' BY <1>0, <2>1 DEF EffectIds
  <2>4. Backed' /\ WrittenAhead' BY <1>0, <2>1 DEF Backed, WrittenAhead
  <2>5. SuccessIsReal' BY <1>0, <2>1 DEF TypeOK, SuccessIsReal
  <2>. QED BY <2>2, <2>3, <2>4, <2>5 DEF GateInv
<1>9. CASE ToolReturns
  <2>1. Finishes BY <1>9, ReturnFinishes
  <2>2. /\ journal' \in Journals
        /\ \A k \in Keys : journal'[k].eid = journal[k].eid
        /\ \A k \in Keys : journal'[k].status = "NONE" => journal[k].status = "NONE"
    BY <1>0, <2>1, CloseStep DEF Finishes
  <2>3. /\ effects' \in [Calls -> Nat] /\ late' \in [Calls -> Nat] /\ cache' \in [Keys -> Nat]
        /\ reply' \in [Calls -> Replies]
    BY <1>0, <2>1 DEF TypeOK, Finishes, Replies
  <2>4. \A c \in Calls : effects'[c] >= effects[c]
    BY <1>0, <2>1 DEF TypeOK, Finishes
  <2>5. TypeOK' BY <1>0, <2>1, <2>2, <2>3 DEF TypeOK, Finishes, Journals
  <2>6. EffectIds' BY <1>0, <2>1, <2>2 DEF EffectIds, Finishes
  <2>7. Backed'
    <3>1. ASSUME NEW k \in Keys, cache'[k] > 0
          PROVE  \E c \in Calls : KeyOf[c] = k /\ effects'[c] > 0
      <4>1. CASE cache'[k] = cache[k]
        <5>1. PICK c \in Calls : KeyOf[c] = k /\ effects[c] > 0
          BY <1>0, <3>1, <4>1 DEF Backed
        <5>. QED BY <1>0, <2>3, <2>4, <5>1 DEF TypeOK
      <4>2. CASE k = KeyOf[call] /\ effects' = [effects EXCEPT ![call] = @ + 1]
        BY <1>0, <4>2 DEF TypeOK
      <4>. QED BY <1>0, <2>1, <4>1, <4>2 DEF Finishes, TypeOK
    <3>. QED BY <2>1, <3>1 DEF Finishes, Backed
  <2>8. WrittenAhead'
    <3>1. call \notin Safe \cup Dangerous => journal[KeyOf[call]].status # "NONE"
      BY <1>0, <2>1 DEF Finishes, Backed, WrittenAhead
    <3>2. \A c \in Calls : c # call => effects'[c] = effects[c] /\ late'[c] = late[c]
      BY <1>0, <2>1 DEF TypeOK, Finishes
    <3>. QED BY <1>0, <2>1, <2>2, <3>1, <3>2 DEF Finishes, WrittenAhead
  <2>9. SuccessIsReal'
    <3>1. ASSUME NEW c \in Calls, reply'[c] = "success" PROVE effects'[c] > 0
      BY <1>0, <2>1, <2>3, <2>4, <3>1 DEF TypeOK, Finishes, SuccessIsReal
    <3>2. ASSUME NEW c \in Calls, reply'[c] = "cached"
          PROVE  \E d \in Calls : KeyOf[d] = KeyOf[c] /\ effects'[d] > 0
      <4>1. reply[c] = "cached" BY <1>0, <2>1, <3>2 DEF TypeOK, Finishes
      <4>2. PICK d \in Calls : KeyOf[d] = KeyOf[c] /\ effects[d] > 0
        BY <1>0, <4>1 DEF SuccessIsReal
      <4>. QED BY <1>0, <2>3, <2>4, <4>2 DEF TypeOK
    <3>. QED BY <3>1, <3>2 DEF SuccessIsReal
  <2>. QED BY <2>5, <2>6, <2>7, <2>8, <2>9 DEF GateInv
<1>10. ASSUME NEW c \in Calls, LateToolEnds(c) PROVE GateInv'
  <2>1. /\ late[c] > 0 /\ late' = [late EXCEPT ![c] = @ - 1]
        /\ effects' \in {effects, [effects EXCEPT ![c] = @ + 1]}
        /\ UNCHANGED <<now, attempts, stage, call, journaled, journal, cache, reply>>
    BY <1>10 DEF LateToolEnds, Happens
  <2>2. TypeOK' BY <1>0, <2>1 DEF TypeOK
  <2>3. EffectIds' BY <1>0, <2>1 DEF EffectIds
  <2>4. \A d \in Calls : effects[d] > 0 => effects'[d] > 0
    BY <1>0, <2>1 DEF TypeOK
  <2>5. Backed' BY <1>0, <2>1, <2>4 DEF Backed
  <2>6. WrittenAhead' BY <1>0, <2>1 DEF TypeOK, WrittenAhead
  <2>7. SuccessIsReal' BY <1>0, <2>1, <2>4 DEF SuccessIsReal
  <2>. QED BY <2>2, <2>3, <2>5, <2>6, <2>7 DEF GateInv
<1>11. CASE Tick
  <2>1. TypeOK' BY <1>0, <1>11 DEF TypeOK, Tick
  <2>2. EffectIds' /\ Backed' /\ WrittenAhead' /\ SuccessIsReal'
    BY <1>0, <1>11 DEF EffectIds, Backed, WrittenAhead, SuccessIsReal, Tick
  <2>. QED BY <2>1, <2>2 DEF GateInv
<1>12. CASE UNCHANGED vars
  BY <1>0, <1>12 DEF GateInv, TypeOK, EffectIds, Backed, WrittenAhead, SuccessIsReal, vars
<1>. QED BY <1>1, <1>2, <1>3, <1>4, <1>6, <1>7, <1>8, <1>9, <1>10, <1>11, <1>12
         DEF Next, ApprovalSettles

\* The invariant from which the theorems follow.
LEMMA GateInvariant == Spec => []GateInv
BY GateInit, GateStep, PTL DEF Spec

\* Type correctness of the gate, its journal and its cache.
THEOREM TypeCorrect == Spec => []TypeOK
<1>1. GateInv => TypeOK BY DEF GateInv
<1>. QED BY GateInvariant, <1>1, PTL

\* Write-ahead: nothing happens for a controlled call that the journal has no
\* row for, and the row of a running journaled call is open.
THEOREM JournalIsWrittenAhead == Spec => []WrittenAhead
<1>1. GateInv => WrittenAhead BY DEF GateInv
<1>. QED BY GateInvariant, <1>1, PTL

\* The model is never told that a call ran and succeeded unless it had its effect, nor
\* given a cached success under a key no call of which has had its effect.
THEOREM NoFalseSuccess == Spec => []SuccessIsReal
<1>1. GateInv => SuccessIsReal BY DEF GateInv
<1>. QED BY GateInvariant, <1>1, PTL

\* The journal never takes back that a call has succeeded.
THEOREM SuccessIsForEver == Spec => SucceededIsFinal
<1> DEFINE Keeps == \A k \in Keys : journal[k].status = "SUCCEEDED" => journal'[k] = journal[k]
<1>1. GateInv /\ [Next]_vars => [Keeps]_vars
  <2> SUFFICES ASSUME GateInv, Next PROVE Keeps
    OBVIOUS
  <2>0. TypeOK /\ EffectIds /\ Backed BY DEF GateInv
  <2>1. CASE UNCHANGED journal
    BY <2>1
  <2>2. ASSUME NEW c \in Calls, NEW eid \in Nat \ {0}, NEW approved \in BOOLEAN,
               Execute(c, eid, approved), \A d \in Keys : journal[d].eid < eid
        PROVE  Keeps
    <3>1. \A d \in Keys : journal[d].status = "NONE" => journal[d].eid = 0
      BY <2>0 DEF EffectIds
    <3>2. /\ \A d \in Keys : d # KeyOf[c] => journal'[d] = journal[d]
          /\ IntentAccepted(journal[KeyOf[c]], now) \/ journal' = journal
      BY <2>0, <2>2, <3>1, ExecuteStep
    <3>3. IntentAccepted(journal[KeyOf[c]], now) => journal[KeyOf[c]].status # "SUCCEEDED"
      BY DEF IntentAccepted, Retryable
    <3>. QED BY <3>2, <3>3
  <2>3. ASSUME NEW c \in Calls, RunControlled(c) PROVE Keeps
    <3>1. attempts + 1 \in Nat \ {0} /\ \A d \in Keys : journal[d].eid < attempts + 1
      BY <2>0 DEF TypeOK, EffectIds, EffectRow
    <3>. QED BY <2>2, <2>3, <3>1 DEF RunControlled
  <2>4. CASE ApprovalGranted
    <3>1. call \in Calls /\ attempts \in Nat \ {0} /\ \A d \in Keys : journal[d].eid < attempts
      BY <2>0, <2>4 DEF TypeOK, EffectIds, ApprovalGranted
    <3>. QED BY <2>2, <2>4, <3>1 DEF ApprovalGranted
  <2>5. CASE ToolReturns
    <3>1. Finishes BY <2>5, ReturnFinishes
    <3>2. \A k \in Keys : journal[k].eid # attempts => journal'[k] = journal[k]
      BY <2>0, <3>1, CloseStep DEF Finishes
    <3>3. \A k \in Keys : journal[k].status = "SUCCEEDED" => journal[k].eid # attempts
      BY <2>0, <3>1 DEF EffectIds, Finishes
    <3>. QED BY <3>2, <3>3
  <2>. QED BY <2>1, <2>3, <2>4, <2>5
       DEF Next, Forbidden, AnswerFromCache, RunSafe, AskApproval, LateToolEnds,
           ApprovalSettles, ApprovalDenied, Tick
<1>. QED BY GateInvariant, <1>1, PTL DEF Spec, SucceededIsFinal

-----------------------------------------------------------------------------
(* The cache.  A call that waits for its approval or runs had no fresh     *)
(* entry under its key when it was issued; only its own success stores one.*)

Uncached == stage # "idle" /\ call \in Cacheable => ~CacheHit(cache, KeyOf[call], now)

\* As long as the cache can be read, no call is under way that it could answer.
LEMMA UncachedStep ==
  ASSUME DbMayFail = FALSE, TypeOK, Uncached, [Next]_vars
  PROVE  Uncached'
<1> USE DEF Uncached
<1>1. ASSUME NEW c \in Calls, Forbidden(c) \/ AnswerFromCache(c) PROVE Uncached'
  BY <1>1 DEF Forbidden, AnswerFromCache, Answer
<1>2. ASSUME NEW c \in Calls, RunSafe(c) \/ AskApproval(c) \/ RunControlled(c)
      PROVE  Uncached'
  BY <1>2 DEF RunSafe, AskApproval, RunControlled, Issue, CacheMiss, CacheHit
<1>3. CASE ApprovalSettles
  BY <1>3 DEF ApprovalSettles, ApprovalGranted, ApprovalDenied, Answer, CacheHit
<1>4. CASE ToolReturns
  BY <1>4 DEF ToolReturns, ToolSucceeds, ToolFails, ToolTimesOut, Answer
<1>5. CASE Tick
  BY <1>5 DEF Tick, CacheHit, TypeOK
<1>6. CASE UNCHANGED vars \/ \E c \in Calls : LateToolEnds(c)
  BY <1>6 DEF vars, LateToolEnds, CacheHit
<1>. QED BY <1>1, <1>2, <1>3, <1>4, <1>5, <1>6 DEF Next

\* A step has no side effect of a call that the cache could answer.
LEMMA CachedRestsStep ==
  ASSUME TypeOK, Uncached, [Next]_vars PROVE [CachedRests]_vars
<1> SUFFICES ASSUME TypeOK, Uncached, Next,
                    NEW c \in Cacheable, CacheHit(cache, KeyOf[c], now), late[c] = 0
             PROVE  effects'[c] = effects[c]
  BY DEF CachedRests
<1>1. c \in Calls
  OBVIOUS
<1>2. CASE ToolReturns
  <2>1. stage = "running" /\ c # call
    BY <1>2 DEF ToolReturns, ToolSucceeds, ToolFails, ToolTimesOut, Uncached
  <2>. QED BY <1>1, <1>2, <2>1
       DEF ToolReturns, ToolSucceeds, ToolFails, ToolTimesOut, Happens, TypeOK
<1>3. ASSUME NEW d \in Calls, LateToolEnds(d) PROVE effects'[c] = effects[c]
  BY <1>1, <1>3 DEF LateToolEnds, Happens, TypeOK
<1>4. CASE UNCHANGED effects
  BY <1>4
<1>. QED BY <1>2, <1>3, <1>4
     DEF Next, Forbidden, AnswerFromCache, RunSafe, AskApproval, RunControlled,
         ApprovalSettles, ApprovalGranted, ApprovalDenied, Tick

\* As long as the database works, a call has no further side effect while a result
\* is cached under its key, though the cache is read before the approval is asked for and the tool
\* run after it (idempotencyStore.ts:7).
THEOREM CachedCallsRest ==
  ASSUME DbMayFail = FALSE PROVE Spec => NoEffectWhileCached
<1>1. Init => Uncached
  BY DEF Init, Uncached
<1>2. TypeOK /\ Uncached /\ [Next]_vars => Uncached'
  BY UncachedStep
<1>3. TypeOK /\ Uncached /\ [Next]_vars => [CachedRests]_vars
  BY CachedRestsStep
<1>. QED BY <1>1, <1>2, <1>3, TypeCorrect, PTL DEF Spec, NoEffectWhileCached

\* The same, in the behaviours of the run in which the database works.
THEOREM RunCachedCallsRest ==
  ASSUME DbMayFail = FALSE PROVE Either => WorkingNoEffectWhileCached
<1> DEFINE Inv == ~failing => GateInv /\ Uncached
<1>1. EitherInit => Inv
  BY GateInit DEF EitherInit, Init, Uncached
<1>2. Inv /\ [EitherNext]_<<vars, failing>> => Inv'
  <2> SUFFICES ASSUME Inv, [EitherNext]_<<vars, failing>>, ~failing' PROVE Inv'
    OBVIOUS
  <2>1. ~failing /\ [Next]_vars
    BY DEF EitherNext
  <2>. QED BY <2>1, GateStep, UncachedStep DEF GateInv
<1>3. Inv /\ [EitherNext]_<<vars, failing>> => [~failing => CachedRests]_<<vars, failing>>
  <2> SUFFICES ASSUME Inv, EitherNext, ~failing PROVE CachedRests \/ UNCHANGED <<vars, failing>>
    OBVIOUS
  <2>1. Next /\ UNCHANGED failing
    BY DEF EitherNext
  <2>2. UNCHANGED vars => CachedRests
    BY DEF vars, CachedRests
  <2>. QED BY <2>1, <2>2, CachedRestsStep DEF GateInv
<1>. QED BY <1>1, <1>2, <1>3, PTL DEF Either, WorkingNoEffectWhileCached
=============================================================================
