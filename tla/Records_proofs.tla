--------------------------- MODULE Records_proofs ---------------------------
(***************************************************************************)
(* Proofs about the run MCRecords, in which a behaviour is one of five     *)
(* components that keep records: the settings, the ledgers of domains and  *)
(* children, the reports of the usage, and the votes.  All are proved      *)
(* about for any values of their constants; of the votes it is shown here  *)
(* that RoleMatching_proofs applies to the run.                            *)
(***************************************************************************)
EXTENDS MCRecords, TLAPS, FiniteSets, FiniteSetTheorems, SequenceTheorems, WellFoundedInduction

-----------------------------------------------------------------------------
(* The settings.  RevisionNamesItsData is not inductive: the answer to a   *)
(* pull and the answer to a push may come late.  The strengthening says    *)
(* the same of whatever may still become what a device knows, and that     *)
(* none of it is ahead of the server.                                      *)

\* What is known of the settings somewhere is at most as new as the server's
\* version, and is that version if it is as new.
NotAhead(known) ==
  /\ known.revision \in Nat /\ known.revision <= stored.revision
  /\ known.revision = stored.revision => known = stored

\* The answer to push n.
AnswerTo(n) == [revision |-> pushes[n].revision, version |-> n]

\* The shape of the state; numbers are not bounded here.
Stages == {"sent", "checked", "stored", "refused", "told"}
PushRows == [by : Devices, expected : Nat, read : Nat, at : Stages, revision : Nat]
Shape ==
  /\ stored.revision \in Nat
  /\ meta = [d \in Devices |-> meta[d]]
  /\ pulled = [d \in Devices |-> pulled[d]]
  /\ pushes = [n \in DOMAIN pushes |-> pushes[n]]
  /\ \A n \in DOMAIN pushes : pushes[n] \in PushRows

KnownInv ==
  /\ Shape
  /\ stored.revision = 0 => stored = None
  /\ \A d \in Devices : NotAhead(meta[d])
  /\ \A d \in Devices : \A answer \in pulled[d] : NotAhead(answer)
  /\ \A n \in DOMAIN pushes : pushes[n].at = "stored" => NotAhead(AnswerTo(n))

\* At the start nothing is known and nothing is stored (DEFAULT_SYNC_META).
LEMMA KnownInvInit == Init => KnownInv
BY DEF Init, KnownInv, Shape, NotAhead, AnswerTo, None

\* The fields of a push after the server or the device has dealt with it.
LEMMA PushRowUpdate ==
  ASSUME NEW p \in PushRows, NEW at \in Stages, NEW revision \in Nat, NEW read \in Nat
  PROVE  /\ [p EXCEPT !.at = at, !.revision = revision, !.read = read] \in PushRows
         /\ [p EXCEPT !.at = at, !.read = read] \in PushRows
         /\ [p EXCEPT !.at = at] \in PushRows
BY DEF PushRows

\* What a step has to show that leaves the server's row alone: what is known after it
\* was known somewhere before it.
LEMMA NothingNew ==
  ASSUME KnownInv, Shape', stored' = stored,
         \A d \in Devices : NotAhead(meta'[d]),
         \A d \in Devices : \A answer \in pulled'[d] : NotAhead(answer),
         \A n \in DOMAIN pushes' : pushes'[n].at = "stored" =>
            /\ n \in DOMAIN pushes /\ pushes[n].at = "stored"
            /\ pushes'[n].revision = pushes[n].revision
  PROVE  KnownInv'
<1>1. \A n \in DOMAIN pushes' : pushes'[n].at = "stored" => NotAhead(AnswerTo(n))'
  BY DEF KnownInv, NotAhead, AnswerTo
<1>2. \A d \in Devices : NotAhead(meta[d])'
  BY DEF NotAhead
<1>3. \A d \in Devices : \A answer \in pulled'[d] : NotAhead(answer)'
  BY DEF NotAhead
<1> QED BY <1>1, <1>2, <1>3 DEF KnownInv

\* A write of the server leaves all that was known behind (putSettings).
LEMMA StoreKeepsKnownInv ==
  ASSUME KnownInv, NEW n \in DOMAIN pushes, Store(n)
  PROVE  KnownInv'
<1> DEFINE ok == (pushes[n].read = 0) <=> (stored = None)
           new == [revision |-> stored.revision + 1, version |-> n]
           at == IF ok THEN "stored" ELSE "refused"
           revision == IF ok THEN new.revision ELSE 0
<1>1. /\ pushes[n].at = "checked"
      /\ stored' = IF ok THEN new ELSE stored
      /\ pushes' = [pushes EXCEPT ![n].at = at, ![n].revision = revision, ![n].read = 0]
      /\ meta' = meta /\ pulled' = pulled
  BY DEF Store, NextRevision
<1>2. DOMAIN pushes' = DOMAIN pushes
  BY <1>1
<1>3. \A k \in DOMAIN pushes : k # n => pushes'[k] = pushes[k]
  BY <1>1 DEF KnownInv, Shape
<1>4. /\ pushes[n] \in PushRows
      /\ pushes'[n] = [pushes[n] EXCEPT !.at = at, !.revision = revision, !.read = 0]
      /\ pushes'[n].at = at /\ pushes'[n].revision = revision
  <2>1. pushes[n] \in PushRows
    BY DEF KnownInv, Shape
  <2> HIDE DEF at, revision
  <2>2. pushes'[n] = [pushes[n] EXCEPT !.at = at, !.revision = revision, !.read = 0]
    BY <1>1 DEF KnownInv, Shape
  <2> QED BY <2>1, <2>2 DEF PushRows
<1>5. Shape'
  <2>1. stored'.revision \in Nat
    BY <1>1 DEF KnownInv, Shape
  <2>2. pushes'[n] \in PushRows
    <3>1. revision \in Nat
      BY DEF KnownInv, Shape
    <3>2. at \in Stages
      BY DEF Stages
    <3> HIDE DEF at, revision
    <3>3. [pushes[n] EXCEPT !.at = at, !.revision = revision, !.read = 0] \in PushRows
      BY <1>4, <3>1, <3>2 DEF PushRows
    <3> QED BY <1>4, <3>3
  <2>3. pushes' = [k \in DOMAIN pushes' |-> pushes'[k]]
    BY <1>1 DEF KnownInv, Shape
  <2> QED BY <1>1, <1>2, <1>3, <2>1, <2>2, <2>3 DEF KnownInv, Shape
<1>6. stored'.revision = 0 => stored' = None
  BY <1>1 DEF KnownInv, Shape
<1>7. CASE ok
  <2>1. stored'.revision = stored.revision + 1 /\ stored' = new
    BY <1>1, <1>7
  <2>2. \A known : NotAhead(known) => NotAhead(known)'
    BY <2>1 DEF NotAhead, KnownInv, Shape
  <2>3. AnswerTo(n)' = stored' /\ NotAhead(AnswerTo(n))'
    BY <2>1, <1>4, <1>5, <1>7 DEF AnswerTo, NotAhead, KnownInv, Shape
  <2>4. \A k \in DOMAIN pushes : k # n => AnswerTo(k)' = AnswerTo(k)
    BY <1>3 DEF AnswerTo
  <2>5. \A d \in Devices : NotAhead(meta[d])'
    BY <1>1, <2>2 DEF KnownInv, NotAhead
  <2>6. \A d \in Devices : \A answer \in pulled'[d] : NotAhead(answer)'
    BY <1>1, <2>2 DEF KnownInv, NotAhead
  <2>7. \A k \in DOMAIN pushes' : pushes'[k].at = "stored" => NotAhead(AnswerTo(k))'
    <3> SUFFICES ASSUME NEW k \in DOMAIN pushes, k # n, pushes'[k].at = "stored"
                 PROVE  NotAhead(AnswerTo(k))'
      BY <1>2, <2>3
    <3>1. NotAhead(AnswerTo(k)) /\ AnswerTo(k)' = AnswerTo(k)
      BY <1>3, <2>4 DEF KnownInv
    <3> QED BY <2>2, <3>1 DEF NotAhead
  <2> QED BY <1>5, <1>6, <2>5, <2>6, <2>7 DEF KnownInv
<1>8. CASE ~ok
  <2>1. stored' = stored /\ pushes'[n].at = "refused"
    BY <1>1, <1>4, <1>8 DEF KnownInv, Shape
  <2>2. \A k \in DOMAIN pushes' : pushes'[k].at = "stored" => NotAhead(AnswerTo(k))'
    BY <1>2, <1>3, <2>1 DEF KnownInv, NotAhead, AnswerTo
  <2>3. \A d \in Devices : NotAhead(meta[d])'
    BY <1>1, <2>1 DEF KnownInv, NotAhead
  <2>4. \A d \in Devices : \A answer \in pulled'[d] : NotAhead(answer)'
    BY <1>1, <2>1 DEF KnownInv, NotAhead
  <2> QED BY <1>5, <1>6, <2>2, <2>3, <2>4 DEF KnownInv
<1> QED BY <1>7, <1>8

\* Every step but a deletion keeps what is known behind the server or at it.
LEMMA KnownInvStep ==
  ASSUME MayReset = FALSE, KnownInv, [Next]_vars
  PROVE  KnownInv'
<1>1. ASSUME NEW n \in DOMAIN pushes, Check(n) PROVE KnownInv'
  <2> DEFINE at == IF Accepts(pushes[n]) THEN "checked" ELSE "refused"
             read == IF Accepts(pushes[n]) THEN stored.revision ELSE 0
  <2>1. at \in Stages /\ at # "stored" /\ read \in Nat
    BY DEF KnownInv, Shape, Stages
  <2>2. /\ pushes' = [pushes EXCEPT ![n].at = at, ![n].read = read]
        /\ stored' = stored /\ meta' = meta /\ pulled' = pulled
    BY <1>1 DEF Check
  <2> HIDE DEF at, read
  <2>3. /\ pushes[n] \in PushRows
        /\ DOMAIN pushes' = DOMAIN pushes
        /\ pushes' = [k \in DOMAIN pushes' |-> pushes'[k]]
        /\ pushes'[n] = [pushes[n] EXCEPT !.at = at, !.read = read]
        /\ \A k \in DOMAIN pushes : k # n => pushes'[k] = pushes[k]
    BY <2>2 DEF KnownInv, Shape
  <2>4. pushes'[n] \in PushRows /\ pushes'[n].at # "stored"
    <3>1. [pushes[n] EXCEPT !.at = at, !.read = read] \in PushRows
      BY <2>1, <2>3, PushRowUpdate
    <3>2. [pushes[n] EXCEPT !.at = at, !.read = read].at = at
      BY <2>3 DEF PushRows
    <3>. QED BY <2>1, <2>3, <3>1, <3>2
  <2>5. Shape'
    BY <2>2, <2>3, <2>4 DEF KnownInv, Shape
  <2> QED BY <2>2, <2>3, <2>4, <2>5, NothingNew DEF KnownInv
<1>2. ASSUME NEW n \in DOMAIN pushes, Store(n) PROVE KnownInv'
  BY <1>2, StoreKeepsKnownInv
<1>3. ASSUME NEW n \in DOMAIN pushes, Pushed(n) PROVE KnownInv'
  <2>1. NotAhead(AnswerTo(n)) /\ meta' = [meta EXCEPT ![pushes[n].by] = AnswerTo(n)]
    BY <1>3 DEF Pushed, KnownInv, AnswerTo
  <2>2. \A d \in Devices : NotAhead(meta'[d])
    BY <2>1 DEF KnownInv, Shape
  <2>3. /\ pushes[n] \in PushRows
        /\ DOMAIN pushes' = DOMAIN pushes
        /\ pushes' = [k \in DOMAIN pushes' |-> pushes'[k]]
        /\ pushes'[n] = [pushes[n] EXCEPT !.at = "told"]
        /\ \A k \in DOMAIN pushes : k # n => pushes'[k] = pushes[k]
        /\ stored' = stored /\ pulled' = pulled
    BY <1>3 DEF Pushed, KnownInv, Shape
  <2>4. pushes'[n] \in PushRows /\ pushes'[n].at = "told"
    <3>1. "told" \in Stages
      BY DEF Stages
    <3>2. [pushes[n] EXCEPT !.at = "told"] \in PushRows
      BY <2>3, <3>1, PushRowUpdate, 0 \in Nat
    <3> QED BY <2>3, <3>2 DEF PushRows
  <2>5. Shape'
    BY <2>1, <2>3, <2>4 DEF KnownInv, Shape
  <2> QED BY <2>2, <2>3, <2>4, <2>5, NothingNew DEF KnownInv
<1>4. CASE Reset
  BY <1>4 DEF Reset
<1>5. ASSUME NEW d \in Devices, NEW force \in BOOLEAN, Push(d, force) PROVE KnownInv'
  <2> DEFINE k == Count + 1
             sent == [by |-> d, expected |-> IF force THEN 0 ELSE meta[d].revision,
                      read |-> 0, at |-> "sent", revision |-> 0]
  <2>1. /\ DOMAIN pushes' = DOMAIN pushes \cup {k}
        /\ \A n \in DOMAIN pushes : n # k => pushes'[n] = pushes[n]
        /\ pushes'[k] = sent
        /\ pushes' = [n \in DOMAIN pushes' |-> pushes'[n]]
        /\ stored' = stored /\ meta' = meta /\ pulled' = pulled
    BY <1>5 DEF Push
  <2>2. sent \in PushRows /\ sent.at # "stored"
    BY DEF KnownInv, NotAhead, PushRows, Stages
  <2> HIDE DEF k, sent
  <2>3. Shape'
    BY <2>1, <2>2 DEF KnownInv, Shape
  <2> QED BY <2>1, <2>2, <2>3, NothingNew DEF KnownInv
<1>6. ASSUME NEW d \in Devices, Pull(d) PROVE KnownInv'
  <2>1. NotAhead(stored)
    BY DEF KnownInv, Shape, NotAhead
  <2>2. /\ pulled' = [pulled EXCEPT ![d] = {stored}]
        /\ stored' = stored /\ meta' = meta /\ pushes' = pushes
    BY <1>6 DEF Pull
  <2>3. Shape'
    BY <2>2 DEF KnownInv, Shape
  <2>4. \A e \in Devices : \A answer \in pulled'[e] : NotAhead(answer)
    BY <2>1, <2>2 DEF KnownInv, Shape
  <2> QED BY <2>2, <2>3, <2>4, NothingNew DEF KnownInv
<1>7. ASSUME NEW d \in Devices, Pulled(d) PROVE KnownInv'
  <2>1. PICK answer \in pulled[d] : meta' = [meta EXCEPT ![d] = answer]
    BY <1>7 DEF Pulled
  <2>2. /\ pulled' = [pulled EXCEPT ![d] = {}]
        /\ stored' = stored /\ pushes' = pushes
    BY <1>7 DEF Pulled
  <2>3. Shape'
    BY <2>1, <2>2 DEF KnownInv, Shape
  <2>4. \A e \in Devices : NotAhead(meta'[e])
    BY <2>1 DEF KnownInv, Shape
  <2>5. \A e \in Devices : \A a \in pulled'[e] : NotAhead(a)
    BY <2>2 DEF KnownInv, Shape
  <2> QED BY <2>2, <2>3, <2>4, <2>5, NothingNew DEF KnownInv
<1>8. ASSUME NEW d \in Devices, SignOut(d) PROVE KnownInv'
  <2>1. meta' = [meta EXCEPT ![d] = None] /\ UNCHANGED <<stored, pushes, pulled>>
    BY <1>8 DEF SignOut
  <2>2. Shape'
    BY <2>1 DEF KnownInv, Shape
  <2>3. \A e \in Devices : NotAhead(meta'[e])
    BY <2>1 DEF KnownInv, Shape, NotAhead, None
  <2> QED BY <2>1, <2>2, <2>3, NothingNew DEF KnownInv
<1>9. CASE UNCHANGED vars
  BY <1>9 DEF KnownInv, Shape, vars, NotAhead, AnswerTo
<1> QED BY <1>1, <1>2, <1>3, <1>4, <1>5, <1>6, <1>7, <1>8, <1>9 DEF Next

\* While the settings are not deleted on the server, the revision a device knows names
\* the version the device knows: no late or lost answer, no crossing of pushes, pulls
\* and sign-outs attaches the number of one version to another (syncService.ts
\* pushAll, pullAll; SettingsRepository.putSettings).
THEOREM RevisionsNameTheirData ==
  ASSUME MayReset = FALSE
  PROVE  Spec => []RevisionNamesItsData
<1>1. KnownInv => RevisionNamesItsData
  BY DEF KnownInv, NotAhead, RevisionNamesItsData
<1>2. KnownInv /\ [Next]_vars => KnownInv'
  BY KnownInvStep
<1> QED BY KnownInvInit, <1>1, <1>2, PTL DEF Spec

-----------------------------------------------------------------------------
(* The types: revisions do not outgrow the pushes.                         *)

Wrote(n) == pushes[n].at \in {"stored", "told"}

\* Each revision since the settings were last deleted was a push that wrote.
TypeInv == TypeOK /\ stored.revision <= Cardinality({n \in DOMAIN pushes : Wrote(n)})

LEMMA WritersAreFew ==
  ASSUME MaxPushes \in Nat, TypeOK, NEW S \in SUBSET DOMAIN pushes
  PROVE  IsFiniteSet(S) /\ Cardinality(S) \in Nat /\ Cardinality(S) <= MaxPushes
<1>1. PICK k \in 0..MaxPushes : DOMAIN pushes = 1..k
  BY DEF TypeOK
<1>2. IsFiniteSet(1..k) /\ Cardinality(1..k) = k
  <2>1. 1 \in Int /\ k \in Int /\ (IF 1 > k THEN 0 ELSE k - 1 + 1) = k
    OBVIOUS
  <2>. QED BY <2>1, FS_Interval
<1>3. IsFiniteSet(S) /\ Cardinality(S) \in Nat /\ Cardinality(S) <= k
  BY <1>1, <1>2, FS_Subset, FS_CardinalityType
<1>. QED BY <1>3

LEMMA CountIs ==
  ASSUME NEW k \in Nat, DOMAIN pushes = 1..k PROVE Count = k
<1>1. CASE k = 0
  BY <1>1 DEF Count
<1>2. CASE k # 0
  <2>1. 1..k # {} /\ k \in 1..k /\ k + 1 \notin 1..k /\ \A n \in 1..k : n + 1 \notin 1..k => n = k
    BY <1>2
  <2>. QED BY <2>1 DEF Count
<1>. QED BY <1>1, <1>2

LEMMA TypeInvInit == MaxPushes \in Nat /\ Init => TypeInv
<1> SUFFICES ASSUME MaxPushes \in Nat, Init PROVE TypeInv
  OBVIOUS
<1>1. /\ 0 \in 0..MaxPushes /\ 1..0 = {}
  OBVIOUS
<1>2. /\ stored = None /\ meta = [d \in Devices |-> None] /\ DOMAIN pushes = {}
      /\ pulled = [d \in Devices |-> {}]
  BY DEF Init
<1>3. None \in Known /\ None.revision = 0
  BY <1>1 DEF None, Known
<1>4. TypeOK
  BY <1>1, <1>2, <1>3 DEF TypeOK
<1>5. {n \in DOMAIN pushes : Wrote(n)} = {}
  BY <1>2
<1>. QED BY <1>2, <1>3, <1>4, <1>5, FS_EmptySet DEF TypeInv

LEMMA TypeInvStep == MaxPushes \in Nat /\ TypeInv /\ Next => TypeInv'
<1> SUFFICES ASSUME MaxPushes \in Nat, TypeInv, Next PROVE TypeInv'
  OBVIOUS
<1> DEFINE W == {n \in DOMAIN pushes : Wrote(n)}
<1>1. /\ stored \in Known /\ meta \in [Devices -> Known] /\ pulled \in [Devices -> SUBSET Known]
      /\ DOMAIN pushes \in {1..n : n \in 0..MaxPushes} /\ \A n \in DOMAIN pushes : pushes[n] \in Pushes
      /\ stored.revision <= Cardinality(W)
  BY DEF TypeInv, TypeOK
<1>2. /\ \A known \in Known : known.revision \in 0..MaxPushes
      /\ None \in Known /\ None.revision = 0 /\ 0 \in 0..MaxPushes
  BY DEF Known, None
<1>3. IsFiniteSet(W) /\ Cardinality(W) \in Nat
  BY WritersAreFew DEF TypeInv
<1>4. ASSUME UNCHANGED <<stored, pushes>>, meta' \in [Devices -> Known], pulled' \in [Devices -> SUBSET Known]
      PROVE  TypeInv'
  BY <1>1, <1>4 DEF TypeInv, TypeOK, Wrote
<1>5. ASSUME NEW n \in DOMAIN pushes, NEW row \in Pushes, pushes' = [pushes EXCEPT ![n] = row],
             stored' = stored, meta' \in [Devices -> Known], pulled' = pulled,
             Wrote(n) <=> row.at \in {"stored", "told"}
      PROVE  TypeInv'
  <2>1. DOMAIN pushes' = DOMAIN pushes /\ \A k \in DOMAIN pushes : pushes'[k] = IF k = n THEN row ELSE pushes[k]
    BY <1>5
  <2>2. \A k \in DOMAIN pushes : Wrote(k)' <=> Wrote(k)
    BY <1>5, <2>1 DEF Wrote
  <2>3. {k \in DOMAIN pushes' : Wrote(k)'} = W
    BY <2>1, <2>2
  <2>4. TypeOK'
    BY <1>1, <1>5, <2>1 DEF TypeOK
  <2>. QED BY <1>1, <1>5, <2>3, <2>4 DEF TypeInv
<1>6. ASSUME NEW n \in DOMAIN pushes, Check(n) PROVE TypeInv'
  <2> DEFINE row == [pushes[n] EXCEPT !.at = IF Accepts(pushes[n]) THEN "checked" ELSE "refused",
                                      !.read = IF Accepts(pushes[n]) THEN stored.revision ELSE 0]
  <2>1. pushes[n].at = "sent" /\ pushes' = [pushes EXCEPT ![n] = row] /\ UNCHANGED <<stored, meta, pulled>>
    BY <1>6 DEF Check
  <2>2. row \in Pushes /\ row.at \in {"checked", "refused"}
    BY <1>1, <1>2 DEF Pushes
  <2> HIDE DEF row
  <2>. QED BY <1>1, <1>5, <2>1, <2>2 DEF Wrote
<1>7. ASSUME NEW n \in DOMAIN pushes, Pushed(n) PROVE TypeInv'
  <2> DEFINE row == [pushes[n] EXCEPT !.at = "told"]
  <2>1. /\ pushes[n].at = "stored" /\ pushes' = [pushes EXCEPT ![n] = row] /\ UNCHANGED <<stored, pulled>>
        /\ meta' = [meta EXCEPT ![pushes[n].by] = [revision |-> pushes[n].revision, version |-> n]]
    BY <1>7 DEF Pushed
  <2>2. row \in Pushes /\ row.at = "told"
    BY <1>1 DEF Pushes
  <2>3. [revision |-> pushes[n].revision, version |-> n] \in Known
    BY <1>1 DEF Pushes, Known
  <2>4. meta' \in [Devices -> Known]
    BY <1>1, <2>1, <2>3
  <2> HIDE DEF row
  <2>. QED BY <1>5, <2>1, <2>2, <2>4 DEF Wrote
<1>8. ASSUME NEW n \in DOMAIN pushes, Store(n) PROVE TypeInv'
  <2> DEFINE ok == (pushes[n].read = 0) <=> (stored = None)
             new == [revision |-> stored.revision + 1, version |-> n]
             row == [pushes[n] EXCEPT !.at = IF ok THEN "stored" ELSE "refused",
                                      !.revision = IF ok THEN new.revision ELSE 0,
                                      !.read = 0]
  <2>1. /\ pushes[n].at = "checked" /\ stored' = (IF ok THEN new ELSE stored)
        /\ pushes' = [pushes EXCEPT ![n] = row] /\ UNCHANGED <<meta, pulled>>
    BY <1>8 DEF Store, NextRevision
  <2>2. n \notin W
    BY <2>1 DEF Wrote
  <2>3. IsFiniteSet(W \cup {n}) /\ Cardinality(W \cup {n}) = Cardinality(W) + 1
        /\ Cardinality(W \cup {n}) <= MaxPushes
    <3>1. W \cup {n} \in SUBSET DOMAIN pushes
      OBVIOUS
    <3>. QED BY <1>3, <2>2, <3>1, FS_AddElement, WritersAreFew DEF TypeInv
  <2>4. new \in Known /\ new.revision = stored.revision + 1
    <3>1. stored.revision + 1 \in 0..MaxPushes
      <4> HIDE DEF W
      <4>. QED BY <1>1, <1>2, <1>3, <2>3
    <3>2. n \in 0..MaxPushes
      BY <1>1
    <3>. QED BY <3>1, <3>2 DEF Known
  <2>5. row \in Pushes /\ row.at = IF ok THEN "stored" ELSE "refused"
    <3>1. new.revision \in 0..MaxPushes
      BY <1>2, <2>4
    <3> HIDE DEF new, ok
    <3>. QED BY <1>1, <1>2, <3>1 DEF Pushes
  <2> HIDE DEF row, ok, new
  <2>6. CASE ~ok
    BY <1>1, <1>5, <2>1, <2>5, <2>6 DEF Wrote
  <2>7. CASE ok
    <3>1. DOMAIN pushes' = DOMAIN pushes /\ \A k \in DOMAIN pushes : pushes'[k] = IF k = n THEN row ELSE pushes[k]
      BY <2>1
    <3>2. \A k \in DOMAIN pushes : Wrote(k)' <=> Wrote(k) \/ k = n
      BY <2>5, <2>7, <3>1 DEF Wrote
    <3>3. {k \in DOMAIN pushes' : Wrote(k)'} = W \cup {n}
      BY <3>1, <3>2
    <3>4. TypeOK'
      BY <1>1, <2>1, <2>4, <2>5, <2>7, <3>1 DEF TypeOK
    <3>5. stored'.revision <= Cardinality(W \cup {n})
      <4> HIDE DEF W
      <4>. QED BY <1>1, <1>2, <1>3, <2>1, <2>3, <2>4, <2>7
    <3>. QED BY <3>3, <3>4, <3>5 DEF TypeInv
  <2>. QED BY <2>6, <2>7
<1>9. CASE Reset
  <2>1. stored' = None /\ UNCHANGED <<meta, pushes, pulled>>
    BY <1>9 DEF Reset
  <2>2. TypeOK'
    BY <1>1, <1>2, <2>1 DEF TypeOK
  <2>3. {k \in DOMAIN pushes' : Wrote(k)'} = W
    BY <2>1 DEF Wrote
  <2> HIDE DEF W
  <2>. QED BY <1>2, <1>3, <2>1, <2>2, <2>3 DEF TypeInv
<1>10. ASSUME NEW d \in Devices, NEW force \in BOOLEAN, Push(d, force) PROVE TypeInv'
  <2>1. PICK k \in 0..MaxPushes : DOMAIN pushes = 1..k
    BY <1>1
  <2> DEFINE n == k + 1
             row == [by |-> d, expected |-> IF force THEN 0 ELSE meta[d].revision,
                     read |-> 0, at |-> "sent", revision |-> 0]
  <2>2. Count = k
    BY <2>1, CountIs
  <2>3. /\ n \in 0..MaxPushes /\ UNCHANGED <<stored, meta, pulled>>
        /\ pushes' = [j \in 1..k \cup {n} |-> IF j # n THEN pushes[j] ELSE row]
    BY <1>10, <2>1, <2>2 DEF Push
  <2>4. row \in Pushes /\ row.at = "sent"
    <3>1. meta[d].revision \in 0..MaxPushes
      BY <1>1, <1>2
    <3>. QED BY <1>2, <3>1 DEF Pushes
  <2> HIDE DEF row
  <2>5. 1..k \cup {n} = 1..n /\ n \notin 1..k
    OBVIOUS
  <2>6. DOMAIN pushes' = 1..n /\ pushes'[n] = row /\ \A j \in 1..k : pushes'[j] = pushes[j]
    BY <2>3, <2>5
  <2>7. TypeOK'
    <3>1. \A j \in DOMAIN pushes' : pushes'[j] \in Pushes
      BY <1>1, <2>1, <2>4, <2>5, <2>6
    <3>. QED BY <1>1, <2>3, <2>6, <3>1 DEF TypeOK
  <2>8. {j \in DOMAIN pushes' : Wrote(j)'} = W
    <3>1. ~Wrote(n)'
      BY <2>4, <2>6 DEF Wrote
    <3>2. \A j \in 1..k : Wrote(j)' <=> Wrote(j)
      BY <2>6 DEF Wrote
    <3>. QED BY <2>1, <2>5, <2>6, <3>1, <3>2
  <2> HIDE DEF W
  <2>. QED BY <1>1, <2>3, <2>7, <2>8 DEF TypeInv
<1>11. ASSUME NEW d \in Devices, Pull(d) \/ Pulled(d) \/ SignOut(d) PROVE TypeInv'
  <2>1. /\ UNCHANGED <<stored, pushes>> /\ meta' \in [Devices -> Known]
        /\ pulled' \in [Devices -> SUBSET Known]
    BY <1>1, <1>2, <1>11 DEF Pull, Pulled, SignOut
  <2>. QED BY <1>4, <2>1
<1>. QED BY <1>6, <1>7, <1>8, <1>9, <1>10, <1>11 DEF Next

-----------------------------------------------------------------------------
(* Least and greatest numbers.                                             *)

LEMMA LeastOf ==
  ASSUME NEW S \in SUBSET Nat, S # {}
  PROVE  \E n \in S : \A k \in S : ~(k < n)
<1>1. PICK n \in S : \A k \in S : ~(<<k, n>> \in OpToRel(<, Nat))
  BY NatLessThanWellFounded, WFMin
<1>. QED BY <1>1 DEF OpToRel

LEMMA GreatestOf ==
  ASSUME NEW n \in Nat, NEW S \in SUBSET (0..n), S # {}
  PROVE  \E m \in S : \A x \in S : m >= x
<1> DEFINE T == {n - x : x \in S}
<1>1. T \in SUBSET Nat /\ T # {}
  <2>1. \A x \in S : n - x \in Nat
    OBVIOUS
  <2>. QED BY <2>1
<1>2. PICK t \in T : \A u \in T : ~(u < t)
  <2> HIDE DEF T
  <2>. QED BY <1>1, LeastOf
<1>3. PICK m \in S : t = n - m
  BY <1>2
<1>4. \A x \in S : ~(n - x < n - m)
  BY <1>2, <1>3
<1>. QED BY <1>4

-----------------------------------------------------------------------------
(* The votes.                                                              *)

Matchings == INSTANCE RoleMatching_proofs

LEMMA SameCount == Matchings!CountIsLargestMatching <=> Roles!CountIsLargestMatching
BY DEF Matchings!CountIsLargestMatching, Roles!CountIsLargestMatching,
       Matchings!CountDistinctRoleMatches, Roles!CountDistinctRoleMatches,
       Matchings!TryAssign, Roles!TryAssign, Matchings!Calls, Roles!Calls,
       Matchings!Maps, Roles!Maps, Matchings!Unassigned, Roles!Unassigned,
       Matchings!NextIdentity, Roles!NextIdentity, Matchings!Min, Roles!Min,
       Matchings!Candidates, Roles!Candidates, Matchings!MaySpeakFor, Roles!MaySpeakFor,
       Matchings!Pool, Roles!Pool, Matchings!VoteSet, Roles!VoteSet,
       Matchings!Matches, Roles!Matches, Matchings!Matching, Roles!Matching,
       Matchings!Cardinality, Roles!Cardinality

LEMMA VotesInit == Roles!Init => Matchings!VotesInv
BY DEF Roles!Init, Matchings!VotesInv

LEMMA VotesStep == Matchings!VotesInv /\ Roles!Next => Matchings!VotesInv'
<1> SUFFICES ASSUME Matchings!VotesInv, Roles!Next PROVE Matchings!VotesInv'
  OBVIOUS
<1>1. PICK role \in Roles!Pool \cup OtherRoles, id \in Ids : decidedBy' = Append(decidedBy, <<role, id>>)
  BY DEF Roles!Next, Roles!Vote
<1>2. Roles!Pool = Matchings!Pool /\ Matchings!Pool' = Matchings!Pool
  BY DEF Roles!Pool, Matchings!Pool
<1>. QED BY <1>1, <1>2 DEF Matchings!VotesInv

-----------------------------------------------------------------------------
(* The ledger of a domain.                                                 *)

LedgerParameters == MaxRequests \in Nat

\* Whoever was split off and not absorbed is a member.
LedgerInv == Ledger!TypeOK /\ joined \subseteq Ledger!MemberIds

LEMMA LedgerInit == LedgerParameters /\ Ledger!Init => LedgerInv
<1> SUFFICES ASSUME LedgerParameters, Ledger!Init PROVE LedgerInv
  OBVIOUS
<1>1. /\ members = {} /\ self = "running" /\ joined = {} /\ requests = {} /\ dissolved = FALSE
      /\ seq = 0 /\ 0 \in 0..MaxRequests
  BY DEF LedgerParameters, Ledger!Init
<1>. QED BY <1>1 DEF LedgerInv, Ledger!TypeOK, Ledger!MemberIds

LEMMA HighestIs ==
  ASSUME LedgerInv, LedgerParameters PROVE Ledger!Highest(requests) \in 0..MaxRequests
<1> DEFINE S == {q.id : q \in requests}
<1>1. S \in SUBSET (0..MaxRequests)
  BY DEF LedgerInv, Ledger!TypeOK
<1>2. CASE requests = {}
  BY <1>2 DEF Ledger!Highest, LedgerParameters
<1>3. CASE requests # {}
  <2>1. S # {}
    BY <1>3
  <2> HIDE DEF S
  <2>2. Ledger!Max(S) \in S
    <3>1. \E m \in S : \A x \in S : m >= x
      BY <1>1, <2>1, GreatestOf DEF LedgerParameters
    <3>. QED BY <3>1 DEF Ledger!Max
  <2>3. Ledger!Highest(requests) = Ledger!Max(S)
    BY <1>3 DEF Ledger!Highest, S
  <2>. QED BY <1>1, <2>2, <2>3
<1>. QED BY <1>2, <1>3

LEMMA LedgerStep == LedgerParameters /\ LedgerInv /\ Ledger!Next => LedgerInv'
<1> SUFFICES ASSUME LedgerParameters, LedgerInv, Ledger!Next PROVE LedgerInv'
  OBVIOUS
<1> USE DEF LedgerParameters
<1>0. /\ members \subseteq [id : Peers, domain : Domains, state : {"running", "done"}]
      /\ self \in {"running", "done"} /\ joined \subseteq Peers
      /\ seq \in 0..MaxRequests /\ dissolved \in BOOLEAN
      /\ requests \subseteq [id : 1..MaxRequests, a : Peers \cup {Root}, b : Peers,
                             absorbed : Peers \cup {Root},
                             verdict : {"none", "full", "reassign", "rejected"}]
      /\ \A p \in joined : \E m \in members : m.id = p
  BY DEF LedgerInv, Ledger!TypeOK, Ledger!MemberIds
<1> USE DEF LedgerInv, Ledger!TypeOK, Ledger!MemberIds
<1>1. ASSUME NEW p \in Peers, NEW d \in Domains, Ledger!AddPeer(p, d) PROVE LedgerInv'
  <2> DEFINE new == [id |-> p, domain |-> d, state |-> "running"]
  <2>1. new \in [id : Peers, domain : Domains, state : {"running", "done"}] /\ new.id = p
    OBVIOUS
  <2>2. members' = members \cup {new} /\ joined' = joined \cup {p}
        /\ UNCHANGED <<self, requests, seq, dissolved>>
    BY <1>1 DEF Ledger!AddPeer
  <2> HIDE DEF new
  <2>3. \A x \in joined' : \E m \in members' : m.id = x
    BY <1>0, <2>1, <2>2
  <2>4. members' \subseteq [id : Peers, domain : Domains, state : {"running", "done"}]
    BY <1>0, <2>1, <2>2
  <2>. QED BY <1>0, <2>2, <2>3, <2>4
<1>2. ASSUME NEW m \in members, Ledger!PeerSettled(m) PROVE LedgerInv'
  <2> DEFINE After(n) == [n EXCEPT !.state = IF n.id = m.id THEN "done" ELSE @]
  <2>1. \A n \in members : After(n) \in [id : Peers, domain : Domains, state : {"running", "done"}]
                           /\ After(n).id = n.id
    BY <1>0
  <2>2. members' = {After(n) : n \in members}
    BY <1>2 DEF Ledger!PeerSettled
  <2> HIDE DEF After
  <2>3. \A p \in joined : \E n \in members' : n.id = p
    BY <1>0, <2>1, <2>2
  <2>. QED BY <1>0, <1>2, <2>1, <2>2, <2>3 DEF Ledger!PeerSettled
<1>3. CASE Ledger!SelfDone
  BY <1>3 DEF Ledger!SelfDone
<1>4. ASSUME NEW a \in Peers \cup {Root}, NEW b \in Peers, NEW c \in Peers \cup {Root},
             Ledger!RequestMerge(a, b, c)
      PROVE  LedgerInv'
  BY <1>0, <1>4 DEF Ledger!RequestMerge
<1>5. ASSUME NEW q \in Ledger!Pending, Ledger!WithdrawMerge(q) PROVE LedgerInv'
  BY <1>5 DEF Ledger!WithdrawMerge
<1>6. ASSUME NEW q \in Ledger!Pending, NEW v \in {"full", "reassign", "rejected"},
             Ledger!ResolveMerge(q, v)
      PROVE  LedgerInv'
  <2>1. q \in requests
    BY DEF Ledger!Pending
  <2>2. [q EXCEPT !.verdict = v] \in
          [id : 1..MaxRequests, a : Peers \cup {Root}, b : Peers, absorbed : Peers \cup {Root},
           verdict : {"none", "full", "reassign", "rejected"}]
    BY <1>0, <2>1
  <2>3. requests' \subseteq [id : 1..MaxRequests, a : Peers \cup {Root}, b : Peers,
                             absorbed : Peers \cup {Root},
                             verdict : {"none", "full", "reassign", "rejected"}]
    BY <1>0, <1>6, <2>2 DEF Ledger!ResolveMerge
  <2>4. members' \subseteq members /\ joined' \subseteq joined
        /\ \A p \in joined' : \E m \in members' : m.id = p
    BY <1>0, <1>6 DEF Ledger!ResolveMerge, Ledger!LeavesDomain
  <2>. QED BY <1>0, <1>6, <2>3, <2>4 DEF Ledger!ResolveMerge
<1>7. CASE Ledger!Reopen
  BY <1>7, HighestIs DEF Ledger!Reopen
<1>. QED BY <1>1, <1>2, <1>3, <1>4, <1>5, <1>6, <1>7 DEF Ledger!Next

LEMMA LedgerImplies == LedgerInv => Ledger!CompleteCountsEveryPeer
BY DEF LedgerInv, Ledger!CompleteCountsEveryPeer, Ledger!DomainQuiescent, Ledger!MemberIds

-----------------------------------------------------------------------------
(* The registries of children.                                             *)

RegistryParameters == MaxLive \in Nat

Row == [id : Children, settled : BOOLEAN]

\* The children that are outstanding when child i registers again at a restart.
Before(kids, i) == {j \in 1..(i - 1) : ~kids[j].settled}

\* No child is there twice, and at a restart each finds room: fewer than the limit are
\* outstanding among those that entered before it, as they were when it entered.
WellKept(kids) ==
  /\ kids \in Seq(Row)
  /\ \A i, j \in 1..Len(kids) : kids[i].id = kids[j].id => i = j
  /\ \A i \in 1..Len(kids) : Cardinality(Before(kids, i)) < MaxLive

\* And whoever has not reported is outstanding with one owner, and one only.
RegistriesInv ==
  /\ registry \in [Owners -> Seq(Row)]
  /\ reported \subseteq born /\ born \subseteq Children
  /\ \A o \in Owners : WellKept(registry[o]) /\ Registries!IdsOf(registry[o]) \subseteq born
  /\ \A o1, o2 \in Owners, c \in born :
       c \in Registries!LiveIds(registry[o1]) /\ c \in Registries!LiveIds(registry[o2]) => o1 = o2
  /\ \A c \in born \ reported : \E o \in Owners : c \in Registries!LiveIds(registry[o])

LEMMA SameCardinality == \A S : Registries!Cardinality(S) = Cardinality(S)
BY DEF Registries!Cardinality, Cardinality

\* Sets of places in a sequence, and how many they are.
LEMMA Places ==
  ASSUME NEW n \in Nat, NEW S \in SUBSET (1..n), NEW T \in SUBSET S
  PROVE  /\ IsFiniteSet(S) /\ Cardinality(S) \in Nat
         /\ Cardinality(T) \in Nat /\ Cardinality(T) <= Cardinality(S)
<1>1. IsFiniteSet(1..n)
  BY FS_Interval
<1>. QED BY <1>1, FS_Subset, FS_CardinalityType

LEMMA OneMorePlace ==
  ASSUME NEW n \in Nat, NEW S \in SUBSET (1..n), NEW x
  PROVE  Cardinality(S \cup {x}) \in Nat /\ Cardinality(S \cup {x}) <= Cardinality(S) + 1
<1>1. IsFiniteSet(S) /\ Cardinality(S) \in Nat
  BY Places
<1>2. Cardinality(S \cup {x}) = IF x \in S THEN Cardinality(S) ELSE Cardinality(S) + 1
  BY <1>1, FS_AddElement
<1>. QED BY <1>1, <1>2

LEMMA LiveIsBounded ==
  ASSUME RegistryParameters, NEW kids, WellKept(kids)
  PROVE  /\ Registries!Live(kids) = Cardinality(Registries!Outstanding(kids))
         /\ Registries!Live(kids) \in Nat /\ Registries!Live(kids) <= MaxLive
<1> DEFINE n == Len(kids)
           S == Registries!Outstanding(kids)
<1>1. n \in Nat /\ S \in SUBSET (1..n) /\ MaxLive \in Nat
  BY DEF WellKept, Registries!Outstanding, RegistryParameters
<1>2. Registries!Live(kids) = Cardinality(S) /\ Cardinality(S) \in Nat
  BY <1>1, Places, SameCardinality DEF Registries!Live
<1>3. CASE n = 0
  <2>1. S = {}
    BY <1>1, <1>3
  <2>. QED BY <1>1, <1>2, <2>1, FS_EmptySet
<1>4. CASE n # 0
  <2> DEFINE B == Before(kids, n)
  <2>1. n - 1 \in Nat /\ B \in SUBSET (1..(n - 1)) /\ n \in 1..n
    BY <1>1, <1>4 DEF Before
  <2>2. Cardinality(B) < MaxLive /\ Cardinality(B) \in Nat
    BY <2>1, Places DEF WellKept
  <2>3. Cardinality(B \cup {n}) \in Nat /\ Cardinality(B \cup {n}) <= Cardinality(B) + 1
    BY <2>1, OneMorePlace
  <2>4. S \in SUBSET (B \cup {n}) /\ B \cup {n} \in SUBSET (1..n)
    BY <1>1, <2>1 DEF Before, Registries!Outstanding
  <2>5. Cardinality(S) <= Cardinality(B \cup {n})
    BY <1>1, <2>4, Places
  <2>. QED BY <1>1, <1>2, <2>2, <2>3, <2>5
<1>. QED BY <1>2, <1>3, <1>4

LEMMA AppendKeeps ==
  ASSUME RegistryParameters, NEW kids, WellKept(kids), NEW c \in Children,
         Registries!CanRegister(kids, c), NEW new, new = Append(kids, Registries!Entry(c))
  PROVE  /\ WellKept(new)
         /\ Registries!IdsOf(new) = Registries!IdsOf(kids) \cup {c}
         /\ Registries!LiveIds(new) = Registries!LiveIds(kids) \cup {c}
<1> DEFINE n == Len(kids)
<1>1. kids \in Seq(Row) /\ n \in Nat
  BY DEF WellKept
<1>2. Registries!Entry(c) \in Row /\ Registries!Entry(c).id = c /\ ~Registries!Entry(c).settled
  BY DEF Registries!Entry, Row
<1>3. /\ new \in Seq(Row) /\ Len(new) = n + 1 /\ new[n + 1] = Registries!Entry(c)
      /\ \A i \in 1..n : new[i] = kids[i]
  BY <1>1, <1>2
<1>4. \A i \in 1..(n + 1) : i \in 1..n \/ i = n + 1
  BY <1>1
<1>5. Registries!IdsOf(new) = Registries!IdsOf(kids) \cup {c}
  BY <1>1, <1>2, <1>3, <1>4 DEF Registries!IdsOf
<1>6. Registries!LiveIds(new) = Registries!LiveIds(kids) \cup {c}
  BY <1>1, <1>2, <1>3, <1>4 DEF Registries!LiveIds, Registries!Outstanding
<1>7. \A i, j \in 1..Len(new) : new[i].id = new[j].id => i = j
  <2>1. \A i \in 1..n : kids[i].id # c
    BY DEF Registries!CanRegister, Registries!IdsOf
  <2>. QED BY <1>1, <1>2, <1>3, <1>4, <2>1 DEF WellKept
<1>8. \A i \in 1..Len(new) : Cardinality(Before(new, i)) < MaxLive
  <2> TAKE i \in 1..Len(new)
  <2>1. CASE i \in 1..n
    <3>1. Before(new, i) = Before(kids, i)
      BY <1>1, <1>3, <2>1 DEF Before
    <3>. QED BY <2>1, <3>1 DEF WellKept
  <2>2. CASE i = n + 1
    <3>1. Before(new, i) = Registries!Outstanding(kids)
      BY <1>1, <1>3, <2>2 DEF Before, Registries!Outstanding
    <3>2. Registries!Live(kids) < MaxLive
      BY DEF Registries!CanRegister
    <3>. QED BY <3>1, <3>2, LiveIsBounded
  <2>. QED BY <1>3, <1>4, <2>1, <2>2
<1>. QED BY <1>3, <1>5, <1>6, <1>7, <1>8 DEF WellKept

LEMMA SettleKeeps ==
  ASSUME RegistryParameters, NEW kids, WellKept(kids), NEW cs,
         NEW new, new = Registries!Settle(kids, cs)
  PROVE  /\ WellKept(new)
         /\ Registries!IdsOf(new) = Registries!IdsOf(kids)
         /\ Registries!LiveIds(new) = Registries!LiveIds(kids) \ cs
<1> DEFINE n == Len(kids)
<1>1. kids \in Seq(Row) /\ n \in Nat /\ \A i \in 1..n : kids[i] \in Row
  BY ElementOfSeq DEF WellKept
<1>2. /\ new \in Seq(Row) /\ Len(new) = n
      /\ \A i \in 1..n : new[i].id = kids[i].id
                         /\ new[i].settled = (kids[i].settled \/ kids[i].id \in cs)
  <2>1. new = [i \in 1..n |-> IF kids[i].id \in cs THEN [kids[i] EXCEPT !.settled = TRUE] ELSE kids[i]]
    BY DEF Registries!Settle
  <2>2. \A i \in 1..n : /\ new[i] \in Row /\ new[i].id = kids[i].id
                        /\ new[i].settled = (kids[i].settled \/ kids[i].id \in cs)
    BY <1>1, <2>1 DEF Row
  <2>3. new \in [1..n -> Row]
    BY <2>1, <2>2
  <2>4. new \in Seq(Row) /\ Len(new) = n
    BY <1>1, <2>3
  <2>. QED BY <2>2, <2>4
<1>3. Registries!IdsOf(new) = Registries!IdsOf(kids)
  BY <1>1, <1>2 DEF Registries!IdsOf
<1>4. Registries!LiveIds(new) = Registries!LiveIds(kids) \ cs
  BY <1>1, <1>2 DEF Registries!LiveIds, Registries!Outstanding
<1>5. \A i \in 1..Len(new) : Cardinality(Before(new, i)) < MaxLive
  <2> TAKE i \in 1..Len(new)
  <2>0. i - 1 \in Nat /\ \A j \in 1..(i - 1) : j \in 1..n
    BY <1>1, <1>2
  <2>a. \A j \in 1..(i - 1) : ~new[j].settled => ~kids[j].settled
    BY <1>2, <2>0
  <2>1. Before(kids, i) \in SUBSET (1..(i - 1)) /\ Before(new, i) \in SUBSET Before(kids, i)
    BY <2>a DEF Before
  <2>2. /\ Cardinality(Before(kids, i)) \in Nat /\ Cardinality(Before(new, i)) \in Nat
        /\ Cardinality(Before(new, i)) <= Cardinality(Before(kids, i))
    BY <2>0, <2>1, Places
  <2>3. Cardinality(Before(kids, i)) < MaxLive
    BY <1>2 DEF WellKept
  <2>. QED BY <2>2, <2>3 DEF RegistryParameters
<1>6. \A i, j \in 1..Len(new) : new[i].id = new[j].id => i = j
  BY <1>2 DEF WellKept
<1>. QED BY <1>2, <1>3, <1>4, <1>5, <1>6 DEF WellKept

\* A restart refuses nothing and leaves every registry as it was.
LEMMA RestoreIsTheSame ==
  ASSUME RegistryParameters, NEW kids, WellKept(kids) PROVE Registries!Restore(kids) = kids
<1>1. kids \in Seq(Row) /\ Len(kids) \in Nat
  BY DEF WellKept
<1>2. ASSUME NEW i \in 1..Len(kids)
      PROVE  Registries!CanRegister(SubSeq(kids, 1, i - 1), kids[i].id)
  <2> DEFINE p == SubSeq(kids, 1, i - 1)
  <2>1. Len(p) = i - 1 /\ \A j \in 1..(i - 1) : p[j] = kids[j]
    BY <1>1
  <2>2. kids[i].id \notin Registries!IdsOf(p)
    <3>1. \A j \in 1..(i - 1) : j \in 1..Len(kids) /\ j # i
      BY <1>1
    <3>2. \A j \in 1..(i - 1) : p[j].id # kids[i].id
      BY <2>1, <3>1 DEF WellKept
    <3>. QED BY <1>1, <2>1, <3>2 DEF Registries!IdsOf
  <2>3. Registries!Outstanding(p) = Before(kids, i)
    BY <2>1 DEF Registries!Outstanding, Before
  <2>4. Registries!Live(p) < MaxLive
    BY <2>3, SameCardinality DEF Registries!Live, WellKept
  <2>. QED BY <2>2, <2>4 DEF Registries!CanRegister
<1>. QED BY <1>2 DEF Registries!Restore

\* A finite set in some order, each element once.
LEMMA InSomeOrder ==
  ASSUME NEW S, IsFiniteSet(S), NEW q, q = Registries!SetToSeq(S)
  PROVE  /\ Cardinality(S) \in Nat /\ q \in [1..Cardinality(S) -> S]
         /\ \A i, j \in 1..Cardinality(S) : q[i] = q[j] => i = j
         /\ \A x \in S : \E i \in 1..Cardinality(S) : q[i] = x
<1> DEFINE n == Cardinality(S)
<1>1. n \in Nat /\ ExistsBijection(1..n, S)
  BY FS_CardinalityType
<1>2. PICK f \in [1..n -> S] : \A i, j \in 1..n : f[i] = f[j] => i = j
  BY <1>1 DEF ExistsBijection, Bijection, Injection, IsInjective
<1>3. \E g \in [1..n -> S] : Registries!IsInjective(g)
  BY <1>2 DEF Registries!IsInjective
<1>4. q = CHOOSE g \in [1..n -> S] : Registries!IsInjective(g)
  BY SameCardinality DEF Registries!SetToSeq
<1> HIDE DEF n
<1>5. q \in [1..n -> S] /\ Registries!IsInjective(q)
  BY <1>3, <1>4
<1>6. \A i, j \in 1..n : q[i] = q[j] => i = j
  BY <1>5 DEF Registries!IsInjective
<1>7. q \in Injection(1..n, S)
  BY <1>5, <1>6 DEF Injection, IsInjective
<1>8. IsFiniteSet(1..n) /\ Cardinality(1..n) = n
  BY <1>1, FS_Interval
<1>9. q \in Surjection(1..n, S)
  BY <1>7, <1>8, FS_Injection DEF n
<1>10. \A x \in S : \E i \in 1..n : q[i] = x
  BY <1>9 DEF Surjection
<1>. QED BY <1>1, <1>5, <1>6, <1>10 DEF n

\* All who enter at once find room, and none of them is there already.
LEMMA EnterKeeps ==
  ASSUME RegistryParameters, NEW kids, WellKept(kids), NEW cs \in SUBSET Children, IsFiniteSet(cs),
         cs \cap Registries!IdsOf(kids) = {}, Registries!Live(kids) + Cardinality(cs) <= MaxLive,
         NEW new, new = Registries!Enter(kids, cs)
  PROVE  /\ WellKept(new)
         /\ Registries!IdsOf(new) = Registries!IdsOf(kids) \cup cs
         /\ Registries!LiveIds(new) = Registries!LiveIds(kids) \cup cs
<1> DEFINE n == Len(kids)
           q == Registries!SetToSeq(cs)
           m == Cardinality(cs)
           some == [i \in 1..m |-> Registries!Entry(q[i])]
<1>1. /\ m \in Nat /\ q \in [1..m -> cs]
      /\ \A i, j \in 1..m : q[i] = q[j] => i = j
      /\ \A c \in cs : \E i \in 1..m : q[i] = c
  <2> HIDE DEF q
  <2>. QED BY InSomeOrder DEF q
<1>2. kids \in Seq(Row) /\ n \in Nat /\ \A i \in 1..n : kids[i] \in Row
  BY ElementOfSeq DEF WellKept
<1>3. Registries!Live(kids) \in Nat /\ Registries!Live(kids) <= MaxLive /\ MaxLive \in Nat
  BY LiveIsBounded DEF RegistryParameters
<1>4. new = kids \o some
  <2>1. cs \ Registries!IdsOf(kids) = cs
    OBVIOUS
  <2>2. Len(q) = m /\ m <= MaxLive - Registries!Live(kids)
    <3> HIDE DEF q, m
    <3>. QED BY <1>1, <1>3 DEF m
  <2>3. new = LET room == MaxLive - Registries!Live(kids)
                  fit == IF Len(q) <= room THEN Len(q) ELSE room
              IN  kids \o [i \in 1..fit |-> Registries!Entry(q[i])]
    BY <2>1 DEF Registries!Enter
  <2> HIDE DEF q
  <2>. QED BY <2>2, <2>3
<1> HIDE DEF q
<1>5. \A i \in 1..m : /\ some[i] \in Row /\ some[i].id = q[i] /\ some[i].id \in cs /\ ~some[i].settled
  BY <1>1 DEF Registries!Entry, Row
<1>6. some \in Seq(Row) /\ Len(some) = m
  <2>1. some \in [1..m -> Row]
    BY <1>5
  <2> HIDE DEF some, m
  <2>. QED BY <1>1, <2>1 DEF m
<1> HIDE DEF some
<1>7. /\ new \in Seq(Row) /\ Len(new) = n + m
      /\ \A i \in 1..n : new[i] = kids[i]
      /\ \A i \in 1..m : new[n + i] = some[i]
  <2> HIDE DEF m
  <2>1. /\ new \in Seq(Row) /\ Len(new) = n + m
        /\ \A i \in 1..(n + m) : new[i] = IF i <= n THEN kids[i] ELSE some[i - n]
    <3>1. /\ kids \o some \in Seq(Row) /\ Len(kids \o some) = Len(kids) + Len(some)
          /\ \A i \in 1..(Len(kids) + Len(some)) :
               (kids \o some)[i] = IF i <= Len(kids) THEN kids[i] ELSE some[i - Len(kids)]
      BY <1>2, <1>6, ConcatProperties
    <3>. QED BY <1>4, <1>6, <3>1
  <2>2. \A i \in 1..n : i \in 1..(n + m) /\ i <= n
    BY <1>1, <1>2
  <2>3. \A i \in 1..m : n + i \in 1..(n + m) /\ ~(n + i <= n) /\ n + i - n = i
    BY <1>1, <1>2
  <2>4. \A i \in 1..n : new[i] = kids[i]
    BY <2>1, <2>2
  <2>5. \A i \in 1..m : new[n + i] = some[i]
    BY <2>1, <2>3
  <2>. QED BY <2>1, <2>4, <2>5
<1> HIDE DEF m
<1>8. \A i \in 1..Len(new) : i \in 1..n \/ \E k \in 1..m : i = n + k
  <2> TAKE i \in 1..Len(new)
  <2>1. i \in 1..n \/ (i - n \in 1..m /\ i = n + (i - n))
    BY <1>1, <1>2, <1>7
  <2>. QED BY <2>1
<1>9. \A k \in 1..m : n + k \in 1..Len(new) /\ n + k \notin 1..n
  BY <1>1, <1>2, <1>7
<1>10. \A i \in 1..n : i \in 1..Len(new)
  BY <1>1, <1>2, <1>7
<1>11. Registries!IdsOf(new) = Registries!IdsOf(kids) \cup cs
  <2>1. ASSUME NEW i \in 1..Len(new) PROVE new[i].id \in Registries!IdsOf(kids) \cup cs
    BY <1>5, <1>7, <1>8 DEF Registries!IdsOf
  <2>2. ASSUME NEW i \in 1..n PROVE kids[i].id \in Registries!IdsOf(new)
    BY <1>7, <1>10 DEF Registries!IdsOf
  <2>3. ASSUME NEW c \in cs PROVE c \in Registries!IdsOf(new)
    <3>1. PICK k \in 1..m : q[k] = c
      BY <1>1
    <3>2. n + k \in 1..Len(new) /\ new[n + k].id = c
      BY <1>5, <1>7, <1>9, <3>1
    <3>. QED BY <3>2 DEF Registries!IdsOf
  <2>4. Registries!IdsOf(new) \subseteq Registries!IdsOf(kids) \cup cs
    BY <2>1 DEF Registries!IdsOf
  <2>5. Registries!IdsOf(kids) \subseteq Registries!IdsOf(new)
    BY <2>2 DEF Registries!IdsOf
  <2>. QED BY <2>3, <2>4, <2>5
<1>12. Registries!LiveIds(new) = Registries!LiveIds(kids) \cup cs
  <2>1. ASSUME NEW i \in 1..Len(new), ~new[i].settled
        PROVE  new[i].id \in Registries!LiveIds(kids) \cup cs
    BY <1>5, <1>7, <1>8, <2>1 DEF Registries!LiveIds, Registries!Outstanding
  <2>2. ASSUME NEW i \in 1..n, ~kids[i].settled PROVE kids[i].id \in Registries!LiveIds(new)
    BY <1>7, <1>10, <2>2 DEF Registries!LiveIds, Registries!Outstanding
  <2>3. ASSUME NEW c \in cs PROVE c \in Registries!LiveIds(new)
    <3>1. PICK k \in 1..m : q[k] = c
      BY <1>1
    <3>2. n + k \in 1..Len(new) /\ new[n + k].id = c /\ ~new[n + k].settled
      BY <1>5, <1>7, <1>9, <3>1
    <3>. QED BY <3>2 DEF Registries!LiveIds, Registries!Outstanding
  <2>. QED BY <2>1, <2>2, <2>3 DEF Registries!LiveIds, Registries!Outstanding
<1>13. \A i, j \in 1..Len(new) : new[i].id = new[j].id => i = j
  <2>1. \A i \in 1..n : kids[i].id \notin cs
    BY DEF Registries!IdsOf
  <2>2. \A i, j \in 1..n : kids[i].id = kids[j].id => i = j
    BY DEF WellKept
  <2>3. \A i \in 1..n : new[i].id = kids[i].id
    BY <1>7
  <2>4. \A k \in 1..m : new[n + k].id = q[k] /\ q[k] \in cs
    BY <1>1, <1>5, <1>7
  <2> TAKE i, j \in 1..Len(new)
  <2> HAVE new[i].id = new[j].id
  <2>5. CASE i \in 1..n /\ j \in 1..n
    BY <2>2, <2>3, <2>5
  <2>6. ASSUME NEW k \in 1..m, i = n + k PROVE i = j
    <3>1. j \notin 1..n
      BY <2>1, <2>3, <2>4, <2>6
    <3>2. PICK l \in 1..m : j = n + l
      BY <1>8, <3>1
    <3>3. q[k] = q[l]
      BY <2>4, <2>6, <3>2
    <3>4. k = l
      BY <1>1, <3>3
    <3>. QED BY <2>6, <3>2, <3>4
  <2>7. ASSUME NEW k \in 1..m, j = n + k PROVE i = j
    <3>1. i \notin 1..n
      BY <2>1, <2>3, <2>4, <2>7
    <3>2. PICK l \in 1..m : i = n + l
      BY <1>8, <3>1
    <3>. QED BY <2>6, <3>2
  <2>. QED BY <1>8, <2>5, <2>6, <2>7
<1>14. \A i \in 1..Len(new) : Cardinality(Before(new, i)) < MaxLive
  <2> TAKE i \in 1..Len(new)
  <2>1. CASE i \in 1..n
    <3>1. \A j \in 1..(i - 1) : j \in 1..n
      BY <1>2, <2>1
    <3>2. Before(new, i) = Before(kids, i)
      BY <1>7, <3>1 DEF Before
    <3>. QED BY <2>1, <3>2 DEF WellKept
  <2>2. ASSUME NEW k \in 1..m, i = n + k PROVE Cardinality(Before(new, i)) < MaxLive
    <3> DEFINE S == Registries!Outstanding(kids)
               T == (n + 1)..(i - 1)
    <3>1. Before(new, i) \in SUBSET (S \cup T)
      <4>1. \A j \in 1..(i - 1) : j \in 1..n \/ j \in T
        BY <1>1, <1>2, <2>2
      <4>. QED BY <1>7, <4>1 DEF Before, Registries!Outstanding
    <3>2. IsFiniteSet(S) /\ Cardinality(S) = Registries!Live(kids)
      BY <1>2, Places, LiveIsBounded DEF Registries!Outstanding
    <3>3. IsFiniteSet(T) /\ Cardinality(T) = k - 1
      <4>1. n + 1 \in Int /\ i - 1 \in Int /\ (IF n + 1 > i - 1 THEN 0 ELSE (i - 1) - (n + 1) + 1) = k - 1
        BY <1>1, <1>2, <2>2
      <4>. QED BY <4>1, FS_Interval
    <3>4. S \cap T = {}
      BY <1>2 DEF Registries!Outstanding
    <3> HIDE DEF S, T
    <3>5. IsFiniteSet(S \cup T) /\ Cardinality(S \cup T) = Registries!Live(kids) + (k - 1) - 0
      <4>1. /\ IsFiniteSet(S \cup T)
            /\ Cardinality(S \cup T) = Cardinality(S) + Cardinality(T) - Cardinality(S \cap T)
        BY <3>2, <3>3, FS_Union
      <4>2. Cardinality(S \cap T) = 0
        BY <3>4, FS_EmptySet
      <4>. QED BY <3>2, <3>3, <4>1, <4>2
    <3>6. /\ Cardinality(Before(new, i)) \in Nat
          /\ Cardinality(Before(new, i)) <= Cardinality(S \cup T)
      BY <3>1, <3>5, FS_Subset, FS_CardinalityType
    <3>. QED BY <1>1, <1>3, <3>5, <3>6 DEF m
  <2>. QED BY <1>8, <2>1, <2>2
<1>. QED BY <1>7, <1>11, <1>12, <1>13, <1>14 DEF WellKept

LEMMA LiveAreFew ==
  ASSUME NEW kids \in Seq(Row)
  PROVE  /\ IsFiniteSet(Registries!LiveIds(kids))
         /\ Registries!LiveIds(kids) \subseteq Registries!IdsOf(kids)
<1> DEFINE S == Registries!Outstanding(kids)
           T == Registries!LiveIds(kids)
           f == [i \in S |-> kids[i].id]
<1>1. S \in SUBSET (1..Len(kids)) /\ Len(kids) \in Nat /\ T = {kids[i].id : i \in S}
  BY DEF Registries!Outstanding, Registries!LiveIds
<1>2. IsFiniteSet(S)
  BY <1>1, Places
<1>3. f \in Surjection(S, T)
  <2> HIDE DEF S, T
  <2>1. f \in [S -> T] /\ \A t \in T : \E i \in S : f[i] = t
    BY <1>1
  <2>. QED BY <2>1 DEF Surjection
<1>4. IsFiniteSet(T)
  <2> HIDE DEF S, T, f
  <2>. QED BY <1>2, <1>3, FS_Surjection
<1>. QED BY <1>1, <1>4 DEF Registries!IdsOf

LEMMA RegistriesInit == RegistryParameters /\ Registries!Init => RegistriesInv
<1> SUFFICES ASSUME RegistryParameters, Registries!Init PROVE RegistriesInv
  OBVIOUS
<1>1. /\ registry = [o \in Owners |-> <<>>] /\ born = {} /\ reported = {}
  BY DEF Registries!Init
<1>2. /\ <<>> \in Seq(Row) /\ Len(<<>>) = 0 /\ 1..0 = {}
  OBVIOUS
<1>3. WellKept(<<>>) /\ Registries!IdsOf(<<>>) = {} /\ Registries!LiveIds(<<>>) = {}
  BY <1>2 DEF WellKept, Registries!IdsOf, Registries!LiveIds, Registries!Outstanding
<1>. QED BY <1>1, <1>2, <1>3 DEF RegistriesInv

LEMMA RegistriesStep == RegistryParameters /\ RegistriesInv /\ Registries!Next => RegistriesInv'
<1> SUFFICES ASSUME RegistryParameters, RegistriesInv, Registries!Next PROVE RegistriesInv'
  OBVIOUS
<1> DEFINE Kid(o) == Registries!IdsOf(registry[o])
           Liv(o) == Registries!LiveIds(registry[o])
<1>1. /\ registry \in [Owners -> Seq(Row)] /\ reported \subseteq born /\ born \subseteq Children
      /\ \A o \in Owners : WellKept(registry[o]) /\ Kid(o) \subseteq born /\ Liv(o) \subseteq Kid(o)
      /\ \A o1, o2 \in Owners, c \in born : c \in Liv(o1) /\ c \in Liv(o2) => o1 = o2
      /\ \A c \in born \ reported : \E o \in Owners : c \in Liv(o)
  BY LiveAreFew DEF RegistriesInv
<1>2. ASSUME NEW o \in Owners, NEW c \in Children, Registries!Register(o, c) PROVE RegistriesInv'
  <2> DEFINE new == Append(registry[o], Registries!Entry(c))
  <2>1. /\ c \notin born /\ Registries!CanRegister(registry[o], c) /\ born' = born \cup {c}
        /\ registry' = [registry EXCEPT ![o] = new] /\ reported' = reported
    BY <1>2 DEF Registries!Register
  <2>2. /\ WellKept(new) /\ Registries!IdsOf(new) = Kid(o) \cup {c}
        /\ Registries!LiveIds(new) = Liv(o) \cup {c}
    BY <1>1, <2>1, AppendKeeps
  <2>3. new \in Seq(Row)
    BY <2>2 DEF WellKept
  <2> HIDE DEF new
  <2>4. /\ registry' \in [Owners -> Seq(Row)] /\ registry'[o] = new
        /\ \A x \in Owners : x # o => registry'[x] = registry[x]
    BY <1>1, <2>1, <2>3
  <2>5. \A x \in Owners : WellKept(registry'[x]) /\ Registries!IdsOf(registry'[x]) \subseteq born'
    BY <1>1, <2>1, <2>2, <2>4
  <2>6. \A x \in Owners, k \in Children :
          k \in Registries!LiveIds(registry'[x]) <=> k \in Liv(x) \/ (x = o /\ k = c)
    BY <2>2, <2>4
  <2> HIDE DEF Liv, Kid
  <2>7. \A o1, o2 \in Owners, k \in born' :
          k \in Registries!LiveIds(registry'[o1]) /\ k \in Registries!LiveIds(registry'[o2]) => o1 = o2
    BY <1>1, <2>1, <2>6
  <2>8. \A k \in born' \ reported' : \E x \in Owners : k \in Registries!LiveIds(registry'[x])
    BY <1>1, <2>1, <2>6
  <2>. QED BY <1>1, <2>1, <2>4, <2>5, <2>7, <2>8 DEF RegistriesInv
<1>3. ASSUME NEW o \in Owners, NEW c \in Children, Registries!Report(o, c) PROVE RegistriesInv'
  <2> DEFINE new == Registries!Settle(registry[o], {c})
  <2>1. /\ c \in Liv(o) /\ registry' = [registry EXCEPT ![o] = new]
        /\ reported' = reported \cup {c} /\ born' = born
    BY <1>3 DEF Registries!Report
  <2>2. /\ WellKept(new) /\ Registries!IdsOf(new) = Kid(o) /\ Registries!LiveIds(new) = Liv(o) \ {c}
    BY <1>1, SettleKeeps
  <2>3. new \in Seq(Row)
    BY <2>2 DEF WellKept
  <2> HIDE DEF new
  <2>4. /\ registry' \in [Owners -> Seq(Row)] /\ registry'[o] = new
        /\ \A x \in Owners : x # o => registry'[x] = registry[x]
    BY <1>1, <2>1, <2>3
  <2>5. \A x \in Owners : WellKept(registry'[x]) /\ Registries!IdsOf(registry'[x]) \subseteq born'
    BY <1>1, <2>1, <2>2, <2>4
  <2>6. \A x \in Owners, k \in Children :
          k \in Registries!LiveIds(registry'[x]) <=> k \in Liv(x) /\ ~(x = o /\ k = c)
    BY <2>2, <2>4
  <2> HIDE DEF Liv, Kid
  <2>7. \A o1, o2 \in Owners, k \in born' :
          k \in Registries!LiveIds(registry'[o1]) /\ k \in Registries!LiveIds(registry'[o2]) => o1 = o2
    BY <1>1, <2>1, <2>6
  <2>8. \A k \in born' \ reported' : \E x \in Owners : k \in Registries!LiveIds(registry'[x])
    BY <1>1, <2>1, <2>6
  <2>. QED BY <1>1, <2>1, <2>4, <2>5, <2>7, <2>8 DEF RegistriesInv
<1>4. ASSUME NEW from \in Owners, NEW to \in Owners, NEW cs \in SUBSET Children,
             Registries!Transfer(from, to, cs)
      PROVE  RegistriesInv'
  <2> DEFINE there == Registries!Enter(registry[to], cs)
             here == Registries!Settle(registry[from], cs)
  <2>1. /\ from # to /\ Registries!Transferable(registry[from], registry[to], cs)
        /\ registry' = [registry EXCEPT ![to] = there, ![from] = here]
        /\ reported' = reported /\ born' = born
    BY <1>4 DEF Registries!Transfer
  <2>2. /\ cs \subseteq Liv(from) /\ cs \cap Kid(to) = {} /\ IsFiniteSet(cs)
        /\ Registries!Live(registry[to]) + Cardinality(cs) <= MaxLive
    BY <1>1, <2>1, LiveAreFew, FS_Subset, SameCardinality DEF Registries!Transferable
  <2>3. /\ WellKept(here) /\ Registries!IdsOf(here) = Kid(from)
        /\ Registries!LiveIds(here) = Liv(from) \ cs
    BY <1>1, SettleKeeps
  <2>4. /\ WellKept(there) /\ Registries!IdsOf(there) = Kid(to) \cup cs
        /\ Registries!LiveIds(there) = Liv(to) \cup cs
    BY <1>1, <2>2, EnterKeeps
  <2>5. here \in Seq(Row) /\ there \in Seq(Row)
    BY <2>3, <2>4 DEF WellKept
  <2> HIDE DEF here, there
  <2>6. /\ registry' \in [Owners -> Seq(Row)] /\ registry'[from] = here /\ registry'[to] = there
        /\ \A x \in Owners : x # from /\ x # to => registry'[x] = registry[x]
    BY <1>1, <2>1, <2>5
  <2>7. \A x \in Owners : WellKept(registry'[x]) /\ Registries!IdsOf(registry'[x]) \subseteq born'
    BY <1>1, <2>1, <2>2, <2>3, <2>4, <2>6
  <2>8. \A x \in Owners, k \in Children :
          k \in Registries!LiveIds(registry'[x]) <=>
            (k \in Liv(x) /\ ~(x = from /\ k \in cs)) \/ (x = to /\ k \in cs)
    BY <2>1, <2>3, <2>4, <2>6
  <2> HIDE DEF Liv, Kid
  <2>9. \A o1, o2 \in Owners, k \in born' :
          k \in Registries!LiveIds(registry'[o1]) /\ k \in Registries!LiveIds(registry'[o2]) => o1 = o2
    BY <1>1, <2>1, <2>2, <2>8
  <2>10. \A k \in born' \ reported' : \E x \in Owners : k \in Registries!LiveIds(registry'[x])
    BY <1>1, <2>1, <2>2, <2>8
  <2>. QED BY <1>1, <2>1, <2>6, <2>7, <2>9, <2>10 DEF RegistriesInv
<1>5. CASE Registries!Reopen
  <2>1. registry' = [o \in Owners |-> registry[o]] /\ born' = born /\ reported' = reported
    BY <1>1, <1>5, RestoreIsTheSame DEF Registries!Reopen
  <2>2. registry' = registry
    BY <1>1, <2>1
  <2>. QED BY <2>1, <2>2 DEF RegistriesInv
<1>. QED BY <1>2, <1>3, <1>4, <1>5 DEF Registries!Next

LEMMA RegistriesImplies ==
  RegistryParameters /\ RegistriesInv => Registries!TypeOK /\ Registries!EveryChildHasOneParent
<1> SUFFICES ASSUME RegistryParameters, RegistriesInv
             PROVE  Registries!TypeOK /\ Registries!EveryChildHasOneParent
  OBVIOUS
<1>1. Registries!TypeOK
  BY LiveIsBounded DEF RegistriesInv, Registries!TypeOK, Row
<1>2. ASSUME NEW c \in born \ reported
      PROVE  Registries!Cardinality({o \in Owners : c \in Registries!LiveIds(registry[o])}) = 1
  <2>1. PICK o \in Owners : c \in Registries!LiveIds(registry[o])
    BY DEF RegistriesInv
  <2>2. {x \in Owners : c \in Registries!LiveIds(registry[x])} = {o}
    BY <2>1 DEF RegistriesInv
  <2>. QED BY <2>2, SameCardinality, FS_Singleton
<1>. QED BY <1>1, <1>2 DEF Registries!EveryChildHasOneParent

-----------------------------------------------------------------------------
(* The reports of the usage.                                               *)

StatsParameters == Limit \in Nat /\ MaxTime \in Nat \ {0}

\* A time at which something was written, or the beginning.
Marked(t) ==
  \/ t = 0
  \/ \E x \in DOMAIN turn : turn[x] = t
  \/ \E x \in DOMAIN started : started[x] = t
  \/ \E x \in DOMAIN ended : ended[x] = t

\* Rows are few and not of the future, and neither are the watermark and the end of the
\* batch, which are times of rows.
Past ==
  /\ \A r \in {turn, started, ended} : IsFiniteSet(DOMAIN r) /\ \A x \in DOMAIN r : r[x] <= now
  /\ since <= now /\ Marked(since)
  /\ \A b \in sending : b.next <= now /\ Marked(b.next)

\* What lies behind the point a batch will move the watermark to is in the batch, if it
\* has not been counted: the watermark is not what it was when the batch was made, if the
\* account was changed in between.  A row written after the batch was made at the time
\* the batch ends with shares that time.
StatsInv ==
  /\ Stats!TypeOK
  /\ Past
  /\ Stats!NothingBehindTheWatermark
  /\ \A b \in sending : \A m \in DOMAIN turn :
       turn[m] <= b.next /\ Stats!Alone(m) => <<"msg", m>> \in counted \cup b.keys

LEMMA StatsSameCardinality == \A S : Stats!Cardinality(S) = Cardinality(S)
BY DEF Stats!Cardinality, Cardinality

LEMMA FiniteImage ==
  ASSUME NEW S, IsFiniteSet(S), NEW T, NEW f \in [S -> T]
  PROVE  IsFiniteSet({f[x] : x \in S})
<1> DEFINE R == {f[x] : x \in S}
<1>1. f \in [S -> R] /\ \A t \in R : \E x \in S : f[x] = t
  OBVIOUS
<1> HIDE DEF R
<1>2. f \in Surjection(S, R)
  BY <1>1 DEF Surjection
<1>3. IsFiniteSet(R)
  BY <1>2, FS_Surjection
<1>. QED BY <1>3 DEF R

LEMMA CallEventsType ==
  ASSUME StatsParameters, Stats!TypeOK, Past,
         NEW calls \in SUBSET DOMAIN ended, NEW rows \in SUBSET DOMAIN started,
         NEW row \in Stats!Pairings(calls, rows)
  PROVE  /\ IsFiniteSet(Stats!CallEvents(calls, rows, row))
         /\ \A e \in Stats!CallEvents(calls, rows, row) :
              /\ e.key \in Stats!Keys /\ e.at \in 1..MaxTime /\ e.at <= now
              /\ \/ \E c \in DOMAIN ended : e.at = ended[c]
                 \/ \E c \in DOMAIN started : e.at = started[c]
<1> DEFINE Told(c) == {Stats!Event("eff", e, ended[c]) : e \in row[c]}
           left == rows \ UNION {row[c] : c \in calls}
           quiet == {x \in calls : row[x] = {}}
           Own(c) == Stats!Event("tool", c, ended[c])
           Left(e) == Stats!Event("eff", e, started[e])
<1>1. /\ now \in Nat /\ now <= MaxTime /\ MaxTime \in Nat
      /\ \A c \in calls : c \in Stats!Calls /\ ended[c] \in 1..MaxTime /\ ended[c] <= now /\ c \in DOMAIN ended
      /\ \A e \in rows : e \in Stats!Calls /\ started[e] \in 1..MaxTime /\ started[e] <= now /\ e \in DOMAIN started
      /\ IsFiniteSet(calls) /\ IsFiniteSet(rows)
  <2>1. now \in Nat /\ now <= MaxTime /\ MaxTime \in Nat
    BY DEF StatsParameters, Stats!TypeOK
  <2>2. \A c \in calls : c \in Stats!Calls /\ ended[c] \in 1..MaxTime /\ ended[c] <= now
    BY DEF Stats!TypeOK, Past
  <2>3. \A e \in rows : e \in Effects /\ started[e] \in 1..MaxTime /\ started[e] <= now
    BY DEF Stats!TypeOK, Past
  <2>4. IsFiniteSet(calls) /\ IsFiniteSet(rows)
    BY FS_Subset DEF Past
  <2>. QED BY <2>1, <2>2, <2>3, <2>4 DEF Stats!Calls
<1>2. \A c \in calls : row[c] \in SUBSET rows
  BY DEF Stats!Pairings
<1>3. Stats!CallEvents(calls, rows, row) =
        {Own(c) : c \in quiet} \cup {Left(e) : e \in left} \cup UNION {Told(c) : c \in calls}
  BY DEF Stats!CallEvents
<1>4. \A x \in Stats!Calls : <<"tool", x>> \in Stats!Keys /\ <<"eff", x>> \in Stats!Keys
  BY DEF Stats!Keys
<1>5. \A c \in quiet : Own(c).key \in Stats!Keys /\ Own(c).at = ended[c]
  BY <1>1, <1>4 DEF Stats!Event
<1>6. \A c \in calls : \A e \in Told(c) : e.key \in Stats!Keys /\ e.at = ended[c]
  <2> TAKE c \in calls
  <2> TAKE e \in Told(c)
  <2>1. PICK x \in row[c] : e = [key |-> <<"eff", x>>, at |-> ended[c]]
    BY DEF Stats!Event
  <2>2. x \in Stats!Calls
    BY <1>1, <1>2
  <2>. QED BY <1>4, <2>1, <2>2
<1>7. \A e \in left : Left(e).key \in Stats!Keys /\ Left(e).at = started[e] /\ e \in rows
  BY <1>1, <1>4 DEF Stats!Event
<1>8. \A c \in calls : IsFiniteSet(Told(c))
  <2> TAKE c \in calls
  <2>1. IsFiniteSet(row[c])
    BY <1>1, <1>2, FS_Subset
  <2> DEFINE f == [e \in row[c] |-> Stats!Event("eff", e, ended[c])]
  <2>2. f \in [row[c] -> Told(c)]
    OBVIOUS
  <2>3. {f[e] : e \in row[c]} = Told(c)
    OBVIOUS
  <2> HIDE DEF f, Told
  <2>4. IsFiniteSet({f[e] : e \in row[c]})
    BY <2>1, <2>2, FiniteImage
  <2>. QED BY <2>3, <2>4
<1>9. IsFiniteSet(UNION {Told(c) : c \in calls})
  <2> DEFINE f == [c \in calls |-> Told(c)]
             R == {Told(c) : c \in calls}
  <2>0. f \in [calls -> R]
    OBVIOUS
  <2>1. {f[c] : c \in calls} = R
    OBVIOUS
  <2>2. \A S \in R : IsFiniteSet(S)
    BY <1>8
  <2> HIDE DEF f, R, Told
  <2>3. IsFiniteSet(R)
    <3>1. IsFiniteSet({f[c] : c \in calls})
      BY <1>1, <2>0, FiniteImage
    <3>. QED BY <2>1, <3>1
  <2>4. IsFiniteSet(UNION R)
    BY <2>2, <2>3, FS_UNION
  <2>. QED BY <2>4 DEF R
<1>10. IsFiniteSet({Own(c) : c \in quiet})
  <2> DEFINE f == [c \in quiet |-> Own(c)]
             R == {Own(c) : c \in quiet}
  <2>1. f \in [quiet -> R]
    OBVIOUS
  <2>2. {f[c] : c \in quiet} = R
    OBVIOUS
  <2>3. IsFiniteSet(quiet)
    BY <1>1, FS_Subset
  <2> HIDE DEF f, R, quiet
  <2>4. IsFiniteSet({f[c] : c \in quiet})
    BY <2>1, <2>3, FiniteImage
  <2>. QED BY <2>2, <2>4 DEF R
<1>11. IsFiniteSet({Left(e) : e \in left})
  <2> DEFINE f == [e \in left |-> Left(e)]
             R == {Left(e) : e \in left}
  <2>1. f \in [left -> R]
    OBVIOUS
  <2>2. {f[e] : e \in left} = R
    OBVIOUS
  <2>3. IsFiniteSet(left)
    BY <1>1, FS_Subset
  <2> HIDE DEF f, R, left
  <2>4. IsFiniteSet({f[e] : e \in left})
    BY <2>1, <2>3, FiniteImage
  <2>. QED BY <2>2, <2>4 DEF R
<1> HIDE DEF Told, left, quiet, Own, Left
<1>12. IsFiniteSet(Stats!CallEvents(calls, rows, row))
  <2>1. IsFiniteSet({Own(c) : c \in quiet} \cup {Left(e) : e \in left})
    BY <1>10, <1>11, FS_Union
  <2>2. IsFiniteSet({Own(c) : c \in quiet} \cup {Left(e) : e \in left} \cup UNION {Told(c) : c \in calls})
    BY <1>9, <2>1, FS_Union
  <2>. QED BY <1>3, <2>2
<1>13. ASSUME NEW e \in Stats!CallEvents(calls, rows, row)
       PROVE  /\ e.key \in Stats!Keys
              /\ \/ \E c \in calls : e.at = ended[c]
                 \/ \E c \in rows : e.at = started[c]
  <2>0. quiet \subseteq calls
    BY DEF quiet
  <2>1. CASE e \in {Own(c) : c \in quiet}
    BY <1>5, <2>0, <2>1
  <2>2. CASE e \in UNION {Told(c) : c \in calls}
    BY <1>6, <2>2
  <2>3. CASE e \in {Left(x) : x \in left}
    BY <1>7, <2>3
  <2>. QED BY <1>3, <2>1, <2>2, <2>3
<1>. QED BY <1>1, <1>12, <1>13

\* A query that leaves out a message returns as many as it may, none of them later.
LEMMA LeftOut ==
  ASSUME StatsParameters, Stats!TypeOK, Past, NEW after,
         NEW In \in Stats!Rows(turn, after, Limit + 1),
         NEW m \in DOMAIN turn, turn[m] > after, m \notin In
  PROVE  /\ IsFiniteSet(In) /\ Cardinality(In) = Limit + 1
         /\ \A y \in In : ~(turn[m] < turn[y])
<1> DEFINE Later == {x \in DOMAIN turn : turn[x] > after}
<1>1. /\ In \in SUBSET Later /\ (In = Later \/ Stats!Cardinality(In) = Limit + 1)
      /\ \A x \in In, y \in Later \ In : ~(turn[y] < turn[x])
  BY DEF Stats!Rows, Stats!Firsts
<1>2. m \in Later \ In
  OBVIOUS
<1>3. IsFiniteSet(In)
  <2>1. In \in SUBSET DOMAIN turn
    BY <1>1
  <2>. QED BY <2>1, FS_Subset DEF Past
<1>. QED BY <1>1, <1>2, <1>3, StatsSameCardinality

\* A batch ends where it has told everything up to there that has its time to itself.
LEMMA BatchIs ==
  ASSUME StatsParameters, Stats!TypeOK, Past, NEW b \in Stats!Batched(since)
  PROVE  /\ b \in Stats!Batch /\ b.next <= now /\ Marked(b.next)
         /\ \A m \in DOMAIN turn :
              turn[m] > since /\ turn[m] <= b.next /\ Stats!Alone(m) => <<"msg", m>> \in b.keys
<1> DEFINE Msg(m) == Stats!Event("msg", m, turn[m])
<1>1. PICK events \in Stats!Derived(since) :
        \E batch \in Stats!Firsts(events, Limit, Stats!Earlier) : b = Stats!BatchOf(batch, since)
  BY DEF Stats!Batched
<1>2. PICK q \in Stats!Queried(since) :
        \E row \in Stats!Pairings(q.calls, q.rows) :
          events = {Msg(m) : m \in q.messages} \cup Stats!CallEvents(q.calls, q.rows, row)
  BY <1>1 DEF Stats!Derived
<1> DEFINE In == q.messages
           calls == q.calls
           rows == q.rows
<1>3. PICK row \in Stats!Pairings(calls, rows) :
        events = {Msg(m) : m \in In} \cup Stats!CallEvents(calls, rows, row)
  BY <1>2
<1> DEFINE told == Stats!CallEvents(calls, rows, row)
<1>3a. /\ In \in Stats!Rows(turn, since, Limit + 1) /\ calls \in Stats!Rows(ended, since, Limit + 1)
       /\ rows \in Stats!Rows(started, Stats!Max({0, since - LookBack}), Limit + 1)
  BY DEF Stats!Queried
<1> HIDE DEF In, calls, rows
<1>4. In \in SUBSET DOMAIN turn /\ calls \in SUBSET DOMAIN ended /\ rows \in SUBSET DOMAIN started
  BY <1>3a DEF Stats!Rows, Stats!Firsts
<1>5. /\ now \in Nat /\ now <= MaxTime /\ MaxTime \in Nat /\ since \in 0..MaxTime /\ since <= now
      /\ \A m \in DOMAIN turn : m \in Turns /\ turn[m] \in 1..MaxTime /\ turn[m] <= now
      /\ IsFiniteSet(DOMAIN turn) /\ Limit \in Nat
  BY DEF StatsParameters, Stats!TypeOK, Past
<1>6. \A m \in In : Msg(m).key = <<"msg", m>> /\ Msg(m).at = turn[m] /\ <<"msg", m>> \in Stats!Keys
  BY <1>4, <1>5 DEF Stats!Event, Stats!Keys
<1>7. IsFiniteSet(told)
      /\ \A e \in told : /\ e.key \in Stats!Keys /\ e.at \in 1..MaxTime /\ e.at <= now
                         /\ \/ \E c \in DOMAIN ended : e.at = ended[c]
                            \/ \E c \in DOMAIN started : e.at = started[c]
  BY <1>4, CallEventsType
<1>8. IsFiniteSet(events)
  <2> DEFINE f == [m \in In |-> Msg(m)]
             R == {Msg(m) : m \in In}
  <2>1. f \in [In -> R]
    OBVIOUS
  <2>2. {f[m] : m \in In} = R
    OBVIOUS
  <2>3. IsFiniteSet(In)
    BY <1>4, <1>5, FS_Subset
  <2>4. events = R \cup told
    BY <1>3
  <2> HIDE DEF f, R
  <2>5. IsFiniteSet({f[m] : m \in In})
    BY <2>1, <2>3, FiniteImage
  <2>6. IsFiniteSet(R \cup told)
    BY <1>7, <2>2, <2>5, FS_Union
  <2>. QED BY <2>4, <2>6
<1>8a. events = {Msg(m) : m \in In} \cup told
  BY <1>3
<1> HIDE DEF Msg, told
<1>9. ASSUME NEW e \in events
      PROVE  /\ e.key \in Stats!Keys /\ e.at \in 1..MaxTime /\ e.at <= now
             /\ \/ \E m \in In : e = Msg(m) /\ e.at = turn[m]
                \/ \E c \in DOMAIN ended : e.at = ended[c]
                \/ \E c \in DOMAIN started : e.at = started[c]
  <2>1. CASE e \in told
    BY <1>7, <2>1
  <2>2. CASE e \in {Msg(m) : m \in In}
    <3>1. PICK m \in In : e = Msg(m)
      BY <2>2
    <3>. QED BY <1>4, <1>5, <1>6, <3>1
  <2>. QED BY <1>8a, <2>1, <2>2
<1>10. PICK batch \in SUBSET events :
         /\ Stats!Cardinality(batch) <= Limit /\ b = Stats!BatchOf(batch, since)
         /\ \A x \in batch, y \in events \ batch : ~Stats!Earlier(y, x)
  BY <1>1 DEF Stats!Firsts
<1>11. IsFiniteSet(batch) /\ Cardinality(batch) \in Nat /\ Cardinality(batch) <= Limit
  <2>1. IsFiniteSet(batch)
    BY <1>8, <1>10, FS_Subset
  <2>. QED BY <1>10, <2>1, StatsSameCardinality, FS_CardinalityType
<1>12. \A x \in batch, y \in events \ batch : ~(y.at < x.at)
  BY <1>10 DEF Stats!Earlier
<1>13. b = [keys |-> {e.key : e \in batch},
            next |-> IF batch = {} THEN since ELSE Stats!Max({e.at : e \in batch})]
  BY <1>10 DEF Stats!BatchOf
<1>14. CASE batch = {}
  <2>1. b = [keys |-> {}, next |-> since]
    BY <1>13, <1>14
  <2>2. b \in Stats!Batch /\ b.next = since
    BY <1>5, <2>1 DEF Stats!Batch
  <2>3. \A m \in DOMAIN turn : ~(turn[m] > since /\ turn[m] <= since)
    BY <1>5
  <2>. QED BY <1>5, <2>2, <2>3 DEF Past
<1>15. CASE batch # {}
  <2> DEFINE Ats == {e.at : e \in batch}
  <2>1. Ats \in SUBSET (0..now) /\ Ats # {}
    BY <1>5, <1>9, <1>10, <1>15
  <2>2. Stats!Max(Ats) \in Ats /\ \A t \in Ats : Stats!Max(Ats) >= t
    <3> HIDE DEF Ats
    <3>1. \E t \in Ats : \A u \in Ats : t >= u
      BY <1>5, <2>1, GreatestOf
    <3>. QED BY <3>1 DEF Stats!Max
  <2>3. b.keys = {e.key : e \in batch} /\ b.next = Stats!Max(Ats)
    BY <1>13, <1>15
  <2>4. PICK last \in batch : b.next = last.at
    BY <2>2, <2>3
  <2>5. /\ last \in events /\ last.at \in 1..MaxTime /\ last.at <= now
        /\ \/ \E m \in In : last = Msg(m) /\ last.at = turn[m]
           \/ \E c \in DOMAIN ended : last.at = ended[c]
           \/ \E c \in DOMAIN started : last.at = started[c]
    BY <1>9, <1>10
  <2>6. b \in Stats!Batch
    <3>1. b.keys \subseteq Stats!Keys
      BY <1>9, <1>10, <2>3
    <3>2. b.next \in 0..MaxTime
      BY <1>5, <2>4, <2>5
    <3>3. b = [keys |-> b.keys, next |-> b.next]
      BY <1>13
    <3>. QED BY <3>1, <3>2, <3>3 DEF Stats!Batch
  <2>7. Marked(b.next)
    BY <1>4, <2>4, <2>5 DEF Marked
  <2>8. ASSUME NEW m \in DOMAIN turn, turn[m] > since, turn[m] <= b.next, Stats!Alone(m)
        PROVE  <<"msg", m>> \in b.keys
    <3>1. CASE m \in In
      <4>1. Msg(m) \in events /\ Msg(m).at = turn[m] /\ Msg(m).key = <<"msg", m>>
        BY <1>8a, <1>6, <3>1
      <4>2. CASE Msg(m) \in batch
        BY <2>3, <4>1, <4>2
      <4>3. CASE Msg(m) \notin batch
        <5>1. ~(turn[m] < last.at)
          BY <1>12, <4>1, <4>3
        <5>2. last.at = turn[m]
          BY <1>5, <2>4, <2>5, <2>8, <5>1
        <5>3. \A c \in DOMAIN ended : last.at # ended[c]
          BY <2>8, <5>2 DEF Stats!Alone
        <5>4. \A c \in DOMAIN started : last.at # started[c]
          BY <2>8, <5>2 DEF Stats!Alone
        <5>5. \A y \in In : y # m => turn[y] # last.at
          BY <1>4, <2>8, <5>2 DEF Stats!Alone
        <5>. QED BY <2>4, <2>5, <4>3, <5>3, <5>4, <5>5
      <4>. QED BY <4>2, <4>3
    <3>2. CASE m \notin In
      <4>1. IsFiniteSet(In) /\ Cardinality(In) = Limit + 1 /\ \A y \in In : ~(turn[m] < turn[y])
        BY <1>3a, <2>8, <3>2, LeftOut
      <4>2. \A y \in In : Msg(y) \in batch /\ Msg(y).key = <<"msg", y>>
        <5> TAKE y \in In
        <5>1. y \in DOMAIN turn /\ Msg(y) \in events /\ Msg(y).at = turn[y] /\ Msg(y).key = <<"msg", y>>
          BY <1>8a, <1>4, <1>6
        <5>2. turn[y] # turn[m]
          BY <2>8, <3>2, <5>1 DEF Stats!Alone
        <5>3. turn[y] < last.at
          BY <1>5, <2>4, <2>5, <2>8, <4>1, <5>1, <5>2
        <5>. QED BY <1>12, <2>4, <5>1, <5>3
      <4>3. \A y, z \in In : Msg(y) = Msg(z) => y = z
        BY <4>2
      <4> DEFINE h == [y \in In |-> Msg(y)]
      <4>4. h \in Injection(In, batch)
        <5>1. h \in [In -> batch]
          BY <4>2
        <5>2. \A y, z \in In : h[y] = h[z] => y = z
          BY <4>3
        <5> HIDE DEF h
        <5>. QED BY <5>1, <5>2 DEF Injection, IsInjective
      <4>5. Cardinality(In) <= Cardinality(batch)
        <5> HIDE DEF h
        <5>. QED BY <1>11, <4>4, FS_Injection
      <4>. QED BY <1>5, <1>11, <4>1, <4>5
    <3>. QED BY <3>1, <3>2
  <2>. QED BY <2>4, <2>5, <2>6, <2>7, <2>8
<1>. QED BY <1>14, <1>15

LEMMA StatsInit == StatsParameters /\ Stats!Init => StatsInv
<1> SUFFICES ASSUME StatsParameters, Stats!Init PROVE StatsInv
  OBVIOUS
<1>1. /\ now = 1 /\ turn = <<>> /\ started = <<>> /\ ended = <<>>
      /\ since = 0 /\ sending = {} /\ counted = {} /\ now \in 1..MaxTime /\ since \in 0..MaxTime
  BY DEF Stats!Init, StatsParameters
<1>2. DOMAIN <<>> = {} /\ IsFiniteSet({})
  BY FS_EmptySet
<1>3. Stats!Cardinality({}) <= 1
  BY StatsSameCardinality, FS_EmptySet
<1>4. Stats!TypeOK
  BY <1>1, <1>2, <1>3 DEF Stats!TypeOK
<1>5. Past
  BY <1>1, <1>2 DEF Past, Marked
<1>. QED BY <1>1, <1>2, <1>4, <1>5 DEF StatsInv, Stats!NothingBehindTheWatermark

\* A row more, of now.
LEMMA RowAdded ==
  ASSUME StatsParameters, Stats!TypeOK, Past, NEW r \in {turn, started, ended}, NEW x
  PROVE  /\ DOMAIN Stats!At(r, x) = DOMAIN r \cup {x} /\ IsFiniteSet(DOMAIN r \cup {x})
         /\ \A y \in DOMAIN r \cup {x} : /\ Stats!At(r, x)[y] = IF y = x THEN now ELSE r[y]
                                        /\ Stats!At(r, x)[y] \in 1..MaxTime
                                        /\ Stats!At(r, x)[y] <= now
<1>1. DOMAIN Stats!At(r, x) = DOMAIN r \cup {x}
      /\ \A y \in DOMAIN r \cup {x} : Stats!At(r, x)[y] = IF y = x THEN now ELSE r[y]
  BY DEF Stats!At
<1>2. now \in 1..MaxTime /\ MaxTime \in Nat /\ \A y \in DOMAIN r : r[y] \in 1..MaxTime /\ r[y] <= now
  BY DEF Stats!TypeOK, Past, StatsParameters
<1>3. IsFiniteSet(DOMAIN r \cup {x})
  BY FS_AddElement DEF Past
<1>. QED BY <1>1, <1>2, <1>3

\* What remains to be shown of a step that writes a row or lets time pass: a message
\* written at the time of the watermark, or of the end of the batch, shares that time.
LEMMA RowsGrow ==
  ASSUME StatsParameters, StatsInv, now' \in {now, now + 1}, now' \in 1..MaxTime,
         UNCHANGED <<since, sending, counted>>,
         DOMAIN turn' \subseteq Turns, DOMAIN started' \subseteq Effects, DOMAIN ended' \subseteq Stats!Calls,
         \A r \in {turn', started', ended'} :
           IsFiniteSet(DOMAIN r) /\ \A x \in DOMAIN r : r[x] \in 1..MaxTime /\ r[x] <= now,
         \A x \in DOMAIN turn : x \in DOMAIN turn' /\ turn'[x] = turn[x],
         \A x \in DOMAIN started : x \in DOMAIN started' /\ started'[x] = started[x],
         \A x \in DOMAIN ended : x \in DOMAIN ended' /\ ended'[x] = ended[x],
         \A m \in DOMAIN turn' \ DOMAIN turn : turn'[m] = now
  PROVE  StatsInv'
<1>1. /\ now \in 1..MaxTime /\ MaxTime \in Nat /\ now' \in 1..MaxTime /\ now <= now'
      /\ since \in 0..MaxTime /\ since <= now
      /\ \A b \in sending : b.next \in 0..MaxTime /\ b.next <= now
  BY DEF StatsParameters, StatsInv, Stats!TypeOK, Past, Stats!Batch
<1>2. Stats!TypeOK'
  BY <1>1 DEF StatsInv, Stats!TypeOK
<1>3. \A t : Marked(t) => Marked(t)'
  BY DEF Marked
<1>4. Past'
  <2>1. \A r \in {turn', started', ended'} : \A x \in DOMAIN r : r[x] <= now'
    BY <1>1
  <2>. QED BY <1>1, <1>3, <2>1 DEF StatsInv, Past
<1>5. \A m \in DOMAIN turn : Stats!Alone(m)' => Stats!Alone(m)
  BY DEF Stats!Alone
<1>6. ASSUME NEW t \in 0..MaxTime, Marked(t), t <= now, NEW m \in DOMAIN turn' \ DOMAIN turn,
             turn'[m] <= t, Stats!Alone(m)'
      PROVE  FALSE
  <2>1. t = now /\ turn'[m] = t /\ t # 0
    BY <1>1, <1>6
  <2>2. ASSUME NEW x \in DOMAIN turn, turn[x] = t PROVE FALSE
    BY <1>6, <2>1, <2>2 DEF Stats!Alone
  <2>3. ASSUME NEW x \in DOMAIN started, started[x] = t PROVE FALSE
    BY <1>6, <2>1, <2>3 DEF Stats!Alone
  <2>4. ASSUME NEW x \in DOMAIN ended, ended[x] = t PROVE FALSE
    BY <1>6, <2>1, <2>4 DEF Stats!Alone
  <2>. QED BY <1>6, <2>1, <2>2, <2>3, <2>4 DEF Marked
<1>7. Stats!NothingBehindTheWatermark'
  <2> SUFFICES ASSUME NEW m \in DOMAIN turn', turn'[m] <= since, Stats!Alone(m)'
               PROVE  <<"msg", m>> \in counted
    BY DEF Stats!NothingBehindTheWatermark
  <2>1. m \in DOMAIN turn
    BY <1>1, <1>6 DEF StatsInv, Past
  <2>. QED BY <1>5, <2>1 DEF StatsInv, Stats!NothingBehindTheWatermark
<1>8. ASSUME NEW b \in sending, NEW m \in DOMAIN turn', turn'[m] <= b.next, Stats!Alone(m)'
      PROVE  <<"msg", m>> \in counted \cup b.keys
  <2>1. m \in DOMAIN turn
    BY <1>1, <1>6, <1>8 DEF StatsInv, Past
  <2>. QED BY <1>5, <1>8, <2>1 DEF StatsInv
<1>. QED BY <1>2, <1>4, <1>7, <1>8 DEF StatsInv

LEMMA StatsStep == StatsParameters /\ StatsInv /\ Stats!Next => StatsInv'
<1> SUFFICES ASSUME StatsParameters, StatsInv, Stats!Next PROVE StatsInv'
  OBVIOUS
<1>1. /\ Stats!TypeOK /\ Past
      /\ DOMAIN turn \subseteq Turns /\ DOMAIN started \subseteq Effects /\ DOMAIN ended \subseteq Stats!Calls
      /\ now \in 1..MaxTime /\ MaxTime \in Nat /\ since \in 0..MaxTime
      /\ \A r \in {turn, started, ended} :
           IsFiniteSet(DOMAIN r) /\ \A x \in DOMAIN r : r[x] \in 1..MaxTime /\ r[x] <= now
  BY DEF StatsInv, Stats!TypeOK, Past, StatsParameters
<1>2. ASSUME NEW m \in Turns, Stats!Answer(m) PROVE StatsInv'
  <2>1. /\ turn' = Stats!At(turn, m) /\ m \notin DOMAIN turn
        /\ UNCHANGED <<now, started, ended, since, sending, counted>>
    BY <1>2 DEF Stats!Answer
  <2>2. /\ DOMAIN turn' = DOMAIN turn \cup {m} /\ IsFiniteSet(DOMAIN turn')
        /\ \A y \in DOMAIN turn' : /\ turn'[y] = IF y = m THEN now ELSE turn[y]
                                  /\ turn'[y] \in 1..MaxTime /\ turn'[y] <= now
    <3>1. turn \in {turn, started, ended}
      OBVIOUS
    <3>2. /\ DOMAIN Stats!At(turn, m) = DOMAIN turn \cup {m} /\ IsFiniteSet(DOMAIN turn \cup {m})
          /\ \A y \in DOMAIN turn \cup {m} :
               /\ Stats!At(turn, m)[y] = IF y = m THEN now ELSE turn[y]
               /\ Stats!At(turn, m)[y] \in 1..MaxTime /\ Stats!At(turn, m)[y] <= now
      BY <1>1, <3>1, RowAdded
    <3>. QED BY <2>1, <3>2
  <2>3. \A x \in DOMAIN turn : x \in DOMAIN turn' /\ turn'[x] = turn[x]
    BY <2>1, <2>2
  <2>. QED BY <1>1, <1>2, <2>1, <2>2, <2>3, RowsGrow
<1>3. ASSUME NEW c \in Stats!Calls, Stats!StartEffect(c) PROVE StatsInv'
  <2>1. /\ started' = Stats!At(started, c) /\ c \in Effects /\ c \notin DOMAIN started
        /\ UNCHANGED <<now, turn, ended, since, sending, counted>>
    BY <1>3 DEF Stats!StartEffect
  <2>2. /\ DOMAIN started' = DOMAIN started \cup {c} /\ IsFiniteSet(DOMAIN started')
        /\ \A y \in DOMAIN started' : /\ started'[y] = IF y = c THEN now ELSE started[y]
                                     /\ started'[y] \in 1..MaxTime /\ started'[y] <= now
    <3>1. started \in {turn, started, ended}
      OBVIOUS
    <3>2. /\ DOMAIN Stats!At(started, c) = DOMAIN started \cup {c} /\ IsFiniteSet(DOMAIN started \cup {c})
          /\ \A y \in DOMAIN started \cup {c} :
               /\ Stats!At(started, c)[y] = IF y = c THEN now ELSE started[y]
               /\ Stats!At(started, c)[y] \in 1..MaxTime /\ Stats!At(started, c)[y] <= now
      BY <1>1, <3>1, RowAdded
    <3>. QED BY <2>1, <3>2
  <2>3. \A x \in DOMAIN started : x \in DOMAIN started' /\ started'[x] = started[x]
    BY <2>1, <2>2
  <2>. QED BY <1>1, <2>1, <2>2, <2>3, RowsGrow
<1>4. ASSUME NEW c \in Stats!Calls, Stats!EndCall(c) PROVE StatsInv'
  <2>1. /\ ended' = Stats!At(ended, c) /\ c \notin DOMAIN ended
        /\ UNCHANGED <<now, turn, started, since, sending, counted>>
    BY <1>4 DEF Stats!EndCall
  <2>2. /\ DOMAIN ended' = DOMAIN ended \cup {c} /\ IsFiniteSet(DOMAIN ended')
        /\ \A y \in DOMAIN ended' : /\ ended'[y] = IF y = c THEN now ELSE ended[y]
                                   /\ ended'[y] \in 1..MaxTime /\ ended'[y] <= now
    <3>1. ended \in {turn, started, ended}
      OBVIOUS
    <3>2. /\ DOMAIN Stats!At(ended, c) = DOMAIN ended \cup {c} /\ IsFiniteSet(DOMAIN ended \cup {c})
          /\ \A y \in DOMAIN ended \cup {c} :
               /\ Stats!At(ended, c)[y] = IF y = c THEN now ELSE ended[y]
               /\ Stats!At(ended, c)[y] \in 1..MaxTime /\ Stats!At(ended, c)[y] <= now
      BY <1>1, <3>1, RowAdded
    <3>. QED BY <2>1, <3>2
  <2>3. \A x \in DOMAIN ended : x \in DOMAIN ended' /\ ended'[x] = ended[x]
    BY <2>1, <2>2
  <2>. QED BY <1>1, <1>4, <2>1, <2>2, <2>3, RowsGrow
<1>5. CASE Stats!Tick
  <2>1. /\ now < MaxTime /\ now' = now + 1 /\ now' \in 1..MaxTime
        /\ UNCHANGED <<turn, started, ended, since, sending, counted>>
    BY <1>1, <1>5 DEF Stats!Tick
  <2>. QED BY <1>1, <2>1, RowsGrow
<1>6. CASE Stats!Push
  <2>1. PICK b \in Stats!Batched(since) :
          sending' = {b} /\ UNCHANGED <<now, turn, started, ended, since, counted>>
    BY <1>6 DEF Stats!Push
  <2>2. /\ b \in Stats!Batch /\ b.next <= now /\ Marked(b.next)
        /\ \A m \in DOMAIN turn :
             turn[m] > since /\ turn[m] <= b.next /\ Stats!Alone(m) => <<"msg", m>> \in b.keys
    BY <1>1, BatchIs
  <2>3. Stats!Cardinality({b}) <= 1
    <3>1. Cardinality({b}) = 1
      BY FS_Singleton
    <3>2. Stats!Cardinality({b}) = Cardinality({b})
      BY StatsSameCardinality
    <3>. QED BY <3>1, <3>2
  <2>4. Stats!TypeOK'
    BY <1>1, <2>1, <2>2, <2>3 DEF Stats!TypeOK
  <2>5. Past'
    BY <1>1, <2>1, <2>2 DEF Past, Marked
  <2>6. Stats!NothingBehindTheWatermark'
    BY <2>1 DEF StatsInv, Stats!NothingBehindTheWatermark, Stats!Alone
  <2>7. \A m \in DOMAIN turn :
          turn[m] <= b.next /\ Stats!Alone(m) => <<"msg", m>> \in counted \cup b.keys
    <3> TAKE m \in DOMAIN turn
    <3>1. turn[m] <= since \/ turn[m] > since
      BY <1>1
    <3>. QED BY <2>2, <3>1 DEF StatsInv, Stats!NothingBehindTheWatermark
  <2>. QED BY <2>1, <2>4, <2>5, <2>6, <2>7 DEF StatsInv, Stats!Alone
<1>7. ASSUME NEW b \in sending, Stats!Accepted(b) \/ Stats!Lost(b) PROVE StatsInv'
  <2>1. /\ sending' = {} /\ UNCHANGED <<now, turn, started, ended>>
        /\ (counted' = counted /\ since' = since) \/ (counted' = counted \cup b.keys /\ since' \in {since, b.next})
    BY <1>7 DEF Stats!Accepted, Stats!Lost, Stats!SinceAfterFailure
  <2>2. /\ b \in Stats!Batch /\ b.keys \subseteq Stats!Keys /\ b.next \in 0..MaxTime
        /\ b.next <= now /\ Marked(b.next) /\ since <= now /\ Marked(since)
    BY <1>1 DEF Stats!TypeOK, Past, Stats!Batch
  <2>3. Stats!Cardinality({}) <= 1
    BY StatsSameCardinality, FS_EmptySet
  <2>4. Stats!TypeOK'
    BY <1>1, <2>1, <2>2, <2>3 DEF Stats!TypeOK
  <2>5. Past'
    BY <1>1, <2>1, <2>2 DEF Past, Marked
  <2>6. Stats!NothingBehindTheWatermark'
    BY <2>1 DEF StatsInv, Stats!NothingBehindTheWatermark, Stats!Alone
  <2>. QED BY <2>1, <2>4, <2>5, <2>6 DEF StatsInv
<1>8. CASE Stats!SignOut
  <2>1. since' = 0 /\ UNCHANGED <<now, turn, started, ended, sending, counted>>
    BY <1>8 DEF Stats!SignOut
  <2>2. 0 \in 0..MaxTime /\ 0 <= now /\ \A m \in DOMAIN turn : ~(turn[m] <= 0)
    BY <1>1
  <2>3. Stats!TypeOK'
    BY <1>1, <2>1, <2>2 DEF Stats!TypeOK
  <2>4. Past'
    BY <1>1, <2>1, <2>2 DEF Past, Marked
  <2>5. Stats!NothingBehindTheWatermark'
    BY <2>1, <2>2 DEF Stats!NothingBehindTheWatermark
  <2>. QED BY <2>1, <2>3, <2>4, <2>5 DEF StatsInv, Stats!Alone
<1>. QED BY <1>2, <1>3, <1>4, <1>5, <1>6, <1>7, <1>8 DEF Stats!Next

-----------------------------------------------------------------------------
(* The behaviours of the run.                                              *)

SettingsParameters == MaxPushes \in Nat

\* Each part keeps its invariant, if its constants are what they should be.
RecordsInv ==
  /\ part = "settings" /\ SettingsParameters => TypeInv
  /\ part = "stats" /\ StatsParameters => StatsInv
  /\ part = "registries" /\ RegistryParameters => RegistriesInv
  /\ part = "ledger" /\ LedgerParameters => LedgerInv
  /\ part = "roles" => Matchings!VotesInv

LEMMA RecordsSafety == OneByOne => []RecordsInv
<1>1. OneByOneInit => RecordsInv
  BY TypeInvInit, StatsInit, RegistriesInit, LedgerInit, VotesInit
  DEF OneByOneInit, RecordsInv, SettingsParameters
<1>2. RecordsInv /\ [OneByOneNext]_<<part, settings, stats, registries, ledger, roles>> => RecordsInv'
  <2> SUFFICES ASSUME RecordsInv, [OneByOneNext]_<<part, settings, stats, registries, ledger, roles>>
               PROVE  RecordsInv'
    OBVIOUS
  <2>1. part' = part
    BY DEF OneByOneNext
  <2>2. ASSUME part = "settings", SettingsParameters PROVE TypeInv'
    <3>1. Next \/ UNCHANGED settings
      BY <2>2 DEF OneByOneNext
    <3>2. UNCHANGED settings => TypeInv'
      BY <2>2 DEF RecordsInv, settings, vars, TypeInv, TypeOK, Wrote
    <3>. QED BY <2>2, <3>1, <3>2, TypeInvStep DEF RecordsInv, SettingsParameters
  <2>3. ASSUME part = "stats", StatsParameters PROVE StatsInv'
    <3>1. Stats!Next \/ UNCHANGED stats
      BY <2>3 DEF OneByOneNext
    <3>2. UNCHANGED stats => StatsInv'
      BY <2>3 DEF RecordsInv, stats, StatsInv, Stats!TypeOK, Past, Marked, Stats!NothingBehindTheWatermark, Stats!Alone
    <3>. QED BY <2>3, <3>1, <3>2, StatsStep DEF RecordsInv
  <2>4. ASSUME part = "registries", RegistryParameters PROVE RegistriesInv'
    <3>1. Registries!Next \/ UNCHANGED registries
      BY <2>4 DEF OneByOneNext
    <3>2. UNCHANGED registries => RegistriesInv'
      BY <2>4 DEF RecordsInv, registries, RegistriesInv
    <3>. QED BY <2>4, <3>1, <3>2, RegistriesStep DEF RecordsInv
  <2>5. ASSUME part = "ledger", LedgerParameters PROVE LedgerInv'
    <3>1. Ledger!Next \/ UNCHANGED ledger
      BY <2>5 DEF OneByOneNext
    <3>2. UNCHANGED ledger => LedgerInv'
      BY <2>5 DEF RecordsInv, ledger, LedgerInv, Ledger!TypeOK, Ledger!MemberIds
    <3>. QED BY <2>5, <3>1, <3>2, LedgerStep DEF RecordsInv
  <2>6. ASSUME part = "roles" PROVE Matchings!VotesInv'
    <3>1. Roles!Next \/ UNCHANGED roles
      BY <2>6 DEF OneByOneNext
    <3>2. UNCHANGED roles => Matchings!VotesInv'
      BY <2>6 DEF RecordsInv, roles, Matchings!VotesInv, Matchings!Pool
    <3>. QED BY <2>6, <3>1, <3>2, VotesStep DEF RecordsInv
  <2>. QED BY <2>1, <2>2, <2>3, <2>4, <2>5, <2>6
       DEF RecordsInv, SettingsParameters, StatsParameters, RegistryParameters, LedgerParameters
<1>. QED BY <1>1, <1>2, PTL DEF OneByOne

\* The state of every part keeps its type: no registry outgrows its limit, no revision
\* the pushes, no batch holds anything but keys of messages and calls.
THEOREM TypesCorrect ==
  ASSUME SettingsParameters, StatsParameters, RegistryParameters, LedgerParameters
  PROVE  OneByOne => []TypesOK
<1>1. RecordsInv => TypesOK
  BY RegistriesImplies DEF RecordsInv, TypesOK, TypeInv, StatsInv, LedgerInv
<1>. QED BY <1>1, RecordsSafety, PTL

\* The watermark of a client never passes over an assistant message that the server has
\* not counted, if no other row was written in its millisecond: not when a batch is cut
\* at its limit, through rows of one time too, a row is written at the very time a batch
\* ends with, an answer is lost, the pairing of calls looks further back than the
\* watermark, or the account signs out while a batch is under way (syncService.ts
\* pushAll, syncApi.ts deriveStatsEvents).
THEOREM NoMessageIsPassedOver ==
  ASSUME StatsParameters PROVE OneByOne => []NothingBehindTheWatermark
<1>1. RecordsInv => NothingBehindTheWatermark
  BY DEF RecordsInv, NothingBehindTheWatermark, StatsInv
<1>. QED BY <1>1, RecordsSafety, PTL

\* A child that was recruited and has not reported is outstanding with one owner and no
\* other: a transfer never loses those that come last at the limit, and a restart refuses
\* no registry that was built while children came and went (ledgers.ts transferChildren,
\* restoreLedgers).
THEOREM NoChildIsLost ==
  ASSUME RegistryParameters PROVE OneByOne => []EveryChildHasOneParent
<1>1. RecordsInv => EveryChildHasOneParent
  BY RegistriesImplies DEF RecordsInv, EveryChildHasOneParent
<1>. QED BY <1>1, RecordsSafety, PTL

\* A domain is complete only when every part it was split into is done or was absorbed
\* by a verdict; none is forgotten by a withdrawn request or a restart (ledgers.ts
\* domainQuiescent, resolveMerge).
THEOREM NoPeerIsForgotten ==
  ASSUME LedgerParameters PROVE OneByOne => []CompleteCountsEveryPeer
<1>1. RecordsInv => CompleteCountsEveryPeer
  BY LedgerImplies DEF RecordsInv, CompleteCountsEveryPeer
<1>. QED BY <1>1, RecordsSafety, PTL

\* RevisionsNameTheirData, of the behaviours of the run.
THEOREM RunRevisionsNameTheirData ==
  ASSUME MayReset = FALSE PROVE OneByOne => []RevisionNamesItsData
<1>1. OneByOneInit => KnownInv
  BY KnownInvInit DEF OneByOneInit
<1>2. KnownInv /\ [OneByOneNext]_<<part, settings, stats, registries, ledger, roles>> => KnownInv'
  <2>1. [OneByOneNext]_<<part, settings, stats, registries, ledger, roles>> => [Next]_vars
    BY DEF OneByOneNext, settings
  <2>. QED BY <2>1, KnownInvStep
<1>3. KnownInv => RevisionNamesItsData
  BY DEF KnownInv, NotAhead, RevisionNamesItsData
<1>. QED BY <1>1, <1>2, <1>3, PTL DEF OneByOne

\* After any votes in any order the count that decides an approval is the largest number
\* of roles of the pool that can each be given an identity of its own that voted for it
\* (approvalGate.ts countDistinctRoleMatches, decideApproval).
THEOREM CountIsTheQuorum ==
  ASSUME Matchings!RoleParameters PROVE OneByOne => []CountIsLargestMatching
<1>1. RecordsInv => CountIsLargestMatching
  BY Matchings!LargestMatching, SameCount DEF RecordsInv, CountIsLargestMatching
<1>. QED BY <1>1, RecordsSafety, PTL
=============================================================================
