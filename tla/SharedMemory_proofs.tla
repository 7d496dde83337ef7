------------------------ MODULE SharedMemory_proofs ------------------------
(***************************************************************************)
(* Proofs about SharedMemory, for any accounts and keys, any number of     *)
(* entries, cases and restarts.                                            *)
(***************************************************************************)
EXTENDS SharedMemory, TLAPS, FiniteSetTheorems, SequenceTheorems,
        WellFoundedInduction

\* What is assumed of the constants: the anonymous account is one of the accounts.
Parameters == Anonymous \in Accounts /\ MaxWrites \in Nat /\ MaxRestarts \in Nat

-----------------------------------------------------------------------------
(* The last of a set of numbers.                                           *)

LEMMA MaxOfNumbers ==
  ASSUME NEW n \in Nat, NEW S \in SUBSET (0..n), S # {}
  PROVE  Max(S) \in S /\ \A x \in S : x <= Max(S)
<1> DEFINE T == {n - x : x \in S}
<1>1. T \subseteq Nat /\ T # {}
  <2>1. \A x \in S : n - x \in Nat
    OBVIOUS
  <2>. QED BY <2>1
<1>2. PICK t \in T : \A u \in T : t <= u
  <2> HIDE DEF T
  <2>1. PICK t \in T : \A u \in T : ~(<<u, t>> \in OpToRel(<, Nat))
    BY <1>1, NatLessThanWellFounded, WFMin
  <2>2. \A u \in T : ~(u < t)
    BY <1>1, <2>1 DEF OpToRel
  <2>3. t \in Nat /\ \A u \in T : u \in Nat
    BY <1>1
  <2>. QED BY <2>2, <2>3
<1>3. PICK x \in S : t = n - x
  BY <1>2
<1>4. \A y \in S : x >= y
  <2>1. \A y \in S : n - x <= n - y
    BY <1>2, <1>3
  <2>. QED BY <2>1
<1>5. Max(S) \in S /\ \A y \in S : Max(S) >= y
  BY <1>4 DEF Max
<1>. QED BY <1>5

-----------------------------------------------------------------------------
(* Types, and who has written what.  The owner of an entry decides who     *)
(* reads it; that it has written the content survives the numbers given    *)
(* twice only because a row that exists keeps its owner together with its  *)
(* content; the metadata it does not keep.                                 *)

\* An entry and a row belong to who has written them.
Owned ==
  /\ \A n \in DOMAIN entries : entries[n].owner = entries[n].by
  /\ \A n \in DOMAIN rows : rows[n].owner = rows[n].by

IsOpen(c) == c.status \notin {"completed", "timeout"}

\* No two open cases are about the same conflict.
OneAtATime ==
  \A i, j \in DOMAIN cases :
    IsOpen(cases[i]) /\ IsOpen(cases[j]) /\ cases[i].about = cases[j].about => i = j

MemoryInv == TypeOK /\ Owned /\ OneAtATime

LEMMA MemoryInit == ASSUME Parameters PROVE Init => MemoryInv
<1> SUFFICES ASSUME Init PROVE MemoryInv
  OBVIOUS
<1>1. DOMAIN entries = {} /\ DOMAIN rows = {} /\ DOMAIN cases = {}
  BY DEF Init
<1>. QED BY <1>1 DEF Init, Parameters, MemoryInv, TypeOK, Owned, OneAtATime

LEMMA CurrentEntry ==
  ASSUME TypeOK, NEW S, S \subseteq DOMAIN entries, S # {}
  PROVE  Max(S) \in S /\ \A x \in S : x <= Max(S)
<1>1. counter \in Nat /\ S \in SUBSET (0..counter)
  BY DEF TypeOK
<1>. QED BY <1>1, MaxOfNumbers

\* What storing an entry does to each entry and each row.
LEMMA StoreStep ==
  ASSUME TypeOK, Parameters, NEW k \in Keys, NEW claim \in Claims, NEW overruled,
         overruled \subseteq Active(k), Store(k, claim, overruled)
  PROVE  LET n == counter + 1
             new == [key |-> k, owner |-> account, by |-> account, meta |-> account,
                     claim |-> claim, status |-> "active"]
         IN  /\ new \in Entry /\ counter' = n /\ n \in 1..MaxWrites
             /\ DOMAIN entries' = DOMAIN entries \cup {n} /\ n \notin DOMAIN entries
             /\ entries'[n] = new
             /\ \A m \in DOMAIN entries :
                  /\ entries'[m] \in Entry
                  /\ entries'[m].owner = entries[m].owner /\ entries'[m].by = entries[m].by
                  /\ entries'[m].key = entries[m].key
                  /\ entries'[m].claim = entries[m].claim
                  /\ m \notin Active(k) => entries'[m] = entries[m]
             /\ DOMAIN rows' = DOMAIN rows \cup {n}
             /\ \A m \in DOMAIN rows :
                  /\ rows'[m] \in Entry /\ rows'[m].status = "active"
                  /\ rows'[m].owner = rows[m].owner /\ rows'[m].by = rows[m].by
             /\ n \notin DOMAIN rows => rows'[n] = new
<1> DEFINE n == counter + 1
           kept == Active(k) \ overruled
           new == [key |-> k, owner |-> account, by |-> account, meta |-> account,
                   claim |-> claim, status |-> "active"]
           fate(m) == IF m \in overruled THEN [entries[m] EXCEPT !.status = "discarded"]
                      ELSE IF kept # {} /\ m = Max(kept)
                             THEN [entries[m] EXCEPT !.status = "superseded"]
                      ELSE entries[m]
<1>1. /\ counter < MaxWrites /\ counter' = n
      /\ entries' = [m \in DOMAIN entries \cup {n} |-> IF m = n THEN new ELSE fate(m)]
      /\ rows' = [m \in DOMAIN rows \cup {n} |->
                    IF m # n THEN rows[m]
                    ELSE IF n \in DOMAIN rows THEN Upsert(rows[n], new) ELSE new]
  BY DEF Store
<1>2. new \in Entry
  BY DEF TypeOK, Entry
<1>3. n \in 1..MaxWrites /\ n \notin DOMAIN entries
  BY <1>1 DEF TypeOK, Parameters
<1>4. ASSUME NEW m \in DOMAIN entries
      PROVE  /\ fate(m) \in Entry
             /\ fate(m).owner = entries[m].owner /\ fate(m).by = entries[m].by
             /\ fate(m).key = entries[m].key /\ fate(m).claim = entries[m].claim
             /\ m \notin Active(k) => fate(m) = entries[m]
  <2>1. entries[m] \in Entry
    BY DEF TypeOK
  <2>2. kept # {} => Max(kept) \in Active(k)
    <3>1. kept \subseteq DOMAIN entries
      BY DEF Active
    <3>. QED BY <3>1, CurrentEntry
  <2>. QED BY <2>1, <2>2 DEF Entry
<1> HIDE DEF fate, new
<1>5. /\ DOMAIN rows' = DOMAIN rows \cup {n}
      /\ \A m \in DOMAIN rows :
           /\ rows'[m] \in Entry /\ rows'[m].status = "active"
           /\ rows'[m].owner = rows[m].owner /\ rows'[m].by = rows[m].by
  <2>1. \A m \in DOMAIN rows : rows'[m] = rows[m] \/ rows'[m] = Upsert(rows[m], new)
    BY <1>1
  <2>2. new.meta \in Accounts /\ new.status = "active"
    BY DEF new, TypeOK
  <2>3. ASSUME NEW m \in DOMAIN rows
        PROVE  /\ Upsert(rows[m], new) \in Entry /\ Upsert(rows[m], new).status = "active"
               /\ Upsert(rows[m], new).owner = rows[m].owner
               /\ Upsert(rows[m], new).by = rows[m].by
    <3>1. rows[m] \in Entry
      BY DEF TypeOK
    <3>. QED BY <2>2, <3>1 DEF Upsert, Entry
  <2>. QED BY <1>1, <2>1, <2>3 DEF TypeOK
<1>. QED BY <1>1, <1>2, <1>3, <1>4, <1>5 DEF new

\* Filing and settling keep the types of the cases.
LEMMA FileOne ==
  ASSUME TypeOK, NEW about \in Keys \cup {Alert}, NEW status \in {"filed", "assembling", "completed"},
         cases' = Append(cases, Filed(about, status))
  PROVE  /\ cases' \in Seq(Case) /\ Len(cases') = Len(cases) + 1
         /\ \A i \in DOMAIN cases : cases'[i] = cases[i]
         /\ cases'[Len(cases) + 1] = Filed(about, status)
<1>1. Filed(about, status) \in Case
  BY DEF Filed, Case
<1>2. cases \in Seq(Case)
  BY DEF TypeOK
<1>. QED BY <1>1, <1>2, AppendProperties

LEMMA FileMany ==
  ASSUME TypeOK, NEW k \in Keys, NEW m \in Nat,
         cases' = cases \o [i \in 1..m |-> Filed(k, "completed")]
  PROVE  /\ cases' \in Seq(Case) /\ Len(cases') = Len(cases) + m
         /\ \A i \in 1..Len(cases') : IF i <= Len(cases) THEN cases'[i] = cases[i]
                                                        ELSE cases'[i] = Filed(k, "completed")
<1> DEFINE filed == [i \in 1..m |-> Filed(k, "completed")]
<1>1. Filed(k, "completed") \in Case
  BY DEF Filed, Case
<1>2. filed \in Seq(Case) /\ Len(filed) = m
  <2>1. filed \in Seq(Case)
    BY <1>1, IsASeq
  <2>2. DOMAIN filed = 1..m
    OBVIOUS
  <2>. QED BY <2>1, <2>2, LenProperties
<1>3. cases \in Seq(Case)
  BY DEF TypeOK
<1>4. cases' = cases \o filed
  OBVIOUS
<1>5. \A i \in 1..m : filed[i] = Filed(k, "completed")
  OBVIOUS
<1>6. Len(cases) \in Nat
  BY <1>3, LenProperties
<1> HIDE DEF filed
<1>7. /\ cases' \in Seq(Case) /\ Len(cases') = Len(cases) + m
      /\ \A i \in 1 .. Len(cases) + m :
           cases'[i] = IF i <= Len(cases) THEN cases[i] ELSE filed[i - Len(cases)]
  <2>1. /\ cases \o filed \in Seq(Case) /\ Len(cases \o filed) = Len(cases) + Len(filed)
        /\ \A i \in 1 .. Len(cases) + Len(filed) :
             (cases \o filed)[i] = IF i <= Len(cases) THEN cases[i] ELSE filed[i - Len(cases)]
    BY <1>2, <1>3, ConcatProperties
  <2>. QED BY <1>2, <1>4, <2>1
<1>. QED BY <1>5, <1>6, <1>7

-----------------------------------------------------------------------------
(* Every step.                                                             *)

\* What every step but a restart does to the cases: it adds settled ones, or one
\* about a conflict that has none open, or settles some.
LEMMA CasesStep ==
  ASSUME MemoryInv, Next
  PROVE  cases' \in Seq(Case) /\ OneAtATime'
<1>0. /\ cases \in Seq(Case) /\ Len(cases) \in Nat /\ DOMAIN cases = 1..Len(cases)
      /\ \A i \in DOMAIN cases : cases[i] \in Case
  <2>1. cases \in Seq(Case)
    BY DEF MemoryInv, TypeOK
  <2>. QED BY <2>1, LenProperties, ElementOfSeq
<1>1. ASSUME NEW k \in Keys, NEW claim \in Claims, Write(k, claim)
      PROVE  cases' \in Seq(Case) /\ OneAtATime'
  <2>1. IsFiniteSet(Opposed(k, claim))
    <3>1. counter \in Nat /\ Opposed(k, claim) \subseteq 1..counter
      BY DEF MemoryInv, TypeOK, Opposed, Active
    <3>2. IsFiniteSet(1..counter)
      BY <3>1, FS_Interval
    <3>. QED BY <3>1, <3>2, FS_Subset
  <2> DEFINE m == Cardinality(Opposed(k, claim))
  <2>2. m \in Nat
    BY <2>1, FS_CardinalityType
  <2>3. cases' = cases \o [i \in 1..m |-> Filed(k, "completed")]
    BY <1>1 DEF Write, Ruling
  <2> HIDE DEF m
  <2>4. /\ cases' \in Seq(Case) /\ Len(cases') = Len(cases) + m
        /\ \A i \in 1..Len(cases') : IF i <= Len(cases) THEN cases'[i] = cases[i]
                                                        ELSE cases'[i] = Filed(k, "completed")
    BY <2>2, <2>3, FileMany DEF MemoryInv
  <2>5. ASSUME NEW i \in DOMAIN cases', IsOpen(cases'[i])
        PROVE  i \in DOMAIN cases /\ cases'[i] = cases[i]
    <3>1. DOMAIN cases' = 1..Len(cases')
      BY <2>4, LenProperties
    <3>. QED BY <1>0, <2>4, <2>5, <3>1 DEF IsOpen, Filed
  <2>. QED BY <2>4, <2>5 DEF MemoryInv, OneAtATime
<1>2. ASSUME NEW about \in Keys \cup {Alert}, NEW status \in {"filed", "assembling", "completed"},
             ~Refused(about), cases' = Append(cases, Filed(about, status))
      PROVE  cases' \in Seq(Case) /\ OneAtATime'
  <2>1. /\ cases' \in Seq(Case) /\ Len(cases') = Len(cases) + 1
        /\ \A i \in DOMAIN cases : cases'[i] = cases[i]
        /\ cases'[Len(cases) + 1].about = about
    <3>1. TypeOK
      BY DEF MemoryInv
    <3>2. /\ cases' \in Seq(Case) /\ Len(cases') = Len(cases) + 1
          /\ \A i \in DOMAIN cases : cases'[i] = cases[i]
          /\ cases'[Len(cases) + 1] = Filed(about, status)
      BY <1>2, <3>1, FileOne
    <3>3. Filed(about, status).about = about
      BY DEF Filed
    <3>. QED BY <3>2, <3>3
  <2>2. DOMAIN cases' = DOMAIN cases \cup {Len(cases) + 1}
    BY <1>0, <2>1, LenProperties
  <2>3. \A i \in DOMAIN cases : IsOpen(cases[i]) => cases[i].about # about
    BY <1>2 DEF Refused, Open, IsOpen
  <2>4. ASSUME NEW i \in DOMAIN cases', NEW j \in DOMAIN cases',
               IsOpen(cases'[i]), IsOpen(cases'[j]), cases'[i].about = cases'[j].about
        PROVE  i = j
    <3>1. CASE i \in DOMAIN cases /\ j \in DOMAIN cases
      BY <2>1, <2>4, <3>1 DEF MemoryInv, OneAtATime
    <3>2. CASE i = Len(cases) + 1 \/ j = Len(cases) + 1
      BY <2>1, <2>2, <2>3, <2>4, <3>2
    <3>. QED BY <2>2, <3>1, <3>2
  <2>. QED BY <2>1, <2>4 DEF OneAtATime
<1>3. ASSUME NEW k \in Keys, NEW mayRule \in BOOLEAN, FileByHand(k, mayRule)
      PROVE  cases' \in Seq(Case) /\ OneAtATime'
  BY <1>2, <1>3 DEF FileByHand, Ruling
<1>4. ASSUME FileForAlert PROVE cases' \in Seq(Case) /\ OneAtATime'
  BY <1>2, <1>4 DEF FileForAlert
<1>5. ASSUME DOMAIN cases' = DOMAIN cases,
             \A i \in DOMAIN cases : /\ cases'[i] \in Case /\ cases'[i].about = cases[i].about
                                     /\ IsOpen(cases'[i]) => IsOpen(cases[i])
      PROVE  OneAtATime'
  BY <1>5 DEF MemoryInv, OneAtATime
<1>6. ASSUME NEW i \in DOMAIN cases, Ages(i) PROVE cases' \in Seq(Case) /\ OneAtATime'
  <2>1. cases' = [cases EXCEPT ![i].due = TRUE]
    BY <1>6 DEF Ages
  <2>2. \A j \in DOMAIN cases : /\ cases'[j] \in Case /\ cases'[j].about = cases[j].about
                                /\ IsOpen(cases'[j]) => IsOpen(cases[j])
    BY <1>0, <2>1 DEF Case, IsOpen
  <2>3. cases' = [j \in 1..Len(cases) |-> cases'[j]] /\ DOMAIN cases' = DOMAIN cases
    BY <1>0, <2>1
  <2>. QED BY <1>0, <1>5, <2>2, <2>3, IsASeq
<1>7. ASSUME Sweep PROVE cases' \in Seq(Case) /\ OneAtATime'
  <2>1. cases' = [i \in DOMAIN cases |->
                    IF Stale(cases[i]) THEN [cases[i] EXCEPT !.status = "timeout"] ELSE cases[i]]
    BY <1>7 DEF Sweep
  <2>2. \A j \in DOMAIN cases : /\ cases'[j] \in Case /\ cases'[j].about = cases[j].about
                                /\ IsOpen(cases'[j]) => IsOpen(cases[j])
    BY <1>0, <2>1 DEF Case, IsOpen
  <2>3. cases' = [j \in 1..Len(cases) |-> cases'[j]] /\ DOMAIN cases' = DOMAIN cases
    BY <1>0, <2>1
  <2>. QED BY <1>0, <1>5, <2>2, <2>3, IsASeq
<1>8. CASE Restart
  BY <1>8, EmptySeq DEF Restart, OneAtATime
<1>9. ASSUME NEW a \in Accounts, SwitchAccount(a) PROVE cases' \in Seq(Case) /\ OneAtATime'
  BY <1>0, <1>9 DEF SwitchAccount, MemoryInv, OneAtATime
<1>. QED BY <1>1, <1>3, <1>4, <1>6, <1>7, <1>8, <1>9 DEF Next

LEMMA MemoryStep ==
  ASSUME Parameters
  PROVE  MemoryInv /\ [Next]_vars => MemoryInv'
<1> SUFFICES ASSUME MemoryInv, [Next]_vars PROVE MemoryInv'
  OBVIOUS
<1>0. TypeOK /\ Owned
  BY DEF MemoryInv
<1>1. ASSUME NEW k \in Keys, NEW claim \in Claims, Write(k, claim)
      PROVE  TypeOK' /\ Owned'
  <2> DEFINE n == counter + 1
             new == [key |-> k, owner |-> account, by |-> account, meta |-> account,
                     claim |-> claim, status |-> "active"]
  <2>1. /\ Store(k, claim, Opposed(k, claim)) /\ Opposed(k, claim) \subseteq Active(k)
        /\ UNCHANGED <<account, restarts>>
    BY <1>1 DEF Write, Opposed
  <2>2. /\ new \in Entry /\ counter' = n /\ n \in 1..MaxWrites
        /\ DOMAIN entries' = DOMAIN entries \cup {n} /\ entries'[n] = new
        /\ \A m \in DOMAIN entries :
             /\ entries'[m] \in Entry
             /\ entries'[m].owner = entries[m].owner /\ entries'[m].by = entries[m].by
        /\ DOMAIN rows' = DOMAIN rows \cup {n}
        /\ \A m \in DOMAIN rows :
             /\ rows'[m] \in Entry /\ rows'[m].status = "active"
             /\ rows'[m].owner = rows[m].owner /\ rows'[m].by = rows[m].by
        /\ n \notin DOMAIN rows => rows'[n] = new
    BY <1>0, <2>1, StoreStep
  <2>3. new.owner = new.by /\ new.status = "active"
    OBVIOUS
  <2> HIDE DEF new
  <2>4. cases' \in Seq(Case)
    BY <1>1, CasesStep DEF Next
  <2>5. counter' \in 0..MaxWrites /\ DOMAIN entries' \subseteq 1..counter'
    BY <1>0, <2>2 DEF TypeOK
  <2>6. /\ DOMAIN rows' \subseteq 1..MaxWrites
        /\ \A m \in DOMAIN rows' : rows'[m] \in Entry /\ rows'[m].status = "active"
    BY <1>0, <2>2, <2>3 DEF TypeOK
  <2>7. TypeOK'
    BY <1>0, <2>1, <2>2, <2>4, <2>5, <2>6 DEF TypeOK
  <2>8. Owned'
    BY <1>0, <2>2, <2>3 DEF Owned
  <2>. QED BY <2>7, <2>8
<1>2. ASSUME Restart PROVE TypeOK' /\ Owned'
  <2>1. /\ entries' = [n \in RowsOf(Anonymous) |-> rows[n]] /\ rows' = rows
        /\ counter' = LastNumber /\ account' = Anonymous /\ cases' = <<>>
        /\ restarts' \in 0..MaxRestarts
    BY <1>0, <1>2 DEF Restart, TypeOK, Parameters
  <2>2. RowsOf(Anonymous) \subseteq DOMAIN rows
    BY DEF RowsOf
  <2>3. RowsOf(Anonymous) \cup {0} \in SUBSET (0..MaxWrites)
    BY <1>0, <2>2 DEF TypeOK, Parameters
  <2>4. /\ LastNumber \in RowsOf(Anonymous) \cup {0}
        /\ \A n \in RowsOf(Anonymous) \cup {0} : n <= LastNumber
    BY <2>3, MaxOfNumbers DEF LastNumber, Parameters
  <2>5. counter' \in 0..MaxWrites /\ DOMAIN entries' \subseteq 1..counter'
    BY <1>0, <2>1, <2>2, <2>3, <2>4 DEF TypeOK
  <2>6. \A n \in DOMAIN entries' : entries'[n] \in Entry /\ entries'[n].owner = entries'[n].by
    BY <1>0, <2>1, <2>2 DEF TypeOK, Owned
  <2>7. cases' \in Seq(Case) /\ account' \in Accounts
    BY <2>1, EmptySeq DEF Parameters
  <2>8. TypeOK'
    BY <1>0, <2>1, <2>5, <2>6, <2>7 DEF TypeOK
  <2>9. Owned'
    BY <1>0, <2>1, <2>6 DEF Owned
  <2>. QED BY <2>8, <2>9
<1>3. ASSUME UNCHANGED <<entries, counter, rows, restarts>>, account' \in Accounts,
             cases' \in Seq(Case)
      PROVE  TypeOK' /\ Owned'
  BY <1>0, <1>3 DEF TypeOK, Owned
<1>4. CASE Next
  <2>1. cases' \in Seq(Case) /\ OneAtATime'
    BY <1>4, CasesStep
  <2>2. account \in Accounts
    BY <1>0 DEF TypeOK
  <2>. QED BY <1>1, <1>2, <1>3, <1>4, <2>1, <2>2
           DEF Next, MemoryInv, SwitchAccount, FileByHand, FileForAlert, Ages, Sweep
<1>5. CASE UNCHANGED vars
  BY <1>5 DEF vars, MemoryInv, TypeOK, Owned, OneAtATime
<1>. QED BY <1>4, <1>5

LEMMA MemorySafety == ASSUME Parameters PROVE Spec => []MemoryInv
BY MemoryInit, MemoryStep, PTL DEF Spec

LEMMA MemoryImplies == MemoryInv => TypeOK /\ OwnersReadTheirOwnContent /\ OneOpenCase
<1>1. MemoryInv => TypeOK
  BY DEF MemoryInv
<1>2. MemoryInv => OwnersReadTheirOwnContent
  BY DEF MemoryInv, Owned, OwnersReadTheirOwnContent, Read, Active, RowsOf
<1>3. MemoryInv => OneOpenCase
  <2> SUFFICES ASSUME MemoryInv, NEW about \in Keys \cup {Alert}
               PROVE  Cardinality(Open(about)) <= 1
    BY DEF OneOpenCase
  <2>1. \A i, j \in Open(about) : i = j
    BY DEF MemoryInv, OneAtATime, IsOpen, Open
  <2>2. Open(about) = {} \/ \E i \in Open(about) : Open(about) = {i}
    BY <2>1
  <2>3. CASE Open(about) = {}
    BY <2>3, FS_EmptySet
  <2>4. ASSUME NEW i \in Open(about), Open(about) = {i} PROVE Cardinality(Open(about)) <= 1
    <3>1. Cardinality({i}) = 1
      BY FS_Singleton
    <3>. QED BY <2>4, <3>1
  <2>. QED BY <2>2, <2>3, <2>4
<1>. QED BY <1>1, <1>2, <1>3

\* What is recorded always has its type.
THEOREM TypeCorrect == ASSUME Parameters PROVE Spec => []TypeOK
BY MemoryImplies, MemorySafety, PTL

\* The content an account reads was written under it, whichever accounts are switched
\* to, whatever numbers are given twice, so that rows take over metadata, and however
\* often the process restarts (globalWorkspace.ts read, ownedBy, persistEntry).
THEOREM ContentStaysWithItsOwner == ASSUME Parameters PROVE Spec => []OwnersReadTheirOwnContent
BY MemoryImplies, MemorySafety, PTL

\* A conflict is never before two cases at once, whoever files it, and whether the
\* one who files may rule (tribunal.ts fileCase).
THEOREM NoTwoTribunals == ASSUME Parameters PROVE Spec => []OneOpenCase
BY MemoryImplies, MemorySafety, PTL

-----------------------------------------------------------------------------
(* The claims of the current entries.                                      *)

\* The current entry of a key is the last of its active ones.
LEMMA CurrentIsLast ==
  ASSUME TypeOK, NEW k \in Keys, Active(k) # {}
  PROVE  /\ Current(k) \in Active(k) /\ Current(k) \in DOMAIN entries
         /\ \A m \in Active(k) : ~(m > Current(k))
<1>1. Active(k) \subseteq DOMAIN entries /\ DOMAIN entries \subseteq 1..counter /\ counter \in Nat
  BY DEF Active, TypeOK
<1>2. Current(k) \in Active(k) /\ \A m \in Active(k) : m <= Current(k)
  BY <1>1, CurrentEntry DEF Current
<1>. QED BY <1>1, <1>2

\* A write leaves the current entries of the other keys as they are, and turns the
\* claim of its own only by overruling: then a case is filed.
LEMMA WriteFilesACase ==
  ASSUME MemoryInv, MemoryInv', Parameters, NEW k0 \in Keys, NEW claim \in Claims, Write(k0, claim),
         NEW k \in Keys, Active(k) # {}, Active(k)' # {},
         entries[Current(k)].claim # (entries[Current(k)].claim)'
  PROVE  \E i \in DOMAIN cases' \ DOMAIN cases : cases'[i].about = k
<1> DEFINE n == counter + 1
<1>0. TypeOK /\ TypeOK' /\ n \in Nat
  BY DEF MemoryInv, TypeOK
<1>1. Store(k0, claim, Opposed(k0, claim)) /\ Opposed(k0, claim) \subseteq Active(k0)
  BY DEF Write, Opposed
<1>2. /\ DOMAIN entries' = DOMAIN entries \cup {n} /\ n \notin DOMAIN entries
      /\ entries'[n].key = k0 /\ entries'[n].claim = claim /\ entries'[n].status = "active"
      /\ \A m \in DOMAIN entries :
           /\ entries'[m].key = entries[m].key /\ entries'[m].claim = entries[m].claim
           /\ m \notin Active(k0) => entries'[m] = entries[m]
  <2> DEFINE new == [key |-> k0, owner |-> account, by |-> account, meta |-> account,
                     claim |-> claim, status |-> "active"]
  <2>1. /\ DOMAIN entries' = DOMAIN entries \cup {n} /\ n \notin DOMAIN entries
        /\ entries'[n] = new
        /\ \A m \in DOMAIN entries :
             /\ entries'[m].key = entries[m].key /\ entries'[m].claim = entries[m].claim
             /\ m \notin Active(k0) => entries'[m] = entries[m]
    BY <1>0, <1>1, StoreStep
  <2>2. new.key = k0 /\ new.claim = claim /\ new.status = "active"
    OBVIOUS
  <2> HIDE DEF new
  <2>. QED BY <2>1, <2>2
<1>3. Current(k) \in Active(k) /\ Current(k) \in DOMAIN entries
  BY <1>0, CurrentIsLast
<1>4. CASE k # k0
  <2>1. Active(k)' = Active(k)
    BY <1>2, <1>4 DEF Active
  <2>2. Current(k)' = Current(k)
    BY <2>1 DEF Current
  <2>. QED BY <1>2, <1>3, <2>2
<1>5. CASE k = k0
  <2>1. n \in Active(k)'
    BY <1>2, <1>5 DEF Active
  <2>2. \A m \in DOMAIN entries : m \in Nat /\ m < n
    BY <1>0 DEF TypeOK
  <2>3. Current(k)' \in DOMAIN entries' /\ n <= Current(k)'
    <3>1. Active(k)' \in SUBSET (0..n) /\ Active(k)' \subseteq DOMAIN entries'
      BY <1>0, <1>2, <2>2 DEF Active
    <3>2. Max(Active(k)') \in Active(k)' /\ n <= Max(Active(k)')
      BY <1>0, <2>1, <3>1, MaxOfNumbers
    <3>. QED BY <3>1, <3>2 DEF Current
  <2>4. Current(k)' = n
    BY <1>0, <1>2, <2>2, <2>3
  <2>5. entries[Current(k)].claim # claim
    BY <1>2, <2>4
  <2>6. Current(k) \in Opposed(k0, claim)
    BY <1>0, <1>3, <1>5, <2>5, CurrentIsLast DEF Opposed
  <2>7. IsFiniteSet(Opposed(k0, claim))
    <3>1. counter \in Nat /\ Opposed(k0, claim) \subseteq 1..counter
      BY <1>0 DEF TypeOK, Opposed, Active
    <3>2. IsFiniteSet(1..counter)
      BY <3>1, FS_Interval
    <3>. QED BY <3>1, <3>2, FS_Subset
  <2> DEFINE m == Cardinality(Opposed(k0, claim))
  <2>8. m \in Nat /\ m # 0
    BY <2>6, <2>7, FS_CardinalityType, FS_EmptySet
  <2>9. cases' = cases \o [i \in 1..m |-> Filed(k0, "completed")]
    BY DEF Write, Ruling
  <2> HIDE DEF m
  <2>10. /\ cases' \in Seq(Case) /\ Len(cases') = Len(cases) + m
         /\ \A i \in 1..Len(cases') : IF i <= Len(cases) THEN cases'[i] = cases[i]
                                                         ELSE cases'[i] = Filed(k0, "completed")
    BY <1>0, <2>8, <2>9, FileMany
  <2>11. /\ Len(cases) \in Nat /\ DOMAIN cases = 1..Len(cases)
         /\ DOMAIN cases' = 1..Len(cases')
    BY <1>0, <2>10, LenProperties DEF TypeOK
  <2> DEFINE i == Len(cases) + 1
  <2>12. i \in DOMAIN cases' \ DOMAIN cases /\ cases'[i] = Filed(k0, "completed")
    BY <2>8, <2>10, <2>11
  <2>13. cases'[i].about = k
    BY <1>5, <2>12 DEF Filed
  <2>. QED BY <2>12, <2>13
<1>. QED BY <1>4, <1>5

\* What NoSilentReversal says of a step.
Ruled ==
  restarts' = restarts =>
    \A k \in Keys :
      (Active(k) # {} /\ Active(k)' # {}
       /\ entries[Current(k)].claim # (entries[Current(k)].claim)') =>
      \E i \in DOMAIN cases' \ DOMAIN cases : cases'[i].about = k

LEMMA RuledStep == ASSUME Parameters PROVE MemoryInv /\ MemoryInv' /\ [Next]_vars => Ruled
<1> SUFFICES ASSUME MemoryInv, MemoryInv', [Next]_vars, restarts' = restarts,
                    NEW k \in Keys, Active(k) # {}, Active(k)' # {},
                    entries[Current(k)].claim # (entries[Current(k)].claim)'
             PROVE  \E i \in DOMAIN cases' \ DOMAIN cases : cases'[i].about = k
  BY DEF Ruled
<1>1. entries' # entries
  <2>1. ASSUME entries' = entries PROVE Current(k)' = Current(k)
    BY <2>1 DEF Current, Active
  <2>. QED BY <2>1
<1>2. ~Restart
  BY DEF Restart, MemoryInv, TypeOK
<1>3. PICK k0 \in Keys, claim \in Claims : Write(k0, claim)
  BY <1>1, <1>2 DEF Next, vars, SwitchAccount, FileByHand, FileForAlert, Ages, Sweep
<1>. QED BY <1>3, WriteFilesACase

\* While the process runs, what the current entry of a key claims is turned into its
\* opposite only by a ruling: a case about the key is filed in the same step
\* (write's refusal on detectSemanticConflict, arbitrationWiring.ts).
THEOREM ReversalsAreRuled == ASSUME Parameters PROVE Spec => NoSilentReversal
<1>1. MemoryInv /\ MemoryInv' /\ [Next]_vars => [Ruled]_vars
  BY RuledStep
<1>2. NoSilentReversal <=> [][Ruled]_vars
  BY DEF NoSilentReversal, Ruled
<1>. QED BY <1>1, <1>2, MemorySafety, PTL DEF Spec
=============================================================================
