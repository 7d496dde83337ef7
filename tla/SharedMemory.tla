---------------------------- MODULE SharedMemory ----------------------------
(***************************************************************************)
(* The shared memory of the agents (Services/SharedMemory/globalWorkspace) *)
(* and the arbitration of conflicting writes to it (Services/Arbitration). *)
(*                                                                         *)
(* The entries of the running process and the rows of the table            *)
(* global_workspace are two pieces of state: a write goes to both, but a   *)
(* row that exists keeps its key, owner and content and takes over the     *)
(* rest, and what becomes of an entry later (superseded, discarded) never  *)
(* reaches its row.  A row belongs to the account under which it was       *)
(* written; the process reads the rows of the anonymous account back when  *)
(* it starts.                                                              *)
(*                                                                         *)
(* A write that contradicts the current entry of its key is refused and    *)
(* reported; the tribunal files a case, rules for the new content and      *)
(* writes it.  All of that happens inside the publication of the report.   *)
(* Contents are reduced to what they claim about their key, "yes" or "no": *)
(* contradicting is claiming the opposite.                                 *)
(***************************************************************************)
EXTENDS Integers, Sequences, FiniteSets, FiniteSetsExt

CONSTANTS
  Accounts,      \* the accounts, Anonymous among them
  Anonymous,     \* LOCAL_OWNER
  Keys,          \* the keys written to
  Alert,         \* what a case filed for an alert between agents is about
  MaxWrites,     \* bound on the number of an entry
  MaxCases,      \* bound on the cases filed by hand or for an alert
  MaxRestarts    \* bound on the restarts of the process

VARIABLES
  account,    \* getActiveOwner
  entries,    \* entries, keyIndex and entryOwners: number -> entry
  counter,    \* entryCounter
  rows,       \* the table: number -> entry, in the state it had when inserted
  cases,      \* cases, in the order of filing
  restarts

vars == <<account, entries, counter, rows, cases, restarts>>

Claims == {"yes", "no"}

\* by and meta are history: the accounts under which the content, and the metadata and
\* version (source agent, evidence chain), were written.
Entry == [key : Keys, owner : Accounts, by : Accounts, meta : Accounts, claim : Claims,
          status : {"active", "superseded", "discarded"}]
Case == [about : Keys \cup {Alert}, due : BOOLEAN,
         status : {"filed", "assembling", "completed", "timeout"}]

TypeOK ==
  /\ account \in Accounts /\ counter \in 0..MaxWrites /\ restarts \in 0..MaxRestarts
  /\ DOMAIN entries \subseteq 1..counter /\ DOMAIN rows \subseteq 1..MaxWrites
  /\ \A n \in DOMAIN entries : entries[n] \in Entry
  /\ \A n \in DOMAIN rows : rows[n] \in Entry /\ rows[n].status = "active"
  /\ cases \in Seq(Case)

Init ==
  /\ account = Anonymous /\ entries = <<>> /\ counter = 0 /\ rows = <<>>
  /\ cases = <<>> /\ restarts = 0

-----------------------------------------------------------------------------
(* Looking up.                                                             *)

\* The active entries of a key, of whatever account; the last is the current one.
Active(k) == {n \in DOMAIN entries : entries[n].key = k /\ entries[n].status = "active"}
Current(k) == Max(Active(k))

RowsOf(a) == {n \in DOMAIN rows : rows[n].owner = a}

\* read: the current entry of the key if it is the account's, and every row of the
\* account that is not among the entries already found.
Read(a, k) ==
  LET found == {n \in Active(k) : n = Current(k) /\ entries[n].owner = a}
  IN {entries[n] : n \in found} \cup {rows[n] : n \in RowsOf(a) \ found}

\* lookupMemoryRef of the messages between agents: the last active entry read.
LookupMemoryRef(k) ==
  LET found == {n \in Active(k) : n = Current(k) /\ entries[n].owner = account}
      last == RowsOf(account) \ found
  IN IF last # {} THEN {rows[Max(last)]} ELSE {entries[n] : n \in found}

-----------------------------------------------------------------------------
(* The tribunal.                                                           *)

\* The cases about a conflict that are not settled.
Open(about) ==
  {i \in DOMAIN cases : cases[i].about = about /\ cases[i].status \notin {"completed", "timeout"}}

FiledAbout(about) == {i \in DOMAIN cases : cases[i].about = about}

\* Here a case that has got past its filing no longer stands in the way.
RefusedWhileFiled(about) == \E i \in Open(about) : cases[i].status = "filed"

\* fileCase: no case is filed while another about the same conflict is open.
Refused(about) == Open(about) # {}

\* The wiring hears a conflict unless the first case ever filed about it is
\* something else than completed, or one is still open.
Heard(k) ==
  /\ ~Refused(k)
  /\ FiledAbout(k) # {} => cases[Min(FiledAbout(k))].status = "completed"

Filed(about, status) == [about |-> about, status |-> status, due |-> FALSE]

\* executeFullArbitration, from the capsule to the restoration: it ends with the case
\* completed, or stops with the capsule assembled when the role given may not rule.
Ruling(mayRule) == IF mayRule THEN "completed" ELSE "assembling"

\* POST /api/arbitration/cases.  (It takes any conflict; one that is no key's fares as
\* the alert's does.)
FileByHand(k, mayRule) ==
  /\ Len(cases) < MaxCases /\ ~Refused(k)
  /\ cases' = Append(cases, Filed(k, Ruling(mayRule)))
  /\ UNCHANGED <<account, entries, counter, rows, restarts>>

\* disposeAlert "arbitrated" only files the case.
FileForAlert ==
  /\ Len(cases) < MaxCases /\ ~Refused(Alert)
  /\ cases' = Append(cases, Filed(Alert, "filed"))
  /\ UNCHANGED <<account, entries, counter, rows, restarts>>

\* STALE_CASE_DEADLINE_MS after its filing a case is due.
Ages(i) ==
  /\ i \in DOMAIN cases /\ i \in Open(cases[i].about) /\ ~cases[i].due
  /\ cases' = [cases EXCEPT ![i].due = TRUE]
  /\ UNCHANGED <<account, entries, counter, rows, restarts>>

\* Here only a case that nothing was done about is closed.
StaleIfUntouched(c) == c.due /\ c.status = "filed"

Stale(c) == c.due /\ c.status \in {"filed", "assembling"}

\* settleStaleCases: every case due is closed in favour of what is there.
Sweep ==
  /\ \E i \in DOMAIN cases : Stale(cases[i])
  /\ cases' = [i \in DOMAIN cases |->
                 IF Stale(cases[i]) THEN [cases[i] EXCEPT !.status = "timeout"] ELSE cases[i]]
  /\ UNCHANGED <<account, entries, counter, rows, restarts>>

-----------------------------------------------------------------------------
(* Writing.                                                                *)

\* Here the writer is only compared with what its own account holds.
OpposedToOwn(k, claim) ==
  {n \in Active(k) : entries[n].claim # claim /\ entries[n].owner = account
                     /\ \A m \in Active(k) : m > n => entries[m].claim # claim}

\* The active entries that stand between a claim and the last one that agrees with
\* it: the write is in conflict with the last of them, and its retries, each from
\* within the ruling on the one before, with the others in turn.
Opposed(k, claim) ==
  {n \in Active(k) : entries[n].claim # claim
                     /\ \A m \in Active(k) : m > n => entries[m].claim # claim}

\* Here a row that exists takes over the content, and keeps its owner.
UpsertContent(old, new) == [new EXCEPT !.owner = old.owner]

\* INSERT ... ON CONFLICT(entry_id): the row that exists keeps its key, owner and content,
\* and takes over metadata, version and status; every row is inserted active.
Upsert(old, new) == [old EXCEPT !.meta = new.meta, !.status = new.status]

\* The rest of write: the entry that is current once those overruled are discarded is
\* superseded, the new one stored and its row inserted.
Store(k, claim, overruled) ==
  LET n == counter + 1
      kept == Active(k) \ overruled
      new == [key |-> k, owner |-> account, by |-> account, meta |-> account,
              claim |-> claim, status |-> "active"]
      fate(m) == IF m \in overruled THEN [entries[m] EXCEPT !.status = "discarded"]
                 ELSE IF kept # {} /\ m = Max(kept) THEN [entries[m] EXCEPT !.status = "superseded"]
                 ELSE entries[m]
  IN /\ counter < MaxWrites
     /\ counter' = n
     /\ entries' = [m \in DOMAIN entries \cup {n} |-> IF m = n THEN new ELSE fate(m)]
     /\ rows' = [m \in DOMAIN rows \cup {n} |->
                   IF m # n THEN rows[m] ELSE IF n \in DOMAIN rows THEN Upsert(rows[n], new) ELSE new]

\* write, and the arbitration it sets off: one completed case for every entry overruled.
\* A conflict that is not heard leaves everything as it was.
Write(k, claim) ==
  LET opposed == Opposed(k, claim)
  IN /\ opposed # {} => Heard(k)
     /\ Store(k, claim, opposed)
     /\ cases' = cases \o [i \in 1..Cardinality(opposed) |-> Filed(k, Ruling(TRUE))]
     /\ UNCHANGED <<account, restarts>>

\* PUT /api/account/active-user: the entries of the process stay.
SwitchAccount(a) ==
  /\ a # account /\ account' = a
  /\ UNCHANGED <<entries, counter, rows, cases, restarts>>

\* Here the numbers start over.
FromTheStart == 0

\* The counter after a start: the highest number among the rows that were read.
LastNumber == Max(RowsOf(Anonymous) \cup {0})

\* A restart: hydrateGlobalWorkspace reads the rows of the anonymous account, all of
\* them active.
Restart ==
  /\ restarts < MaxRestarts /\ restarts' = restarts + 1
  /\ account' = Anonymous /\ cases' = <<>> /\ rows' = rows
  /\ entries' = [n \in RowsOf(Anonymous) |-> rows[n]]
  /\ counter' = LastNumber

Next ==
  \/ \E k \in Keys, claim \in Claims : Write(k, claim)
  \/ \E a \in Accounts : SwitchAccount(a)
  \/ \E k \in Keys, mayRule \in BOOLEAN : FileByHand(k, mayRule)
  \/ FileForAlert
  \/ \E i \in DOMAIN cases : Ages(i)
  \/ Sweep
  \/ Restart

\* Time passes, and initArbitrationWiring sweeps every thirty seconds.
Fairness == WF_vars(\E i \in DOMAIN cases : Ages(i)) /\ WF_vars(Sweep)

Spec == Init /\ [][Next]_vars /\ Fairness

-----------------------------------------------------------------------------
(* Properties.                                                             *)

\* The content an account reads was written under it, whichever accounts were switched
\* to, whatever entries were numbered twice, so that their rows took over metadata, and
\* however often the process restarted (globalWorkspace.ts read, ownedBy, persistEntry).
OwnersReadTheirOwnContent == \A a \in Accounts, k \in Keys : \A e \in Read(a, k) : e.by = a

\* While the process runs, what the current entry of a key claims is turned into its
\* opposite only by a ruling: a case about the key is filed in the same step
\* (write's refusal on detectSemanticConflict, arbitrationWiring.ts).
NoSilentReversal ==
  [][restarts' = restarts =>
       \A k \in Keys :
         (Active(k) # {} /\ Active(k)' # {}
          /\ entries[Current(k)].claim # (entries[Current(k)].claim)') =>
         \E i \in DOMAIN cases' \ DOMAIN cases : cases'[i].about = k]_vars

\* A conflict is never before two cases at once (tribunal.ts fileCase).
OneOpenCase == \A about \in Keys \cup {Alert} : Cardinality(Open(about)) <= 1

\* A conflict is not left undecided for ever: as often as a case about it is filed, by
\* whom and with whatever authority, there is a time when none is open any more
\* (settleStaleCases, "不干等").
EveryCaseEnds == \A about \in Keys \cup {Alert} : Open(about) # {} ~> Open(about) = {}

-----------------------------------------------------------------------------
(* What the code's own comments say and the model refutes: nothing checks  *)
(* these; README.md tells the instances that show why.                     *)

\* What is said of a settled conflict: once no case about it is open, the next
\* conflicting write is heard.
SettledConflictIsHeardAgain == \A k \in Keys : Open(k) = {} => Heard(k)

\* What is said of reading: only what is the account's own is returned
\* (globalWorkspace.ts:245); the metadata are not.
OwnersSeeOnlyTheirOwn ==
  \A a \in Accounts, k \in Keys : \A e \in Read(a, k) : e.by = a /\ e.meta = a

\* What is said of the numbers of the entries: they do not collide, so the row of an
\* entry holds that entry.
WrittenRowHoldsItsEntry ==
  \A n \in DOMAIN entries : rows[n].key = entries[n].key /\ rows[n].by = entries[n].by

\* What is said of the references between messages: they are looked up by their key.
LookupFindsItsKey == \A k \in Keys : \A e \in LookupMemoryRef(k) : e.key = k
=============================================================================
