--------------------------- MODULE ChildRegistries ---------------------------
(***************************************************************************)
(* The registries in which L1 agents keep their children                   *)
(* (Core/Ledger/ledgers.ts): children are registered, settled, transferred *)
(* from one agent to another by a merge verdict, and restored from a       *)
(* snapshot that registers them all again.                                 *)
(***************************************************************************)
EXTENDS Integers, Sequences, FiniteSets, SequencesExt

CONSTANTS
  Owners,          \* agents with a registry of children
  Children,        \* children; the id of one is never given to another
  MaxLive          \* maxLive

VARIABLES
  registry,   \* owner -> its children in the order of their registration
  born,       \* children that have been registered by the one that recruited them
  reported    \* children whose own outcome has been settled

vars == <<registry, born, reported>>

IdsOf(kids) == {kids[i].id : i \in 1..Len(kids)}
Outstanding(kids) == {i \in 1..Len(kids) : ~kids[i].settled}
Live(kids) == Cardinality(Outstanding(kids))
LiveIds(kids) == {kids[i].id : i \in Outstanding(kids)}

TypeOK ==
  /\ registry \in [Owners -> Seq([id : Children, settled : BOOLEAN])]
  /\ \A o \in Owners : Live(registry[o]) <= MaxLive
  /\ reported \subseteq born /\ born \subseteq Children

Init == registry = [o \in Owners |-> <<>>] /\ born = {} /\ reported = {}

Entry(c) == [id |-> c, settled |-> FALSE]

\* Here the limit is compared after the fact.
CanRegisterOneMore(kids, c) == c \notin IdsOf(kids) /\ Live(kids) <= MaxLive

\* register: a child twice, or one more than may live, is refused.
CanRegister(kids, c) == c \notin IdsOf(kids) /\ Live(kids) < MaxLive

Settle(kids, cs) ==
  [i \in 1..Len(kids) |-> IF kids[i].id \in cs THEN [kids[i] EXCEPT !.settled = TRUE] ELSE kids[i]]

\* A child that was recruited enters the ledger of the one who recruited it.
Register(o, c) ==
  /\ c \notin born
  /\ CanRegister(registry[o], c)
  /\ registry' = [registry EXCEPT ![o] = Append(@, Entry(c))]
  /\ born' = born \cup {c}
  /\ UNCHANGED reported

\* settle, with the child's own outcome, or expire, for it; a child that is not
\* outstanding is refused.
Report(o, c) ==
  /\ c \in LiveIds(registry[o])
  /\ registry' = [registry EXCEPT ![o] = Settle(@, {c})]
  /\ reported' = reported \cup {c}
  /\ UNCHANGED born

-----------------------------------------------------------------------------
(* Several children at once.                                               *)

\* Here only those that are there already count against the limit.
TransferableOneByOne(from, to, cs) ==
  /\ cs \subseteq LiveIds(from) /\ cs \cap IdsOf(to) = {}
  /\ Live(to) < MaxLive

\* What transferChildren checks before it writes anything: every child is
\* outstanding on one side and unknown to the other, and all of them fit. (The
\* versions the caller expects are those of ledgers nobody has written since.)
Transferable(from, to, cs) ==
  /\ cs \subseteq LiveIds(from) /\ cs \cap IdsOf(to) = {}
  /\ Live(to) + Cardinality(cs) <= MaxLive

\* register in the one, for one child after the other: the known and those beyond the
\* limit are refused, and nobody looks; then settle as abandoned in the other.
Enter(kids, cs) ==
  LET new == SetToSeq(cs \ IdsOf(kids))
      room == MaxLive - Live(kids)
      fit == IF Len(new) <= room THEN Len(new) ELSE room
  IN kids \o [i \in 1..fit |-> Entry(new[i])]

Transfer(from, to, cs) ==
  /\ cs # {} /\ from # to
  /\ Transferable(registry[from], registry[to], cs)
  /\ registry' = [registry EXCEPT ![to] = Enter(@, cs), ![from] = Settle(@, cs)]
  /\ UNCHANGED <<born, reported>>

\* restoreLedgers: each child of the snapshot is registered again and, if it was
\* settled, settled at once; one refusal refuses the snapshot (here: <<>>).
Restore(kids) ==
  IF \A i \in 1..Len(kids) : CanRegister(SubSeq(kids, 1, i - 1), kids[i].id) THEN kids ELSE <<>>

Reopen == registry' = [o \in Owners |-> Restore(registry[o])] /\ UNCHANGED <<born, reported>>

Next ==
  \/ \E o \in Owners, c \in Children : Register(o, c) \/ Report(o, c)
  \/ \E from, to \in Owners, cs \in SUBSET Children : Transfer(from, to, cs)
  \/ Reopen

Spec == Init /\ [][Next]_vars

-----------------------------------------------------------------------------
(* Properties.                                                             *)

\* No child is orphaned and none has two parents: one that was recruited and has not
\* reported is outstanding in exactly one registry, through transfers back and forth
\* at the limit and through restarts (ledgers.ts transferChildren, restoreLedgers).
EveryChildHasOneParent ==
  \A c \in born \ reported : Cardinality({o \in Owners : c \in LiveIds(registry[o])}) = 1
=============================================================================
