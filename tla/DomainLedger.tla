---------------------------- MODULE DomainLedger ----------------------------
(***************************************************************************)
(* The domain ledger of an L1 agent (Core/Ledger/ledgers.ts): the peers it *)
(* was split into, the requests to merge two members of the domain, the    *)
(* verdicts on them, and the restart from a snapshot.                      *)
(***************************************************************************)
EXTENDS Integers, FiniteSets, FiniteSetsExt

CONSTANTS
  Root,            \* the agent whose ledger it is
  Peers,           \* agents that may be its peers
  Domains,         \* conflict domains
  MaxRequests      \* bound on the merge requests

VARIABLES
  members,    \* peers: [id, domain, state]
  self,       \* selfState
  joined,     \* peers ever added that no full merge has absorbed
  requests,   \* merge requests: [id, a, b, absorbed, verdict]
  seq,        \* the number of the last request
  dissolved   \* isDissolved

vars == <<members, self, joined, requests, seq, dissolved>>

Pending == {q \in requests : q.verdict = "none"}

TypeOK ==
  /\ members \subseteq [id : Peers, domain : Domains, state : {"running", "done"}]
  /\ self \in {"running", "done"} /\ joined \subseteq Peers
  /\ seq \in 0..MaxRequests /\ dissolved \in BOOLEAN
  /\ requests \subseteq [id : 1..MaxRequests, a : Peers \cup {Root}, b : Peers,
                         absorbed : Peers \cup {Root},
                         verdict : {"none", "full", "reassign", "rejected"}]

Init == members = {} /\ self = "running" /\ joined = {} /\ requests = {} /\ seq = 0
        /\ dissolved = FALSE

(* Once dissolved, the ledger refuses every write.                          *)

MemberIds == {p.id : p \in members}

AddPeer(p, d) ==
  /\ ~dissolved
  /\ p \notin MemberIds /\ \A other \in members : other.domain # d
  /\ members' = members \cup {[id |-> p, domain |-> d, state |-> "running"]}
  /\ joined' = joined \cup {p}
  /\ UNCHANGED <<self, requests, seq, dissolved>>

PeerSettled(p) ==
  /\ ~dissolved
  /\ members' = {[m EXCEPT !.state = IF m.id = p.id THEN "done" ELSE @] : m \in members}
  /\ UNCHANGED <<self, joined, requests, seq, dissolved>>

SelfDone == ~dissolved /\ self' = "done"
            /\ UNCHANGED <<members, joined, requests, seq, dissolved>>

\* requestMerge: between two members, of which one is to be absorbed, while no
\* request of the pair is pending.
RequestMerge(a, b, absorbed) ==
  /\ ~dissolved /\ seq < MaxRequests
  /\ a # b /\ b \in MemberIds /\ a \in MemberIds \cup {Root} /\ absorbed \in {a, b}
  /\ ~\E q \in Pending : {q.a, q.b} = {a, b}
  /\ seq' = seq + 1
  /\ requests' = requests \cup {[id |-> seq + 1, a |-> a, b |-> b, absorbed |-> absorbed,
                                 verdict |-> "none"]}
  /\ UNCHANGED <<members, self, joined, dissolved>>

\* withdrawMerge, when the regulator was not reached.
WithdrawMerge(q) ==
  /\ ~dissolved /\ q \in Pending
  /\ requests' = requests \ {q}
  /\ UNCHANGED <<members, self, joined, seq, dissolved>>

\* Here every verdict but a refusal takes the absorbed side out of the domain.
LeavesDomainUnlessRejected(verdict) == verdict # "rejected"

LeavesDomain(verdict) == verdict = "full"

\* resolveMerge: the absorbed peer leaves; if it is the root, the ledger is void.
ResolveMerge(q, verdict) ==
  /\ ~dissolved /\ q \in Pending
  /\ requests' = (requests \ {q}) \cup {[q EXCEPT !.verdict = verdict]}
  /\ dissolved' = (LeavesDomain(verdict) /\ q.absorbed = Root)
  /\ members' = IF LeavesDomain(verdict) THEN {m \in members : m.id # q.absorbed} ELSE members
  /\ joined' = IF verdict = "full" THEN joined \ {q.absorbed} ELSE joined
  /\ UNCHANGED <<self, seq>>

DomainQuiescent == self = "done" /\ \A m \in members : m.state = "done"

-----------------------------------------------------------------------------
Highest(qs) == IF qs = {} THEN 0 ELSE Max({q.id : q \in qs})

\* reopen, from a snapshot of the whole ledger: the number of the last request is
\* read off the requests that are left, so that a withdrawn one's may come again.
Reopen == seq' = Highest(requests) /\ UNCHANGED <<members, self, joined, requests, dissolved>>

Next ==
  \/ \E p \in Peers, d \in Domains : AddPeer(p, d)
  \/ \E m \in members : PeerSettled(m)
  \/ SelfDone
  \/ \E a \in Peers \cup {Root}, b \in Peers, c \in Peers \cup {Root} : RequestMerge(a, b, c)
  \/ \E q \in Pending : WithdrawMerge(q)
  \/ \E q \in Pending, v \in {"full", "reassign", "rejected"} : ResolveMerge(q, v)
  \/ Reopen

Spec == Init /\ [][Next]_vars

-----------------------------------------------------------------------------
(* Properties.                                                             *)

\* The domain counts as complete only if every agent it was ever split into has been
\* reported done or was absorbed by a verdict of full merge, whatever other verdicts
\* were given meanwhile (ledgers.ts domainQuiescent, resolveMerge).
CompleteCountsEveryPeer ==
  DomainQuiescent => \A p \in joined : \E m \in members : m.id = p /\ m.state = "done"
=============================================================================
