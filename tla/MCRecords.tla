------------------------------- MODULE MCRecords -------------------------------
(***************************************************************************)
(* Five components that keep records and share no state, checked in one    *)
(* run: a behaviour is one of SettingsSync, StatsSync, ChildRegistries,    *)
(* DomainLedger or RoleMatching, chosen at the start; the variables of the *)
(* others stay as they began.                                              *)
(***************************************************************************)
EXTENDS SettingsSync

CONSTANTS
  Turns, SafeCalls, Effects, Limit, Window, LookBack, MaxTime,         \* StatsSync
  Owners, Children, MaxLive,                                           \* ChildRegistries
  Root, Peers, Domains, MaxRequests,                                   \* DomainLedger
  RequiredRoles, OtherRoles, Ids, MaxVotes                             \* RoleMatching

VARIABLES
  part,
  now, turn, started, ended, since, sending, counted,
  registry, born, reported,
  members, self, joined, requests, seq, dissolved,
  decidedBy

Stats == INSTANCE StatsSync
Registries == INSTANCE ChildRegistries
Ledger == INSTANCE DomainLedger
Roles == INSTANCE RoleMatching

settings == vars
stats == <<now, turn, started, ended, since, sending, counted>>
registries == <<registry, born, reported>>
ledger == <<members, self, joined, requests, seq, dissolved>>
roles == decidedBy

OneByOneInit ==
  /\ part \in {"settings", "stats", "registries", "ledger", "roles"}
  /\ Init /\ Stats!Init /\ Registries!Init /\ Ledger!Init /\ Roles!Init

OneByOneNext ==
  \/ part = "settings" /\ Next /\ UNCHANGED <<part, stats, registries, ledger, roles>>
  \/ part = "stats" /\ Stats!Next /\ UNCHANGED <<part, settings, registries, ledger, roles>>
  \/ part = "registries" /\ Registries!Next /\ UNCHANGED <<part, settings, stats, ledger, roles>>
  \/ part = "ledger" /\ Ledger!Next /\ UNCHANGED <<part, settings, stats, registries, roles>>
  \/ part = "roles" /\ Roles!Next /\ UNCHANGED <<part, settings, stats, registries, ledger>>

OneByOne == OneByOneInit /\ [][OneByOneNext]_<<part, settings, stats, registries, ledger, roles>>

-----------------------------------------------------------------------------
(* What is checked, beside RevisionNamesItsData.                           *)

\* The state of every part has its type.
TypesOK ==
  /\ part = "settings" => TypeOK
  /\ part = "stats" => Stats!TypeOK
  /\ part = "registries" => Registries!TypeOK
  /\ part = "ledger" => Ledger!TypeOK

\* StatsSync: the client's watermark never passes over an assistant message that the
\* server has not counted (syncService.pushAll, syncApi.deriveStatsEvents).
NothingBehindTheWatermark == part = "stats" => Stats!NothingBehindTheWatermark

\* ChildRegistries: a child that was recruited and has not reported is outstanding in
\* exactly one registry (ledgers.ts transferChildren, restoreLedgers).
EveryChildHasOneParent == part = "registries" => Registries!EveryChildHasOneParent

\* DomainLedger: a domain is complete only when all it was split into are done or
\* absorbed (ledgers.ts domainQuiescent, resolveMerge).
CompleteCountsEveryPeer == part = "ledger" => Ledger!CompleteCountsEveryPeer

\* RoleMatching: the augmenting paths of the code find the largest matching of
\* identities and roles (approvalGate.ts countDistinctRoleMatches).
CountIsLargestMatching == part = "roles" => Roles!CountIsLargestMatching

\* The pool of a request by an officer, and the role outside of it.
PoolOfOfficer == <<"user", "auditor", "regulatory_authority">>
RolesOutside == {"prime_director"}
================================================================================
