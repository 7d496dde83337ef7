---------------------------- MODULE VoteMatching ----------------------------
(***************************************************************************)
(* What the votes of an approval amount to: the largest number of roles    *)
(* that can each be given an identity of their own.  A vote is a pair      *)
(* <<role, identity>>.  ApprovalGate uses these operators; RoleMatching    *)
(* checks that the augmenting-path algorithm of the code computes them.    *)
(***************************************************************************)
EXTENDS Integers, FiniteSets

MatchingOfRolesOnly(m, pool) ==
  /\ \A v \in m : v[1] \in pool
  /\ \A v, w \in m : v # w => v[1] # w[1]

\* A set of votes in which each role is spoken for by an identity of its own.
Matching(m, pool) ==
  /\ \A v \in m : v[1] \in pool
  /\ \A v, w \in m : v # w => v[1] # w[1] /\ v[2] # w[2]

\* countDistinctRoleMatches(pool, votes) >= n.
Matches(pool, votes, n) ==
  \E m \in SUBSET votes : Matching(m, pool) /\ Cardinality(m) >= n

\* An approving vote must add a role satisfied by a new identity.
Counts(pool, votes, vote) ==
  \E n \in 1..Cardinality(votes) + 1 :
    Matches(pool, votes \cup {vote}, n) /\ ~Matches(pool, votes, n)
=============================================================================
