---------------------------- MODULE RoleMatching ----------------------------
(***************************************************************************)
(* countDistinctRoleMatches of approvalGate.ts: Kuhn's augmenting paths    *)
(* over the votes in the order they arrived, with the visited set shared   *)
(* by the recursive calls of one role as in the code.  Votes arrive one at *)
(* a time; after each, the algorithm's count is compared with the largest  *)
(* matching there is.                                                      *)
(***************************************************************************)
EXTENDS Integers, Sequences, FiniteSetsExt, VoteMatching

CONSTANTS
  RequiredRoles,  \* the roles of the pool, in the pool's order
  OtherRoles,     \* roles outside the pool that a vote may carry
  Ids,            \* identities that may vote
  MaxVotes        \* bound on the length of decidedBy

VARIABLE decidedBy  \* the votes, in order of arrival

Pool == {RequiredRoles[k] : k \in DOMAIN RequiredRoles}
VoteSet == {decidedBy[k] : k \in DOMAIN decidedBy}

\* The pairs that rolesByIdentity holds.
MaySpeakFor(id, role) == role \in Pool /\ <<role, id>> \in VoteSet

\* The votes by which an identity that may speak for the role and was not visited came
\* into rolesByIdentity: a Map keeps its keys in the order in which they came.
Candidates(role, visited) ==
  {k \in DOMAIN decidedBy : /\ decidedBy[k][1] \in Pool
                            /\ MaySpeakFor(decidedBy[k][2], role)
                            /\ decidedBy[k][2] \notin visited}

NextIdentity(role, visited) == decidedBy[Min(Candidates(role, visited))][2]

Unassigned == "nobody"
Maps == [Ids -> Pool \cup {Unassigned}]   \* identityToRole

\* A call of tryAssign that goes on, and what a call leaves behind.
Calls == [role : Pool, roleOf : Maps, visited : SUBSET Ids]
Results == [ok : BOOLEAN, roleOf : Maps, visited : SUBSET Ids]

\* Here an identity that is taken is never asked to give way.
TryAssignGreedy(role, roleOf) ==
  LET taken == {id \in Ids : roleOf[id] # Unassigned}
  IN IF Candidates(role, taken) = {} THEN [ok |-> FALSE, roleOf |-> roleOf]
     ELSE [ok |-> TRUE, roleOf |-> [roleOf EXCEPT ![NextIdentity(role, taken)] = role]]

\* tryAssign(role, visited): whether it found an identity, and the Map and the visited
\* set it leaves, which it shares with the calls it makes.  Those before the next
\* identity have been visited, so that going on in the loop is starting it again.
TryAssign(role, roleOf) ==
  LET from[c \in Calls] ==
        LET id == NextIdentity(c.role, c.visited)
            visited == c.visited \cup {id}
            take(m) == [ok |-> TRUE, roleOf |-> [m EXCEPT ![id] = c.role], visited |-> visited]
            moved == from[[role |-> c.roleOf[id], roleOf |-> c.roleOf, visited |-> visited]]
        IN IF Candidates(c.role, c.visited) = {}
             THEN [ok |-> FALSE, roleOf |-> c.roleOf, visited |-> c.visited]
           ELSE IF c.roleOf[id] = Unassigned THEN take(c.roleOf)
           ELSE IF moved.ok THEN take(moved.roleOf)
           ELSE from[[c EXCEPT !.visited = moved.visited]]
  IN from[[role |-> role, roleOf |-> roleOf, visited |-> {}]]

\* The loop over requiredRoles, a fresh visited set for each.
CountDistinctRoleMatches ==
  LET after[n \in 0..Len(RequiredRoles)] ==
        IF n = 0 THEN [count |-> 0, roleOf |-> [id \in Ids |-> Unassigned]]
        ELSE LET before == after[n - 1]
                 attempt == TryAssign(RequiredRoles[n], before.roleOf)
             IN [count |-> before.count + (IF attempt.ok THEN 1 ELSE 0),
                 roleOf |-> attempt.roleOf]
  IN after[Len(RequiredRoles)].count

Init == decidedBy = <<>>

Vote(role, id) ==
  /\ Len(decidedBy) < MaxVotes
  /\ decidedBy' = Append(decidedBy, <<role, id>>)

Next == \E role \in Pool \cup OtherRoles, id \in Ids : Vote(role, id)

Spec == Init /\ [][Next]_decidedBy

-----------------------------------------------------------------------------
\* The augmenting paths find the largest matching, whatever the order of votes
\* and of roles: the quorum is neither missed nor met by one identity twice
\* (approvalGate.ts:494-532).
CountIsLargestMatching ==
  \A n \in 1..(Len(RequiredRoles) + 1) :
    CountDistinctRoleMatches >= n <=> Matches(Pool, VoteSet, n)
=============================================================================
