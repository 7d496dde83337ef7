------------------------ MODULE RoleMatching_proofs ------------------------
(***************************************************************************)
(* countDistinctRoleMatches finds the largest matching, for any pool, any  *)
(* identities and any votes in any order.                                  *)
(***************************************************************************)
EXTENDS RoleMatching, TLAPS, FiniteSetTheorems, FunctionTheorems, WellFoundedInduction

\* A pool names each role once (buildApprovalDeciders), and no role is called nobody.
RoleParameters ==
  /\ RequiredRoles \in Seq(Pool) /\ Unassigned \notin Pool /\ IsFiniteSet(Ids)
  /\ \A j, k \in 1..Len(RequiredRoles) : RequiredRoles[j] = RequiredRoles[k] => j = k

VotesInv == decidedBy \in Seq((Pool \cup OtherRoles) \X Ids)

-----------------------------------------------------------------------------
(* The next identity to be asked.                                          *)

LEMMA LeastOf ==
  ASSUME NEW S \in SUBSET Nat, S # {}
  PROVE  \E n \in S : \A k \in S : ~(k < n)
<1>1. PICK n \in S : \A k \in S : ~(<<k, n>> \in OpToRel(<, Nat))
  BY NatLessThanWellFounded, WFMin
<1>. QED BY <1>1 DEF OpToRel

LEMMA VotesAre ==
  ASSUME VotesInv
  PROVE  /\ Len(decidedBy) \in Nat /\ DOMAIN decidedBy = 1..Len(decidedBy)
         /\ \A k \in DOMAIN decidedBy : /\ decidedBy[k] = <<decidedBy[k][1], decidedBy[k][2]>>
                                        /\ decidedBy[k][2] \in Ids
<1> DEFINE S == (Pool \cup OtherRoles) \X Ids
<1>1. decidedBy \in Seq(S)
  BY DEF VotesInv
<1>2. \A v \in S : v = <<v[1], v[2]>> /\ v[2] \in Ids
  OBVIOUS
<1> HIDE DEF S
<1>3. \A k \in DOMAIN decidedBy : decidedBy[k] \in S
  BY <1>1
<1>. QED BY <1>1, <1>2, <1>3

LEMMA CandidatesAre ==
  ASSUME VotesInv, NEW role \in Pool, NEW visited \in SUBSET Ids
  PROVE  /\ Candidates(role, visited) = {} =>
              \A id \in Ids : MaySpeakFor(id, role) => id \in visited
         /\ Candidates(role, visited) # {} =>
              /\ NextIdentity(role, visited) \in Ids \ visited
              /\ MaySpeakFor(NextIdentity(role, visited), role)
<1>1. ASSUME Candidates(role, visited) = {}, NEW id \in Ids, MaySpeakFor(id, role)
      PROVE  id \in visited
  <2>1. PICK k \in DOMAIN decidedBy : decidedBy[k] = <<role, id>>
    BY <1>1 DEF MaySpeakFor, VoteSet
  <2>2. decidedBy[k][1] = role /\ decidedBy[k][2] = id
    BY <2>1
  <2>. QED BY <1>1, <2>2 DEF Candidates
<1>2. ASSUME Candidates(role, visited) # {}
      PROVE  /\ NextIdentity(role, visited) \in Ids \ visited
             /\ MaySpeakFor(NextIdentity(role, visited), role)
  <2> DEFINE S == Candidates(role, visited)
  <2>1. S \in SUBSET Nat
    BY VotesAre DEF Candidates
  <2>2. PICK n \in S : \A k \in S : ~(k < n)
    <3> HIDE DEF S
    <3>. QED BY <1>2, <2>1, LeastOf DEF S
  <2>3. \E x \in S : \A y \in S : x <= y
    <3>1. \A k \in S : n <= k
      BY <2>1, <2>2
    <3>. QED BY <3>1
  <2>4. Min(S) \in S
    <3> HIDE DEF S
    <3>. QED BY <2>3 DEF Min
  <2>. QED BY <2>4, VotesAre DEF Candidates, NextIdentity
<1>. QED BY <1>1, <1>2

-----------------------------------------------------------------------------
(* tryAssign: the function exists, since each call has visited more.       *)

Body(f, c) ==
  LET id == NextIdentity(c.role, c.visited)
      visited == c.visited \cup {id}
      take(m) == [ok |-> TRUE, roleOf |-> [m EXCEPT ![id] = c.role], visited |-> visited]
      moved == f[[role |-> c.roleOf[id], roleOf |-> c.roleOf, visited |-> visited]]
  IN IF Candidates(c.role, c.visited) = {}
       THEN [ok |-> FALSE, roleOf |-> c.roleOf, visited |-> c.visited]
     ELSE IF c.roleOf[id] = Unassigned THEN take(c.roleOf)
     ELSE IF moved.ok THEN take(moved.roleOf)
     ELSE f[[c EXCEPT !.visited = moved.visited]]

Grows(f) == f \in [Calls -> Results] /\ \A c \in Calls : c.visited \subseteq f[c].visited

Rank(c) == Cardinality(Ids \ c.visited)

LEMMA RankType ==
  ASSUME RoleParameters, NEW c \in Calls
  PROVE  Rank(c) \in Nat /\ Rank(c) <= Cardinality(Ids) /\ Cardinality(Ids) \in Nat
<1>1. Ids \ c.visited \subseteq Ids
  OBVIOUS
<1>. QED BY <1>1, FS_Subset, FS_CardinalityType DEF Rank, RoleParameters

LEMMA RankFalls ==
  ASSUME RoleParameters, NEW c \in Calls, NEW d \in Calls,
         c.visited \subseteq d.visited, NEW id \in d.visited \ c.visited
  PROVE  Rank(d) < Rank(c)
<1>1. /\ Ids \ d.visited \subseteq Ids \ c.visited /\ id \in Ids \ c.visited
      /\ id \notin Ids \ d.visited /\ IsFiniteSet(Ids \ c.visited)
  <2>1. c.visited \subseteq Ids /\ d.visited \subseteq Ids
    BY DEF Calls
  <2>2. IsFiniteSet(Ids \ c.visited)
    BY FS_Subset DEF RoleParameters
  <2>. QED BY <2>1, <2>2
<1>2. Ids \ d.visited # Ids \ c.visited
  BY <1>1
<1>3. Cardinality(Ids \ d.visited) < Cardinality(Ids \ c.visited)
  <2> DEFINE S == Ids \ c.visited
             T == Ids \ d.visited
  <2>1. IsFiniteSet(S) /\ T \in SUBSET S /\ T # S
    BY <1>1, <1>2
  <2> HIDE DEF S, T
  <2>2. IsFiniteSet(T) /\ Cardinality(T) <= Cardinality(S) /\ Cardinality(T) # Cardinality(S)
    BY <2>1, FS_Subset
  <2>3. Cardinality(S) \in Nat /\ Cardinality(T) \in Nat
    BY <2>1, <2>2, FS_CardinalityType
  <2>4. Cardinality(T) < Cardinality(S)
    BY <2>2, <2>3
  <2>. QED BY <2>4 DEF S, T
<1>. QED BY <1>3 DEF Rank

LEMMA LeastCall ==
  ASSUME RoleParameters, NEW B \in SUBSET Calls, B # {}
  PROVE  \E c \in B : \A d \in B : ~(Rank(d) < Rank(c))
<1> DEFINE S == {Rank(c) : c \in B}
<1>1. S \in SUBSET Nat /\ S # {}
  BY RankType
<1>2. PICK n \in S : \A k \in S : ~(k < n)
  <2> HIDE DEF S
  <2>. QED BY <1>1, LeastOf
<1>3. PICK c \in B : n = Rank(c)
  BY <1>2
<1>. QED BY <1>2, <1>3

\* What becomes of a call, by cases.
Moved(c, id) == [role |-> c.roleOf[id], roleOf |-> c.roleOf, visited |-> c.visited \cup {id}]
Rest(c, x) == [c EXCEPT !.visited = x.visited]
Taken(c, id, m) ==
  [ok |-> TRUE, roleOf |-> [m EXCEPT ![id] = c.role], visited |-> c.visited \cup {id}]

NoneLeft(c, x) ==
  /\ \A id \in Ids : MaySpeakFor(id, c.role) => id \in c.visited
  /\ x = [ok |-> FALSE, roleOf |-> c.roleOf, visited |-> c.visited]
TakesFree(c, id, x) == c.roleOf[id] = Unassigned /\ x = Taken(c, id, c.roleOf)
TakesOver(f, c, id, x) ==
  /\ c.roleOf[id] # Unassigned /\ f[Moved(c, id)].ok
  /\ x = Taken(c, id, f[Moved(c, id)].roleOf)
GoesOn(f, c, id, x) ==
  /\ c.roleOf[id] # Unassigned /\ ~f[Moved(c, id)].ok
  /\ x = f[Rest(c, f[Moved(c, id)])]

LEMMA BodyIs ==
  ASSUME VotesInv, NEW f, NEW c \in Calls
  PROVE  \/ NoneLeft(c, Body(f, c))
         \/ \E id \in Ids \ c.visited :
              /\ id = NextIdentity(c.role, c.visited) /\ Candidates(c.role, c.visited) # {}
              /\ MaySpeakFor(id, c.role)
              /\ \/ TakesFree(c, id, Body(f, c))
                 \/ TakesOver(f, c, id, Body(f, c))
                 \/ GoesOn(f, c, id, Body(f, c))
<1>1. c.role \in Pool /\ c.visited \in SUBSET Ids
  BY DEF Calls
<1>2. CASE Candidates(c.role, c.visited) = {}
  BY <1>1, <1>2, CandidatesAre DEF Body, NoneLeft
<1>3. CASE Candidates(c.role, c.visited) # {}
  <2> DEFINE id == NextIdentity(c.role, c.visited)
  <2>1. id \in Ids \ c.visited /\ MaySpeakFor(id, c.role)
    BY <1>1, <1>3, CandidatesAre
  <2>2. Body(f, c) = IF c.roleOf[id] = Unassigned THEN Taken(c, id, c.roleOf)
                     ELSE IF f[Moved(c, id)].ok THEN Taken(c, id, f[Moved(c, id)].roleOf)
                     ELSE f[Rest(c, f[Moved(c, id)])]
    BY <1>3 DEF Body, Taken, Moved, Rest
  <2> HIDE DEF id
  <2>3. \/ TakesFree(c, id, Body(f, c))
        \/ TakesOver(f, c, id, Body(f, c))
        \/ GoesOn(f, c, id, Body(f, c))
    BY <2>2 DEF TakesFree, TakesOver, GoesOn
  <2>. QED BY <1>3, <2>1, <2>3 DEF id
<1>. QED BY <1>2, <1>3

LEMMA MovedIs ==
  ASSUME RoleParameters, NEW c \in Calls, NEW id \in Ids \ c.visited, c.roleOf[id] # Unassigned
  PROVE  /\ Moved(c, id) \in Calls /\ Rank(Moved(c, id)) < Rank(c)
         /\ Moved(c, id).role = c.roleOf[id] /\ Moved(c, id).roleOf = c.roleOf
         /\ Moved(c, id).visited = c.visited \cup {id}
<1>1. c.roleOf \in Maps /\ c.visited \in SUBSET Ids /\ c.roleOf[id] \in Pool
  BY DEF Calls, Maps
<1>2. /\ Moved(c, id) \in Calls
      /\ Moved(c, id).role = c.roleOf[id] /\ Moved(c, id).roleOf = c.roleOf
      /\ Moved(c, id).visited = c.visited \cup {id}
  BY <1>1 DEF Moved, Calls
<1>3. Rank(Moved(c, id)) < Rank(c)
  BY <1>2, RankFalls
<1>. QED BY <1>2, <1>3

LEMMA RestIs ==
  ASSUME RoleParameters, NEW c \in Calls, NEW id \in Ids \ c.visited,
         NEW x \in Results, c.visited \cup {id} \subseteq x.visited
  PROVE  /\ Rest(c, x) \in Calls /\ Rank(Rest(c, x)) < Rank(c)
         /\ Rest(c, x).role = c.role /\ Rest(c, x).roleOf = c.roleOf
         /\ Rest(c, x).visited = x.visited
<1>1. /\ Rest(c, x) \in Calls
      /\ Rest(c, x).role = c.role /\ Rest(c, x).roleOf = c.roleOf
      /\ Rest(c, x).visited = x.visited
  BY DEF Rest, Calls, Results
<1>2. Rank(Rest(c, x)) < Rank(c)
  BY <1>1, RankFalls
<1>. QED BY <1>1, <1>2

LEMMA TakenIs ==
  ASSUME NEW c \in Calls, NEW id \in Ids \ c.visited, NEW m \in Maps
  PROVE  /\ Taken(c, id, m) \in Results /\ Taken(c, id, m).ok
         /\ Taken(c, id, m).visited = c.visited \cup {id}
         /\ \A i \in Ids : Taken(c, id, m).roleOf[i] = IF i = id THEN c.role ELSE m[i]
<1>1. c.role \in Pool /\ c.visited \in SUBSET Ids
  BY DEF Calls
<1>2. [m EXCEPT ![id] = c.role] \in Maps
      /\ \A i \in Ids : [m EXCEPT ![id] = c.role][i] = IF i = id THEN c.role ELSE m[i]
  BY <1>1 DEF Maps
<1>. QED BY <1>1, <1>2 DEF Taken, Results

LEMMA BodyKeeps ==
  ASSUME RoleParameters, VotesInv, NEW f, Grows(f)
  PROVE  Grows([c \in Calls |-> Body(f, c)])
<1>1. ASSUME NEW c \in Calls PROVE Body(f, c) \in Results /\ c.visited \subseteq Body(f, c).visited
  <2>1. CASE NoneLeft(c, Body(f, c))
    BY <2>1 DEF NoneLeft, Calls, Results
  <2>2. ASSUME NEW id \in Ids \ c.visited, TakesFree(c, id, Body(f, c))
        PROVE  Body(f, c) \in Results /\ c.visited \subseteq Body(f, c).visited
    <3>1. c.roleOf \in Maps
      BY DEF Calls
    <3>. QED BY <2>2, <3>1, TakenIs DEF TakesFree
  <2>3. ASSUME NEW id \in Ids \ c.visited, TakesOver(f, c, id, Body(f, c))
        PROVE  Body(f, c) \in Results /\ c.visited \subseteq Body(f, c).visited
    <3>1. f[Moved(c, id)] \in Results
      BY <2>3, MovedIs DEF TakesOver, Grows
    <3>2. f[Moved(c, id)].roleOf \in Maps
      BY <3>1 DEF Results
    <3>. QED BY <2>3, <3>2, TakenIs DEF TakesOver
  <2>4. ASSUME NEW id \in Ids \ c.visited, GoesOn(f, c, id, Body(f, c))
        PROVE  Body(f, c) \in Results /\ c.visited \subseteq Body(f, c).visited
    <3> DEFINE x == f[Moved(c, id)]
    <3>1. x \in Results /\ c.visited \cup {id} \subseteq x.visited
      BY <2>4, MovedIs DEF GoesOn, Grows
    <3>2. Rest(c, x) \in Calls /\ Rest(c, x).visited = x.visited
      <4> HIDE DEF x
      <4>. QED BY <3>1, RestIs
    <3>3. f[Rest(c, x)] \in Results /\ x.visited \subseteq f[Rest(c, x)].visited
      <4> HIDE DEF x
      <4>. QED BY <3>2 DEF Grows
    <3>. QED BY <2>4, <3>1, <3>3 DEF GoesOn
  <2>. QED BY <2>1, <2>2, <2>3, <2>4, BodyIs
<1>. QED BY <1>1 DEF Grows

LEMMA BodyDepends ==
  ASSUME RoleParameters, VotesInv, NEW f, Grows(f), NEW g, NEW c \in Calls,
         \A d \in Calls : Rank(d) < Rank(c) => f[d] = g[d]
  PROVE  Body(f, c) = Body(g, c)
<1>1. CASE Candidates(c.role, c.visited) = {}
  BY <1>1 DEF Body
<1>2. CASE Candidates(c.role, c.visited) # {}
  <2> DEFINE id == NextIdentity(c.role, c.visited)
             x == f[Moved(c, id)]
  <2>1. id \in Ids \ c.visited
    <3>1. c.role \in Pool /\ c.visited \in SUBSET Ids
      BY DEF Calls
    <3>. QED BY <1>2, <3>1, CandidatesAre
  <2>2. /\ Body(f, c) = IF c.roleOf[id] = Unassigned THEN Taken(c, id, c.roleOf)
                        ELSE IF f[Moved(c, id)].ok THEN Taken(c, id, f[Moved(c, id)].roleOf)
                        ELSE f[Rest(c, f[Moved(c, id)])]
        /\ Body(g, c) = IF c.roleOf[id] = Unassigned THEN Taken(c, id, c.roleOf)
                        ELSE IF g[Moved(c, id)].ok THEN Taken(c, id, g[Moved(c, id)].roleOf)
                        ELSE g[Rest(c, g[Moved(c, id)])]
    BY <1>2 DEF Body, Taken, Moved, Rest
  <2> HIDE DEF id
  <2>3. CASE c.roleOf[id] # Unassigned
    <3>1. x = g[Moved(c, id)] /\ x \in Results /\ c.visited \cup {id} \subseteq x.visited
      BY <2>1, <2>3, MovedIs DEF Grows
    <3> HIDE DEF x
    <3>2. f[Rest(c, x)] = g[Rest(c, x)]
      BY <2>1, <3>1, RestIs
    <3>. QED BY <2>2, <2>3, <3>1, <3>2 DEF x
  <2>. QED BY <2>2, <2>3
<1>. QED BY <1>1, <1>2

\* Each step of the iteration settles the calls of one more rank.
LEMMA FromExists ==
  ASSUME RoleParameters, VotesInv
  PROVE  \E f : Grows(f) /\ f = [c \in Calls |-> Body(f, c)]
<1> DEFINE Upto(i) == \E f : Grows(f) /\ \A c \in Calls : Rank(c) < i => f[c] = Body(f, c)
           Bad == {i \in Nat : ~Upto(i)}
<1>1. Upto(0)
  <2> DEFINE f == [c \in Calls |-> [ok |-> FALSE, roleOf |-> c.roleOf, visited |-> c.visited]]
  <2>1. Grows(f)
    BY DEF Grows, Calls, Results
  <2>2. \A c \in Calls : ~(Rank(c) < 0)
    BY RankType
  <2> HIDE DEF f
  <2>. QED BY <2>1, <2>2
<1>2. ASSUME NEW i \in Nat, Upto(i) PROVE Upto(i + 1)
  <2>1. PICK f : Grows(f) /\ \A c \in Calls : Rank(c) < i => f[c] = Body(f, c)
    BY <1>2
  <2> DEFINE g == [c \in Calls |-> Body(f, c)]
  <2>2. Grows(g)
    BY <2>1, BodyKeeps
  <2>3. \A c \in Calls : g[c] = Body(f, c)
    OBVIOUS
  <2> HIDE DEF g
  <2>4. ASSUME NEW c \in Calls, Rank(c) < i + 1 PROVE Body(f, c) = Body(g, c)
    <3>1. ASSUME NEW d \in Calls, Rank(d) < Rank(c) PROVE f[d] = g[d]
      <4>1. Rank(d) < i
        BY <2>4, <3>1, RankType
      <4>. QED BY <2>1, <2>3, <4>1
    <3>. QED BY <2>1, <2>2, <3>1, BodyDepends
  <2>5. \A c \in Calls : Rank(c) < i + 1 => g[c] = Body(g, c)
    BY <2>3, <2>4
  <2>. QED BY <2>2, <2>5
<1> HIDE DEF Upto
<1>3. Bad = {}
  <2> SUFFICES ASSUME Bad # {} PROVE FALSE
    OBVIOUS
  <2>1. PICK i \in Bad : \A k \in Bad : ~(k < i)
    <3>1. Bad \in SUBSET Nat
      OBVIOUS
    <3> HIDE DEF Bad
    <3>. QED BY <3>1, LeastOf
  <2>2. i # 0 /\ i - 1 \in Nat /\ i - 1 \notin Bad
    BY <1>1, <2>1
  <2>3. Upto(i - 1 + 1)
    BY <1>2, <2>2
  <2>4. i - 1 + 1 = i
    BY <2>1
  <2>. QED BY <2>1, <2>3, <2>4
<1>4. Cardinality(Ids) + 1 \in Nat
  BY FS_CardinalityType DEF RoleParameters
<1>5. Upto(Cardinality(Ids) + 1)
  BY <1>3, <1>4
<1>6. PICK f : Grows(f) /\ \A c \in Calls : Rank(c) < Cardinality(Ids) + 1 => f[c] = Body(f, c)
  BY <1>5 DEF Upto
<1>7. \A c \in Calls : f[c] = Body(f, c)
  BY <1>6, RankType
<1>8. f = [c \in Calls |-> Body(f, c)]
  BY <1>6, <1>7 DEF Grows
<1>. QED BY <1>6, <1>8

\* It is the only one.
LEMMA FromIsUnique ==
  ASSUME RoleParameters, VotesInv, NEW f, Grows(f), \A c \in Calls : f[c] = Body(f, c),
         NEW g, \A c \in Calls : g[c] = Body(g, c)
  PROVE  \A c \in Calls : f[c] = g[c]
<1> DEFINE B == {c \in Calls : f[c] # g[c]}
<1> SUFFICES ASSUME B # {} PROVE FALSE
  OBVIOUS
<1>1. PICK c \in B : \A d \in B : ~(Rank(d) < Rank(c))
  <2>1. B \in SUBSET Calls
    OBVIOUS
  <2> HIDE DEF B
  <2>. QED BY <2>1, LeastCall
<1>2. \A d \in Calls : Rank(d) < Rank(c) => f[d] = g[d]
  BY <1>1
<1>. QED BY <1>1, <1>2, BodyDepends

LEMMA TryAssignIs ==
  ASSUME RoleParameters, VotesInv, NEW role, NEW roleOf
  PROVE  \E f : /\ Grows(f) /\ \A c \in Calls : f[c] = Body(f, c)
               /\ TryAssign(role, roleOf) = f[[role |-> role, roleOf |-> roleOf, visited |-> {}]]
<1> DEFINE from == CHOOSE f : f = [c \in Calls |-> Body(f, c)]
<1>1. from = [c \in Calls |-> Body(from, c)]
  BY FromExists
<1>2. TryAssign(role, roleOf) = from[[role |-> role, roleOf |-> roleOf, visited |-> {}]]
  BY DEF TryAssign, Body
<1> HIDE DEF from
<1>3. \A c \in Calls : from[c] = Body(from, c)
  BY <1>1
<1>4. PICK f : Grows(f) /\ f = [c \in Calls |-> Body(f, c)]
  BY FromExists
<1>5. \A c \in Calls : f[c] = Body(f, c)
  BY <1>4
<1>6. \A c \in Calls : f[c] = from[c]
  BY <1>3, <1>4, <1>5, FromIsUnique
<1>7. from = f
  BY <1>1, <1>4, <1>6 DEF Grows
<1>. QED BY <1>2, <1>3, <1>4, <1>7

-----------------------------------------------------------------------------
(* What a call leaves: the part of the Map outside the visited set stays a *)
(* matching; a success adds the role to it and one identity, a failure     *)
(* shows that whoever may speak for the role is taken, and so are all who  *)
(* may speak for the roles they are taken by.                              *)

Reach(role) == {id \in Ids : MaySpeakFor(id, role)}
Assigned(m) == {id \in Ids : m[id] # Unassigned}
RolesOf(m, visited) == {m[id] : id \in Ids \ visited} \ {Unassigned}

Fits(m, visited) ==
  /\ \A id \in Ids \ visited : m[id] # Unassigned => id \in Reach(m[id])
  /\ \A i, j \in Ids \ visited : m[i] = m[j] /\ m[i] # Unassigned => i = j

\* No call is made for a role that the rest of the Map has already.
Sensible(c) == Fits(c.roleOf, c.visited) /\ c.role \notin RolesOf(c.roleOf, c.visited)

Fails(c, x) ==
  /\ x.roleOf = c.roleOf /\ Reach(c.role) \subseteq x.visited
  /\ \A i \in x.visited \ c.visited : i \in Assigned(c.roleOf) /\ Reach(c.roleOf[i]) \subseteq x.visited

Succeeds(c, x) ==
  /\ \A i \in c.visited : x.roleOf[i] = c.roleOf[i]
  /\ Fits(x.roleOf, c.visited)
  /\ RolesOf(x.roleOf, c.visited) = RolesOf(c.roleOf, c.visited) \cup {c.role}
  /\ \E new \in Ids \ Assigned(c.roleOf) : Assigned(x.roleOf) = Assigned(c.roleOf) \cup {new}

\* From a closed set of identities no path leads to a free one.
Closed(m, C) == \A i \in C : i \in Assigned(m) /\ Reach(m[i]) \subseteq C
Avoids(c, x, C) ==
  /\ Reach(c.role) \subseteq C => ~x.ok
  /\ x.ok => \A i \in C : x.roleOf[i] = c.roleOf[i]

LEMMA FailureIs ==
  ASSUME RoleParameters, VotesInv, NEW f, Grows(f), \A c \in Calls : f[c] = Body(f, c)
  PROVE  \A c \in Calls : ~f[c].ok => Fails(c, f[c])
<1> DEFINE B == {c \in Calls : ~f[c].ok /\ ~Fails(c, f[c])}
<1> SUFFICES ASSUME B # {} PROVE FALSE
  OBVIOUS
<1>1. PICK c \in B : \A d \in B : ~(Rank(d) < Rank(c))
  <2>1. B \in SUBSET Calls
    OBVIOUS
  <2> HIDE DEF B
  <2>. QED BY <2>1, LeastCall
<1>2. /\ c \in Calls /\ ~f[c].ok /\ f[c] = Body(f, c)
      /\ \A d \in Calls : Rank(d) < Rank(c) /\ ~f[d].ok => Fails(d, f[d])
  BY <1>1
<1>3. c.roleOf \in Maps /\ c.visited \in SUBSET Ids
  BY DEF Calls
<1>4. ~Fails(c, f[c])
  BY <1>1
<1> HIDE DEF B
<1>5. CASE NoneLeft(c, f[c])
  BY <1>4, <1>5 DEF NoneLeft, Fails, Reach
<1>6. ASSUME NEW id \in Ids \ c.visited, TakesFree(c, id, f[c]) \/ TakesOver(f, c, id, f[c])
      PROVE  FALSE
  BY <1>2, <1>6 DEF TakesFree, TakesOver, Taken
<1>7. ASSUME NEW id \in Ids \ c.visited, GoesOn(f, c, id, f[c]) PROVE FALSE
  <2> DEFINE d == Moved(c, id)
             e == Rest(c, f[d])
  <2>1. /\ d \in Calls /\ Rank(d) < Rank(c) /\ d.role = c.roleOf[id] /\ d.roleOf = c.roleOf
        /\ d.visited = c.visited \cup {id} /\ ~f[d].ok /\ c.roleOf[id] # Unassigned
    BY <1>2, <1>7, MovedIs DEF GoesOn
  <2>2. f[c] = f[e]
    BY <1>7 DEF GoesOn
  <2> HIDE DEF d
  <2>3. f[d] \in Results /\ d.visited \subseteq f[d].visited
    BY <2>1 DEF Grows
  <2>4. /\ e \in Calls /\ Rank(e) < Rank(c) /\ e.role = c.role /\ e.roleOf = c.roleOf
        /\ e.visited = f[d].visited
    BY <1>2, <2>1, <2>3, RestIs
  <2> HIDE DEF e
  <2>5. Fails(d, f[d]) /\ Fails(e, f[e]) /\ e.visited \subseteq f[e].visited
    BY <1>2, <2>1, <2>2, <2>4 DEF Grows
  <2>6. f[c].roleOf = c.roleOf /\ Reach(c.role) \subseteq f[c].visited
    BY <2>2, <2>4, <2>5 DEF Fails
  <2>7. ASSUME NEW i \in f[c].visited \ c.visited
        PROVE  i \in Assigned(c.roleOf) /\ Reach(c.roleOf[i]) \subseteq f[c].visited
    <3>1. CASE i = id
      BY <2>1, <2>2, <2>4, <2>5, <3>1 DEF Fails, Assigned
    <3>2. CASE i # id /\ i \in f[d].visited
      BY <2>1, <2>2, <2>4, <2>5, <3>2 DEF Fails
    <3>3. CASE i \notin f[d].visited
      BY <2>2, <2>4, <2>5, <2>7, <3>3 DEF Fails
    <3>. QED BY <2>1, <2>3, <3>1, <3>2, <3>3
  <2>8. Fails(c, f[c])
    BY <2>6, <2>7 DEF Fails
  <2>. QED BY <1>4, <2>8
<1>. QED BY <1>2, <1>5, <1>6, <1>7, BodyIs

LEMMA ClosedIsAvoided ==
  ASSUME RoleParameters, VotesInv, NEW f, Grows(f), \A c \in Calls : f[c] = Body(f, c)
  PROVE  \A c \in Calls : \A C \in SUBSET Ids : Closed(c.roleOf, C) => Avoids(c, f[c], C)
<1> DEFINE B == {c \in Calls : \E C \in SUBSET Ids : Closed(c.roleOf, C) /\ ~Avoids(c, f[c], C)}
<1> SUFFICES ASSUME B # {} PROVE FALSE
  OBVIOUS
<1>1. PICK c \in B : \A d \in B : ~(Rank(d) < Rank(c))
  <2>1. B \in SUBSET Calls
    OBVIOUS
  <2> HIDE DEF B
  <2>. QED BY <2>1, LeastCall
<1>2. /\ c \in Calls /\ f[c] = Body(f, c)
      /\ \A d \in Calls : Rank(d) < Rank(c) =>
           \A C \in SUBSET Ids : Closed(d.roleOf, C) => Avoids(d, f[d], C)
  BY <1>1
<1>3. PICK C \in SUBSET Ids : Closed(c.roleOf, C) /\ ~Avoids(c, f[c], C)
  BY <1>1
<1>4. c.roleOf \in Maps /\ c.visited \in SUBSET Ids
  BY DEF Calls
<1> HIDE DEF B
<1>5. CASE NoneLeft(c, f[c])
  BY <1>3, <1>5 DEF NoneLeft, Avoids
<1>6. ASSUME NEW id \in Ids \ c.visited, MaySpeakFor(id, c.role), TakesFree(c, id, f[c]) PROVE FALSE
  <2>1. id \notin C /\ ~(Reach(c.role) \subseteq C)
    BY <1>3, <1>6 DEF TakesFree, Closed, Assigned, Reach
  <2>2. \A i \in C : f[c].roleOf[i] = c.roleOf[i]
    BY <1>2, <1>4, <1>6, <2>1, TakenIs DEF TakesFree
  <2>. QED BY <1>3, <2>1, <2>2 DEF Avoids
<1>7. ASSUME NEW id \in Ids \ c.visited, MaySpeakFor(id, c.role), c.roleOf[id] # Unassigned,
             TakesOver(f, c, id, f[c]) \/ GoesOn(f, c, id, f[c])
      PROVE  FALSE
  <2> DEFINE d == Moved(c, id)
             e == Rest(c, f[d])
  <2>1. /\ d \in Calls /\ Rank(d) < Rank(c) /\ d.role = c.roleOf[id] /\ d.roleOf = c.roleOf
        /\ d.visited = c.visited \cup {id}
    BY <1>2, <1>7, MovedIs
  <2>2. \/ f[d].ok /\ f[c] = Taken(c, id, f[d].roleOf)
        \/ ~f[d].ok /\ f[c] = f[e]
    BY <1>7 DEF TakesOver, GoesOn
  <2> HIDE DEF d
  <2>3. f[d] \in Results /\ d.visited \subseteq f[d].visited /\ Avoids(d, f[d], C)
    BY <1>2, <1>3, <2>1 DEF Grows
  <2>4. /\ e \in Calls /\ Rank(e) < Rank(c) /\ e.role = c.role /\ e.roleOf = c.roleOf
    BY <1>2, <2>1, <2>3, RestIs
  <2> HIDE DEF e
  <2>5. Avoids(e, f[e], C)
    BY <1>2, <1>3, <2>4
  <2>6. CASE f[d].ok
    <3>1. ~(Reach(c.roleOf[id]) \subseteq C) /\ \A i \in C : f[d].roleOf[i] = c.roleOf[i]
      BY <2>1, <2>3, <2>6 DEF Avoids
    <3>2. id \notin C
      BY <1>3, <3>1 DEF Closed
    <3>3. f[d].roleOf \in Maps
      BY <2>3 DEF Results
    <3>4. \A i \in C : f[c].roleOf[i] = c.roleOf[i]
      BY <1>2, <2>2, <2>6, <3>1, <3>2, <3>3, TakenIs
    <3>5. ~(Reach(c.role) \subseteq C)
      BY <1>7, <3>2 DEF Reach
    <3>. QED BY <1>3, <3>4, <3>5 DEF Avoids
  <2>7. CASE ~f[d].ok
    BY <1>3, <2>2, <2>4, <2>5, <2>7 DEF Avoids
  <2>. QED BY <2>6, <2>7
<1>. QED BY <1>2, <1>5, <1>6, <1>7, BodyIs DEF TakesOver, GoesOn

LEMMA SuccessIs ==
  ASSUME RoleParameters, VotesInv, NEW f, Grows(f), \A c \in Calls : f[c] = Body(f, c)
  PROVE  \A c \in Calls : Sensible(c) /\ f[c].ok => Succeeds(c, f[c])
<1> DEFINE B == {c \in Calls : Sensible(c) /\ f[c].ok /\ ~Succeeds(c, f[c])}
<1> SUFFICES ASSUME B # {} PROVE FALSE
  OBVIOUS
<1>1. PICK c \in B : \A d \in B : ~(Rank(d) < Rank(c))
  <2>1. B \in SUBSET Calls
    OBVIOUS
  <2> HIDE DEF B
  <2>. QED BY <2>1, LeastCall
<1>2. /\ c \in Calls /\ Sensible(c) /\ f[c].ok /\ f[c] = Body(f, c)
      /\ \A d \in Calls : Rank(d) < Rank(c) /\ Sensible(d) /\ f[d].ok => Succeeds(d, f[d])
  BY <1>1
<1>3. c.roleOf \in Maps /\ c.visited \in SUBSET Ids /\ c.role \in Pool /\ c.role # Unassigned
  BY DEF Calls, RoleParameters
<1>4. ~Succeeds(c, f[c])
  BY <1>1
<1> HIDE DEF B
<1>5. /\ \A i \in Ids \ c.visited : c.roleOf[i] # Unassigned => i \in Reach(c.roleOf[i])
      /\ \A i, j \in Ids \ c.visited : c.roleOf[i] = c.roleOf[j] /\ c.roleOf[i] # Unassigned => i = j
      /\ \A i \in Ids \ c.visited : c.roleOf[i] # c.role
  BY <1>2, <1>3 DEF Sensible, Fits, RolesOf
<1>6. CASE NoneLeft(c, f[c])
  BY <1>2, <1>6 DEF NoneLeft
<1>7. ASSUME NEW id \in Ids \ c.visited, MaySpeakFor(id, c.role), TakesFree(c, id, f[c]) PROVE FALSE
  <2> DEFINE m == f[c].roleOf
  <2>1. /\ c.roleOf[id] = Unassigned
        /\ \A i \in Ids : m[i] = IF i = id THEN c.role ELSE c.roleOf[i]
    BY <1>2, <1>3, <1>7, TakenIs DEF TakesFree
  <2> HIDE DEF m
  <2>2. Fits(m, c.visited)
    BY <1>5, <1>7, <2>1 DEF Fits, Reach
  <2>3. RolesOf(m, c.visited) = RolesOf(c.roleOf, c.visited) \cup {c.role}
    BY <1>3, <2>1 DEF RolesOf
  <2>4. id \in Ids \ Assigned(c.roleOf) /\ Assigned(m) = Assigned(c.roleOf) \cup {id}
    BY <1>3, <2>1 DEF Assigned
  <2>5. \A i \in c.visited : m[i] = c.roleOf[i]
    BY <1>3, <2>1
  <2>. QED BY <1>4, <2>2, <2>3, <2>4, <2>5 DEF Succeeds, m
<1>8. ASSUME NEW id \in Ids \ c.visited, MaySpeakFor(id, c.role), TakesOver(f, c, id, f[c]) PROVE FALSE
  <2> DEFINE d == Moved(c, id)
             p == f[d].roleOf
             m == f[c].roleOf
  <2>1. /\ d \in Calls /\ Rank(d) < Rank(c) /\ d.role = c.roleOf[id] /\ d.roleOf = c.roleOf
        /\ d.visited = c.visited \cup {id} /\ f[d].ok /\ c.roleOf[id] # Unassigned
        /\ f[c] = Taken(c, id, p)
    BY <1>2, <1>8, MovedIs DEF TakesOver
  <2> HIDE DEF d
  <2>2. Sensible(d)
    <3>1. Fits(d.roleOf, d.visited)
      BY <1>5, <2>1 DEF Fits
    <3>2. d.role \notin RolesOf(d.roleOf, d.visited)
      BY <1>5, <2>1 DEF RolesOf
    <3>. QED BY <3>1, <3>2 DEF Sensible
  <2>3. Succeeds(d, f[d])
    BY <1>2, <2>1, <2>2
  <2>4. p \in Maps
    BY <2>1 DEF Grows, Results
  <2>5. \A i \in Ids : m[i] = IF i = id THEN c.role ELSE p[i]
    BY <1>2, <2>1, <2>4, TakenIs
  <2>6. /\ \A i \in c.visited : p[i] = c.roleOf[i]
        /\ p[id] = c.roleOf[id] /\ Fits(p, c.visited \cup {id})
        /\ RolesOf(p, c.visited \cup {id}) = RolesOf(c.roleOf, c.visited \cup {id}) \cup {c.roleOf[id]}
        /\ \E new \in Ids \ Assigned(c.roleOf) : Assigned(p) = Assigned(c.roleOf) \cup {new}
    BY <2>1, <2>3 DEF Succeeds
  <2> HIDE DEF m, p
  <2>7. RolesOf(c.roleOf, c.visited \cup {id}) \cup {c.roleOf[id]} = RolesOf(c.roleOf, c.visited)
    BY <2>1 DEF RolesOf
  <2>8. RolesOf(m, c.visited) = RolesOf(p, c.visited \cup {id}) \cup {c.role}
    BY <1>3, <2>5 DEF RolesOf
  <2>9. RolesOf(m, c.visited) = RolesOf(c.roleOf, c.visited) \cup {c.role}
    BY <2>6, <2>7, <2>8
  <2>10. c.role \notin RolesOf(p, c.visited \cup {id})
    BY <1>2, <2>6, <2>7 DEF Sensible
  <2>11. Fits(m, c.visited)
    <3>1. \A i \in Ids \ (c.visited \cup {id}) : p[i] # c.role
      BY <1>3, <2>10 DEF RolesOf
    <3>. QED BY <1>8, <2>5, <2>6, <3>1 DEF Fits, Reach
  <2>12. \A i \in c.visited : m[i] = c.roleOf[i]
    BY <1>3, <2>5, <2>6
  <2>13. Assigned(m) = Assigned(p)
    BY <1>3, <2>1, <2>5, <2>6 DEF Assigned
  <2>14. Succeeds(c, f[c])
    BY <2>6, <2>9, <2>11, <2>12, <2>13 DEF Succeeds, m
  <2>. QED BY <1>4, <2>14
<1>9. ASSUME NEW id \in Ids \ c.visited, GoesOn(f, c, id, f[c]) PROVE FALSE
  <2> DEFINE d == Moved(c, id)
             e == Rest(c, f[d])
             m == f[e].roleOf
  <2>1. /\ d \in Calls /\ d.visited = c.visited \cup {id} /\ ~f[d].ok /\ c.roleOf[id] # Unassigned
    BY <1>2, <1>9, MovedIs DEF GoesOn
  <2>2. f[c] = f[e]
    BY <1>9 DEF GoesOn
  <2> HIDE DEF d
  <2>3. f[d] \in Results /\ d.visited \subseteq f[d].visited
    BY <2>1 DEF Grows
  <2>4. /\ e \in Calls /\ Rank(e) < Rank(c) /\ e.role = c.role /\ e.roleOf = c.roleOf
        /\ c.visited \subseteq e.visited
    BY <1>2, <2>1, <2>3, RestIs
  <2> HIDE DEF e
  <2>5. e.visited \in SUBSET Ids
    BY <2>4 DEF Calls
  <2>6. Sensible(e)
    <3>1. Fits(e.roleOf, e.visited)
      BY <1>5, <2>4 DEF Fits
    <3>2. e.role \notin RolesOf(e.roleOf, e.visited)
      BY <1>5, <2>4 DEF RolesOf
    <3>. QED BY <3>1, <3>2 DEF Sensible
  <2>7. Succeeds(e, f[e])
    BY <1>2, <2>2, <2>4, <2>6
  <2>8. /\ \A i \in e.visited : m[i] = c.roleOf[i]
        /\ Fits(m, e.visited)
        /\ RolesOf(m, e.visited) = RolesOf(c.roleOf, e.visited) \cup {c.role}
        /\ \E new \in Ids \ Assigned(c.roleOf) : Assigned(m) = Assigned(c.roleOf) \cup {new}
    BY <2>4, <2>7 DEF Succeeds
  <2> HIDE DEF m
  <2>9. RolesOf(m, c.visited) = RolesOf(c.roleOf, c.visited) \cup {c.role}
    <3>1. /\ RolesOf(m, c.visited) =
               RolesOf(m, e.visited) \cup ({m[i] : i \in e.visited \ c.visited} \ {Unassigned})
          /\ RolesOf(c.roleOf, c.visited) =
               RolesOf(c.roleOf, e.visited)
                 \cup ({c.roleOf[i] : i \in e.visited \ c.visited} \ {Unassigned})
      BY <2>4, <2>5 DEF RolesOf
    <3>2. {m[i] : i \in e.visited \ c.visited} = {c.roleOf[i] : i \in e.visited \ c.visited}
      BY <2>8
    <3>. QED BY <2>8, <3>1, <3>2
  <2>10. Fits(m, c.visited)
    <3>1. ASSUME NEW i \in Ids \ c.visited, m[i] # Unassigned PROVE i \in Reach(m[i])
      BY <1>5, <2>8, <3>1 DEF Fits
    <3>2. ASSUME NEW i \in Ids \ e.visited, m[i] # Unassigned, NEW j \in e.visited \ c.visited
          PROVE  m[i] # m[j]
      <4>1. m[i] \in RolesOf(c.roleOf, e.visited) \cup {c.role}
        BY <2>8, <3>2 DEF RolesOf
      <4>2. j \in Ids \ c.visited /\ m[j] = c.roleOf[j]
        BY <2>5, <2>8
      <4>3. CASE m[i] = c.role
        BY <1>5, <4>2, <4>3
      <4>4. CASE m[i] \in RolesOf(c.roleOf, e.visited)
        <5>1. PICK k \in Ids \ e.visited : m[i] = c.roleOf[k]
          BY <4>4 DEF RolesOf
        <5>. QED BY <1>5, <2>4, <3>2, <4>2, <5>1
      <4>. QED BY <4>1, <4>3, <4>4
    <3>3. ASSUME NEW i \in Ids \ c.visited, NEW j \in Ids \ c.visited, m[i] = m[j], m[i] # Unassigned
          PROVE  i = j
      <4>1. CASE i \in e.visited /\ j \in e.visited
        BY <1>5, <2>8, <3>3, <4>1
      <4>2. CASE i \notin e.visited /\ j \notin e.visited
        BY <2>8, <3>3, <4>2 DEF Fits
      <4>3. CASE (i \in e.visited) # (j \in e.visited)
        BY <3>2, <3>3, <4>3
      <4>. QED BY <4>1, <4>2, <4>3
    <3>. QED BY <3>1, <3>3 DEF Fits
  <2>11. \A i \in c.visited : m[i] = c.roleOf[i]
    BY <2>4, <2>8
  <2>12. Succeeds(c, f[c])
    BY <2>2, <2>8, <2>9, <2>10, <2>11 DEF Succeeds, m
  <2>. QED BY <1>4, <2>12
<1>. QED BY <1>2, <1>6, <1>7, <1>8, <1>9, BodyIs

-----------------------------------------------------------------------------
(* The loop over the pool: the Map is a matching whose size is the count,  *)
(* and a closed set of identities holds all who may speak for the roles    *)
(* that were tried in vain.                                                *)

Tried(n) == {RequiredRoles[k] : k \in 1..n}

LoopInv(n, s) ==
  /\ s.roleOf \in Maps /\ Fits(s.roleOf, {}) /\ RolesOf(s.roleOf, {}) \subseteq Tried(n)
  /\ s.count = Cardinality(Assigned(s.roleOf))
  /\ \E C \in SUBSET Ids : /\ Closed(s.roleOf, C)
                           /\ \A role \in Tried(n) \ RolesOf(s.roleOf, {}) : Reach(role) \subseteq C

Start == [count |-> 0, roleOf |-> [id \in Ids |-> Unassigned]]
After(n, s) ==
  LET attempt == TryAssign(RequiredRoles[n], s.roleOf)
  IN [count |-> s.count + (IF attempt.ok THEN 1 ELSE 0), roleOf |-> attempt.roleOf]

LEMMA RolesAre ==
  ASSUME RoleParameters
  PROVE  /\ Len(RequiredRoles) \in Nat /\ Pool = Tried(Len(RequiredRoles))
         /\ \A n \in 1..Len(RequiredRoles) :
              /\ RequiredRoles[n] \in Pool /\ RequiredRoles[n] \notin Tried(n - 1)
              /\ Tried(n) = Tried(n - 1) \cup {RequiredRoles[n]}
<1>1. /\ Len(RequiredRoles) \in Nat /\ DOMAIN RequiredRoles = 1..Len(RequiredRoles)
      /\ \A n \in 1..Len(RequiredRoles) : RequiredRoles[n] \in Pool
  BY DEF RoleParameters
<1>2. Pool = Tried(Len(RequiredRoles))
  BY <1>1 DEF Pool, Tried
<1>3. ASSUME NEW n \in 1..Len(RequiredRoles)
      PROVE  /\ RequiredRoles[n] \notin Tried(n - 1)
             /\ Tried(n) = Tried(n - 1) \cup {RequiredRoles[n]}
  <2>1. 1..n = (1..(n - 1)) \cup {n} /\ \A k \in 1..(n - 1) : k \in 1..Len(RequiredRoles) /\ k # n
    BY <1>1
  <2>. QED BY <2>1 DEF Tried, RoleParameters
<1>. QED BY <1>1, <1>2, <1>3

LEMMA AssignedAreFew ==
  ASSUME RoleParameters, NEW m
  PROVE  IsFiniteSet(Assigned(m)) /\ Cardinality(Assigned(m)) \in Nat
<1>1. Assigned(m) \in SUBSET Ids
  BY DEF Assigned
<1>. QED BY <1>1, FS_Subset, FS_CardinalityType DEF RoleParameters

LEMMA StartIs == ASSUME RoleParameters PROVE LoopInv(0, Start)
<1> DEFINE m == [id \in Ids |-> Unassigned]
<1>1. m \in Maps /\ Fits(m, {}) /\ RolesOf(m, {}) = {} /\ Assigned(m) = {}
  BY DEF Maps, Fits, RolesOf, Assigned
<1>2. Start.roleOf = m /\ Start.count = 0
  BY DEF Start
<1> HIDE DEF m
<1>3. Tried(0) = {} /\ Closed(m, {})
  BY DEF Tried, Closed
<1>. QED BY <1>1, <1>2, <1>3, FS_EmptySet DEF LoopInv

LEMMA AfterKeeps ==
  ASSUME RoleParameters, VotesInv, NEW n \in 1..Len(RequiredRoles), NEW s, LoopInv(n - 1, s)
  PROVE  LoopInv(n, After(n, s))
<1> DEFINE role == RequiredRoles[n]
           c == [role |-> role, roleOf |-> s.roleOf, visited |-> {}]
           a == After(n, s)
<1>1. /\ role \in Pool /\ role \notin Tried(n - 1) /\ Tried(n) = Tried(n - 1) \cup {role}
  BY RolesAre
<1> HIDE DEF role
<1>2. PICK f : /\ Grows(f) /\ \A d \in Calls : f[d] = Body(f, d)
               /\ TryAssign(role, s.roleOf) = f[c]
  BY TryAssignIs
<1>3. a.count = s.count + (IF f[c].ok THEN 1 ELSE 0) /\ a.roleOf = f[c].roleOf
  BY <1>2 DEF After, role
<1>4. c \in Calls /\ c.role = role /\ c.roleOf = s.roleOf /\ c.visited = {}
  BY <1>1 DEF LoopInv, Calls
<1> HIDE DEF c, a
<1>5. f[c] \in Results
  BY <1>2, <1>4 DEF Grows
<1>6. PICK C \in SUBSET Ids :
        /\ Closed(s.roleOf, C)
        /\ \A r \in Tried(n - 1) \ RolesOf(s.roleOf, {}) : Reach(r) \subseteq C
  BY DEF LoopInv
<1>7. /\ s.roleOf \in Maps /\ Fits(s.roleOf, {}) /\ RolesOf(s.roleOf, {}) \subseteq Tried(n - 1)
      /\ s.count = Cardinality(Assigned(s.roleOf))
  BY DEF LoopInv
<1>8. CASE f[c].ok
  <2>1. Sensible(c)
    BY <1>1, <1>4, <1>7 DEF Sensible
  <2>2. Succeeds(c, f[c])
    BY <1>2, <1>4, <1>8, <2>1, SuccessIs
  <2>3. Avoids(c, f[c], C)
    BY <1>2, <1>4, <1>6, ClosedIsAvoided
  <2>4. /\ Fits(a.roleOf, {}) /\ a.roleOf \in Maps
        /\ RolesOf(a.roleOf, {}) = RolesOf(s.roleOf, {}) \cup {role}
    BY <1>3, <1>4, <1>5, <2>2 DEF Succeeds, Results
  <2>5. a.count = Cardinality(Assigned(a.roleOf))
    <3>1. PICK new \in Ids \ Assigned(s.roleOf) : Assigned(a.roleOf) = Assigned(s.roleOf) \cup {new}
      BY <1>3, <1>4, <2>2 DEF Succeeds
    <3>2. IsFiniteSet(Assigned(s.roleOf))
      BY AssignedAreFew
    <3>3. Cardinality(Assigned(a.roleOf)) = Cardinality(Assigned(s.roleOf)) + 1
      BY <3>1, <3>2, FS_AddElement
    <3>. QED BY <1>3, <1>7, <1>8, <3>3
  <2>6. \A i \in C : a.roleOf[i] = s.roleOf[i]
    BY <1>3, <1>4, <1>8, <2>3 DEF Avoids
  <2>7. Closed(a.roleOf, C)
    BY <1>6, <2>6 DEF Closed, Assigned
  <2>8. \A r \in Tried(n) \ RolesOf(a.roleOf, {}) : Reach(r) \subseteq C
    BY <1>1, <1>6, <2>4
  <2>9. RolesOf(a.roleOf, {}) \subseteq Tried(n)
    BY <1>1, <1>7, <2>4
  <2>. QED BY <2>4, <2>5, <2>7, <2>8, <2>9 DEF LoopInv, a
<1>9. CASE ~f[c].ok
  <2> DEFINE V == f[c].visited
  <2>1. Fails(c, f[c]) /\ V \in SUBSET Ids
    BY <1>2, <1>4, <1>5, <1>9, FailureIs DEF Results
  <2>2. a.roleOf = s.roleOf /\ Reach(role) \subseteq V
    BY <1>3, <1>4, <2>1 DEF Fails
  <2>3. \A i \in V : i \in Assigned(s.roleOf) /\ Reach(s.roleOf[i]) \subseteq V
    BY <1>4, <2>1 DEF Fails
  <2>4. a.count = s.count
    <3>1. s.count \in Nat
      BY <1>7, AssignedAreFew
    <3>. QED BY <1>3, <1>9, <3>1
  <2> HIDE DEF V
  <2>5. Closed(s.roleOf, C \cup V) /\ C \cup V \in SUBSET Ids
    BY <1>6, <2>1, <2>3 DEF Closed
  <2>6. \A r \in Tried(n) \ RolesOf(s.roleOf, {}) : Reach(r) \subseteq C \cup V
    BY <1>1, <1>6, <2>2
  <2>. QED BY <1>1, <1>7, <2>2, <2>4, <2>5, <2>6 DEF LoopInv, a
<1>. QED BY <1>8, <1>9

IsLoop(f, n) == f = [k \in 0..n |-> IF k = 0 THEN Start ELSE After(k, f[k - 1])]

LEMMA LoopExists == \A n \in Nat : \E f : IsLoop(f, n)
<1> DEFINE Bad == {n \in Nat : ~\E f : IsLoop(f, n)}
<1> SUFFICES ASSUME Bad # {} PROVE FALSE
  OBVIOUS
<1>1. PICK n \in Bad : \A k \in Bad : ~(k < n)
  <2>1. Bad \in SUBSET Nat
    OBVIOUS
  <2> HIDE DEF Bad
  <2>. QED BY <2>1, LeastOf
<1>2. CASE n = 0
  <2>1. IsLoop([k \in 0..0 |-> Start], 0)
    BY DEF IsLoop
  <2>. QED BY <1>2, <2>1
<1>3. CASE n # 0
  <2>1. n - 1 \in Nat /\ n - 1 \notin Bad
    BY <1>1, <1>3
  <2>2. PICK f : IsLoop(f, n - 1)
    BY <2>1
  <2> DEFINE g == [k \in 0..n |-> IF k = n THEN After(n, f[n - 1]) ELSE f[k]]
  <2>3. \A k \in 0..(n - 1) : f[k] = IF k = 0 THEN Start ELSE After(k, f[k - 1])
    BY <2>2 DEF IsLoop
  <2>4. \A k \in 0..n : g[k] = IF k = 0 THEN Start ELSE After(k, g[k - 1])
    <3>1. \A k \in 0..n : k # n => k \in 0..(n - 1)
      BY <1>1
    <3>2. \A k \in 1..n : k - 1 \in 0..(n - 1) /\ k - 1 \in 0..n /\ k - 1 # n
      BY <1>1
    <3>3. \A k \in 0..n : g[k] = IF k = n THEN After(n, f[n - 1]) ELSE f[k]
      OBVIOUS
    <3> HIDE DEF g
    <3>4. \A k \in 1..n : g[k - 1] = f[k - 1]
      BY <3>2, <3>3
    <3>. QED BY <1>3, <2>3, <3>1, <3>3, <3>4
  <2>5. IsLoop(g, n)
    BY <2>4 DEF IsLoop
  <2>. QED BY <2>5
<1>. QED BY <1>2, <1>3

LEMMA CountIs ==
  ASSUME RoleParameters, VotesInv
  PROVE  \E s : LoopInv(Len(RequiredRoles), s) /\ CountDistinctRoleMatches = s.count
<1> DEFINE N == Len(RequiredRoles)
           f == CHOOSE g : IsLoop(g, N)
<1>1. N \in Nat
  BY RolesAre
<1>2. IsLoop(f, N)
  BY <1>1, LoopExists
<1>3. CountDistinctRoleMatches = f[N].count
  BY DEF CountDistinctRoleMatches, IsLoop, Start, After
<1> HIDE DEF f
<1>4. \A k \in 0..N : f[k] = IF k = 0 THEN Start ELSE After(k, f[k - 1])
  BY <1>2 DEF IsLoop
<1> DEFINE Bad == {k \in 0..N : ~LoopInv(k, f[k])}
<1>5. Bad = {}
  <2> SUFFICES ASSUME Bad # {} PROVE FALSE
    OBVIOUS
  <2>1. PICK k \in Bad : \A j \in Bad : ~(j < k)
    <3>1. Bad \in SUBSET Nat
      OBVIOUS
    <3> HIDE DEF Bad
    <3>. QED BY <3>1, LeastOf
  <2>2. k # 0
    BY <1>1, <1>4, <2>1, StartIs
  <2>3. k \in 1..N /\ k - 1 \in 0..N /\ k - 1 < k
    BY <1>1, <2>1, <2>2
  <2>4. LoopInv(k - 1, f[k - 1])
    BY <2>1, <2>3
  <2>5. LoopInv(k, After(k, f[k - 1]))
    BY <2>3, <2>4, AfterKeeps
  <2>. QED BY <1>4, <2>1, <2>3, <2>5
<1>6. LoopInv(N, f[N])
  BY <1>1, <1>5
<1>. QED BY <1>3, <1>6

-----------------------------------------------------------------------------
(* The Map is a matching, and none is larger: each vote of another one has *)
(* an identity of its own, the voter if closed in and else the one that    *)
(* the Map gives to the role.                                              *)

LEMMA MapIsMatching ==
  ASSUME RoleParameters, VotesInv, NEW m \in Maps, Fits(m, {})
  PROVE  \E M \in SUBSET VoteSet : Matching(M, Pool) /\ Cardinality(M) = Cardinality(Assigned(m))
<1> DEFINE g == [i \in Assigned(m) |-> <<m[i], i>>]
           M == {<<m[i], i>> : i \in Assigned(m)}
<1>1. \A i \in Assigned(m) : i \in Ids /\ m[i] \in Pool /\ <<m[i], i>> \in VoteSet
  BY DEF Assigned, Fits, Reach, MaySpeakFor
<1>2. g \in Bijection(Assigned(m), M)
  <2>1. g \in Injection(Assigned(m), M)
    BY DEF Injection, IsInjective
  <2>2. g \in Surjection(Assigned(m), M)
    BY DEF Surjection
  <2>. QED BY <2>1, <2>2 DEF Bijection
<1>3. Cardinality(M) = Cardinality(Assigned(m))
  BY <1>2, AssignedAreFew, FS_Bijection DEF ExistsBijection
<1>4. Matching(M, Pool)
  <2>1. \A v \in M : v[1] \in Pool
    BY <1>1
  <2>2. ASSUME NEW i \in Assigned(m), NEW j \in Assigned(m), <<m[i], i>> # <<m[j], j>>
        PROVE  m[i] # m[j] /\ i # j
    BY <2>2 DEF Fits, Assigned
  <2>3. \A v, w \in M : v # w => v[1] # w[1] /\ v[2] # w[2]
    BY <2>2
  <2>. QED BY <2>1, <2>3 DEF Matching
<1>5. M \in SUBSET VoteSet
  BY <1>1
<1>. QED BY <1>3, <1>4, <1>5

LEMMA NoneIsLarger ==
  ASSUME RoleParameters, VotesInv, NEW s, LoopInv(Len(RequiredRoles), s),
         NEW M \in SUBSET VoteSet, Matching(M, Pool)
  PROVE  Cardinality(M) \in Nat /\ Cardinality(M) <= s.count
<1> DEFINE m == s.roleOf
<1>1. PICK C \in SUBSET Ids :
        Closed(m, C) /\ \A role \in Pool \ RolesOf(m, {}) : Reach(role) \subseteq C
  BY RolesAre DEF LoopInv
<1>2. Fits(m, {}) /\ s.count = Cardinality(Assigned(m))
  BY DEF LoopInv
<1> HIDE DEF m
<1> DEFINE Holder(role) == CHOOSE i \in Ids : m[i] = role
           g == [v \in M |-> IF v[2] \in C THEN v[2] ELSE Holder(v[1])]
<1>3. \A v \in M : v[1] \in Pool /\ v[2] \in Reach(v[1]) /\ v[1] # Unassigned
  <2> SUFFICES ASSUME NEW v \in M PROVE v[1] \in Pool /\ v[2] \in Reach(v[1]) /\ v[1] # Unassigned
    OBVIOUS
  <2>1. v \in VoteSet /\ v[1] \in Pool
    BY DEF Matching
  <2>2. v = <<v[1], v[2]>> /\ v[2] \in Ids
    BY <2>1, VotesAre DEF VoteSet
  <2>. QED BY <2>1, <2>2 DEF Reach, MaySpeakFor, RoleParameters
<1>4. ASSUME NEW v \in M, v[2] \notin C
      PROVE  Holder(v[1]) \in Assigned(m) \ C /\ m[Holder(v[1])] = v[1]
  <2>1. v[1] \in RolesOf(m, {})
    BY <1>1, <1>3, <1>4
  <2>2. \E i \in Ids : m[i] = v[1]
    BY <2>1 DEF RolesOf
  <2>3. Holder(v[1]) \in Ids /\ m[Holder(v[1])] = v[1]
    BY <2>2
  <2> HIDE DEF Holder
  <2>4. Holder(v[1]) \notin C
    BY <1>1, <1>3, <1>4, <2>3 DEF Closed
  <2>. QED BY <1>3, <2>3, <2>4 DEF Assigned
<1> HIDE DEF Holder
<1>5. \A v \in M : g[v] \in Assigned(m)
  BY <1>1, <1>4 DEF Closed
<1>6. ASSUME NEW v \in M, NEW w \in M, v # w PROVE g[v] # g[w]
  <2>1. v[1] # w[1] /\ v[2] # w[2]
    BY <1>6 DEF Matching
  <2>2. CASE v[2] \in C /\ w[2] \in C
    BY <2>1, <2>2
  <2>3. CASE v[2] \notin C /\ w[2] \notin C
    <3>1. m[g[v]] = v[1] /\ m[g[w]] = w[1]
      BY <1>4, <2>3
    <3>. QED BY <2>1, <3>1
  <2>4. CASE v[2] \in C /\ w[2] \notin C
    BY <1>4, <2>4
  <2>5. CASE v[2] \notin C /\ w[2] \in C
    BY <1>4, <2>5
  <2>. QED BY <2>2, <2>3, <2>4, <2>5
<1>7. g \in [M -> Assigned(m)]
  BY <1>5
<1> HIDE DEF g
<1>8. g \in Injection(M, Assigned(m))
  BY <1>6, <1>7 DEF Injection, IsInjective
<1>9. IsFiniteSet(M) /\ Cardinality(M) <= Cardinality(Assigned(m))
  BY <1>8, AssignedAreFew, FS_Injection
<1>. QED BY <1>2, <1>9, FS_CardinalityType

\* The augmenting paths find the largest matching, in whatever order the votes came and
\* the pool is listed: the quorum is met when the votes amount to it, and never by one
\* identity that speaks for two roles (approvalGate.ts countDistinctRoleMatches).
THEOREM LargestMatching ==
  ASSUME RoleParameters, VotesInv PROVE CountIsLargestMatching
<1>1. PICK s : LoopInv(Len(RequiredRoles), s) /\ CountDistinctRoleMatches = s.count
  BY CountIs
<1>2. s.count \in Nat
  BY <1>1, AssignedAreFew DEF LoopInv
<1>3. PICK M \in SUBSET VoteSet : Matching(M, Pool) /\ Cardinality(M) = s.count
  BY <1>1, MapIsMatching DEF LoopInv
<1>4. \A L \in SUBSET VoteSet : Matching(L, Pool) =>
        Cardinality(L) \in Nat /\ Cardinality(L) <= s.count
  BY <1>1, NoneIsLarger
<1>5. ASSUME NEW n \in 1..(Len(RequiredRoles) + 1)
      PROVE  s.count >= n <=> Matches(Pool, VoteSet, n)
  <2>1. n \in Nat
    OBVIOUS
  <2>2. ASSUME s.count >= n PROVE Matches(Pool, VoteSet, n)
    BY <1>3, <2>2 DEF Matches
  <2>3. ASSUME NEW L \in SUBSET VoteSet, Matching(L, Pool), Cardinality(L) >= n PROVE s.count >= n
    <3>1. Cardinality(L) \in Nat /\ Cardinality(L) <= s.count
      BY <1>4, <2>3
    <3>. QED BY <1>2, <2>1, <2>3, <3>1
  <2>. QED BY <2>2, <2>3 DEF Matches
<1>. QED BY <1>1, <1>5 DEF CountIsLargestMatching
=============================================================================
