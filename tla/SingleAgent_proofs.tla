--------------------------- MODULE SingleAgent_proofs ---------------------------
(***************************************************************************)
(* Proofs about the run MCSingleAgent, in which a behaviour is one of      *)
(* three components: what an agent may spend (FreezeAndWallet), its outer  *)
(* loop (L1Dialogue) and its calls that wait (ApprovalGate, whose proofs   *)
(* are in ApprovalGate_proofs).                                            *)
(***************************************************************************)
EXTENDS MCSingleAgent, TLAPS, FiniteSetTheorems, WellFoundedInduction

-----------------------------------------------------------------------------
(* Wallets.  The debit looks at the wallet and the freeze at the registry. *)
(* What joins them is that a frozen agent with a model call under way has  *)
(* no active wallet: the wallet was there when the freeze came, as a       *)
(* frozen agent begins no call, and every release that thaws a wallet      *)
(* takes the agent out of the registry.                                    *)

Statuses == {"none", "active", "frozen"}

WalletsTyped ==
  /\ wallet \in [Agents -> Statuses]
  /\ balance \in [Agents -> Int]
  /\ pool \in Int

FrozenWalletInv ==
  /\ WalletsTyped /\ restarts \in Nat
  /\ frozenAgents \subseteq Agents /\ created \subseteq Agents
  /\ calling \subseteq created
  /\ \A a \in Agents \ created : balance[a] = 0
  /\ \A a \in frozenAgents \cap calling : wallet[a] # "active"

\* A process starts with nobody created or frozen.
LEMMA FrozenWalletInit == Init => FrozenWalletInv
BY AmountsAssumption DEF Init, FrozenWalletInv, WalletsTyped, Statuses

\* A debit takes only from an active wallet, and makes none active.
LEMMA DebitOfActiveOnly ==
  ASSUME WalletsTyped, NEW a \in Agents, NEW amount \in Costs, Debit(a, amount)
  PROVE  /\ WalletsTyped' /\ wallet' = wallet
         /\ \A b \in Agents : wallet[b] # "active" => balance'[b] = balance[b]
BY AmountsAssumption DEF Debit, WalletsTyped, wallets

\* The same of the payment for a model call.
LEMMA PaymentOfActiveOnly ==
  ASSUME WalletsTyped, NEW a \in Agents, RecordConsumption(a)
  PROVE  /\ WalletsTyped' /\ wallet' = wallet
         /\ \A b \in Agents : wallet[b] # "active" => balance'[b] = balance[b]
<1>1. CASE UNCHANGED wallets
  BY <1>1 DEF wallets, WalletsTyped
<1>2. CASE \E amount \in Costs : Debit(a, amount)
  BY <1>2, DebitOfActiveOnly
<1> QED BY <1>1, <1>2 DEF RecordConsumption

\* A payment is taken from one agent.
LEMMA PaymentOfOne ==
  ASSUME WalletsTyped, NEW a \in Agents, RecordConsumption(a)
  PROVE  \A b \in Agents : b # a => balance'[b] = balance[b]
BY DEF RecordConsumption, Debit, WalletsTyped, wallets

\* A wallet is created for one agent, and touches no other.
LEMMA WalletCreation ==
  ASSUME WalletsTyped, NEW a \in Agents, CreateWallet(a)
  PROVE  /\ WalletsTyped'
         /\ balance'[a] = balance[a] \/ balance'[a] >= 0
         /\ \A b \in Agents : b # a => wallet'[b] = wallet[b] /\ balance'[b] = balance[b]
BY AmountsAssumption DEF CreateWallet, WalletsTyped, Statuses, wallets

\* Every step keeps the wallets of frozen agents amid a call inactive, and takes nothing
\* from an agent that is frozen while the process goes on.
LEMMA FrozenWalletStep ==
  ASSUME FrozenWalletInv, [Next]_vars
  PROVE  /\ FrozenWalletInv'
         /\ \A a \in frozenAgents : restarts' = restarts => balance'[a] >= balance[a]
<1> DEFINE Kept == \A a \in frozenAgents : balance'[a] >= balance[a]
<1> USE DEF FrozenWalletInv
<1>0. \A a \in Agents : balance[a] >= balance[a]
  BY DEF WalletsTyped
<1>1. ASSUME NEW a \in Agents, CreateAgent(a) PROVE FrozenWalletInv' /\ Kept
  <2>1. /\ a \notin created /\ frozenAgents' = frozenAgents /\ restarts' = restarts
        /\ created' = created \cup {a} /\ calling' = calling
        /\ CreateWallet(a)
    BY <1>1 DEF CreateAgent, freezes
  <2>2. a \notin calling /\ balance[a] = 0
    BY <2>1
  <2> QED BY <1>0, <2>1, <2>2, WalletCreation
<1>2. ASSUME NEW a \in Agents, BeginIteration(a) PROVE FrozenWalletInv' /\ Kept
  BY <1>0, <1>2 DEF BeginIteration, wallets, freezes, WalletsTyped
<1>3. ASSUME NEW a \in Agents, EndIteration(a) PROVE FrozenWalletInv' /\ Kept
  <2>1. /\ RecordConsumption(a) /\ frozenAgents' = frozenAgents /\ created' = created
        /\ a \in calling /\ calling' \subseteq calling /\ restarts' = restarts
    BY <1>3 DEF EndIteration, freezes
  <2>2. \A b \in Agents : b # a => balance'[b] = balance[b]
    BY <2>1, PaymentOfOne
  <2>3. a \in frozenAgents => balance'[a] = balance[a]
    BY <2>1, PaymentOfActiveOnly
  <2> QED BY <1>0, <2>1, <2>2, <2>3, PaymentOfActiveOnly
<1>4. ASSUME NEW a \in Agents, FreezeAgent(a) PROVE FrozenWalletInv' /\ Kept
  <2>1. /\ frozenAgents' = frozenAgents \cup {a} /\ created' = created
        /\ wallet' = [wallet EXCEPT ![a] = IF @ = "active" THEN "frozen" ELSE @]
        /\ balance' = balance /\ pool' = pool /\ calling' = calling /\ restarts' = restarts
    BY <1>4 DEF FreezeAgent, FreezeWallet
  <2> QED BY <1>0, <2>1 DEF WalletsTyped, Statuses
<1>5. ASSUME NEW a \in Agents, UnfreezeAgent(a) PROVE FrozenWalletInv' /\ Kept
  <2>1. /\ frozenAgents' = frozenAgents \ {a} /\ created' = created
        /\ UnfreezeWallets({a})
        /\ balance' = balance /\ pool' = pool /\ calling' = calling /\ restarts' = restarts
    BY <1>5 DEF UnfreezeAgent
  <2> QED BY <1>0, <2>1 DEF UnfreezeWallets, WalletsTyped, Statuses
<1>6. CASE AuditCycle
  <2>1. PICK released : frozenAgents' = frozenAgents \ released /\ UnfreezeWallets(released)
    BY <1>6 DEF AuditCycle
  <2>2. /\ created' = created /\ balance' = balance /\ pool' = pool
        /\ calling' = calling /\ restarts' = restarts
    BY <1>6 DEF AuditCycle
  <2> QED BY <2>1, <2>2, <1>0 DEF UnfreezeWallets, WalletsTyped, Statuses
<1>7. ASSUME Restart PROVE FrozenWalletInv' /\ restarts' # restarts
  <2>1. /\ frozenAgents' = {} /\ calling' = {} /\ created' = created /\ pool' = Supply
        /\ restarts' = restarts + 1
        /\ wallet' = [a \in Agents |-> "none"] /\ balance' = [a \in Agents |-> 0]
    BY <1>7 DEF Restart
  <2>2. FrozenWalletInv'
    BY <2>1, AmountsAssumption DEF WalletsTyped, Statuses
  <2> QED BY <2>1, <2>2
<1>8. CASE Tick
  BY <1>0, <1>8 DEF Tick, wallets, freezes, WalletsTyped
<1>9. CASE UNCHANGED vars
  BY <1>0, <1>9 DEF vars, WalletsTyped
<1> QED BY <1>0, <1>1, <1>2, <1>3, <1>4, <1>5, <1>6, <1>7, <1>8, <1>9 DEF Next

\* Nothing is taken from a frozen agent, not even for a model call that was let through
\* before the freeze and ends after it (freezeManager.ts:185, walletManager.ts debit).
THEOREM FrozenIsNotDebited == Spec => FrozenSpendsNothing
<1>1. FrozenWalletInv /\ [Next]_vars => FrozenWalletInv'
  BY FrozenWalletStep
<1>2. FrozenWalletInv /\ [Next]_vars =>
        [\A a \in frozenAgents : restarts' = restarts => balance'[a] >= balance[a]]_vars
  BY FrozenWalletStep
<1> QED BY FrozenWalletInit, <1>1, <1>2, PTL DEF Spec, FrozenSpendsNothing

-----------------------------------------------------------------------------
(* Sums over finite sets.                                                  *)

\* Among subsets of a finite set there is one that no other is smaller than.
LEMMA LeastSubset ==
  ASSUME NEW S, IsFiniteSet(S), NEW B \in SUBSET SUBSET S, B # {}
  PROVE  \E s \in B : \A t \in B : ~(Cardinality(t) < Cardinality(s))
<1> DEFINE N == {Cardinality(s) : s \in B}
<1>1. N \in SUBSET Nat /\ N # {}
  BY FS_Subset, FS_CardinalityType
<1>2. PICK n \in N : \A k \in N : ~(<<k, n>> \in OpToRel(<, Nat))
  <2> HIDE DEF N
  <2>. QED BY <1>1, NatLessThanWellFounded, WFMin
<1>3. \A k \in N : ~(k < n)
  BY <1>1, <1>2 DEF OpToRel
<1>. QED BY <1>3

Some(s) == CHOOSE x \in s : TRUE

\* What MapThenSumSet computes with: the sum of b over each set of the collection D.
IsSum(f, b, D) ==
  f = [s \in D |-> IF s = {} THEN 0 ELSE b[Some(s)] + f[s \ {Some(s)}]]

LEMMA Remainder ==
  ASSUME NEW S, IsFiniteSet(S), NEW s \in SUBSET S, s # {}
  PROVE  /\ Some(s) \in s /\ s \ {Some(s)} \in SUBSET S
         /\ Cardinality(s \ {Some(s)}) = Cardinality(s) - 1
         /\ Cardinality(s) \in Nat \ {0} /\ Cardinality(s \ {Some(s)}) < Cardinality(s)
<1>1. Some(s) \in s
  BY DEF Some
<1>2. IsFiniteSet(s)
  BY FS_Subset
<1>3. Cardinality(s) \in Nat /\ Cardinality(s) # 0
  BY <1>2, FS_CardinalityType, FS_EmptySet
<1>4. Cardinality(s \ {Some(s)}) = Cardinality(s) - 1
  BY <1>1, <1>2, FS_RemoveElement
<1>. QED BY <1>1, <1>3, <1>4

LEMMA SumExists ==
  ASSUME NEW S, IsFiniteSet(S), NEW b PROVE \E f : IsSum(f, b, SUBSET S)
<1> DEFINE Upto(n) == {s \in SUBSET S : Cardinality(s) <= n}
           Bad == {n \in Nat : ~\E f : IsSum(f, b, Upto(n))}
<1>0. \A s \in SUBSET S : Cardinality(s) \in Nat
  BY FS_Subset, FS_CardinalityType
<1>1. Bad = {}
  <2> SUFFICES ASSUME Bad # {} PROVE FALSE
    OBVIOUS
  <2>1. PICK n \in Bad : \A k \in Bad : ~(<<k, n>> \in OpToRel(<, Nat))
    <3>1. Bad \in SUBSET Nat
      OBVIOUS
    <3> HIDE DEF Bad
    <3>. QED BY <3>1, NatLessThanWellFounded, WFMin
  <2>2. \A k \in Bad : ~(k < n)
    BY <2>1 DEF OpToRel
  <2>3. CASE n = 0
    <3>1. \A s \in SUBSET S : Cardinality(s) <= 0 <=> s = {}
      <4> TAKE s \in SUBSET S
      <4>1. CASE s = {}
        BY <4>1, FS_EmptySet
      <4>2. CASE s # {}
        <5>1. Cardinality(s) \in Nat \ {0}
          BY <4>2, Remainder
        <5>. QED BY <4>2, <5>1
      <4>. QED BY <4>1, <4>2
    <3>2. Upto(0) = {{}}
      BY <3>1
    <3> DEFINE f == [s \in {{}} |-> 0]
    <3>3. IsSum(f, b, {{}})
      BY DEF IsSum
    <3>. QED BY <2>1, <2>3, <3>2, <3>3
  <2>4. CASE n # 0
    <3>1. n - 1 \in Nat /\ n - 1 \notin Bad /\ n \in Nat
      <4>1. n \in Nat
        BY <2>1
      <4>2. n - 1 \in Nat /\ n - 1 < n
        BY <2>4, <4>1
      <4> HIDE DEF Bad
      <4>. QED BY <2>2, <4>1, <4>2
    <3>2. PICK f : IsSum(f, b, Upto(n - 1))
      BY <3>1
    <3> DEFINE g == [s \in Upto(n) |-> IF s = {} THEN 0 ELSE b[Some(s)] + f[s \ {Some(s)}]]
    <3>3. \A s \in Upto(n - 1) : s \in Upto(n) /\ g[s] = f[s]
      <4> TAKE s \in Upto(n - 1)
      <4>1. s \in Upto(n)
        BY <1>0, <3>1
      <4>2. f[s] = IF s = {} THEN 0 ELSE b[Some(s)] + f[s \ {Some(s)}]
        <5> HIDE DEF Upto
        <5>. QED BY <3>2 DEF IsSum
      <4> HIDE DEF Upto
      <4>. QED BY <4>1, <4>2
    <3>4. \A s \in Upto(n) : s # {} => s \ {Some(s)} \in Upto(n - 1)
      BY Remainder
    <3>5. \A s \in Upto(n) : g[s] = IF s = {} THEN 0 ELSE b[Some(s)] + g[s \ {Some(s)}]
      <4> TAKE s \in Upto(n)
      <4>1. CASE s = {}
        BY <4>1
      <4>2. CASE s # {}
        <5>1. g[s \ {Some(s)}] = f[s \ {Some(s)}]
          BY <3>3, <3>4, <4>2
        <5>2. g[s] = b[Some(s)] + f[s \ {Some(s)}]
          BY <4>2
        <5> HIDE DEF g
        <5>. QED BY <4>2, <5>1, <5>2
      <4>. QED BY <4>1, <4>2
    <3>6. g = [s \in Upto(n) |-> g[s]]
      OBVIOUS
    <3>7. IsSum(g, b, Upto(n))
      <4> HIDE DEF g, Upto
      <4>. QED BY <3>5, <3>6 DEF IsSum
    <3>. QED BY <2>1, <3>7
  <2>. QED BY <2>3, <2>4
<1>2. Cardinality(S) \in Nat
  BY <1>0
<1>3. Upto(Cardinality(S)) = SUBSET S
  BY FS_Subset
<1>4. \E f : IsSum(f, b, Upto(Cardinality(S)))
  BY <1>1, <1>2
<1>. QED BY <1>3, <1>4

\* Sums of natural numbers are natural numbers, and those of zeros are zero.
LEMMA SumIsNat ==
  ASSUME NEW S, IsFiniteSet(S), NEW b \in [S -> Nat], NEW f, IsSum(f, b, SUBSET S)
  PROVE  \A s \in SUBSET S : f[s] \in Nat /\ ((\A x \in S : b[x] = 0) => f[s] = 0)
<1> DEFINE Fine(s) == f[s] \in Nat /\ ((\A x \in S : b[x] = 0) => f[s] = 0)
           B == {s \in SUBSET S : ~Fine(s)}
<1> SUFFICES ASSUME B # {} PROVE FALSE
  OBVIOUS
<1>1. PICK s \in B : \A t \in B : ~(Cardinality(t) < Cardinality(s))
  <2>1. B \in SUBSET SUBSET S
    OBVIOUS
  <2> HIDE DEF B
  <2>. QED BY <2>1, LeastSubset
<1>2. s \in SUBSET S /\ f[s] = IF s = {} THEN 0 ELSE b[Some(s)] + f[s \ {Some(s)}]
  BY <1>1 DEF IsSum
<1>3. CASE s = {}
  BY <1>1, <1>2, <1>3
<1>4. CASE s # {}
  <2>1. s \ {Some(s)} \in SUBSET S /\ s \ {Some(s)} \notin B /\ Some(s) \in S
    BY <1>1, <1>2, <1>4, Remainder
  <2>2. Fine(s \ {Some(s)})
    BY <2>1
  <2>. QED BY <1>1, <1>2, <1>4, <2>1, <2>2
<1>. QED BY <1>3, <1>4

\* Where b changes at x alone, a sum changes by as much if x is counted.
LEMMA SumChanges ==
  ASSUME NEW S, IsFiniteSet(S), NEW b \in [S -> Nat], NEW c \in [S -> Nat],
         NEW x \in S, \A y \in S : y # x => c[y] = b[y],
         NEW f, IsSum(f, b, SUBSET S), NEW g, IsSum(g, c, SUBSET S)
  PROVE  \A s \in SUBSET S : g[s] = IF x \in s THEN f[s] + (c[x] - b[x]) ELSE f[s]
<1> DEFINE Fine(s) == g[s] = IF x \in s THEN f[s] + (c[x] - b[x]) ELSE f[s]
           B == {s \in SUBSET S : ~Fine(s)}
<1> SUFFICES ASSUME B # {} PROVE FALSE
  OBVIOUS
<1>0. \A s \in SUBSET S : f[s] \in Nat /\ g[s] \in Nat
  BY SumIsNat
<1>1. PICK s \in B : \A t \in B : ~(Cardinality(t) < Cardinality(s))
  <2>1. B \in SUBSET SUBSET S
    OBVIOUS
  <2> HIDE DEF B
  <2>. QED BY <2>1, LeastSubset
<1>2. /\ s \in SUBSET S
      /\ f[s] = IF s = {} THEN 0 ELSE b[Some(s)] + f[s \ {Some(s)}]
      /\ g[s] = IF s = {} THEN 0 ELSE c[Some(s)] + g[s \ {Some(s)}]
  BY <1>1 DEF IsSum
<1>3. CASE s = {}
  BY <1>1, <1>2, <1>3
<1>4. CASE s # {}
  <2> DEFINE t == s \ {Some(s)}
  <2>1. Some(s) \in s /\ t \in SUBSET S /\ t \notin B
    BY <1>1, <1>2, <1>4, Remainder
  <2>2. Fine(t)
    BY <2>1
  <2>3. /\ b[Some(s)] \in Nat /\ c[Some(s)] \in Nat /\ b[x] \in Nat /\ c[x] \in Nat
        /\ f[t] \in Nat /\ g[t] \in Nat
    BY <1>0, <1>2, <2>1
  <2>4. CASE Some(s) = x
    <3>1. x \in s /\ x \notin t
      BY <2>1, <2>4
    <3>. QED BY <1>1, <1>2, <1>4, <2>2, <2>3, <2>4, <3>1
  <2>5. CASE Some(s) # x
    <3>1. (x \in s <=> x \in t) /\ c[Some(s)] = b[Some(s)]
      BY <1>2, <2>1, <2>5
    <3>. QED BY <1>1, <1>2, <1>4, <2>2, <2>3, <3>1
  <2>. QED BY <2>4, <2>5
<1>. QED BY <1>3, <1>4

\* All the tokens in wallets.
Total(b) == MapThenSumSet(LAMBDA a : b[a], Agents)

LEMMA TotalIs ==
  ASSUME IsFiniteSet(Agents), NEW b
  PROVE  \E f : IsSum(f, b, SUBSET Agents) /\ Total(b) = f[Agents]
<1> DEFINE f == CHOOSE g : IsSum(g, b, SUBSET Agents)
<1>1. IsSum(f, b, SUBSET Agents)
  BY SumExists
<1>2. Total(b) = f[Agents]
  BY DEF Total, MapThenSumSet, MapThenFoldSet, IsSum, Some
<1>. QED BY <1>1, <1>2

LEMMA TotalOfNothing ==
  ASSUME IsFiniteSet(Agents) PROVE Total([a \in Agents |-> 0]) = 0
<1> DEFINE b == [a \in Agents |-> 0]
<1>1. PICK f : IsSum(f, b, SUBSET Agents) /\ Total(b) = f[Agents]
  BY TotalIs
<1>2. b \in [Agents -> Nat] /\ \A a \in Agents : b[a] = 0
  OBVIOUS
<1> HIDE DEF b
<1>3. f[Agents] = 0
  BY <1>1, <1>2, SumIsNat
<1>. QED BY <1>1, <1>3 DEF b

\* A balance is part of the total, and the total follows it.
LEMMA TotalChanges ==
  ASSUME IsFiniteSet(Agents), NEW b \in [Agents -> Nat], NEW a \in Agents, NEW n \in Nat
  PROVE  /\ Total(b) \in Nat /\ b[a] <= Total(b)
         /\ Total([b EXCEPT ![a] = n]) = Total(b) + (n - b[a])
<1>1. ASSUME NEW m \in Nat
      PROVE  /\ Total(b) \in Nat /\ Total([b EXCEPT ![a] = m]) \in Nat
             /\ Total([b EXCEPT ![a] = m]) = Total(b) + (m - b[a])
  <2> DEFINE c == [b EXCEPT ![a] = m]
  <2>1. c \in [Agents -> Nat] /\ c[a] = m /\ \A y \in Agents : y # a => c[y] = b[y]
    OBVIOUS
  <2> HIDE DEF c
  <2>2. PICK f : IsSum(f, b, SUBSET Agents) /\ Total(b) = f[Agents]
    BY TotalIs
  <2>3. PICK g : IsSum(g, c, SUBSET Agents) /\ Total(c) = g[Agents]
    BY TotalIs
  <2>4. f[Agents] \in Nat /\ g[Agents] \in Nat
    BY <2>1, <2>2, <2>3, SumIsNat
  <2>5. g[Agents] = f[Agents] + (c[a] - b[a])
    <3>1. \A s \in SUBSET Agents : g[s] = IF a \in s THEN f[s] + (c[a] - b[a]) ELSE f[s]
      <4>1. /\ IsFiniteSet(Agents) /\ b \in [Agents -> Nat] /\ c \in [Agents -> Nat] /\ a \in Agents
            /\ IsSum(f, b, SUBSET Agents) /\ IsSum(g, c, SUBSET Agents)
        BY <2>1, <2>2, <2>3
      <4>2. \A y \in Agents : y # a => c[y] = b[y]
        BY <2>1
      <4>. QED BY ONLY <4>1, <4>2, SumChanges
    <3>2. Agents \in SUBSET Agents
      OBVIOUS
    <3>. QED BY <3>1, <3>2
  <2>. QED BY <2>1, <2>2, <2>3, <2>4, <2>5 DEF c
<1>2. b[a] \in Nat
  OBVIOUS
<1>3. Total([b EXCEPT ![a] = 0]) = Total(b) + (0 - b[a]) /\ Total([b EXCEPT ![a] = 0]) \in Nat
  BY <1>1
<1>4. Total([b EXCEPT ![a] = n]) = Total(b) + (n - b[a]) /\ Total(b) \in Nat
  BY <1>1
<1>. QED BY <1>2, <1>3, <1>4

-----------------------------------------------------------------------------
(* Frozen, recorded and paid for alike.                                    *)

FreezeParameters ==
  /\ IsFiniteSet(Agents) /\ FreezeTicks \in Nat
  /\ MaxFreezes \in Nat /\ MaxRestarts \in Nat /\ MaxTime \in Nat

FreezeRecords ==
  [FreezeIds -> [agent : Agents \cup {NoAgent}, until : Nat,
                 status : {"none", "frozen", "unfrozen", "expired"}]]

\* The registry: one open record of each frozen agent, and none of another.
RegistryInv ==
  /\ now \in 0..MaxTime /\ restarts \in 0..MaxRestarts
  /\ created \subseteq Agents /\ calling \subseteq created /\ frozenAgents \subseteq Agents
  /\ early \subseteq frozenAgents /\ frozenAgents \subseteq created \cup early
  /\ counter \in 0..MaxFreezes
  /\ records \in FreezeRecords /\ rows \in FreezeRecords
  /\ \A i \in FreezeIds : records[i].status # "none" <=> i \in 1..counter
  /\ \A i \in FreezeIds : Open(i) =>
       /\ records[i].agent \in frozenAgents
       /\ \A k \in FreezeIds : Open(k) /\ records[k].agent = records[i].agent => k = i
  /\ \A a \in frozenAgents : \E i \in FreezeIds : Open(i) /\ records[i].agent = a

\* The wallets: they come with their agents, follow the freezes that came after them,
\* and hold what the pool does not.
WalletsInv ==
  /\ wallet \in [Agents -> Statuses] /\ balance \in [Agents -> Nat] /\ pool \in Nat
  /\ \A a \in Agents : /\ a \notin created => wallet[a] = "none"
                       /\ wallet[a] = "none" => balance[a] = 0
                       /\ wallet[a] = "frozen" => a \in frozenAgents
                       /\ a \in frozenAgents \ early => wallet[a] # "active"
  /\ pool + Total(balance) = Supply

FreezeInv == RegistryInv /\ WalletsInv

LEMMA FreezeStart == FreezeParameters /\ Init => FreezeInv
<1> SUFFICES ASSUME FreezeParameters, Init PROVE FreezeInv
  OBVIOUS
<1>1. NoRecord \in [agent : Agents \cup {NoAgent}, until : Nat,
                    status : {"none", "frozen", "unfrozen", "expired"}]
      /\ NoRecord.status = "none"
  BY DEF NoRecord
<1>2. RegistryInv
  BY <1>1 DEF Init, FreezeParameters, RegistryInv, FreezeRecords, Open
<1>3. Total(balance) = 0
  BY TotalOfNothing DEF Init, FreezeParameters
<1>4. WalletsInv
  BY <1>3, AmountsAssumption DEF Init, WalletsInv, Statuses
<1>. QED BY <1>2, <1>4 DEF FreezeInv

\* What is written of records that have their type has its type.
LEMMA PersistTyped ==
  ASSUME NEW changed, Persist(changed), rows \in FreezeRecords, records' \in FreezeRecords
  PROVE  rows' \in FreezeRecords
BY DEF Persist, FreezeRecords

\* A step that leaves alone who exists, who is frozen and what is held.
LEMMA WalletsStay ==
  ASSUME WalletsInv, UNCHANGED wallets, created \subseteq created',
         frozenAgents' = frozenAgents, early' = early
  PROVE  WalletsInv'
<1>1. UNCHANGED <<wallet, balance, pool>>
  BY DEF wallets
<1>2. Total(balance)' = Total(balance)
  BY <1>1
<1>. QED BY <1>1, <1>2 DEF WalletsInv

\* A balance that changes is paid to the pool or taken from it.
LEMMA TokensStay ==
  ASSUME FreezeParameters, WalletsInv, NEW a \in Agents, NEW n \in Nat,
         balance' = [balance EXCEPT ![a] = n], pool' = pool + (balance[a] - n)
  PROVE  /\ pool' + Total(balance)' = Supply /\ balance' \in [Agents -> Nat]
<1>1. /\ Total(balance) \in Nat /\ Total([balance EXCEPT ![a] = n]) = Total(balance) + (n - balance[a])
  BY TotalChanges DEF FreezeParameters, WalletsInv
<1>2. Total(balance)' = Total(balance')
  OBVIOUS
<1>3. balance[a] \in Nat /\ pool \in Nat /\ pool + Total(balance) = Supply
  BY DEF WalletsInv
<1>4. Total(balance') = Total(balance) + (n - balance[a])
  BY <1>1
<1>. QED BY <1>1, <1>2, <1>3, <1>4 DEF WalletsInv

\* The closing of records leaves the others as they are.
LEMMA ClosedRecords ==
  ASSUME RegistryInv, NEW ids \in SUBSET {i \in FreezeIds : Open(i)},
         NEW status \in {"unfrozen", "expired"}, records' = Closed(ids, status)
  PROVE  /\ records' \in FreezeRecords
         /\ \A i \in FreezeIds :
              /\ records'[i].status = "frozen" <=> Open(i) /\ i \notin ids
              /\ records'[i].agent = records[i].agent
              /\ records'[i].status # "none" <=> records[i].status # "none"
<1>1. records \in FreezeRecords
  BY DEF RegistryInv
<1>2. \A i \in FreezeIds :
        records'[i] = IF i \in ids THEN [records[i] EXCEPT !.status = status] ELSE records[i]
  BY DEF Closed
<1>3. \A i \in FreezeIds : records'[i] \in [agent : Agents \cup {NoAgent}, until : Nat,
                                          status : {"none", "frozen", "unfrozen", "expired"}]
  BY <1>1, <1>2 DEF FreezeRecords
<1>4. records' \in FreezeRecords
  BY <1>3 DEF Closed, FreezeRecords
<1>. QED BY <1>1, <1>2, <1>4 DEF FreezeRecords, Open

\* Agents are released as their records are closed, all of an agent's with the agent.
LEMMA ReleaseStep ==
  ASSUME RegistryInv, WalletsInv,
         NEW ids \in SUBSET {i \in FreezeIds : Open(i)},
         NEW status \in {"unfrozen", "expired"}, records' = Closed(ids, status),
         Persist(ids),
         frozenAgents' = frozenAgents \ {records[i].agent : i \in ids},
         early' = early \ {records[i].agent : i \in ids},
         UnfreezeWallets({records[i].agent : i \in ids}),
         UNCHANGED <<now, restarts, created, balance, pool, counter, calling>>
  PROVE  RegistryInv' /\ WalletsInv'
<1> DEFINE released == {records[i].agent : i \in ids}
<1>1. /\ records' \in FreezeRecords
      /\ \A i \in FreezeIds :
           /\ records'[i].status = "frozen" <=> Open(i) /\ i \notin ids
           /\ records'[i].agent = records[i].agent
           /\ records'[i].status # "none" <=> records[i].status # "none"
  BY ClosedRecords
<1>2. rows' \in FreezeRecords
  BY <1>1, PersistTyped DEF RegistryInv
<1>3. \A i \in FreezeIds : Open(i) => (i \in ids <=> records[i].agent \in released)
  BY DEF RegistryInv
<1>4. \A i \in FreezeIds : Open(i)' <=> Open(i) /\ i \notin ids
  BY <1>1 DEF Open
<1> HIDE DEF released
<1>5. /\ frozenAgents' = frozenAgents \ released /\ early' = early \ released
      /\ UnfreezeWallets(released)
  BY DEF released
<1>6. \A i \in FreezeIds : Open(i)' =>
        /\ records'[i].agent \in frozenAgents'
        /\ \A k \in FreezeIds : Open(k)' /\ records'[k].agent = records'[i].agent => k = i
  BY <1>1, <1>3, <1>4, <1>5 DEF RegistryInv
<1>7. \A a \in frozenAgents' : \E i \in FreezeIds : Open(i)' /\ records'[i].agent = a
  BY <1>1, <1>3, <1>4, <1>5 DEF RegistryInv
<1>8. RegistryInv'
  BY <1>1, <1>2, <1>5, <1>6, <1>7 DEF RegistryInv
<1>9. Total(balance)' = Total(balance)
  OBVIOUS
<1>10. \A a \in Agents : wallet'[a] = IF a \in released /\ wallet[a] = "frozen" THEN "active"
                                      ELSE wallet[a]
  BY <1>5 DEF UnfreezeWallets
<1>11. wallet' \in [Agents -> Statuses]
  BY <1>5, <1>10 DEF UnfreezeWallets, WalletsInv, Statuses
<1>12. released \subseteq frozenAgents
  BY DEF released, RegistryInv
<1>13. WalletsInv'
  BY <1>5, <1>9, <1>10, <1>11, <1>12 DEF WalletsInv, Statuses
<1>. QED BY <1>8, <1>13

LEMMA FreezeStep ==
  ASSUME FreezeParameters, RegistryInv, WalletsInv, [Next]_vars PROVE RegistryInv' /\ WalletsInv'
<1>1. ASSUME NEW a \in Agents, CreateAgent(a) PROVE RegistryInv' /\ WalletsInv'
  <2>1. /\ a \notin created /\ created' = created \cup {a} /\ CreateWallet(a)
        /\ UNCHANGED <<now, restarts, frozenAgents, early, records, counter, rows, calling>>
    BY <1>1 DEF CreateAgent, freezes
  <2>2. RegistryInv'
    BY <2>1 DEF RegistryInv, Open
  <2>3. CASE UNCHANGED wallets
    BY <2>1, <2>2, <2>3, WalletsStay
  <2>4. CASE /\ pool >= DefaultBalance
             /\ wallet' = [wallet EXCEPT ![a] = "active"]
             /\ balance' = [balance EXCEPT ![a] = DefaultBalance]
             /\ pool' = pool - DefaultBalance
    <3>1. wallet[a] = "none" /\ balance[a] = 0 /\ a \notin frozenAgents \ early
      BY <2>1 DEF WalletsInv, RegistryInv
    <3>2. DefaultBalance \in Nat /\ pool \in Nat /\ pool' \in Nat
          /\ pool' = pool + (balance[a] - DefaultBalance)
      BY <2>4, <3>1, AmountsAssumption DEF WalletsInv
    <3>3. pool' + Total(balance)' = Supply /\ balance' \in [Agents -> Nat]
      BY <2>4, <3>2, TokensStay
    <3>4. \A b \in Agents : b # a => wallet'[b] = wallet[b] /\ balance'[b] = balance[b]
      BY <2>4 DEF WalletsInv
    <3>5. wallet'[a] = "active" /\ wallet' \in [Agents -> Statuses]
      BY <2>4 DEF WalletsInv, Statuses
    <3>. QED BY <2>1, <2>2, <3>1, <3>2, <3>3, <3>4, <3>5 DEF WalletsInv
  <2>. QED BY <2>1, <2>3, <2>4 DEF CreateWallet
<1>2. ASSUME NEW a \in Agents, BeginIteration(a) PROVE RegistryInv' /\ WalletsInv'
  <2>1. /\ a \in created /\ calling' = calling \cup {a} /\ UNCHANGED wallets
        /\ UNCHANGED <<now, restarts, created, frozenAgents, early, records, counter, rows>>
    BY <1>2 DEF BeginIteration, freezes
  <2>2. RegistryInv'
    BY <2>1 DEF RegistryInv, Open
  <2>. QED BY <2>1, <2>2, WalletsStay
<1>3. ASSUME NEW a \in Agents, EndIteration(a) PROVE RegistryInv' /\ WalletsInv'
  <2>1. /\ calling' = calling \ {a} /\ RecordConsumption(a)
        /\ UNCHANGED <<now, restarts, created, frozenAgents, early, records, counter, rows>>
    BY <1>3 DEF EndIteration, freezes
  <2>2. RegistryInv'
    BY <2>1 DEF RegistryInv, Open
  <2>3. CASE UNCHANGED wallets
    BY <2>1, <2>2, <2>3, WalletsStay
  <2>4. ASSUME NEW amount \in Costs, Debit(a, amount), ~UNCHANGED wallets PROVE WalletsInv'
    <3>1. /\ wallet[a] = "active" /\ balance[a] >= amount
          /\ balance' = [balance EXCEPT ![a] = balance[a] - amount]
          /\ pool' = pool + amount /\ wallet' = wallet
      BY <2>4 DEF Debit
    <3>2. /\ amount \in Nat /\ balance[a] \in Nat /\ balance[a] - amount \in Nat
          /\ pool \in Nat /\ pool' \in Nat /\ pool' = pool + (balance[a] - (balance[a] - amount))
      BY <3>1, AmountsAssumption DEF WalletsInv
    <3>3. pool' + Total(balance)' = Supply /\ balance' \in [Agents -> Nat]
      BY <3>1, <3>2, TokensStay
    <3>4. \A b \in Agents : b # a => balance'[b] = balance[b]
      BY <3>1 DEF WalletsInv
    <3>. QED BY <2>1, <3>1, <3>2, <3>3, <3>4 DEF WalletsInv
  <2>. QED BY <2>1, <2>2, <2>3, <2>4 DEF RecordConsumption
<1>4. ASSUME NEW a \in Agents, FreezeAgent(a) PROVE RegistryInv' /\ WalletsInv'
  <2>0. PICK i : i = counter + 1
    OBVIOUS
  <2> DEFINE new == [agent |-> a, until |-> now + FreezeTicks, status |-> "frozen"]
  <2>1. /\ a \notin frozenAgents /\ counter < MaxFreezes /\ counter' = i
        /\ early' = early \cup ({a} \ created)
        /\ records' = [records EXCEPT ![i] = new]
        /\ frozenAgents' = frozenAgents \cup {a} /\ Persist({i})
        /\ wallet' = [wallet EXCEPT ![a] = IF @ = "active" THEN "frozen" ELSE @]
        /\ UNCHANGED <<now, restarts, created, balance, pool, calling>>
    BY <1>4, <2>0 DEF FreezeAgent, FreezeWallet
  <2>2. /\ i \in FreezeIds /\ i \notin 1..counter /\ counter' \in 0..MaxFreezes
        /\ 1..counter' = (1..counter) \cup {i}
        /\ now + FreezeTicks \in Nat
    BY <2>0, <2>1 DEF FreezeParameters, RegistryInv, FreezeIds
  <2>3. records' \in FreezeRecords /\ records'[i] = new
        /\ \A k \in FreezeIds : k # i => records'[k] = records[k]
    BY <2>1, <2>2 DEF RegistryInv, FreezeRecords
  <2>4. rows' \in FreezeRecords
    BY <2>1, <2>3, PersistTyped DEF RegistryInv
  <2>5. ~Open(i) /\ Open(i)' /\ \A k \in FreezeIds : k # i => (Open(k)' <=> Open(k))
    <3>1. records[i].status = "none"
      BY <2>2 DEF RegistryInv
    <3>2. records'[i].status = "frozen"
      BY <2>3
    <3> HIDE DEF new
    <3>. QED BY <2>2, <2>3, <3>1, <3>2 DEF Open
  <2>6. \A k \in FreezeIds : records'[k].status # "none" <=> k \in 1..counter'
    BY <2>2, <2>3 DEF RegistryInv
  <2>7. \A k \in FreezeIds : Open(k) => records[k].agent # a
    BY <2>1 DEF RegistryInv
  <2>8. \A k \in FreezeIds : Open(k)' =>
          /\ records'[k].agent \in frozenAgents'
          /\ \A l \in FreezeIds : Open(l)' /\ records'[l].agent = records'[k].agent => l = k
    BY <2>1, <2>3, <2>5, <2>7 DEF RegistryInv
  <2>9. \A b \in frozenAgents' : \E k \in FreezeIds : Open(k)' /\ records'[k].agent = b
    <3> TAKE b \in frozenAgents'
    <3>1. CASE b = a
      <4>1. records'[i].agent = a
        BY <2>3
      <4> HIDE DEF new
      <4>. QED BY <2>2, <2>5, <3>1, <4>1
    <3>2. CASE b # a
      <4>1. PICK k \in FreezeIds : Open(k) /\ records[k].agent = b
        BY <2>1, <3>2 DEF RegistryInv
      <4>. QED BY <2>3, <2>5, <4>1
    <3>. QED BY <3>1, <3>2
  <2>10. RegistryInv'
    BY <2>1, <2>2, <2>3, <2>4, <2>6, <2>8, <2>9 DEF RegistryInv
  <2>11. Total(balance)' = Total(balance)
    BY <2>1
  <2>12. WalletsInv'
    BY <2>1, <2>11 DEF WalletsInv, Statuses
  <2>. QED BY <2>10, <2>12
<1>5. ASSUME NEW a \in Agents, UnfreezeAgent(a) PROVE RegistryInv' /\ WalletsInv'
  <2> DEFINE ids == {i \in FreezeIds : Open(i) /\ records[i].agent = a}
  <2>1. {records[i].agent : i \in ids} = {a}
    BY <1>5 DEF UnfreezeAgent, RegistryInv
  <2>2. /\ frozenAgents' = frozenAgents \ {a} /\ early' = early \ {a} /\ UnfreezeWallets({a})
        /\ records' = Closed(ids, "unfrozen") /\ Persist(ids)
        /\ UNCHANGED <<now, restarts, created, balance, pool, counter, calling>>
    BY <1>5 DEF UnfreezeAgent
  <2>3. ids \in SUBSET {i \in FreezeIds : Open(i)}
    OBVIOUS
  <2> HIDE DEF ids
  <2>. QED BY <2>1, <2>2, <2>3, ReleaseStep
<1>6. ASSUME AuditCycle PROVE RegistryInv' /\ WalletsInv'
  <2>1. /\ frozenAgents' = frozenAgents \ {records[i].agent : i \in Due(records)}
        /\ early' = early \ {records[i].agent : i \in Due(records)}
        /\ UnfreezeWallets({records[i].agent : i \in Due(records)})
        /\ records' = Closed(Due(records), "expired") /\ Persist(Due(records))
        /\ UNCHANGED <<now, restarts, created, balance, pool, counter, calling>>
    BY <1>6 DEF AuditCycle
  <2>2. Due(records) \in SUBSET {i \in FreezeIds : Open(i)}
    BY DEF Due, Open
  <2>. QED BY <2>1, <2>2, ReleaseStep
<1>7. ASSUME Restart PROVE RegistryInv' /\ WalletsInv'
  <2>1. PICK written \in SUBSET Due(rows) :
          rows' = [i \in FreezeIds |-> IF i \in written
                                         THEN [rows[i] EXCEPT !.status = "expired"] ELSE rows[i]]
    BY <1>7 DEF Restart
  <2>2. rows' \in FreezeRecords
    BY <2>1 DEF RegistryInv, FreezeRecords
  <2>3. /\ restarts < MaxRestarts /\ restarts' = restarts + 1 /\ UNCHANGED <<now, created>>
        /\ records' = [i \in FreezeIds |-> NoRecord] /\ frozenAgents' = {} /\ counter' = 0
        /\ wallet' = [a \in Agents |-> "none"] /\ balance' = [a \in Agents |-> 0]
        /\ early' = {}
        /\ pool' = Supply /\ calling' = {}
    BY <1>7 DEF Restart
  <2>4. restarts' \in 0..MaxRestarts
    BY <2>3 DEF RegistryInv, FreezeParameters
  <2>5. records' \in FreezeRecords /\ \A i \in FreezeIds : records'[i].status = "none" /\ ~Open(i)'
    BY <2>3 DEF NoRecord, FreezeRecords, Open
  <2>6. RegistryInv'
    BY <2>2, <2>3, <2>4, <2>5 DEF RegistryInv, FreezeParameters
  <2>7. Total(balance)' = 0
    BY <2>3, TotalOfNothing DEF FreezeParameters
  <2>8. WalletsInv'
    BY <2>3, <2>7, AmountsAssumption DEF WalletsInv, Statuses
  <2>. QED BY <2>6, <2>8
<1>8. ASSUME Tick PROVE RegistryInv' /\ WalletsInv'
  <2>1. /\ now' \in 0..MaxTime /\ UNCHANGED wallets
        /\ UNCHANGED <<restarts, created, frozenAgents, early, records, counter, rows, calling>>
    BY <1>8 DEF Tick, freezes, RegistryInv, FreezeParameters
  <2>2. RegistryInv'
    BY <2>1 DEF RegistryInv, Open
  <2>. QED BY <2>1, <2>2, WalletsStay
<1>9. CASE UNCHANGED vars
  <2>1. /\ UNCHANGED wallets
        /\ UNCHANGED <<now, restarts, created, frozenAgents, early, records, counter, rows, calling>>
    BY <1>9 DEF vars, wallets
  <2>2. RegistryInv'
    BY <2>1 DEF RegistryInv, Open
  <2>. QED BY <2>1, <2>2, WalletsStay
<1>. QED BY <1>1, <1>2, <1>3, <1>4, <1>5, <1>6, <1>7, <1>8, <1>9 DEF Next

\* What the invariant says of the registry and the wallets, as the module states it.
LEMMA FreezeImplies ==
  ASSUME FreezeParameters, RegistryInv, WalletsInv PROVE FreezeCoherent /\ TypeOK
<1>1. ASSUME NEW a \in Agents
      PROVE  Cardinality({i \in FreezeIds : Open(i) /\ records[i].agent = a})
               = IF a \in frozenAgents THEN 1 ELSE 0
  <2> DEFINE ids == {i \in FreezeIds : Open(i) /\ records[i].agent = a}
  <2>1. CASE a \in frozenAgents
    <3>1. PICK i \in FreezeIds : Open(i) /\ records[i].agent = a
      BY <2>1 DEF RegistryInv
    <3>2. ids = {i}
      BY <3>1 DEF RegistryInv
    <3> HIDE DEF ids
    <3>3. Cardinality(ids) = 1
      BY <3>2, FS_Singleton
    <3>. QED BY <2>1, <3>3 DEF ids
  <2>2. CASE a \notin frozenAgents
    <3>1. ids = {}
      BY <2>2 DEF RegistryInv
    <3> HIDE DEF ids
    <3>2. Cardinality(ids) = 0
      BY <3>1, FS_EmptySet
    <3>. QED BY <2>2, <3>2 DEF ids
  <2>. QED BY <2>1, <2>2
<1>2. pool + MapThenSumSet(LAMBDA a : balance[a], Agents) = Supply
  BY DEF WalletsInv, Total
<1>3. FreezeCoherent
  BY <1>1, <1>2 DEF FreezeCoherent, WalletsInv
<1>4. \A a \in Agents : balance[a] \in 0..Supply
  <2> TAKE a \in Agents
  <2>1. balance[a] \in Nat /\ balance[a] <= Total(balance) /\ Total(balance) \in Nat
    BY TotalChanges DEF FreezeParameters, WalletsInv
  <2>. QED BY <2>1, AmountsAssumption DEF WalletsInv
<1>5. pool \in 0..Supply
  <2>1. Total(balance) \in Nat
    <3>1. PICK f : IsSum(f, balance, SUBSET Agents) /\ Total(balance) = f[Agents]
      BY TotalIs DEF FreezeParameters
    <3>. QED BY <3>1, SumIsNat DEF FreezeParameters, WalletsInv
  <2>. QED BY <2>1, AmountsAssumption DEF WalletsInv
<1>6. balance \in [Agents -> 0..Supply]
  BY <1>4 DEF WalletsInv
<1>7. TypeOK
  BY <1>5, <1>6 DEF RegistryInv, WalletsInv, TypeOK, FreezeRecords, Statuses
<1>. QED BY <1>3, <1>7

LEMMA FreezeInvariant ==
  ASSUME FreezeParameters PROVE Spec => []FreezeInv
<1>1. FreezeInv /\ [Next]_vars => FreezeInv'
  BY FreezeStep DEF FreezeInv
<1>. QED BY FreezeStart, <1>1, PTL DEF Spec

\* The registry of frozen agents, the open records and the wallets tell the same story
\* after any order of creations, freezes, releases, expiries, payments and restarts: an
\* agent is frozen exactly when one record of it is open, no wallet stays frozen
\* without a freeze, that of an agent frozen while it existed is not active until its
\* release, and no token is made or lost (freezeManager.ts:186, walletManager.ts:259).
\* Nothing is claimed of the wallet of an agent created after its freeze but that it is
\* not frozen without one.
THEOREM FrozenAndPaidForAlike ==
  ASSUME FreezeParameters PROVE Spec => []FreezeCoherent
<1>1. FreezeInv => FreezeCoherent
  BY FreezeImplies DEF FreezeInv
<1>. QED BY <1>1, FreezeInvariant, PTL

\* The same, in the behaviours of the run: the other parts leave the freezes alone.
LEMMA FreezesOfTheRun ==
  ASSUME FreezeParameters PROVE OneByOne => []FreezeInv
<1>1. OneByOneInit => FreezeInv
  BY FreezeStart DEF OneByOneInit
<1>2. FreezeInv /\ [OneByOneNext]_<<part, freeze, dialogues, gate>> => FreezeInv'
  BY FreezeStep DEF FreezeInv, OneByOneNext, freeze
<1>. QED BY <1>1, <1>2, PTL DEF OneByOne

-----------------------------------------------------------------------------
(* The outer loop.  A dialogue is begun, or does a step that ends it or    *)
(* takes it to the head of its loop; splits leave the dialogues alone.     *)

LifecycleEvents ==
  {"component.entered", "iteration.exited", "dependency.blocked", "deadline.reached",
   "budget.exhausted", "goal.unmet", "goal.satisfied"}

DialogueParameters ==
  /\ Root \notin Siblings /\ "none" \notin Domains /\ Events \subseteq LifecycleEvents
  /\ MaxCycles \in Nat /\ MaxRuns \in Nat /\ MaxLive \in Nat

\* A dialogue, as Dialogues!TypeOK has it.
Dialogue ==
  [agent : Dialogues!L1Agents, comp : Dialogues!States, node : {"open", "settled"},
   cycles : 0..MaxCycles, outcome : {"none", "going", "complete", "error"}]

\* One that goes on has cycles left.
DialoguesInv ==
  /\ Dialogues!TypeOK
  /\ \A r \in Dialogues!Runs : runs[r].outcome = "going" => runs[r].cycles < MaxCycles
  /\ \A a \in Dialogues!L1Agents : IsFiniteSet(waits[a])

LEMMA DialoguesAre ==
  ASSUME DialoguesInv PROVE runs \in [Dialogues!Runs -> Dialogue]
BY DEF DialoguesInv, Dialogues!TypeOK, Dialogue

\* A dialogue after its start or a step of it: it has ended, or has cycles left.
AtTheHead(run, x) ==
  /\ x = [run EXCEPT !.outcome = x.outcome] /\ x.outcome \in {"going", "complete", "error"}
  /\ x.outcome = "going" => x.cycles < MaxCycles
  /\ x.outcome = "complete" => self'[x.agent] = "done"

LEMMA HeadIs ==
  ASSUME DialogueParameters, NEW run \in Dialogue
  PROVE  AtTheHead(run, Dialogues!Head(run)) /\ Dialogues!Head(run) \in Dialogue
<1> DEFINE x == Dialogues!Head(run)
           o == x.outcome
<1>1. run.cycles \in 0..MaxCycles /\ MaxCycles \in Nat
  BY DEF DialogueParameters, Dialogue
<1>2. CASE Dialogues!Converged(run.agent)
  <2>1. x = [run EXCEPT !.outcome = "complete"]
    BY <1>2 DEF Dialogues!Head
  <2>2. self'[run.agent] = "done"
    BY <1>2 DEF Dialogues!Converged
  <2>. QED BY <2>1, <2>2 DEF Dialogue, AtTheHead
<1>3. CASE ~Dialogues!Converged(run.agent) /\ run.cycles >= MaxCycles
  <2>1. x = [run EXCEPT !.outcome = "error"]
    BY <1>3 DEF Dialogues!Head
  <2>. QED BY <2>1 DEF Dialogue, AtTheHead
<1>4. CASE ~Dialogues!Converged(run.agent) /\ run.cycles < MaxCycles
  <2>1. x = [run EXCEPT !.outcome = "going"]
    BY <1>1, <1>4 DEF Dialogues!Head
  <2>. QED BY <1>4, <2>1 DEF Dialogue, AtTheHead
<1>. QED BY <1>1, <1>2, <1>3, <1>4

\* What a dialogue comes to after a cycle that did something or nothing.
LEMMA NextCycleIs ==
  ASSUME DialogueParameters, NEW run \in Dialogue, run.cycles < MaxCycles
  PROVE  LET x == Dialogues!NextCycle(run)
         IN  /\ x \in Dialogue /\ x.agent = run.agent /\ x.comp = run.comp
             /\ x.outcome \in {"going", "complete", "error"}
             /\ x.outcome = "going" => x.cycles < MaxCycles
             /\ x.outcome = "complete" => self'[x.agent] = "done"
<1> DEFINE counted == [run EXCEPT !.cycles = @ + 1]
<1>1. counted \in Dialogue
  BY DEF DialogueParameters, Dialogue
<1>2. counted.agent = run.agent /\ counted.comp = run.comp
  BY DEF Dialogue
<1>3. Dialogues!NextCycle(run) = Dialogues!Head(counted)
  BY DEF Dialogues!NextCycle
<1> HIDE DEF counted
<1>4. AtTheHead(counted, Dialogues!Head(counted)) /\ Dialogues!Head(counted) \in Dialogue
  BY <1>1, HeadIs
<1>5. /\ Dialogues!Head(counted).agent = counted.agent
      /\ Dialogues!Head(counted).comp = counted.comp
  BY <1>1, <1>4 DEF AtTheHead, Dialogue
<1>. QED BY <1>2, <1>3, <1>4, <1>5 DEF AtTheHead

\* What the controller decides is a state of the table.
LEMMA DecisionsAreStates ==
  ASSUME DialogueParameters, NEW e \in Events, NEW s \in Dialogues!States, NEW outstanding
  PROVE  Dialogues!Decisions(e, s, outstanding) \subseteq Dialogues!States
<1>1. Dialogues!Legal(e, s, outstanding) \subseteq Dialogues!States
  BY DEF DialogueParameters, LifecycleEvents, Dialogues!Legal, Dialogues!States, Dialogues!Final
<1>. QED BY <1>1 DEF Dialogues!Decisions, Dialogues!Fallback, Dialogues!States

\* A decision of dialogue r, taken with the ledgers as they are.
Decides(r, comp) ==
  \E e \in Events, d \in Dialogues!States, written \in BOOLEAN :
    /\ d \in Dialogues!Decisions(e, runs[r].comp, waits[runs[r].agent])
    /\ comp = Dialogues!Commit(r, d, written)
    /\ saved' = IF d = "suspend" /\ written THEN saved \cup {r} ELSE saved
    /\ self' = IF d = "terminate" THEN [self EXCEPT ![runs[r].agent] = "done"] ELSE self

\* Dialogue r has done a step and is now x.
Becomes(r, x) ==
  /\ runs[r].outcome = "going" /\ runs' = [runs EXCEPT ![r] = x]
  /\ x \in Dialogue /\ x.agent = runs[r].agent
  /\ x.outcome \in {"going", "complete", "error"}
  /\ x.outcome = "going" => x.cycles < MaxCycles
  /\ x.outcome = "complete" => self'[x.agent] = "done"
  /\ UNCHANGED <<alive, hosts, peers, holds, starting, joining>>
  /\ (x.comp = runs[r].comp /\ UNCHANGED <<self, saved>>) \/ Decides(r, x.comp)

LEMMA StepIs ==
  ASSUME DialogueParameters, DialoguesInv, NEW r \in Dialogues!Runs, Dialogues!Step(r)
  PROVE  \E x : Becomes(r, x)
<1> DEFINE run == runs[r]
           failed == [run EXCEPT !.outcome = "error"]
<1>1. run \in Dialogue
  BY DialoguesAre
<1>2. failed \in Dialogue /\ failed.agent = run.agent /\ failed.comp = run.comp
      /\ failed.outcome = "error"
  BY <1>1 DEF Dialogue
<1>3. run.outcome = "going"
  BY DEF Dialogues!Step, Dialogues!StepGoesOn, Dialogues!StepFails, Dialogues!StepReportsChild,
         Dialogues!StepDecides, Dialogues!Going
<1>4. run.cycles < MaxCycles
  BY <1>3 DEF DialoguesInv
<1>5. /\ Dialogues!NextCycle(run) \in Dialogue
      /\ Dialogues!NextCycle(run).agent = run.agent
      /\ Dialogues!NextCycle(run).comp = run.comp
      /\ Dialogues!NextCycle(run).outcome \in {"going", "complete", "error"}
      /\ Dialogues!NextCycle(run).outcome = "going" => Dialogues!NextCycle(run).cycles < MaxCycles
      /\ Dialogues!NextCycle(run).outcome = "complete"
           => self'[Dialogues!NextCycle(run).agent] = "done"
  BY <1>1, <1>4, NextCycleIs
<1>6. CASE Dialogues!StepGoesOn(r)
  <2>1. /\ runs' = [runs EXCEPT ![r] = Dialogues!NextCycle(run)]
        /\ UNCHANGED <<alive, hosts, self, peers, holds, starting, joining, saved>>
    BY <1>6 DEF Dialogues!StepGoesOn, Dialogues!ledgers
  <2>. QED BY <1>3, <1>5, <2>1 DEF Becomes
<1>7. CASE Dialogues!StepFails(r)
  <2>1. /\ runs' = [runs EXCEPT ![r] = failed]
        /\ UNCHANGED <<alive, hosts, self, peers, holds, starting, joining, saved>>
    BY <1>1, <1>7 DEF Dialogues!StepFails, Dialogues!ledgers
  <2>. QED BY <1>2, <1>3, <2>1 DEF Becomes
<1>8. ASSUME NEW k \in Kids, Dialogues!StepReportsChild(r, k) PROVE \E x : Becomes(r, x)
  <2>1. /\ \/ runs' = [runs EXCEPT ![r] = Dialogues!NextCycle(run)]
           \/ runs' = [runs EXCEPT ![r] = failed]
        /\ UNCHANGED <<alive, hosts, self, peers, holds, starting, joining, saved>>
    BY <1>8 DEF Dialogues!StepReportsChild
  <2>. QED BY <1>2, <1>3, <1>5, <2>1 DEF Becomes
<1>9. ASSUME NEW e \in Events, Dialogues!StepDecides(r, e) PROVE \E x : Becomes(r, x)
  <2>1. PICK d \in Dialogues!Decisions(e, run.comp, waits[run.agent]),
             written \in BOOLEAN, node \in {"open", "settled"} :
          LET moved == [run EXCEPT !.comp = Dialogues!Commit(r, d, written), !.node = node]
          IN  /\ saved' = IF d = "suspend" /\ written THEN saved \cup {r} ELSE saved
              /\ self' = IF d = "terminate" THEN [self EXCEPT ![run.agent] = "done"] ELSE self
              /\ UNCHANGED <<alive, hosts, peers, holds, starting, joining>>
              /\ runs' = [runs EXCEPT ![r] = IF written THEN Dialogues!NextCycle(moved)
                                             ELSE [moved EXCEPT !.outcome = "error"]]
    BY <1>9, ZenonT(40) DEF Dialogues!StepDecides, Dialogues!Finishes
  <2> DEFINE moved == [run EXCEPT !.comp = Dialogues!Commit(r, d, written), !.node = node]
             x == IF written THEN Dialogues!NextCycle(moved) ELSE [moved EXCEPT !.outcome = "error"]
  <2>2. d \in Dialogues!States
    BY <1>1, DecisionsAreStates DEF Dialogue
  <2>3. Dialogues!Commit(r, d, written) \in Dialogues!States
    BY <1>1, <2>2 DEF Dialogues!Commit, Dialogue
  <2>4. /\ moved \in Dialogue /\ moved.agent = run.agent /\ moved.cycles < MaxCycles
        /\ moved.comp = Dialogues!Commit(r, d, written)
    BY <1>1, <1>4, <2>3 DEF Dialogue
  <2>5. runs' = [runs EXCEPT ![r] = x]
    BY <2>1
  <2>6. Decides(r, Dialogues!Commit(r, d, written))
    BY <2>1, <2>2 DEF Decides
  <2>9. UNCHANGED <<alive, hosts, peers, holds, starting, joining>>
    BY <2>1
  <2>7. CASE written
    <3>1. x = Dialogues!NextCycle(moved)
      BY <2>7
    <3> HIDE DEF moved, x
    <3>2. /\ x \in Dialogue /\ x.agent = moved.agent /\ x.comp = moved.comp
          /\ x.outcome \in {"going", "complete", "error"}
          /\ x.outcome = "going" => x.cycles < MaxCycles
          /\ x.outcome = "complete" => self'[x.agent] = "done"
      BY <2>4, <3>1, NextCycleIs
    <3>3. Decides(r, x.comp)
      BY <2>4, <2>6, <3>2
    <3>. QED BY <1>3, <2>4, <2>5, <2>9, <3>2, <3>3 DEF Becomes
  <2>8. CASE ~written
    <3>1. x = [moved EXCEPT !.outcome = "error"]
      BY <2>8
    <3> HIDE DEF moved, x
    <3>2. /\ x \in Dialogue /\ x.agent = moved.agent /\ x.comp = moved.comp
          /\ x.outcome = "error"
      BY <2>4, <3>1 DEF Dialogue
    <3>3. Decides(r, x.comp)
      BY <2>4, <2>6, <3>2
    <3>. QED BY <1>3, <2>4, <2>5, <2>9, <3>2, <3>3 DEF Becomes
  <2>. QED BY <2>7, <2>8
<1>. QED BY <1>6, <1>7, <1>8, <1>9 DEF Dialogues!Step

\* Dialogue r is begun, by agent a.
Begins(r, a) ==
  /\ runs[r].outcome = "none" /\ a \in alive /\ hosts' = hosts \cup {a}
  /\ UNCHANGED <<alive, self, peers, holds, waits, settled, joining, saved>>
  /\ \E x \in Dialogue :
       /\ runs' = [runs EXCEPT ![r] = x] /\ x.agent = a /\ x.comp = "running"
       /\ x.outcome \in {"going", "complete", "error"}
       /\ x.outcome = "going" => x.cycles < MaxCycles
       /\ x.outcome = "complete" => self'[a] = "done"

LEMMA BeginIs ==
  ASSUME DialogueParameters, NEW a \in Dialogues!L1Agents, Dialogues!Begin(a)
  PROVE  \E r \in Dialogues!Runs : Begins(r, a)
<1> DEFINE new == [Dialogues!NoRun EXCEPT !.agent = a]
<1>1. new \in Dialogue /\ new.agent = a /\ new.comp = "running"
  BY DEF Dialogues!NoRun, Dialogue, DialogueParameters, Dialogues!L1Agents, Dialogues!States
<1>2. PICK r \in Dialogues!Runs :
        /\ runs[r].outcome = "none" /\ a \in alive /\ hosts' = hosts \cup {a}
        /\ UNCHANGED <<alive, self, peers, holds, waits, settled, joining, saved>>
        /\ runs' = [runs EXCEPT ![r] = Dialogues!Head(new)]
  BY DEF Dialogues!Begin, Dialogues!Fresh
<1> HIDE DEF new
<1>3. AtTheHead(new, Dialogues!Head(new)) /\ Dialogues!Head(new) \in Dialogue
  BY <1>1, HeadIs
<1>4. /\ Dialogues!Head(new).agent = new.agent
      /\ Dialogues!Head(new).comp = new.comp
  BY <1>1, <1>3 DEF AtTheHead, Dialogue
<1>. QED BY <1>1, <1>2, <1>3, <1>4 DEF Begins, AtTheHead

LEMMA DialoguesSameCardinality == \A S : Dialogues!Cardinality(S) = Cardinality(S)
BY DEF Dialogues!Cardinality, Cardinality

\* The children an agent waits for, and those it need not wait for any more.
WaitsTyped ==
  /\ waits \in [Dialogues!L1Agents -> SUBSET Kids]
  /\ settled \in [Dialogues!L1Agents -> SUBSET Kids]
  /\ \A a \in Dialogues!L1Agents :
       /\ IsFiniteSet(waits[a]) /\ Cardinality(waits[a]) <= MaxLive
       /\ waits[a] \cap settled[a] = {}

LEMMA WaitsAre == DialoguesInv => WaitsTyped
BY DialoguesSameCardinality DEF DialoguesInv, Dialogues!TypeOK, WaitsTyped

\* No cycle registers a child beyond the limit, or one it knows.
LEMMA WaitsStep ==
  ASSUME DialogueParameters, DialoguesInv, NEW r \in Dialogues!Runs, Dialogues!Step(r)
  PROVE  WaitsTyped'
<1>0. WaitsTyped
  BY WaitsAre
<1>1. CASE UNCHANGED <<waits, settled>>
  BY <1>0, <1>1 DEF WaitsTyped
<1>2. ASSUME NEW k \in Kids, Dialogues!StepReportsChild(r, k) PROVE WaitsTyped'
  <2> DEFINE a == runs[r].agent
  <2>1. a \in Dialogues!L1Agents
    BY DialoguesAre DEF Dialogue
  <2>2. CASE /\ k \notin waits[a] \cup settled[a]
             /\ Cardinality(waits[a]) < MaxLive
             /\ waits' = [waits EXCEPT ![a] = @ \cup {k}] /\ settled' = settled
    <3>1. /\ IsFiniteSet(waits[a] \cup {k})
          /\ Cardinality(waits[a] \cup {k}) = Cardinality(waits[a]) + 1
          /\ Cardinality(waits[a]) \in Nat
      BY <1>0, <2>1, <2>2, FS_AddElement, FS_CardinalityType DEF WaitsTyped
    <3>2. Cardinality(waits[a] \cup {k}) <= MaxLive
      BY <2>2, <3>1 DEF DialogueParameters
    <3> HIDE DEF a
    <3>. QED BY <1>0, <2>1, <2>2, <3>1, <3>2 DEF WaitsTyped
  <2>3. CASE /\ k \in waits[a]
             /\ waits' = [waits EXCEPT ![a] = @ \ {k}]
             /\ settled' = [settled EXCEPT ![a] = @ \cup {k}]
    <3>1. /\ IsFiniteSet(waits[a] \ {k}) /\ Cardinality(waits[a] \ {k}) = Cardinality(waits[a]) - 1
          /\ Cardinality(waits[a]) \in Nat
      BY <1>0, <2>1, <2>3, FS_RemoveElement, FS_CardinalityType DEF WaitsTyped
    <3>2. Cardinality(waits[a] \ {k}) <= MaxLive
      BY <1>0, <2>1, <3>1 DEF WaitsTyped, DialogueParameters
    <3> HIDE DEF a
    <3>. QED BY <1>0, <2>1, <2>3, <3>1, <3>2 DEF WaitsTyped
  <2>. QED BY <1>1, <1>2, <2>2, <2>3, DialoguesSameCardinality DEF Dialogues!StepReportsChild
<1>. QED BY <1>1, <1>2
     DEF Dialogues!Step, Dialogues!StepGoesOn, Dialogues!StepFails, Dialogues!StepDecides,
         Dialogues!ledgers

LEMMA DialoguesInit ==
  ASSUME DialogueParameters, Dialogues!Init PROVE DialoguesInv
<1>1. Dialogues!NoRun \in Dialogue /\ Dialogues!NoRun.outcome = "none"
  BY DEF DialogueParameters, Dialogues!NoRun, Dialogue, Dialogues!L1Agents, Dialogues!States
<1>2. IsFiniteSet({}) /\ Cardinality({}) = 0
  BY FS_EmptySet
<1>3. WaitsTyped
  BY <1>2 DEF Dialogues!Init, WaitsTyped, DialogueParameters
<1>4. runs \in [Dialogues!Runs -> Dialogue]
      /\ \A r \in Dialogues!Runs : runs[r].outcome = "none"
  BY <1>1 DEF Dialogues!Init
<1>. QED BY <1>3, <1>4, DialoguesSameCardinality
     DEF Dialogues!Init, DialoguesInv, Dialogues!TypeOK, WaitsTyped, Dialogue, Dialogues!L1Agents

\* What is left of the invariant once the dialogues and the children are accounted for.
OthersTyped ==
  /\ Root \in alive /\ alive \subseteq Dialogues!L1Agents /\ hosts \subseteq Dialogues!L1Agents
  /\ self \in [Dialogues!L1Agents -> {"running", "done"}]
  /\ peers \in [Dialogues!L1Agents -> SUBSET Siblings]
  /\ holds \in [Siblings -> Domains \cup {"none"}]
  /\ starting \subseteq Siblings
  /\ joining \subseteq [by : Dialogues!L1Agents, peer : Siblings]
  /\ saved \subseteq Dialogues!Runs

RunsTyped ==
  /\ runs \in [Dialogues!Runs -> Dialogue]
  /\ \A r \in Dialogues!Runs : runs[r].outcome = "going" => runs[r].cycles < MaxCycles

LEMMA DialoguesInvParts == DialoguesInv <=> RunsTyped /\ WaitsTyped /\ OthersTyped
BY DialoguesSameCardinality
   DEF DialoguesInv, RunsTyped, WaitsTyped, OthersTyped, Dialogues!TypeOK, Dialogue

LEMMA DialoguesStep ==
  ASSUME DialogueParameters, DialoguesInv, Dialogues!Next PROVE DialoguesInv'
<1>0. RunsTyped /\ WaitsTyped /\ OthersTyped
  BY DialoguesInvParts
<1>9. RunsTyped' /\ WaitsTyped' /\ OthersTyped' => DialoguesInv'
  BY DialoguesInvParts, PTL
<1>1. ASSUME NEW a \in Dialogues!L1Agents, Dialogues!Begin(a), starting' \subseteq starting
      PROVE  DialoguesInv'
  <2>1. PICK r \in Dialogues!Runs : Begins(r, a)
    BY <1>1, BeginIs
  <2>2. RunsTyped'
    BY <1>0, <2>1 DEF Begins, RunsTyped
  <2>3. WaitsTyped'
    BY <1>0, <2>1 DEF Begins, WaitsTyped
  <2>4. OthersTyped'
    BY <1>0, <1>1, <2>1 DEF Begins, OthersTyped
  <2>. QED BY <2>2, <2>3, <2>4, <1>9
<1>2. ASSUME NEW r \in Dialogues!Runs, Dialogues!Step(r) PROVE DialoguesInv'
  <2>1. PICK x : Becomes(r, x)
    BY <1>2, StepIs
  <2>2. RunsTyped'
    BY <1>0, <2>1 DEF Becomes, RunsTyped
  <2>3. WaitsTyped'
    BY <1>2, WaitsStep
  <2>4. OthersTyped'
    BY <1>0, <2>1 DEF Becomes, Decides, OthersTyped
  <2>. QED BY <2>2, <2>3, <2>4, <1>9
<1>3. ASSUME NEW r \in Dialogues!Runs, NEW s \in Siblings, NEW domain \in Domains,
             Dialogues!Split(r, s, domain)
      PROVE  DialoguesInv'
  <2>1. UNCHANGED <<runs, waits, settled, self, peers, saved>>
    BY <1>3 DEF Dialogues!Split
  <2>2. RunsTyped' /\ WaitsTyped'
    BY <1>0, <2>1 DEF RunsTyped, WaitsTyped
  <2>3. runs[r].agent \in Dialogues!L1Agents /\ s \in Dialogues!L1Agents
    BY <1>0 DEF RunsTyped, Dialogue, Dialogues!L1Agents
  <2>4. OthersTyped'
    BY <1>0, <1>3, <2>1, <2>3 DEF Dialogues!Split, OthersTyped
  <2>. QED BY <2>2, <2>4, <1>9
<1>4. ASSUME NEW j \in joining, Dialogues!Join(j) PROVE DialoguesInv'
  <2>1. /\ UNCHANGED <<self, holds, waits, settled, starting, runs, saved>>
        /\ joining' = joining \ {j}
        /\ \/ peers' = [peers EXCEPT ![j.by] = @ \cup {j.peer}] /\ UNCHANGED <<alive, hosts>>
           \/ alive' = alive \ {j.peer} /\ hosts' = hosts \ {j.peer} /\ UNCHANGED peers
    BY <1>4 DEF Dialogues!Join, Dialogues!Abandon
  <2>2. RunsTyped' /\ WaitsTyped'
    BY <1>0, <2>1 DEF RunsTyped, WaitsTyped
  <2>3. j.by \in Dialogues!L1Agents /\ j.peer \in Siblings /\ j.peer # Root
    BY <1>0 DEF OthersTyped, DialogueParameters
  <2>4. OthersTyped'
    BY <1>0, <2>1, <2>3 DEF OthersTyped
  <2>. QED BY <2>2, <2>4, <1>9
<1>5. ASSUME NEW s \in Siblings, Dialogues!StartPeer(s) PROVE DialoguesInv'
  <2>1. starting' \subseteq starting /\ s \in Dialogues!L1Agents
    BY <1>5 DEF Dialogues!StartPeer, Dialogues!L1Agents
  <2>2. CASE UNCHANGED <<alive, hosts, self, peers, holds, waits, settled, joining, runs, saved>>
    <3>1. RunsTyped' /\ WaitsTyped'
      BY <1>0, <2>2 DEF RunsTyped, WaitsTyped
    <3>2. OthersTyped'
      BY <1>0, <2>1, <2>2 DEF OthersTyped
    <3>. QED BY <3>1, <3>2, <1>9
  <2>. QED BY <1>1, <1>5, <2>1, <2>2 DEF Dialogues!StartPeer, Dialogues!ledgers
<1>6. ASSUME NEW a \in Dialogues!L1Agents, Dialogues!Execute(a) PROVE DialoguesInv'
  BY <1>1, <1>6 DEF Dialogues!Execute
<1>. QED BY <1>2, <1>3, <1>4, <1>5, <1>6 DEF Dialogues!Next, Dialogues!Join

-----------------------------------------------------------------------------
(* What is suspended is saved: only a decision suspends, and the state     *)
(* moves after the checkpoint is written.                                  *)

LEMMA SavedStep ==
  ASSUME DialogueParameters, DialoguesInv, Dialogues!SuspendedIsSaved, Dialogues!Next
  PROVE  Dialogues!SuspendedIsSaved'
<1>0. /\ runs \in [Dialogues!Runs -> Dialogue]
      /\ \A r \in Dialogues!Runs : runs[r].comp = "suspend" => r \in saved
  BY DialoguesAre DEF Dialogues!SuspendedIsSaved
<1>1. ASSUME NEW a \in Dialogues!L1Agents, Dialogues!Begin(a)
      PROVE  Dialogues!SuspendedIsSaved'
  BY <1>0, <1>1, BeginIs DEF Begins, Dialogues!SuspendedIsSaved
<1>2. ASSUME NEW r \in Dialogues!Runs, Dialogues!Step(r) PROVE Dialogues!SuspendedIsSaved'
  <2>1. PICK x : Becomes(r, x)
    BY <1>2, StepIs
  <2>2. saved \subseteq saved' /\ (x.comp = "suspend" => r \in saved')
    <3>1. CASE x.comp = runs[r].comp /\ UNCHANGED <<self, saved>>
      BY <1>0, <3>1
    <3>2. CASE Decides(r, x.comp)
      BY <1>0, <3>2 DEF Decides, Dialogues!Commit
    <3>. QED BY <2>1, <3>1, <3>2 DEF Becomes
  <2>. QED BY <1>0, <2>1, <2>2 DEF Becomes, Dialogues!SuspendedIsSaved
<1>3. CASE UNCHANGED <<runs, saved>>
  BY <1>0, <1>3 DEF Dialogues!SuspendedIsSaved
<1>. QED BY <1>1, <1>2, <1>3
     DEF Dialogues!Next, Dialogues!Execute, Dialogues!Split, Dialogues!Join,
         Dialogues!StartPeer, Dialogues!L1Agents

-----------------------------------------------------------------------------
(* No false success.  An agent is a finished member of its domain only     *)
(* through a dialogue that terminated, and a component that terminated     *)
(* stays so, if the model answers as it does in l1Entry.ts:218.            *)

TheModelTerminates == Answers = {"terminate"}

DoneByADialogue(a) ==
  \E t \in Dialogues!Runs : /\ runs[t].agent = a /\ runs[t].comp = "terminate"
                            /\ runs[t].outcome # "none"

SuccessInv ==
  /\ \A a \in Dialogues!L1Agents : self[a] = "done" => DoneByADialogue(a)
  /\ \A r \in Dialogues!Runs : runs[r].outcome = "complete" => self[runs[r].agent] = "done"

\* A terminated component stays terminated.
LEMMA TerminatedStays ==
  ASSUME TheModelTerminates, NEW r \in Dialogues!Runs, NEW comp,
         runs[r].comp = "terminate", Decides(r, comp)
  PROVE  comp = "terminate"
<1>1. \A e : Dialogues!Legal(e, "terminate", waits[runs[r].agent]) = {"terminate"}
  BY DEF Dialogues!Legal, Dialogues!Final
<1>2. \A e : Dialogues!Decisions(e, "terminate", waits[runs[r].agent]) = {"terminate"}
  BY <1>1 DEF Dialogues!Decisions, TheModelTerminates
<1>. QED BY <1>2 DEF Decides, Dialogues!Commit

LEMMA SuccessStep ==
  ASSUME DialogueParameters, TheModelTerminates, DialoguesInv, SuccessInv, Dialogues!Next
  PROVE  SuccessInv'
<1>0. /\ runs \in [Dialogues!Runs -> Dialogue]
      /\ self \in [Dialogues!L1Agents -> {"running", "done"}]
  BY DialoguesAre DEF DialoguesInv, Dialogues!TypeOK
<1>1. ASSUME NEW a \in Dialogues!L1Agents, Dialogues!Begin(a) PROVE SuccessInv'
  <2>1. PICK r \in Dialogues!Runs : Begins(r, a)
    BY <1>1, BeginIs
  <2>2. PICK x \in Dialogue :
          /\ runs' = [runs EXCEPT ![r] = x] /\ x.agent = a
          /\ x.outcome = "complete" => self'[a] = "done"
    BY <2>1 DEF Begins
  <2>3. self' = self /\ runs[r].outcome = "none"
    BY <2>1 DEF Begins
  <2>4. ASSUME NEW b \in Dialogues!L1Agents, self'[b] = "done" PROVE DoneByADialogue(b)'
    <3>1. PICK t \in Dialogues!Runs : /\ runs[t].agent = b /\ runs[t].comp = "terminate"
                                      /\ runs[t].outcome # "none"
      BY <2>3, <2>4 DEF SuccessInv, DoneByADialogue
    <3>2. runs'[t] = runs[t]
      BY <1>0, <2>2, <2>3, <3>1
    <3>. QED BY <3>1, <3>2 DEF DoneByADialogue
  <2>5. \A t \in Dialogues!Runs : runs'[t].outcome = "complete" => self'[runs'[t].agent] = "done"
    BY <1>0, <2>2, <2>3 DEF SuccessInv
  <2>. QED BY <2>4, <2>5 DEF SuccessInv
<1>2. ASSUME NEW r \in Dialogues!Runs, Dialogues!Step(r) PROVE SuccessInv'
  <2>1. PICK x : Becomes(r, x)
    BY <1>2, StepIs
  <2>2. /\ runs[r].outcome = "going" /\ runs' = [runs EXCEPT ![r] = x]
        /\ x.agent = runs[r].agent /\ x.outcome \in {"going", "complete", "error"}
        /\ x.outcome = "complete" => self'[x.agent] = "done"
        /\ x.agent \in Dialogues!L1Agents
        /\ (x.comp = runs[r].comp /\ UNCHANGED <<self, saved>>) \/ Decides(r, x.comp)
    BY <2>1 DEF Becomes, Dialogue
  <2>3. runs[r].comp = "terminate" => x.comp = "terminate"
    BY <2>2, TerminatedStays
  <2>4. \/ self' = self
        \/ x.comp = "terminate" /\ self' = [self EXCEPT ![x.agent] = "done"]
    BY <2>2 DEF Decides, Dialogues!Commit
  <2>5. ASSUME NEW b \in Dialogues!L1Agents, self'[b] = "done" PROVE DoneByADialogue(b)'
    <3>1. CASE self[b] = "done"
      <4>1. PICK t \in Dialogues!Runs : /\ runs[t].agent = b /\ runs[t].comp = "terminate"
                                        /\ runs[t].outcome # "none"
        BY <3>1 DEF SuccessInv, DoneByADialogue
      <4>2. /\ runs'[t].agent = b /\ runs'[t].comp = "terminate"
            /\ runs'[t].outcome # "none"
        BY <1>0, <2>2, <2>3, <4>1
      <4>. QED BY <4>2 DEF DoneByADialogue
    <3>2. CASE self[b] # "done"
      <4>1. b = x.agent /\ x.comp = "terminate"
        BY <1>0, <2>2, <2>4, <2>5, <3>2
      <4>2. runs'[r] = x
        BY <1>0, <2>2
      <4>. QED BY <2>2, <4>1, <4>2 DEF DoneByADialogue
    <3>. QED BY <3>1, <3>2
  <2>6. \A b \in Dialogues!L1Agents : self[b] = "done" => self'[b] = "done"
    BY <1>0, <2>4
  <2>7. \A t \in Dialogues!Runs : runs'[t].outcome = "complete" => self'[runs'[t].agent] = "done"
    <3> TAKE t \in Dialogues!Runs
    <3>1. CASE t = r
      BY <1>0, <2>2, <3>1
    <3>2. CASE t # r
      <4>1. runs'[t] = runs[t] /\ runs[t].agent \in Dialogues!L1Agents
        BY <1>0, <2>2, <3>2 DEF Dialogue
      <4>. QED BY <2>6, <4>1 DEF SuccessInv
    <3>. QED BY <3>1, <3>2
  <2>. QED BY <2>5, <2>7 DEF SuccessInv
<1>3. CASE UNCHANGED <<runs, self>>
  BY <1>3 DEF SuccessInv, DoneByADialogue
<1>. QED BY <1>1, <1>2, <1>3
     DEF Dialogues!Next, Dialogues!Execute, Dialogues!Split, Dialogues!Join,
         Dialogues!StartPeer, Dialogues!L1Agents, Dialogues!ledgers

-----------------------------------------------------------------------------
(* A split leaves nobody behind.                                           *)

Pending == {j.peer : j \in joining}

SplitInv ==
  \* An agent split off has its ledgers as long as it exists, and its conflict domain.
  /\ \A s \in Siblings : (s \in alive <=> s \in hosts) /\ (s \in alive => holds[s] # "none")
  \* A peer that is not registered yet is being registered by one agent, not itself.
  /\ \A j \in joining : /\ j.peer \in alive /\ j.by # j.peer
                        /\ \A i \in joining : i.peer = j.peer => i = j
  \* A registered peer exists, belongs to one other agent, and is alone in its domain.
  /\ \A b \in Dialogues!L1Agents : \A s \in peers[b] :
       /\ s \in alive /\ s # b /\ s \notin Pending
       /\ \A c \in Dialogues!L1Agents : s \in peers[c] => c = b
       /\ \A p \in peers[b] \ {s} : holds[p] # holds[s]
  \* Everybody else is not there.
  /\ \A s \in Siblings : s \in alive =>
       s \in Pending \/ \E b \in Dialogues!L1Agents : s \in peers[b]
  \* Who has a dialogue has been split off, and so will not be again.
  /\ \A r \in Dialogues!Runs : runs[r].agent \in Siblings => holds[runs[r].agent] # "none"

LEMMA SplitInvImplies ==
  ASSUME DialoguesInv, SplitInv PROVE Dialogues!PeersHaveADomain
<1> SUFFICES ASSUME NEW s \in Siblings \ Pending
             PROVE  IF s \in alive
                      THEN /\ s \in hosts
                           /\ \E a \in Dialogues!L1Agents \ {s} :
                                /\ {b \in Dialogues!L1Agents : s \in peers[b]} = {a}
                                /\ \A p \in peers[a] \ {s} : holds[p] # holds[s]
                      ELSE s \notin hosts /\ \A a \in Dialogues!L1Agents : s \notin peers[a]
  BY DEF Dialogues!PeersHaveADomain, Pending
<1>1. CASE s \in alive
  <2>1. PICK a \in Dialogues!L1Agents : s \in peers[a]
    BY <1>1 DEF SplitInv
  <2>. QED BY <1>1, <2>1 DEF SplitInv
<1>2. CASE s \notin alive
  BY <1>2 DEF SplitInv
<1>. QED BY <1>1, <1>2

LEMMA SplitStep ==
  ASSUME DialogueParameters, DialoguesInv, SplitInv, Dialogues!Next PROVE SplitInv'
<1>0. RunsTyped /\ OthersTyped
  BY DialoguesInvParts
<1>1. ASSUME NEW a \in Dialogues!L1Agents, Dialogues!Begin(a) PROVE SplitInv'
  <2>1. PICK r \in Dialogues!Runs : Begins(r, a)
    BY <1>1, BeginIs
  <2>2. /\ a \in alive /\ hosts' = hosts \cup {a} /\ UNCHANGED <<alive, peers, holds, joining>>
        /\ \A t \in Dialogues!Runs : runs'[t].agent = runs[t].agent \/ runs'[t].agent = a
    BY <1>0, <2>1 DEF Begins, RunsTyped
  <2>. QED BY <2>2 DEF SplitInv, Pending
<1>2. ASSUME NEW r \in Dialogues!Runs, Dialogues!Step(r) PROVE SplitInv'
  <2>1. PICK x : Becomes(r, x)
    BY <1>2, StepIs
  <2>2. /\ UNCHANGED <<alive, hosts, peers, holds, joining>>
        /\ \A t \in Dialogues!Runs : runs'[t].agent = runs[t].agent
    BY <1>0, <2>1 DEF Becomes, RunsTyped
  <2>. QED BY <2>2 DEF SplitInv, Pending
<1>3. ASSUME NEW r \in Dialogues!Runs, NEW s \in Siblings, NEW domain \in Domains,
             Dialogues!Split(r, s, domain)
      PROVE  SplitInv'
  <2> DEFINE new == [by |-> runs[r].agent, peer |-> s]
  <2>1. /\ s \notin alive /\ holds[s] = "none" /\ UNCHANGED <<peers, runs>>
        /\ alive' = alive \cup {s} /\ hosts' = hosts \cup {s}
        /\ holds' = [holds EXCEPT ![s] = domain] /\ joining' = joining \cup {new}
    BY <1>3 DEF Dialogues!Split
  <2>2. new.by # new.peer /\ new.peer = s
    BY <2>1 DEF SplitInv
  <2> HIDE DEF new
  <2>3. domain # "none" /\ holds \in [Siblings -> Domains \cup {"none"}]
    BY <1>0 DEF DialogueParameters, OthersTyped
  <2>4. Pending' = Pending \cup {s}
    BY <2>1, <2>2 DEF Pending
  <2>5. \A j \in joining : j.peer # s
    BY <2>1 DEF SplitInv
  <2>6. \A b \in Dialogues!L1Agents : peers[b] \subseteq Siblings /\ s \notin peers[b]
    BY <1>0, <2>1 DEF SplitInv, OthersTyped
  <2>7. \A t \in Siblings : t # s => holds'[t] = holds[t]
    BY <2>1, <2>3
  <2>8. holds'[s] = domain
    BY <2>1, <2>3
  <2>. QED BY <2>1, <2>2, <2>3, <2>4, <2>5, <2>6, <2>7, <2>8 DEF SplitInv
<1>4. ASSUME NEW j \in joining, Dialogues!Join(j) PROVE SplitInv'
  <2>1. /\ UNCHANGED <<holds, runs>> /\ joining' = joining \ {j}
        /\ \/ /\ peers' = [peers EXCEPT ![j.by] = @ \cup {j.peer}] /\ UNCHANGED <<alive, hosts>>
              /\ \A p \in peers[j.by] : holds[p] # holds[j.peer]
           \/ alive' = alive \ {j.peer} /\ hosts' = hosts \ {j.peer} /\ UNCHANGED peers
    BY <1>4 DEF Dialogues!Join, Dialogues!Abandon
  <2>2. /\ j.by \in Dialogues!L1Agents /\ j.peer \in Siblings
        /\ peers \in [Dialogues!L1Agents -> SUBSET Siblings]
    BY <1>0 DEF OthersTyped
  <2>3. j.peer \in alive /\ j.by # j.peer /\ \A i \in joining : i.peer = j.peer => i = j
    BY DEF SplitInv
  <2>4. Pending' = Pending \ {j.peer} /\ j.peer \in Pending
    BY <2>1, <2>3 DEF Pending
  <2>5. \A b \in Dialogues!L1Agents : j.peer \notin peers[b]
    BY <2>4 DEF SplitInv
  <2>6. CASE /\ peers' = [peers EXCEPT ![j.by] = @ \cup {j.peer}] /\ UNCHANGED <<alive, hosts>>
             /\ \A p \in peers[j.by] : holds[p] # holds[j.peer]
    <3>1. \A b \in Dialogues!L1Agents : \A s :
            s \in peers'[b] <=> s \in peers[b] \/ (b = j.by /\ s = j.peer)
      BY <2>2, <2>6
    <3>. QED BY <2>1, <2>2, <2>3, <2>4, <2>5, <2>6, <3>1 DEF SplitInv
  <2>7. CASE alive' = alive \ {j.peer} /\ hosts' = hosts \ {j.peer} /\ UNCHANGED peers
    BY <2>1, <2>3, <2>4, <2>5, <2>7 DEF SplitInv
  <2>. QED BY <2>1, <2>6, <2>7
<1>5. CASE UNCHANGED <<alive, hosts, peers, holds, joining, runs>>
  BY <1>5 DEF SplitInv, Pending
<1>. QED BY <1>1, <1>2, <1>3, <1>4, <1>5
     DEF Dialogues!Next, Dialogues!Execute, Dialogues!Join, Dialogues!StartPeer,
         Dialogues!L1Agents, Dialogues!ledgers

-----------------------------------------------------------------------------
(* The dialogues of the run.                                               *)

DialoguesOfTheRun ==
  part = "dialogues" => DialoguesInv /\ SplitInv /\ Dialogues!SuspendedIsSaved

LEMMA DialoguesStart ==
  ASSUME DialogueParameters, Dialogues!Init
  PROVE  /\ DialoguesInv /\ SplitInv /\ Dialogues!SuspendedIsSaved
         /\ TheModelTerminates => SuccessInv
<1>1. DialoguesInv
  BY DialoguesInit
<1>2. /\ alive = {Root} /\ hosts = {} /\ joining = {}
      /\ self = [a \in Dialogues!L1Agents |-> "running"]
      /\ peers = [a \in Dialogues!L1Agents |-> {}]
      /\ \A r \in Dialogues!Runs : /\ runs[r].agent = Root /\ runs[r].comp = "running"
                                   /\ runs[r].outcome = "none"
  BY DEF Dialogues!Init, Dialogues!NoRun
<1>3. SplitInv
  BY <1>2 DEF SplitInv, DialogueParameters, Dialogues!L1Agents
<1>4. Dialogues!SuspendedIsSaved
  BY <1>2 DEF Dialogues!SuspendedIsSaved
<1>5. SuccessInv
  BY <1>2 DEF SuccessInv
<1>. QED BY <1>1, <1>3, <1>4, <1>5

\* A step of the run that moves the dialogues is a step of theirs.
LEMMA DialoguesMove ==
  ASSUME [OneByOneNext]_<<part, freeze, dialogues, gate>>, part' = "dialogues"
  PROVE  part = "dialogues" /\ (Dialogues!Next \/ UNCHANGED dialogues)
BY DEF OneByOneNext

LEMMA DialoguesStay ==
  ASSUME UNCHANGED dialogues
  PROVE  /\ DialoguesInv => DialoguesInv'
         /\ SplitInv => SplitInv'
         /\ Dialogues!SuspendedIsSaved => Dialogues!SuspendedIsSaved'
         /\ SuccessInv => SuccessInv'
<1> USE DEF dialogues
<1>1. DialoguesInv => DialoguesInv'
  BY DEF DialoguesInv, Dialogues!TypeOK
<1>2. SplitInv => SplitInv'
  BY DEF SplitInv, Pending
<1>3. Dialogues!SuspendedIsSaved => Dialogues!SuspendedIsSaved'
  BY DEF Dialogues!SuspendedIsSaved
<1>4. SuccessInv => SuccessInv'
  BY DEF SuccessInv, DoneByADialogue
<1>. QED BY <1>1, <1>2, <1>3, <1>4

LEMMA DialoguesInvariant ==
  ASSUME DialogueParameters PROVE OneByOne => []DialoguesOfTheRun
<1>1. OneByOneInit => DialoguesOfTheRun
  BY DialoguesStart DEF OneByOneInit, DialoguesOfTheRun
<1>2. DialoguesOfTheRun /\ [OneByOneNext]_<<part, freeze, dialogues, gate>> => DialoguesOfTheRun'
  <2> SUFFICES ASSUME DialoguesOfTheRun, [OneByOneNext]_<<part, freeze, dialogues, gate>>,
                      part' = "dialogues"
               PROVE  DialoguesInv' /\ SplitInv' /\ Dialogues!SuspendedIsSaved'
    BY DEF DialoguesOfTheRun
  <2>1. /\ DialoguesInv /\ SplitInv /\ Dialogues!SuspendedIsSaved
        /\ Dialogues!Next \/ UNCHANGED dialogues
    BY DialoguesMove DEF DialoguesOfTheRun
  <2>. QED BY <2>1, DialoguesStay, DialoguesStep, SplitStep, SavedStep
<1>. QED BY <1>1, <1>2, PTL DEF OneByOne

\* A component is never suspended without the checkpoint from which it would go on,
\* whatever the checkpoint's write does (lifecycleController.ts commit).
THEOREM WhatIsSuspendedIsSaved ==
  ASSUME DialogueParameters PROVE OneByOne => []SuspendedIsSaved
<1>1. DialoguesOfTheRun => SuspendedIsSaved
  BY DEF DialoguesOfTheRun, SuspendedIsSaved
<1>. QED BY <1>1, DialoguesInvariant, PTL

\* A split leaves nobody behind: an agent that was split off belongs to one other
\* agent's domain or is gone from both registries, for any splits of any agents,
\* split off themselves or taken back (splitAgent.ts, splitMergeToolPort.ts split).
THEOREM NoPeerIsLeftBehind ==
  ASSUME DialogueParameters PROVE OneByOne => []PeersHaveADomain
<1>1. DialoguesOfTheRun => PeersHaveADomain
  BY SplitInvImplies DEF DialoguesOfTheRun, PeersHaveADomain
<1>. QED BY <1>1, DialoguesInvariant, PTL

\* No dialogue reports a complete domain unless one of its agent has terminated, as
\* long as the model answers what l1Entry.ts:218 makes it answer; TerminalAbsorbs
\* shows what another answer does.
THEOREM SuccessIsOfTheTerminated ==
  ASSUME DialogueParameters, TheModelTerminates PROVE OneByOne => []NoFalseSuccess
<1> DEFINE Inv == part = "dialogues" => SuccessInv
<1>1. OneByOneInit => Inv
  BY DialoguesStart DEF OneByOneInit
<1>2. DialoguesOfTheRun /\ Inv /\ [OneByOneNext]_<<part, freeze, dialogues, gate>> => Inv'
  <2> SUFFICES ASSUME DialoguesOfTheRun, Inv, part' = "dialogues",
                      [OneByOneNext]_<<part, freeze, dialogues, gate>>
               PROVE  SuccessInv'
    OBVIOUS
  <2>1. DialoguesInv /\ SuccessInv /\ (Dialogues!Next \/ UNCHANGED dialogues)
    BY DialoguesMove DEF DialoguesOfTheRun
  <2>. QED BY <2>1, DialoguesStay, SuccessStep
<1>3. DialoguesOfTheRun /\ Inv => NoFalseSuccess
  <2> SUFFICES ASSUME DialoguesInv, SuccessInv PROVE Dialogues!NoFalseSuccess
    BY DEF DialoguesOfTheRun, NoFalseSuccess
  <2>1. \A r \in Dialogues!Runs : runs[r].agent \in Dialogues!L1Agents
    BY DialoguesAre DEF Dialogue
  <2>. QED BY <2>1 DEF SuccessInv, DoneByADialogue, Dialogues!NoFalseSuccess
<1>. QED BY <1>1, <1>2, <1>3, DialoguesInvariant, PTL DEF OneByOne

-----------------------------------------------------------------------------
(* The types of every part.  Those of the gate are inductive together with *)
(* the absence of lost wake-ups, as ApprovalGate_proofs shows.             *)

GateParameters ==
  /\ alice # worker /\ IsFiniteSet(Approvals) /\ Whitelisted \subseteq Approvals
  /\ Timeout \in Nat \ {0} /\ Delay \in Nat /\ Delay < Timeout /\ MaxTime \in Nat

GateProofs == INSTANCE ApprovalGate_proofs WITH
  Accounts <- {alice}, Agents <- {worker}, ExecRole <- [a \in {worker} |-> "worker"],
  HumanApprovalSuffices <- TRUE, DbMayFail <- TRUE, now <- gateNow

GateInv == Gate!TypeOK /\ Gate!BlockedOnlyWhilePending

\* The gate that is proved about is the gate of the run.
LEMMA SameStep == [GateProofs!Next]_GateProofs!vars <=> [Gate!Next]_gate
BY DEF Gate!Next, GateProofs!Next, Gate!vars, GateProofs!vars, Gate!L0, GateProofs!L0,
       Gate!L1, GateProofs!L1, Gate!L2, GateProofs!L2, Gate!ExecRoles,
       GateProofs!ExecRoles, Gate!ApprovalRoles, GateProofs!ApprovalRoles, Gate!Final,
       GateProofs!Final, Gate!Identities, GateProofs!Identities, Gate!Votes,
       GateProofs!Votes, Gate!NoRow, GateProofs!NoRow, Gate!Row, GateProofs!Row,
       Gate!ToApprovalRole, GateProofs!ToApprovalRole, Gate!BuildApprovalDeciders,
       GateProofs!BuildApprovalDeciders, Gate!Bound, GateProofs!Bound, Gate!Required,
       GateProofs!Required, Gate!EffectiveRequired, GateProofs!EffectiveRequired,
       Gate!Persist, GateProofs!Persist, Gate!PersistUpdated,
       GateProofs!PersistUpdated, Gate!Notify, GateProofs!Notify, Gate!Fresh,
       GateProofs!Fresh, Gate!Request, GateProofs!Request, Gate!RequestAutoFull,
       GateProofs!RequestAutoFull, Gate!SetSessionAutoApprove,
       GateProofs!SetSessionAutoApprove, Gate!Pending, GateProofs!Pending,
       Gate!Decided, GateProofs!Decided, Gate!Decide, GateProofs!Decide,
       Gate!AutoApprove, GateProofs!AutoApprove, Gate!Expired, GateProofs!Expired,
       Gate!TimeOut, GateProofs!TimeOut, Gate!WaiterTimeout, GateProofs!WaiterTimeout,
       Gate!Overdue, GateProofs!Overdue, Gate!Sweep, GateProofs!Sweep,
       Gate!ExpireStale, GateProofs!ExpireStale, Gate!Restart, GateProofs!Restart,
       Gate!Tick, GateProofs!Tick, Gate!Matching, GateProofs!Matching, Gate!Matches,
       GateProofs!Matches, Gate!Counts, GateProofs!Counts, Gate!Cardinality,
       GateProofs!Cardinality, Gate!IsFiniteSet, GateProofs!IsFiniteSet, gate

LEMMA SameInit == GateProofs!Init <=> Gate!Init
BY DEF Gate!Init, GateProofs!Init, Gate!NoRow, GateProofs!NoRow

LEMMA SameInvariant == GateProofs!WakeUpInv <=> GateInv
BY DEF Gate!TypeOK, GateProofs!TypeOK, Gate!BlockedOnlyWhilePending,
       GateProofs!BlockedOnlyWhilePending, Gate!Pending, GateProofs!Pending, Gate!Row,
       GateProofs!Row, Gate!Final, GateProofs!Final, Gate!Votes, GateProofs!Votes,
       Gate!Identities, GateProofs!Identities, Gate!ApprovalRoles,
       GateProofs!ApprovalRoles,
       GateProofs!WakeUpInv, GateInv

\* The assumptions of ApprovalGate, of its instance in the run.
LEMMA GateAssumptions ==
  ASSUME GateParameters
  PROVE  /\ {alice} \cap {worker} = {}
         /\ GateProofs!IsFiniteSet(Approvals) /\ GateProofs!IsFiniteSet({alice})
         /\ GateProofs!IsFiniteSet({worker})
         /\ [a \in {worker} |-> "worker"] \in [{worker} -> GateProofs!ExecRoles]
<1>1. \A S : GateProofs!IsFiniteSet(S) <=> IsFiniteSet(S)
  BY DEF GateProofs!IsFiniteSet, IsFiniteSet
<1>2. IsFiniteSet({alice}) /\ IsFiniteSet({worker})
  BY FS_Singleton
<1>3. [a \in {worker} |-> "worker"] \in [{worker} -> GateProofs!ExecRoles]
  BY DEF GateProofs!ExecRoles, GateProofs!L2
<1>. QED BY <1>1, <1>2, <1>3 DEF GateParameters

LEMMA GateInit == ASSUME GateParameters, Gate!Init PROVE GateInv
BY GateProofs!WakeUpInit, GateAssumptions, SameInit, SameInvariant
   DEF GateProofs!WakeUpInit, GateParameters

LEMMA GateStep == ASSUME GateParameters, GateInv, [Gate!Next]_gate PROVE GateInv'
<1>1. GateProofs!WakeUpInv /\ [GateProofs!Next]_GateProofs!vars => GateProofs!WakeUpInv'
  BY GateProofs!WakeUpStep, GateAssumptions DEF GateProofs!WakeUpStep, GateParameters
<1>2. GateProofs!WakeUpInv' <=> GateInv'
  BY SameInvariant, PTL
<1>. QED BY <1>1, <1>2, SameStep, SameInvariant

\* The state of every part keeps its type (freezeManager.ts, walletManager.ts,
\* outerLoop.ts, ledgers.ts, approvalGate.ts).
THEOREM TypesCorrect ==
  ASSUME FreezeParameters, DialogueParameters, GateParameters PROVE OneByOne => []TypesOK
<1> DEFINE Inv == part = "gate" => GateInv
<1>1. OneByOneInit => Inv
  BY GateInit DEF OneByOneInit
<1>2. Inv /\ [OneByOneNext]_<<part, freeze, dialogues, gate>> => Inv'
  <2> SUFFICES ASSUME Inv, [OneByOneNext]_<<part, freeze, dialogues, gate>>, part' = "gate"
               PROVE  GateInv'
    OBVIOUS
  <2>1. part = "gate" /\ [Gate!Next]_gate
    BY DEF OneByOneNext
  <2>. QED BY <2>1, GateStep
<1>3. FreezeInv /\ DialoguesOfTheRun /\ Inv => TypesOK
  BY FreezeImplies DEF FreezeInv, DialoguesOfTheRun, DialoguesInv, GateInv, TypesOK
<1>. QED BY <1>1, <1>2, <1>3, FreezesOfTheRun, DialoguesInvariant, PTL DEF OneByOne
================================================================================
