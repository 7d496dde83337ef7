-------------------------- MODULE FreezeAndWallet --------------------------
(***************************************************************************)
(* Audit freezes (Services/Audit/freezeManager.ts) and the token wallets   *)
(* they act on (Services/TokenEconomy/walletManager.ts), with the callers  *)
(* that run beside each other: the audit routes, the audit cycle, the loop *)
(* that checks for a freeze before it calls the model and pays after it    *)
(* has answered, and the start-up of the process (main.ts).                *)
(***************************************************************************)
EXTENDS Integers, FiniteSets, FiniteSetsExt

CONSTANTS
  Agents,          \* agents that may ever be created; their ids are never reused
  Supply,          \* initialSupply
  DefaultBalance,  \* defaultWalletBalance
  Costs,           \* what a model call may cost, tax included
  FreezeTicks,     \* autoUnfreezeSec, in ticks
  MaxFreezes,      \* bound on the freezes of one process
  MaxRestarts,     \* bound on the restarts
  MaxTime,         \* bound on the clock
  DbMayFail        \* whether the table may refuse a row

ASSUME AmountsAssumption ==
  Supply \in Nat /\ DefaultBalance \in Nat /\ Costs \subseteq Nat

FreezeIds == 1..MaxFreezes

VARIABLES
  now,           \* the clock
  restarts,      \* how often the process has been restarted
  created,       \* agents that exist; they survive a restart
  wallet,        \* wallets: agent -> status, "none" without one
  balance,       \* wallets: agent -> balance
  pool,          \* systemPool
  frozenAgents,  \* agents held frozen in memory
  records,       \* freezeRecords: freeze id -> record
  counter,       \* freezeCounter
  rows,          \* agent_freezes: freeze id -> record
  calling,       \* agents whose model call has passed the checks and not returned
  early          \* history: frozen agents that did not exist when they were frozen

vars == <<now, restarts, created, wallet, balance, pool, frozenAgents, records,
          counter, rows, calling, early>>

wallets == <<wallet, balance, pool>>
freezes == <<frozenAgents, records, counter, rows, early>>

NoAgent == "nobody"
NoRecord == [agent |-> NoAgent, until |-> 0, status |-> "none"]

TypeOK ==
  /\ now \in 0..MaxTime /\ restarts \in 0..MaxRestarts
  /\ created \subseteq Agents /\ calling \subseteq created
  /\ wallet \in [Agents -> {"none", "active", "frozen"}]
  /\ balance \in [Agents -> 0..Supply] /\ pool \in 0..Supply
  /\ frozenAgents \subseteq Agents /\ early \subseteq frozenAgents
  /\ counter \in 0..MaxFreezes
  /\ \A table \in {records, rows} :
       table \in [FreezeIds -> [agent : Agents \cup {NoAgent}, until : Nat,
                                status : {"none", "frozen", "unfrozen", "expired"}]]
  /\ \A i \in FreezeIds : records[i].status # "none" <=> i \in 1..counter

Init ==
  /\ now = 0 /\ restarts = 0 /\ created = {} /\ calling = {}
  /\ wallet = [a \in Agents |-> "none"] /\ balance = [a \in Agents |-> 0]
  /\ pool = Supply
  /\ frozenAgents = {} /\ early = {} /\ counter = 0
  /\ records = [i \in FreezeIds |-> NoRecord] /\ rows = [i \in FreezeIds |-> NoRecord]

\* persistFreezeRecord, for the records that changed: each is written whole, or
\* refused, logged, and left as it was.
Persist(changed) ==
  \E written \in IF DbMayFail THEN SUBSET changed ELSE {changed} :
    rows' = [i \in FreezeIds |-> IF i \in written THEN records'[i] ELSE rows[i]]

\* Here a release forgets the wallet.
UnfreezeNoWallets(who) == UNCHANGED wallet

\* unfreezeWallet: no wallet, or one that is not frozen, is no error.
UnfreezeWallets(who) ==
  wallet' = [a \in Agents |-> IF a \in who /\ wallet[a] = "frozen" THEN "active"
                              ELSE wallet[a]]

-----------------------------------------------------------------------------
(* Agents and what they spend.                                             *)

\* Here the pool is not asked.
CreateWalletOnCredit(a) ==
  /\ wallet' = [wallet EXCEPT ![a] = "active"]
  /\ balance' = [balance EXCEPT ![a] = DefaultBalance]
  /\ pool' = pool - DefaultBalance

\* createWallet
CreateWallet(a) ==
  IF pool >= DefaultBalance
    THEN /\ wallet' = [wallet EXCEPT ![a] = "active"]
         /\ balance' = [balance EXCEPT ![a] = DefaultBalance]
         /\ pool' = pool - DefaultBalance
    ELSE UNCHANGED wallets

\* createAgent: an empty pool leaves the agent without a wallet, for good.
CreateAgent(a) ==
  /\ a \notin created
  /\ created' = created \cup {a}
  /\ CreateWallet(a)
  /\ UNCHANGED <<now, restarts, freezes, calling>>

\* The pre-supervision of an iteration lets through whoever is not frozen; the
\* loop then waits for the model.
BeginIteration(a) ==
  /\ a \in created \ calling
  /\ a \notin frozenAgents
  /\ calling' = calling \cup {a}
  /\ UNCHANGED <<now, restarts, created, wallets, freezes>>

\* Here nothing looks at the status of the wallet.
DebitAnyStatus(a, amount) ==
  IF wallet[a] # "none" /\ balance[a] >= amount
    THEN /\ balance' = [balance EXCEPT ![a] = @ - amount]
         /\ pool' = pool + amount
         /\ UNCHANGED wallet
    ELSE UNCHANGED wallets

\* debit refuses a wallet that is missing, frozen, or short of the amount.
Debit(a, amount) ==
  IF wallet[a] = "active" /\ balance[a] >= amount
    THEN /\ balance' = [balance EXCEPT ![a] = @ - amount]
         /\ pool' = pool + amount
         /\ UNCHANGED wallet
    ELSE UNCHANGED wallets

\* A model without a registered price is not paid for.
RecordConsumption(a) ==
  \/ \E amount \in Costs : Debit(a, amount)
  \/ UNCHANGED wallets

\* The model has answered, or failed: recordIterationEconomy pays for the call,
\* and a refusal is only logged.
EndIteration(a) ==
  /\ a \in calling
  /\ calling' = calling \ {a}
  /\ RecordConsumption(a)
  /\ UNCHANGED <<now, restarts, created, freezes>>

-----------------------------------------------------------------------------
(* Freezes.                                                                *)

FreezeWallet(a) == wallet' = [wallet EXCEPT ![a] = IF @ = "active" THEN "frozen" ELSE @]

\* freezeAgent: by an auditor or an owner, or as the disposition of an alert.  Nothing
\* asks whether there is an agent of that name, nor does its creation ask for a freeze.
FreezeAgent(a) ==
  /\ a \notin frozenAgents
  /\ counter < MaxFreezes /\ now + FreezeTicks <= MaxTime
  /\ counter' = counter + 1
  /\ records' = [records EXCEPT ![counter'] =
                   [agent |-> a, until |-> now + FreezeTicks, status |-> "frozen"]]
  /\ frozenAgents' = frozenAgents \cup {a}
  /\ early' = early \cup ({a} \ created)
  /\ Persist({counter'})
  /\ FreezeWallet(a)
  /\ UNCHANGED <<now, restarts, created, balance, pool, calling>>

Open(i) == records[i].status = "frozen"

Closed(ids, status) ==
  [i \in FreezeIds |-> IF i \in ids THEN [records[i] EXCEPT !.status = status]
                       ELSE records[i]]

\* applyUnfreeze: every open record of the agent is closed.
UnfreezeAgent(a) ==
  /\ a \in frozenAgents
  /\ frozenAgents' = frozenAgents \ {a} /\ early' = early \ {a}
  /\ UnfreezeWallets({a})
  /\ LET ids == {i \in FreezeIds : Open(i) /\ records[i].agent = a}
     IN records' = Closed(ids, "unfrozen") /\ Persist(ids)
  /\ UNCHANGED <<now, restarts, created, balance, pool, counter, calling>>

\* Here the cycle takes only the freezes whose time is strictly past.
DueOneTickLate(table) ==
  {i \in FreezeIds : table[i].status = "frozen" /\ now > table[i].until}

Due(table) == {i \in FreezeIds : table[i].status = "frozen" /\ now >= table[i].until}

\* runAuditCycle, on its interval: checkAutoUnfreeze closes what is due and
\* releases the agent of each closed record.
AuditCycle ==
  /\ Due(records) # {}
  /\ records' = Closed(Due(records), "expired")
  /\ LET released == {records[i].agent : i \in Due(records)}
     IN /\ frozenAgents' = frozenAgents \ released /\ early' = early \ released
        /\ UnfreezeWallets(released)
  /\ Persist(Due(records))
  /\ UNCHANGED <<now, restarts, created, balance, pool, counter, calling>>

\* The process ends and the next one starts.  hydrateFreezeState loads the rows
\* still frozen and expires those that are due, in the table too; later in the
\* same start-up resetFreezeManager (main.ts:1513) empties the registry again and
\* starts its counter over.  Wallets are not persisted.
Restart ==
  /\ restarts < MaxRestarts
  /\ restarts' = restarts + 1
  /\ \E written \in IF DbMayFail THEN SUBSET Due(rows) ELSE {Due(rows)} :
       rows' = [i \in FreezeIds |-> IF i \in written
                                      THEN [rows[i] EXCEPT !.status = "expired"] ELSE rows[i]]
  /\ records' = [i \in FreezeIds |-> NoRecord]
  /\ frozenAgents' = {} /\ early' = {} /\ counter' = 0
  /\ wallet' = [a \in Agents |-> "none"] /\ balance' = [a \in Agents |-> 0]
  /\ pool' = Supply
  /\ calling' = {}
  /\ UNCHANGED <<now, created>>

Tick ==
  /\ now < MaxTime
  /\ now' = now + 1
  /\ UNCHANGED <<restarts, created, wallets, freezes, calling>>

Next ==
  \/ \E a \in Agents :
       \/ CreateAgent(a) \/ BeginIteration(a) \/ EndIteration(a)
       \/ FreezeAgent(a) \/ UnfreezeAgent(a)
  \/ AuditCycle
  \/ Restart
  \/ Tick

\* The clock advances and the interval of the audit cycle keeps firing.
Fairness == WF_vars(Tick) /\ WF_vars(AuditCycle)

Spec == Init /\ [][Next]_vars /\ Fairness

-----------------------------------------------------------------------------
(* Properties.                                                             *)

\* The registry of frozen agents, the open records and the wallets tell the same
\* story after any order of freezes, releases, expiries and restarts: an agent is
\* frozen exactly when one record of it is open, no wallet stays frozen without a
\* freeze, that of an agent frozen while it existed is not active until its release,
\* and all tokens are in a wallet or in the pool (freezeManager.ts:186,
\* walletManager.ts:259).
FreezeCoherent ==
  /\ \A a \in Agents :
       /\ Cardinality({i \in FreezeIds : Open(i) /\ records[i].agent = a})
            = IF a \in frozenAgents THEN 1 ELSE 0
       /\ wallet[a] = "frozen" => a \in frozenAgents
       /\ a \in frozenAgents \ early => wallet[a] # "active"
  /\ pool + MapThenSumSet(LAMBDA a : balance[a], Agents) = Supply

\* Not checked, and false: whatever froze first, the wallet of a frozen agent is never
\* active.  One created after the freeze is (freezeManager.ts:188).
FrozenHasNoActiveWallet == \A a \in frozenAgents : wallet[a] # "active"

\* Nothing is taken from a frozen agent, not even for a model call that was let
\* through before the freeze and ends after it (freezeManager.ts:185).
FrozenSpendsNothing ==
  [][\A a \in frozenAgents : restarts' = restarts => balance'[a] >= balance[a]]_vars

\* No freeze outlives its time: an agent is released by somebody, by the audit
\* cycle, or by the end of the process (freezeManager.ts:266).
EveryFreezeEnds == \A a \in Agents : a \in frozenAgents ~> a \notin frozenAgents

\* A freeze that is not due is still in force after a restart (freezeManager.ts:102).
FreezeSurvivesRestart ==
  [][restarts' # restarts =>
       \A i \in FreezeIds : Open(i) /\ now < records[i].until =>
         records[i].agent \in frozenAgents']_vars
=============================================================================
