# A verification model of CivitasAI

CivitasAI runs a society of language-model agents on one Node.js process: loops of
agents call tools, dangerous calls wait for people or governing agents to approve
them, side effects are journaled so that a crash does not repeat them, and governing
roles audit, freeze and arbitrate. A client keeps the settings and the usage
statistics of an account in step with an account server. This directory holds TLA+
modules translated from `Src/`, the TLC configurations that check them, and proofs
checked by TLAPS. The models begin where a mistake is dearest, between a model's
wish to run a tool and the effect of that tool in the world, and go on to what
agents do with each other and to the records that several actors keep.

## 1. The system

JavaScript in the agents' process runs a handler to its next `await` without
interruption, and SQLite is called synchronously. One handler, up to its next
`await`, is therefore one atomic step, and concurrency lives between handlers: REST
decisions, timers, several agents' loops, tools that outlive their timeout, and the
end of the process, which can come between any two statements. The account server
runs its requests concurrently, each in a READ COMMITTED transaction.

| Component (under `Src/`) | State it keeps | Operations | What makes it correct |
|---|---|---|---|
| Approval gate, `Services/LoopControl/approvalGate.ts` | `approvalQueue`, `approvalWaiters`, policy flags | create, register, wait, decide, adjudicate, force, sweep, full permission | one verdict per approval, kept; the blocked caller is told it; two-person control; nobody waits for ever |
| Approval table, `approvalPersistence.ts` | `pending_approvals` | insert, update, expire at start | agrees with the queue; nothing pending that nobody can decide |
| Deciders and identities, `Services/Governance` | pure functions of roles and accounts | pool by tier, binding | nobody decides on its own request |
| Tool safety gate, `middleware/toolSafetyGate.ts`, with `Tools/Registry/toolRegistry.ts` | none of its own; uses the three around it | wrapToolCall, executeTool | intent before effect; success only if it happened; no second effect of what is done |
| Effect journal, `Infra/DurableExecution/effectJournal.ts` | `effect_journal` | recordIntent, update status, resolve timed-out, unknown | succeeded is final |
| Idempotency cache, `idempotencyStore.ts` | `idempotency_cache` | lookup, store, purge | no effect while a result is fresh |
| Agent loop, `Core/Loop/runIteration.ts` | conversation, iteration counter | iterate, checkpoint, end | every call answered; bounded |
| Checkpoints and recovery, `checkpointStore.ts`, `iterationCheckpoint.ts`, `recoveryScanner.ts`, `recoveryExecutor.ts`, `loopRepository.ts`, start-up in `main.ts` | `loops`, `loop_checkpoints` | write, scan, classify, resume | skip nothing, repeat no more than one iteration, leave doubt to a human |
| Freezes and wallets, `Services/Audit/freezeManager.ts`, `Services/TokenEconomy/walletManager.ts` | freeze records, `agent_freezes`, wallets, pool | freeze, release, expire, hydrate; create, debit | frozen means frozen, also after a restart; tokens are conserved; a freeze ends |
| Orchestration of tasks, `Core/Decision/orchestrator`, `Core/AgentRuntime` | `activePlans`, dispatch gate, driver's queue, progress, reviews, `subtasks` | receive, dispatch, run, submit, review, reap, cancel, expel | stages in order; done only if reviewed; nothing left of an ended plan; every plan ends |
| Outer loop, lifecycle, split, `Core/Orchestration`, `Core/Lifecycle` | component's state, host ledgers, checkpoints | cycle, decide, commit, split, join | success is real; what is suspended is saved; no peer without a domain; every dialogue ends |
| Ledgers, `Core/Ledger/ledgers.ts` | children, peers, merge requests | register, settle, transfer, restore; add, settle, request, resolve | one parent per child; complete means all are done |
| Shared memory, `Services/SharedMemory/globalWorkspace.ts` | entries, `global_workspace` | write, read, hydrate | an account reads the content it wrote; no claim silently reversed |
| Arbitration, `Services/Arbitration` | cases | file, rule, settle stale | one open case per conflict; every case ends |
| Settings synchronisation, `Client/src/services/syncService.ts`, `stores/prefsStore.ts`, `Server/.../SettingsRepository.java` | revision on the server, revision at each device | push, pull, sign out, delete | a revision names one version |
| Usage statistics, `Interface/RestApi/syncApi.ts`, `StatsRepository.java` | local rows, watermark, `usage_events` | derive, push, accept | no message passed over |
| Loop scheduler, `Services/LoopScheduler` | deduplication window, breakers | schedule | not called by the program |
| Messages and hand-over, `Services/A2A` | envelopes, alerts | send, dispose | only alerts become cases |
| Supervision, `Services/Supervision` | wait edges | register, clear, detect | a cycle is found, none is invented |
| Events, context, retrieval, models, transport, rest of the client | caches and text | | outside of what state exploration can judge |

How they interact. The loop hands each tool call to the tool gate, which asks
the cache, then (for dangerous and irreversible tools) creates an approval,
registers it with the approval gate and blocks; the REST endpoint, governing
agents, a timer and a five-second sweep settle it. The tool gate then writes the
intent, marks it as executing, runs the tool in a race with its timeout, and
closes journal and cache. At the end of an iteration the loop writes its
checkpoint. On start-up the new process expires approvals left pending, resolves
timed-out effects, scans `loops` and resumes what it may.

Before an iteration the loop asks whether its agent is frozen, and after the
model has answered it pays from the agent's wallet. The orchestrator turns a task
into assignments, hands them to the driver, which runs one loop at a time, and
hears of their ends through events; a worker submits its result, a reviewer
judges it, and a monitor fails what has gone silent. A top-level agent runs in an
outer loop whose lifecycle controller decides whether it goes on, and may split
off a peer. Agents write to the shared memory; a write that contradicts what is
there is refused and becomes a case, and the ruling is written in its place.

The hard behaviours are the races on one approval, the two vocabularies of
roles, decisions taken on what was read before an `await`, ledgers shared by
concurrent dialogues, rows that can only be written under the account that
made them, answers of the account server that come late or never, tools that outlive
their timeout, statements that fail silently, and a crash between an effect and
the record of it. `PROJECT.json` lists each as a hazard at its line, with the
properties that watch it or the reason why none does.

## 2. The modules

| Module | Models | Notes |
|---|---|---|
| `ApprovalRegister` | what the approval gate promises a caller | abstract specification |
| `VoteMatching` | what votes amount to | operators; used by the gate and its proofs |
| `RoleMatching` | `countDistinctRoleMatches` as written, its recursion as a function | compared with `VoteMatching` |
| `RoleMatching_proofs` | that it finds the largest matching | |
| `ApprovalGate` | the gate, its table, pools, identity binding, timers, sweep, restart, blocked callers | implements `ApprovalRegister` |
| `ApprovalGate_proofs` | theorems about the gate | |
| `EffectJournal` | journal and cache | operators on rows |
| `ToolSafetyGate` | the tool call middleware around `executeTool`, one loop | uses `EffectJournal` |
| `ToolSafetyGate_proofs` | theorems about the tool gate, also with the constants of its run | |
| `DurableRecovery` | iteration, checkpoint, crash, scan, resumption, many loops | uses `EffectJournal` |
| `DurableRecovery_proofs` | theorems about recovery, and about its run | |
| `FreezeAndWallet` | freezes, wallets, audit cycle, the loop's check and debit, restart | |
| `Orchestration` | one task with its plan, gate, driver, loops, reviews, tracker, monitor | |
| `L1Dialogue` | dialogues of top-level agents, lifecycle decisions, splits | |
| `SingleAgent_proofs` | theorems about freezes, wallets and dialogues; the types of the gate | as parts of `MCSingleAgent` |
| `ChildRegistries` | registries of children, transfer, restoration | the operations `L1Dialogue` uses one by one, in any order |
| `DomainLedger` | the domain ledger of an agent, merge requests and verdicts | likewise |
| `SharedMemory` | shared memory and the tribunal | |
| `SharedMemory_proofs` | theorems about both | |
| `Team_proofs` | theorems about orchestration; those of `SharedMemory_proofs` for the run | as parts of `MCTeam` |
| `SettingsSync` | settings on the server and on several devices | |
| `StatsSync` | statistics: derivation, batches, watermark | |
| `Records_proofs` | theorems about settings, registries, ledger and statistics; that of `RoleMatching_proofs` for the run | as parts of `MCRecords` |
| `MC*` | constants of the instances; `MCSingleAgent`, `MCTeam` and `MCRecords` check several components in one run, see section 3 | |

### ApprovalGate

`queue[a]` with `a \in inQueue` is an entry of `approvalQueue`; rows of earlier
processes keep only their verdict, in the history variable `past`. `disk` is the
status column of `pending_approvals`. `caller` and `answer` describe the tool
call: `waiting` in `waitForApprovalDecision`, `delaying` in the review animation
of a whitelisted tool, `done` after it, and what it was told.

| Action | Code |
|---|---|
| `Request` | `wrapToolCall` of the tool gate up to the `await`: pool, `createApproval`, `registerApproval` with its insert |
| `RequestAutoFull` | the branch of `createApproval` for full permission, and the caller's two ways on. Its record has no `loopId`, `requestedBy` or `requestedAt`, which the table requires: the insert fails and is swallowed |
| `Decide` | `POST /api/approvals/:id/decide` and `adjudicateApprovalByAgent`, down to `decideApproval`, the update and `notifyWaiter` |
| `AutoApprove` | the end of the animation: `forceApprove`, whose result is ignored |
| `WaiterTimeout` | the timer in `waitForApprovalDecision` |
| `Sweep` | `checkTimeoutApprovals` |
| `SetSessionAutoApprove` | the session switch |
| `Restart` | the process ends at any point; the next runs `expireStaleApprovals` |
| `Tick` | time |

A vote is a pair of role and identity. Accounts may speak as `user` or as proxy
for any role (`bindApprovalIdentity`, cases 1 and 2b), agents only for the role
they have (2a). The vote's order matters nowhere after `RoleMatching`, so a row
keeps the set. `Persist` is the fail-safe write: with `DbMayFail` any of the
rows may silently not be written.

### ToolSafetyGate

One loop, which issues calls one after the other; a call is a tool with its
arguments. Journal and cache go by the call's idempotency key, `KeyOf`, and two
calls may have the same: `makeIdempotencyKey` (`idempotencyStore.ts`:52) drops
what is nested below the top level of the arguments, as those of `ToolExecute`
are. The number of the attempt is its effect id.
`Execute` is the passage from the intent to the start of the tool, in one step
because nothing in it awaits; `late` counts executions whose timeout has been
answered for and that still run. `effects` is a history variable. A failing
statement leaves its row (`Attempted`). The approval is its verdict only; that
it comes is `ApprovalGate!EveryCallAnswered`.

### DurableRecovery

A task is a set of steps, each a journaled call with a key of its own. An answer
of the model asks for any set of the steps that the conversation does not show as
done (`AskFor`): `todo[l]` are those of them that have not begun, `step[l]` is the
one under way and `results[l]` those that have returned with success. They are
called one after the other, whatever becomes of each, and when none is left
`EndIteration` appends the results to the conversation, `known[l]`, and writes the
checkpoint, which is the iteration and what is known. Stages separate the
statements between which the process may die: thinking, calling, intent, executing,
happened. `Restart` is the death of all loops and the start-up of the next process:
`resolveTimedOutEffects`, the scan of `loops`, and `executeAssignedTask` with the
conversation of the checkpoint under a new loop id. `parent`, `task`, `resumedAt`
and `happened` are history. A step that is tried again in a later iteration has a
new effect id while its row keeps the first one (`EffectId`), so the row of such a
retry is still INTENT if the process dies during it, and counts as no doubt.

### FreezeAndWallet

`frozenAgents`, `records` and `counter` are the registry in memory, `rows` the
table, `wallet` and `balance` the wallets, `calling` the agents whose model has
been asked: `BeginIteration` is the check before the call and `EndIteration` the
debit after it. `Restart` is `hydrateFreezeState` followed, in the same start-up,
by `resetFreezeManager`. Wallets are not persisted and come back empty. `freezeAgent`
does not ask whether there is an agent of that name (nor does
`POST /api/audit/freeze`), and `createAgent` does not ask for freezes: `FreezeAgent`
may come before `CreateAgent`, and the wallet created then is active. `early` is
history: the frozen agents of which that is so.

### Orchestration

One publish is one action with all that its subscribers do, in the order in which
they subscribed (tracker, orchestrator, gate), because `publish` is synchronous.
What they change is the record `plan`: the task's state, the tracker's `progress`,
the gate's `waiting` and `inFlight`, the rows of `subtasks`, the agents. `Drive`
starts the next loop of the serial queue, `Submit` and `Verdict` are the review
with any number of judges under way, `Poll` is the monitor: the repeated failures,
then `reapStalePlans`. Decompositions are chains and sets of assignments with any
limit on parallelism.

Each step that reaches the tables `tasks` and `subtasks` has a parameter, the set of
statements it loses (`Losses`): an INSERT, a SELECT or an UPDATE of one row. A
statement fails and is logged, or it finds no row since the active account is no
longer that of the row (`subtaskRepository.ts`:153 and 174); the code goes on all the
same. A row that was not inserted is "missing"; `stale` is history, the assignments
whose last write at an end was lost.

### L1Dialogue

A dialogue is a record in `runs`: its component's state, its cycles, its outcome.
Dialogues of one agent share the agent's ledgers (`self`, `peers`, `waits`,
`settled`). A cycle is one of `StepGoesOn`, `StepFails`, `StepReportsChild`,
`StepDecides`; the last asks the model, whose answers are `Answers`, falls back when
they are not legal, and commits the decision with a checkpoint that may not be
written. The program gives the model one answer only, to terminate
(`l1Entry.ts`:218), and so do the runs; the theorems that need it say so. `Split`
creates the peer, `Join` registers it in the domain or takes it back, `StartPeer`
begins its own loop; other steps come between.

### ChildRegistries and DomainLedger

The registries of several agents and the ledger of one agent by themselves, with
every operation of `ledgers.ts` in every order, also those that the program does
not call yet (`transferChildren`, `resolveMerge`, `restoreLedgers`). `Transfer`
checks all children before it moves the first one.

### SharedMemory

`entries` are those of the process and `rows` those of the table. Claims about a
key are "yes" or "no"; a write of the opposite is refused and, when its conflict
is heard, decided in its favour within the same step, as publication is
synchronous. Numbers are given anew by each process, and the row that has the
number already keeps its key, owner and content, and takes over metadata, version
and status (`Upsert`). `cases` are filed by such a write, by hand or for an alert; `Sweep`
is the settlement of the stale. `by` and `meta` in an entry are history: the accounts
under which its content and its metadata were written.

### SettingsSync and StatsSync

A push is `Check`, `Store`, `Pushed`: the SELECT and the UPDATE of the server's
transaction, and the answer at the device. Each may fail to come. `StatsSync`
derives a batch from the local rows (`Queried`, `Derived`, `Batched`), sends it, and
has it `Accepted` or `Lost`, in which case the server may have stored it. The clock
counts the milliseconds of `Date.now()`: any number of rows may have the same time,
also that of the watermark, and be written before or after the query. Where the code
leaves an order open - which rows of one time a query with a LIMIT returns, which of
them is paired first, which event of one kind and time is cut off - the model takes
any: `Rows`, `Pairings` and `Batched` are sets of what may come of it.

## 3. What TLC checks

Components that share no state are checked in one run where they are about one
subject: the `MC` module chooses at the start which component runs and lets only
it move. The behaviours of such a run are those of its components one after the
other, so that each property says of its component what it would say in a run of
its own; fairness is that of each component. `MCToolSafetyGate` and
`MCDurableRecovery` choose in the same way whether statements may fail.

Passing runs:

| Run | Bounds | What it shows |
|---|---|---|
| `gate_register` | 2 approvals, 1 human, 2 agents, clock to 2, restarts without a limit | no lost wake-up, no contradicted caller, table agrees, refinement of the register |
| `gate_quorum` | 1 approval of a whitelisted tool, whose votes race the policy, 2 humans, 3 agents, two-person policy | two identities for two roles; no say for the requester |
| `tool_gate` | 4 calls of 3 kinds, two of which share a key, 3 attempts; clock to 3 with failing statements, to 4 without, cache of 2 ticks | written ahead, no success without an effect under its key, success is final; no effect while cached, across the wait for an approval |
| `recovery` | 2 steps, asked for in one answer or in two, 3 loops; 1 restart and 2 iterations of each loop, or 2 restarts and 1 iteration, or 1 restart, 1 iteration and failing statements | nothing skipped, even when statements fail; nothing repeated but calls of the iteration a loop died in, doubt left to a human |
| `single_agent` | freezes: 2 agents, 2 freezes, 1 restart, clock to 3; dialogues: 2 of them with 2 cycles, 2 peers, 1 child; calls: 2, one whitelisted, writes may fail | frozen, recorded and paid for alike; a frozen agent pays nothing; no false success, nothing suspended unsaved, no peer without a domain; freezes, dialogues and waits end |
| `team` | task: 2 assignments, chained or not, 1 iteration, 2 submissions; or 1 submission where statements are lost, which is one, or all of a step, once, or whatever another account does not reach, from some step on; memory: 2 accounts, 1 key, 3 writes, 2 cases by hand, 1 restart | stages in order, done only if reviewed, ended plans leave nothing; accounts read their own content, one open case, no silent reversal; plans and cases end |
| `records` | settings: 2 devices, 3 pushes; statistics: 2 messages, 2 calls, batches of 2, clock to 5, any rows at one time; registries: 2 of 2 live children, 4 children; domain: 2 peers, 2 domains, 2 requests; votes: 4 by 3 identities | revisions name their data, no message behind the watermark that is alone in its millisecond, one parent per child, complete counts every peer, the count is the largest matching |

Why the bounds are enough. Two approvals show every interference of one approval
with another (the sweep settles sets, the restart all); a quorum is two of at most
four roles, so two humans and three agents give every coincidence of role and
identity; journal and cache keep one row per key, so that three attempts give first call, retry and retry of a retry, and a timeout of one tick within a clock of three
or four makes every row both fresh and stale; two steps are needed to repeat one and
skip the other, and to have two in one iteration, three loops to resume a resumed
loop (loops are symmetric). A second freeze of one agent needs two freezes and one
expiry between them, which three ticks leave room for. Two assignments make a chain
whose second stage waits, and a parallel pair; two submissions let an older verdict
meet a newer submission. The losses of the run are few, each statement alone and all
together; the theorem is for any set of them in any step. Two dialogues are what can
share a ledger, two peers what can collide in a domain, and two cycles the last and
one before it. Three writes are an entry, its contradiction and one more after a
restart or under another account. Three pushes by two devices are two that cross and
one that comes late; five ticks let both messages and both calls happen on either
side of a batch that is cut, lost or pulled back, or at one time with its end.
Deadlock is checked in the runs of `ApprovalGate`; elsewhere the bounds on attempts,
writes, requests and restarts end every behaviour, and the configuration says so.

Fairness. `ApprovalGate`: the clock, the waiter's `setTimeout`, the end of the
animation and the `setInterval` of the sweep (`main.ts`:1551) are weakly fair -
the event loop fires timers that stay due. `FreezeAndWallet`: the clock and the
interval of the audit cycle. `Orchestration`: the clock and the interval of the
monitor (`main.ts`:1038); no loop and no judge is assumed to come to an end.
`SharedMemory`: the age of a case and the sweep of `arbitrationWiring.ts` (30 s).
`L1Dialogue`: each dialogue goes on - its model calls have timeouts, so that a
cycle ends one way or the other. Nothing is assumed of voters. The remaining
modules are checked for safety only and assume no fairness.

Disagreements found. Each is a run that expects a violation, with the line it
contradicts quoted in `PROJECT.json`:

| Run | In short |
|---|---|
| `gate_selfreview` | a regulator may vote on its own request: its role has another name in the pool |
| `gate_whitelist` | a whitelisted call goes on though its approval was rejected during the animation |
| `tool_retry` | the success of a retry is never written to the journal: later the call is executed again |
| `recovery_completed` | a completed step is executed again by the resumed loop, whose journal is another one |
| `freeze_restart` | the start-up restores the freezes and then resets them: after a restart a frozen agent runs |

The modules state more of what comments promise, or one would expect, and the model
refutes. No run checks these; to see why one fails, check it with the constants given:

| Module | Statement | What happens | Constants |
|---|---|---|---|
| `ToolSafetyGate` | `CachedSuccessIsItsOwn` (`effectJournal.ts`:72, `idempotencyStore.ts`:50: the key of all the arguments) | a call is answered with the success of another one that differs in what is nested in its arguments, and never runs | as in `MCToolSafetyGate.cfg` |
| `FreezeAndWallet` | `FrozenHasNoActiveWallet` (`freezeManager.ts`:188) | an agent is frozen before it exists; its wallet, created later, is active. Nothing is debited from it, as the agent cannot begin a call (`FrozenSpendsNothing`) | as in `MCSingleAgent.cfg` |
| `Orchestration` | `TerminalTaskIsFinal` (`taskApi.ts`:56) | a cancelled task is written over when its plan ends | as in `MCTeam.cfg` |
| | `RowsAgreeWithTask` (`subtaskDispatcher.ts`:71) | a verdict after the watchdog's turns a failed assignment into a completed one | as in `MCTeam.cfg` |
| | `EndedPlanLeavesNoOpenRow` (`subtaskDispatcher.ts`:66) | the account changes during the plan: the ends of its assignments find no row to write, and the list shows them as dispatched for ever | as in `MCTeam.cfg` |
| | `EveryPlanEnds` (`orchestrator.ts`:312) | a worker that submits under another's identifier | `Misnames = TRUE` |
| `L1Dialogue` | `PeersAreNotWaitedFor` (`agentSplit.ts`) | a peer is never told to be done, so the dialogue that split it off runs out of cycles and is an error | `Kids = {}` |
| | `SuccessMeansTheTaskRan` (`agentExecutor.ts`:73) | a second dialogue finds the ledgers of the first one done and reports success without a step | as in `MCSingleAgent.cfg` |
| | `TerminalAbsorbs` (`lifecycleTypes.ts`:110) | the fallback after illegal answers leaves a terminal state | `Answers = {"terminate", "none"}` |
| `SharedMemory` | `SettledConflictIsHeardAgain` (`tribunal.ts`, `settleStaleCases`) | a conflict whose case was settled as stale is not filed again | `Keys = {k1, k2}` |
| | `WrittenRowHoldsItsEntry` (`globalWorkspace.ts`:449) | the numbers restart from the anonymous account's rows and meet those of another account; the row keeps the old content | `Keys = {k1, k2}` |
| | `LookupFindsItsKey` (`attach.ts`:31) | a reference by number finds the entry of another key | `Keys = {k1, k2}` |
| | `OwnersSeeOnlyTheirOwn` (`globalWorkspace.ts`:245) | an entry of another account gets the number of a row the account owns, and its metadata - source agent, evidence chain - go into that row, where the owner reads them | as in `MCTeam.cfg` |
| `SettingsSync` | `NoUnseenOverwrite` (`SettingsRepository.java`) | two pushes pass the check together, the second overwrites the first | as in `MCRecords.cfg` |
| | `RevisionsGrow` (`SettingsRepository.java`) | after a deletion they begin again | `MayReset = TRUE` |
| `StatsSync` | `EveryCallIsCounted`, `NoCallCountedTwice` (`syncApi.ts`) | an event and its effect on two sides of the end of a batch | as in `MCRecords.cfg` |
| | `EveryTurnIsCounted` (`syncApi.ts`: each reply counts as a turn) | two messages in one millisecond, the first the last event of a batch: the second was cut off, or written after the query, and the next query asks for what is later | as in `MCRecords.cfg` |

And without a statement of their own:

- an agent's vote for a role makes a human's later vote for it refused, though
  one human is said to suffice (`approvalGate.ts`:68 against 424-445);
- a retry may run beside an execution that outlived its timeout, whose row says
  FAILED (`effectJournal.ts`:93 against `toolRegistry.ts`:230);
- loops that have ended keep the phase `running` and are resumed at every start
  (`recoveryScanner.ts`:74);
- a step executing at the crash is replayed if the restart comes before its
  timeout (`recoveryScanner.ts`:66);
- a loop that dies in its first iteration has no row, hence no plan
  (`recoveryScanner.ts`:177 against `iterationCheckpoint.ts`:81);
- unknown effects that cannot be read count as none (`recoveryScanner.ts`:125);
- the verdict of a judge that outlived its timeout is applied to a newer
  submission (`agentRuntime.ts` with `toolRegistry.ts`:230);
- the first push of a device expects no revision and overwrites settings it has
  not seen; a push whose answer is lost conflicts with itself (`syncService.ts`:499);
- after a restart a superseded entry of the shared memory is active again, as
  its row is never updated (`globalWorkspace.ts`:208).

`WorkingDoubtNeedsHuman`, `WorkingRepeatsOneIteration` and
`WorkingNoEffectWhileCached` speak of a database that works: a lookup or query that
fails counts as an empty one. `ProceedsOnlyIfApproved` and the refinement hold
without a whitelist, `NoSilentReversal` within a process, `RevisionNamesItsData` as
long as the settings are not deleted: `records` is checked without the action
`Reset`, which only `RevisionsGrow` above needs. `RevisionNamesItsData` is about the
devices of one account: an answer that comes after the user has changed to another
account (`prefsStore.ts`:145-157) is outside of it. In `NoSilentReversal` two claims
contradict each other when `detectSemanticConflict` says so, which is a heuristic over
their text (`memoryGovernance.ts`:92-117). `EveryFreezeEnds` assumes that the audit
cycle runs, that is, that its interval is enabled in the configuration. The program does not call the transfer and
restoration of registries, nor the merge requests and verdicts of a domain yet: what
`EveryChildHasOneParent` and `CompleteCountsEveryPeer` say of them is said of the
interface of `ledgers.ts`.

## 4. What is proved

Every safety property that a passing run checks is also a theorem. Each theorem
holds for all values of the constants, under hypotheses that are stated in the
module or at the theorem:

- sets of approvals, identities, agents and calls are finite where something is
  counted, bounds are natural numbers, timeouts positive, no account is also an
  agent, no domain is called "none" and no role "nobody", a pool names each role once
  (`buildApprovalDeciders`), no agent is its own sibling. The constants
  of each run satisfy them;
- `DbMayFail = FALSE`, `NoWhitelist`, `NoRegulatorRequests`, `Misnames = FALSE`,
  `TheModelTerminates` restrict what happens. Each is named below with what TLC
  shows without it.

Theorems about a component speak of its `Spec`. For components that run as parts
of an `MC` module, the theorems speak of `OneByOne`, the specification of the run,
with all its constants left open. Most invariants are not inductive; what follows
says what each had to be strengthened with, and why.

`ApprovalGate_proofs`

- `TypeCorrect`, `NoLostWakeUp`: the inductive invariant `WakeUpInv` is the type
  invariant with `BlockedOnlyWhilePending`. A status leaves PENDING in four
  actions; each tells the caller in the same step.
- `TwoPersonControl`: `QuorumSound` is inductive once rows are typed. The core is
  `DecidedIsGranted`: a matching of two votes consists of two that differ in role
  and in identity (`TwoDistinctVotes`, by cardinality).
- `GateImplementsRegister`, `NoneProceedsUnapproved`, `AnswersAreVerdicts`: assuming
  `NoWhitelist` (without it, run `gate_whitelist`). `RegisterInv` adds for each
  approval that the caller waits exactly when its answer is WAITING, that an
  unused approval has no trace, and that an answer is the verdict. `StepsOfTheGate`
  reduces ten actions to four kinds (quiet, open, settle, restart), and both the
  invariant and the refinement are proved for the kinds.
- `NoneReviewsItself`: `NoSelfReview`, as long as no agent with the role regulator
  asks (with one, run `gate_selfreview`). A row carries the pool of
  its requester, whose own role is not in it, and has no vote of the requester.
- `TableShowsTheVerdicts`: `TableAgrees`, as long as no statement fails. What
  was written shows the verdict, and nothing is written of what nobody asked for.

`ToolSafetyGate_proofs`

- `TypeCorrect`, `JournalIsWrittenAhead`, `NoFalseSuccess` from `GateInv`.
  `WrittenAhead` and `SuccessIsReal` are not inductive alone. `EffectIds` says
  that a row keeps the number of the attempt that created it, so that the
  running attempt reaches only its own row, still open; `Backed` says that a
  controlled tool runs only on an accepted intent and that a key in the cache is that
  of a call which has had its effect. Nothing is assumed of `KeyOf`.
- `SuccessIsForEver`: the action property, from the same invariant - the effect
  id of the running attempt is never that of a succeeded row.
- `CachedCallsRest`, `RunCachedCallsRest`: `NoEffectWhileCached`, as long as no
  statement fails. A call under whose key a result is cached never gets as far as the
  tool, because nobody else writes to the cache between the lookup and the start, the
  wait for an approval included (`Uncached`).

`DurableRecovery_proofs`

- `TypeCorrect`, `NothingIsSkipped`: whatever statements fail. `RecoveryInv` says
  that a loop's results are steps it has done (`InStep`) and its
  checkpoint shows no more than the loop knows (`CheckpointBehind`), so that a resumption,
  which continues from the checkpoint, cannot skip one.
- `CrashCostsOneIteration`, `DoubtIsLeftToHumans` (and `Run...` for the properties of
  the run): with a working database. The first says that a resumed loop brings about
  no step that the loop it was resumed from had in its conversation, so that what it
  repeats are calls of the one iteration that one died in, one or all of them.
  `WorkingInv` adds that the checkpoint of a loop shows all the loop knows
  (`CheckpointCurrent`), and that a loop which has been resumed does nothing any more,
  while the new one knows at least what that checkpoint showed (`ParentsAtRest`); an
  answer asks only for what the conversation does not show.

`SingleAgent_proofs`

- `FrozenIsNotDebited`: `FrozenSpendsNothing`. The check before a model call says
  nothing of the agent when the call is paid for. What protects it is the invariant
  that a frozen agent whose call is under way has no active wallet: it existed when it
  was frozen, since a frozen agent begins no call, and so its wallet was frozen with
  it; and each release takes the agent out of the registry in the step that thaws the
  wallet. That the wallet of every frozen agent is frozen is not so, see section 3.
- `FrozenAndPaidForAlike`: `FreezeCoherent`. Its last part, that no token is made
  or lost, is a sum over agents. The sum is a recursive function on sets, whose
  existence is proved first (`SumExists`) and whose laws follow from a smallest
  set for which they fail (`LeastSubset`) instead of an induction: `TotalChanges`
  says what a payment does to it. `RegistryInv` adds that no two open records
  are of one agent and that the records are those the counter has reached,
  `WalletsInv` that a wallet which does not exist holds nothing. Of the wallet of an
  agent that was frozen before it existed (`early`) the theorem says only that it is not
  frozen without a freeze.
- `WhatIsSuspendedIsSaved`, `NoPeerIsLeftBehind`: whatever the model answers.
  `SuspendedIsSaved` because the component moves after the write;
  `PeersHaveADomain` by `SplitInv`: a peer whose registration is under way is in
  nobody's domain, and who was taken back is never split off again.
- `SuccessIsOfTheTerminated`: `NoFalseSuccess`, if the model answers as
  `l1Entry.ts`:218 makes it answer (`TheModelTerminates`). TLC refutes it for
  `Answers = {"terminate", "none"}`: the fallback after illegal answers turns a
  terminated component into an abandoned one while its agent's ledger stays done.
- `TypesCorrect`: the types of freezes, dialogues and gate; the last by instantiating
  `ApprovalGate_proofs` with the constants of the run.

`SharedMemory_proofs`

- `TypeCorrect`, `ContentStaysWithItsOwner`, `NoTwoTribunals` from `MemoryInv`: an entry
  or row bears the account under which its content was written (`Owned`), whatever
  metadata it takes over, and a case is filed
  only for a conflict that has none open (`OneAtATime`).
- `ReversalsAreRuled`: `NoSilentReversal`. A write of the opposite is either
  refused or replaces the entry by the ruling of a case filed in the same step.

`Team_proofs`

- `StagesComeInOrder`, `NothingCompletesUnreviewed`: if workers submit under their
  own ids; with `Misnames = TRUE` TLC finds both violated, since a submission under
  another's id puts an accepted review back to pending. `NothingOutlivesThePlan`
  needs no hypothesis: it holds for any ids, and for any set of lost statements in any
  step, of the rows whose last write was not lost (`stale`), a write being what
  `EndRow` does. All three come from `OrchInv`, which is stated of the record
  `plan` and of the set of accepted assignments (`Consistent`): what tracker, gate
  and rows say of an assignment, which of them may have started, what remains
  when the plan has ended. It is proved of every function on `plan`
  (`PumpKeeps`, `FinalizeKeeps`, `FailureKeeps`, `CompletionKeeps`, `ReapKeeps`, ...)
  as the code composes them, and an action needs the composition only. In the
  middle of such a composition one assignment is out of step; the third argument
  of `Consistent` names it. The failures that the monitor applies one after the
  other are a recursive function, whose existence (`RunExists`) is proved too.
- `TypesCorrect`, and `RunContentStaysWithItsOwner`, `RunNoTwoTribunals`,
  `RunReversalsAreRuled`: the theorems on shared memory for the behaviours of
  the run, by an instance of `SharedMemory_proofs`.

`RoleMatching_proofs`

- `LargestMatching`: `CountIsLargestMatching`, for any pool, any identities and
  any votes in any order. It is a statement of what a recursive function
  computes. The induction is by a smallest counterexample: a call of
  `tryAssign` makes calls that have visited more (`Rank`), so the function exists
  (`FromExists`), is the only one (`FromIsUnique`), and a call for which a claim is
  false with fewest left to visit refutes itself. Three claims are proved so.
  `SuccessIs`: a call that succeeds leaves a matching which has one role more and one
  identity more; the calls nested in it run on a Map that is for the moment
  none, since the identity under way still holds the role it gives up, and so
  the claim speaks of the identities not yet visited (`Sensible`). `FailureIs`: a
  call that fails changes nothing, and the visited set it leaves holds all who may
  speak for its role and, of each in it, all who may speak for the role it holds
  (`Closed`). `ClosedIsAvoided`: no later call takes anything from such a set. So
  at the end (`LoopInv`) a closed set holds all who may speak for the roles left
  out, and `NoneIsLarger` maps any matching into the identities assigned, one to
  one: a voter in the closed set to itself, any other to the holder of the role.

`Records_proofs`

- `RevisionsNameTheirData` (and `Run...`), as long as the settings are not deleted on
  the server: `RevisionNamesItsData` is strengthened to all that may still become what
  a device knows, the answers under way to pulls and pushes; none of it is ahead of
  the server, and what is as new is the server's version. The write adds one to the
  revision of the row as it is then, and so leaves everything behind.
- `TypesCorrect`. That the revision stays in its range is the statement that it
  never exceeds the number of pushes that wrote (`TypeInv`).
- `NoMessageIsPassedOver`: `NothingBehindTheWatermark`, from `StatsInv`: what lies
  behind the point to which a batch will move the watermark is counted or in
  the batch, if it is alone in its millisecond (`Alone`). `LeftOut` shows that a batch
  cut at its limit leaves out only what is not earlier than anything it carries,
  `BatchIs` what the pairing of calls makes of it. The watermark is always the time of
  some row (`Marked`), so that a message written later in the same millisecond is not
  alone, and one in a later millisecond is not behind it.
- `NoChildIsLost`: `EveryChildHasOneParent`. `WellKept` adds what a restart needs:
  no child is twice in a registry, and fewer than the limit are outstanding among
  those that come before a child, so that registering them again in their order
  refuses none (`RestoreIsTheSame`), however many have come and gone.
- `NoPeerIsForgotten`: `CompleteCountsEveryPeer`, from the invariant that whoever
  was split off and not absorbed is a member.
- `CountIsTheQuorum`: `LargestMatching` for the votes of the run, whose operators are
  those of another instance of the same module (`SameCount`).

Only model-checked: the liveness properties (`EveryCallAnswered`,
`EveryFreezeEnds`, `EveryDialogueEnds`, `EveryPlanEnds`, `EveryCaseEnds`), since
fairness and ENABLED are out of the prover's reach.

## 5. What is not modelled

`PROJECT.json` lists every component with its status. Within the modelled ones:

- gate: approvals that are not CRITICAL (no code on the tool path creates them), the
  global `autoApproveAll` flag (the session switch has the same effect on the
  session it is set for), the abort signal of a wait (never passed);
- recovery: `purgeExpired` and `pruneCheckpoints`, which remove only what is not
  read again, the checkpoints' limit of 40 messages, budgets, and the stop rules of
  the loop, which are "the loop may end". A model's choice of the next tool is free,
  and what it says in an answer beside its calls is left out;
- wallets: `credit`, `confiscate`, `verifyConservation` and the second budget of
  `dualBudget.ts`: only tests call the first three;
- orchestration: the decomposition of a task and the choice of agents, the execution
  route `POST /api/agents/:id/execute`, the aggregation of results;
- outer loop: merges, which the program submits nowhere; their effect on the ledgers
  is in `ChildRegistries` and `DomainLedger`;
- shared memory: `workspaceLock.ts` (no caller), optimistic versions (no caller
  passes one), rows of `global_workspace` whose write fails;
- synchronisation: memories, tasks, backups, sessions and tokens, and answers that
  come across a change of account; in the statistics, `token.consumed`, which is
  derived as `chat.turn` is.

Not modelled at all: the loop scheduler and the messages between agents, which
nothing calls; the deadlock watch, which is called at each iteration but can find
nothing, since each wait that is registered ends at an approval; and the greater
part of the repository by lines: prompts, retrieval, context, scoring, rules over
text, adapters to models and tools, schemas and defaults of the configuration,
migrations, REST and IPC routes that pass data on, pages and stores of the client,
and the CRUD of the account server. They compute over text, or read and write one
row on behalf of one caller; what could be wrong there is a matter of content or
of one call, which a test reaches and a state space does not show. That is why
the modules stand for a small share of the lines, and for most of those in which
several actors or several steps share state.

## 6. Plan

1. Done: all components with several actors on one state that the program runs,
   with their runs; a theorem for each safety property of a passing run.
2. Next, proofs: abstract specifications beside `ApprovalRegister`: what a loop may
   rely on from journal and cache, and what a task promises whoever submitted it,
   with the refinements proved.
3. Then, in the model: the composition of `ToolSafetyGate` with `ApprovalGate`
   through `ApprovalRegister`; memories and tasks in the synchronisation; the window
   of 40 messages in `DurableRecovery`.
