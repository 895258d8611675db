# Lumio Agent OS: a verification project

TLA+ models of the parts of Lumio Agent OS that keep state under concurrency, failure and
retries, the TLC runs that check them on small instances, and TLAPS proofs of what should
hold for every instance. Paths such as `runtime.ts` are below `src/services/agent-kernel/`
unless they say otherwise. `PROJECT.json` maps every definition to the lines it models.

## 1. Inventory

### Parts of the system

| Part | State it keeps | Operations | Correct when |
|---|---|---|---|
| Task graph runtime (`runtime.ts`) | `runningTaskIds`; everything else is in the store and the substrate | `createTask`, `runTask`, `approveTask`, `cancelTask`, recovery, requeueing, `executeNode`, `handleNodeFailure`, `reconcileTaskTerminalState` | one run at a time executes nodes; a node is invoked once per attempt; results stay; a task ends or waits for its user |
| Execution substrate (`substrate.ts`) | retry jobs, execution units, claims with leases, dead letters, trigger queues | `scheduleRetryJob`, `claimExecutionUnit`, `heartbeatClaim`, `releaseClaim`, `recoverStaleClaims`, `recordDeadLetter`, ... | one active claim per unit; every claim comes back; a dead letter is final |
| Worker pool (`workerPool.ts`) | one timer per task, a polling interval | `scheduleTask`, `drainOnce`, `start` | whatever is due is eventually run |
| Task store (`store.ts`, `storeAdapters.ts`) | task, node states, graphs, idempotency cache; a database copy | `updateTaskState`, `updateNodeState`, `persistSnapshot`, ... | the copy that survives a restart is the last one |
| Node executors (`nodeExecutors/`) | the idempotency cache, through the store | tool, llm, merge, approval, verify | a tool call declared idempotent is not repeated |
| Policy engine (`src/services/policy-engine/`) | capsule approvals | `evaluate` in five phases | the strictest matching rule wins |
| Compensation (`compensation.ts`) | none | handlers of failed nodes | irreversible effects reach the user |
| Ledger, events, observability (`ledger.ts`, `events.ts`, `observability.ts`) | append-only records and projections | `append*`, projections | a projection agrees with what it projects |
| Connector platform and webhook credential (`connectorPlatform.ts`, `vaultWebhook.ts`) | delivery records, one record of a credential; the leases are Vault's | `dispatchWithAdapter`, `deliver`, `inspectCredentialHealth`, `renewCredentialLease`, `revokeCredential`, `rotateCredential` | a revoked credential stays unused; a payload is repeated at most as often as there are attempts; the rate holds |
| Product shell and enterprise administration (`productShell.ts`, `trialWorkspace.ts`, `identityAdmin.ts`, ...) | invitations, seats, identities | administrative calls | seats stay within their limit |
| LIX marketplace (`src/services/lixStore.ts`, `settlementService.ts`, `acceptFeeService.ts`, `disputeService.ts`, `invoiceLedger.ts`) | intents, offers, accept tokens, bond accounts and locks, claims, fees, invoices, disputes | broadcast, accept, deliver, review, convert, expire, dispute, settle | money is conserved; what is locked is released or slashed; a settled fee stays settled |
| Intent proofs (`src/services/verifyIntentProof.ts`, `nonceCache.ts`, `redisNonceCache.ts`) | used nonces | verify, record | a nonce is accepted once |
| Data providers (`src/services/providers/`, `marketService.ts`) | token buckets, circuits, caches, a pool of fetch slots | `broadcastIntent`, `fanoutSearch`, `search`, `extractDetail`, `headlessFetch` | limits hold; a banned provider is left alone; a slot comes back |
| Assistant services (`src/services/superAgentService.ts`, ...), UI (`src/components/`), API handlers (`src/api/`) | conversation and view state | prompt assembly, rendering, request parsing | out of scope: data transformation with little control state |

### How they interact

API handlers (`src/api/agent-kernel/tasks/[taskId]/{run,approve,cancel}.ts`, the enterprise
decision handler and `super-agent/execute.ts`) call the runtime. The runtime calls the store
and the substrate, both asynchronous; between two such calls any other handler of the same
process may run. When it has something to wait for (a backoff, a lease) it asks the worker
pool for a timer, which calls `runTask` again. `startWorkerPoolPolling` adds a polling loop;
only tests start it. Reads are answered from the in-memory copy of the store in every driver
(`storeAdapters.ts:1650-1690`); writes wait for the database. Timers do not survive a restart;
store and substrate do, with a durable driver.

The market's broadcast (`src/services/marketService.ts`) calls the provider registry, which searches
the shops side by side; their adapters share the fetch pool, the global token bucket and, within a
shop, the circuit. The connector platform calls the webhook service for every attempt and once more
before and after; the two share a store only if both were given the same one. None of them meets
the runtime except through the store, so each is a model of its own.

### What is hard here

* overlapping `runTask` calls of one task: the test of `runningTaskIds` comes after awaits;
* recovery of a lease that ran out while its executor is still at work;
* parallel nodes of one batch, each writing the *task's* status, wait and budget;
* approval and cancellation while nodes run;
* a restart between two writes that belong together;
* retries: a job, a node and a timer must agree on what is to happen next;
* the many error exits of `executeNode`, each of which must give the lease back;
* saves that overlap in the database, fail halfway or are cut off by a restart;
* fetches of several searches that end in any order, after the circuit has opened or with a queue
  waiting for their slot;
* a credential that is revoked while calls hold an older copy of its record, answers that are lost
  after the endpoint took the payload, and a rate compared long before it grows.

Every hazard, with its line and the properties aimed at it, is in `PROJECT.json`.

## 2. The model of the runtime

`ExecutionSubstrate.tla` holds the substrate's state and operations as definitions of the next
value of each of its variables. `TaskGraphRuntime.tla` extends it: the task, the nodes, the invocations of
`runTask`, the flows of `executeNode`, users, timers and crashes. `TaskGraphProperties.tla`
states what must hold. `MCTaskGraphRuntime.tla` gives TLC small graphs. `TaskExecution.tla` is what
a client is promised, without leases, retries, runs or crashes (section 3).

### State

| Variable | In the code |
|---|---|
| `taskStatus`, `currentWait`, `toolCalls` | `task_state.status`, `.current_wait`, `.budget_used.tool_calls` |
| `nodeStatus`, `attempt`, `retryable`, `approvalGranted` | `node_state.status`, `.attempt`, `.error.retryable`, the approval kept with the node's output |
| `retryJobs[n][a]`, `deadLetters`, `unit`, `executionClaims` | the substrate's maps, keyed by node and attempt as their ids are |
| `runningTask` | membership in `runningTaskIds` |
| `callPc`, `todo`, `marking` | where each concurrent invocation of `runTask` stands and what its loops have left |
| `flowPc`, `target`, `spentSeen` | where the flow of each node stands, the attempt it aims at, the budget it read |
| `timer` | the worker pool's timer of this task: none, due soon, or due with a backoff or a lease |
| `elapsed` | which of the task's deadlines are over |
| `approvePc`, `approved`, `cancelPc`, `toCancel` | where `approveTask` and `cancelTask` stand |
| `invoked`, `approvals`, `cancels`, `epoch` | history: calls of an executor per attempt, uses of the bounds, crashes |

### Granularity

A step is the code between two awaited writes: the reads before the write, then the write. All
reads come from memory, so nothing can come between a read and the next write but other
handlers' completed writes; the writes of one substrate operation are one step. `Promise.all`
over a batch gives one flow per node, interleaved freely. So the model distinguishes, for a
tool that fails: the RUNNING write, the consumption of the retry job, the invocation, the
FAILED write, the creation of the next job, the release of the claim, the timer of the retry (or the
dead letter), and the reconciliation.

### What is abstracted

* Policy decisions and the answers of executors are choices from the sets `PreNode`, `PreTool`,
  `PreResponse` and `Outcomes` of each node. A missing permission acts as PRE_NODE DENY, a
  compensation that needs the user as the outcome `needs_user`; `verify` nodes behave as `llm`
  nodes, `ask_user` nodes as approvals. A rejected approval is `cancelTask`, as in the handler.
* `BudgetExceeded` is `isBudgetExceeded`: the count of tool calls, and for the budgets of tokens and of summed
  latency the deadline `"spend"`, which may pass at any moment (tokens are data; `rt_crash` has it).
* Recovery lists the claims that ran out (`EnterRun`), releases them one by one (`ExpireClaim`), then turns to their
  nodes one by one (`RecoverNode`): a heartbeat, a commit or another run may come in between. The loop of
  `releaseActiveClaims`, which ends or cancels a task, is one step.
* `approvalGranted` is kept for nodes that resume after an approval; an approval node ends with its answer.
* Time is a set of deadlines, backoffs and leases that may elapse at any moment. A timer may
  fire early when what it waits for has been closed meanwhile; the run it starts then finds
  nothing to do.
* `dead_letter_after_max_retries` is taken as set, its default.
* Not modelled: ledger records and events (nothing reads them back), several worker processes, failing store
  writes (an exception of `executeNode`'s own bookkeeping leaves its claim to the lease), denial of the
  service's own authorization, a timed-out tool that keeps running, the idempotency cache, editing of graphs.

### Fairness

`FairSpec` assumes that each handler that is under way continues (writes return, tools answer
or time out after `toolTimeoutMs`), that a set timer fires, and that backoffs and leases nobody
renews come to an end. `PolledSpec` adds the polling loop of `startWorkerPoolPolling`. Nothing
is assumed of clients, users, heartbeats or crashes.

### The bonds of the market

`SolutionBonds.tla` models the solution intents of `src/services/lixStore.ts` together with the
bond accounts, bond locks and escrow refunds of `src/services/settlementService.ts`, and the calls
that clients of `src/api/lix/settlement/[action].ts` make on their own.

| Variable | In the code |
|---|---|
| `status`, `offers`, `accepted`, `manifest`, `bondLock`, `insurance` | `.status`, `.offers`, `.accepted_offer_id`, `.delivery_manifest`, `.bond_lock_id`, `.insurance_status` of a stored intent; an offer is named by its expert |
| `known`, `available`, `held` | `bondAccounts`: which exist, `available_balance`, `locked_balance` |
| `lockStatus`, `lockOwner`, `lockAmount` | `bondLocks`: `.status`, `.provider_id`, `.amount` |
| `refunded` | intents with a refund in `escrowClaims` |
| `deposited`, `slashed` | history: what an account was opened with, what it lost |

The functions are `async` but await nothing between their reads and their writes (discovery,
awaited while an intent is broadcast, comes before both), so a call is a step. What makes them
hard is the order of calls: no function but the broadcast looks at the
intent's status, so offers are accepted again, deliveries submitted and reviewed again, and
locks settled behind the intent's back, in any order. `AcceptFree`, `AcceptBonded` and
`AcceptRefused` are the three ways through `acceptSolutionOffer`; `ApproveDelivery`,
`RejectUnbonded` and `RejectBonded` those through `reviewSolutionDelivery`.

Discovery is a choice: any experts may be found and any of them have capacity. Every lock is a
fresh one, so `LockBond` takes one that is free. `topUpBond` (called by tests only),
`ingestSolutionIntent`, insurance claims and the text of claims are left out, as are calls refused for a missing
argument (`execute_ref is required`), which change nothing. A client's refund
names an intent, which is all that the model keeps of it. `HeldCoversLocks` counts the coins of the locks
(`LockedCoins`: one pair of lock and number for each unit of its amount), so that a sum over locks is the
cardinality of a set, about which one can prove; `RateKept` counts admitted pages in the same way.

### The durable stores

`DurableStore.tla` models `PostgresTaskStore` and `RedisTaskStore` of `storeAdapters.ts` and the
idempotent tool calls (`nodeExecutors/toolExecutor.ts`) whose cached results they keep.

| Variable | In the code |
|---|---|
| `memory` | the in-memory store every read is answered from |
| `taskRow`, `nodeRows`, `records` | the tables; under Redis, the keys |
| `index` | the Redis sets that hydration goes by |
| `rowLock`, `wire` | the transaction that has upserted the task's row; the commands sent to Redis, in order |
| `pc`, `item`, `version`, `snapshot` | where a call stands, what it writes, what it captured |
| `acked`, `overlapped`, `settled`, `calls` | history: what callers were told is saved; saves that met another of the same task; executions of tools |

A step is the code between two waits for the database or for a tool. `Parts` are what
`persistSnapshot` saves together (the task, its nodes, decisions); `Jobs` stand for every kind of
record that is saved by one statement of its own (retry jobs, dead letters, triggers, workers, ...);
`Keys` are idempotency keys. A write is a version number, all that "the later one" needs. Postgres
runs each call on a connection of its own, where only the task's row makes one wait for another;
Redis runs the commands of its one connection in the order they were sent. A statement may fail,
which leaves the copy in memory ahead of the database, as in the code. `Restart` empties everything but
the database and hydrates. Both constructors start to hydrate before any call and every call awaits
it, so hydration is one step. `FairSpec`: the database answers and a tool answers or times out; a row
lock goes round, hence strong fairness. Not modelled: expiry of idempotency keys, schema creation, two
processes on one database, effects of a tool after its timeout.

### The provider fetches

`ProviderFetch.tla` models a broadcast's real search: `marketService.ts`, `providers/providerRegistry.ts`,
the three adapters, `banBudget.ts`, `rateLimiter.ts`, `scrapeCache.ts` and `headlessPool.ts`.

| Variable | In the code |
|---|---|
| `circuit` | `circuits`: `ban_score`, `opened_at`, `last_decay_at` |
| `tokens` | `buckets`: the global one, one per provider, one per domain; in parts, `Minute` of them to the token |
| `searches`, `details` | the cached search and details of each provider |
| `active`, `queue`, `lost` | `activeRequests`, `requestQueue`; slots of earlier fetches that never end |
| `pc`, `page`, `found` | where `searchProvider` stands, for each broadcast and provider |
| `round`, `offered` | the fanout a broadcast is at (the second follows a first without offers), whether it has an offer |
| `since`, `sent`, `late` | history: pages admitted since some moment, which may be any tick; pages fetched after the circuit opened |

No code installs a `redisClient`, so circuits, buckets and cache live in memory and a handler runs without
interruption from one fetch, or one wait for a slot, to the next: that is a step. The adapters differ in wording
and selectors only. Scores are counted in half points, since success credits half of one; threshold, decay and
credit are the code's. Time is a few ticks, `Minute` of them to the minute, in which a bucket refills from
empty: the memory bucket in use refills by fractions at every check (`rateLimiter.ts:54-61`, `98-110`), in the
model by `Limit` parts at every tick, up to its maximum, and a check needs a whole token. The fixed window of
the Redis branch (lines 72-91) is never reached. Any cached page may expire with a tick. `Interval` ticks make a
decay interval, which is also the cooldown. `FairSpec` assumes that fetches of these broadcasts end: navigation
and connections have timeouts. The redirect and the body of the fallback fetch have none; `MaxLost` slots are
taken by such fetches from the start. Not modelled: `forceOpenCircuit`, `resetCircuit` (tests), `retryPolicy.ts`
(no caller on this path), parsing and scoring.

Facts the model has and no property claims: from a full bucket a minute may admit up to twice the limit, against
comments that say "20 requests per minute" and "50 total requests per minute" (`rateLimiter.ts:17`, `22`,
`154`), so `RateKept` claims what a token bucket gives, a full bucket and its refill, from any moment on; a page
the browser saw banned is asked for again by the fallback, whose result alone counts; a refusal by the
provider's bucket has already taken a global token; after a quiet period the first ban signal is decayed away at
once, because the decay's clock stands still while the score is zero (`banBudget.ts:92`).

### The connector platform

`ConnectorDelivery.tla` composes `connectorPlatform.ts` (dispatch with attempts, rate and dead letters)
with `vaultWebhook.ts` (delivery, and the life of the one credential), under an administrator's calls.

| Variable | In the code |
|---|---|
| `record` | the stored `VaultCredentialRecord`: status, whether compromise is confirmed, lease |
| `live`, `dead` | Vault's leases |
| `op`, `at`, `copy`, `offer` | what a call is doing, what it waits for, the record in its hands, the lease it is about to renew |
| `attempt`, `result` | of a dispatch |
| `log` | delivery records within `rate_limit_window_ms`, by kind |
| `sealed` | history: a revocation that met no other call |

A step is the code between two waits for Vault, the endpoint or a store write that matters. Every call reads the
record, waits, and writes all of it back from its copy; inspections before, between and after attempts do so as
well. `EXPIRING` acts as `ACTIVE`; `EXPIRED` is only ever computed for a summary and `SUSPECTED` is never set.
Vault gives any lease that is not revoked, new or old, ACTIVE or without a usable duration (UNHEALTHY), or
answers without one. A revocation is two steps, Vault's (`VaultRevokes`) and the record's (`Revokes`), and the
answer may be lost between them. A store writes memory first and then the database
(`storeAdapters.ts:1953-1956`, `1979-1982`), so a write that fails is seen all the same: after a post,
`CloseFails` is the credential's record not persisted, `RecordFailure` the catch of `vaultWebhook.ts:796`, which
records a failure whatever the endpoint had answered, and `Throws` the same once more failing. A rotation whose
answer is lost is left out. One adapter stands for the two of `connectorPlatform.ts`, which have windows of
their own (6 and 4 deliveries) and count only their own records. Lease time and the contents of secrets are not
modelled, nor are summaries, configuration and the administrator's session. No fairness is assumed: requests to
Vault have no timeout.

What TLC showed while the properties were sought, and why they carry the conditions they have: a revocation that
lands while another call holds a copy is written over with status ACTIVE, and the route opens again once Vault
hands out a lease (seven states); with the two default singletons each service creates its own store, so the
platform counts only its own refusals and the limit bounds nothing (`WindowKept` therefore speaks of one store
for both); a failing store write after a delivered post is caught as a failed delivery and the payload is sent
again or, after the last attempt, becomes a dead letter, so that no property claims that an acknowledged payload
is sent once; `renewCredentialLease` looks at no status, only Vault keeps a revoked lease dead. No document of
the repository claims otherwise, so these are hazards with notes, not findings.

## 3. Properties and runs

| Property | Says |
|---|---|
| `TypeOK` | types of all variables |
| `RunExclusive` | among overlapping invocations one is past the test, and nodes run only under it |
| `ToolOncePerAttempt` | no attempt of a node is given to an executor twice |
| `NoLostRetry` | a node that failed retryably has a retry ahead of it |
| `DoneMeansSettled` | a DONE task has only SUCCEEDED nodes, no flow and no claim |
| `StatusAgrees` | at rest, WAITING_USER exactly when a node waits for the user |
| `RunningIsLeased` | after one crash every RUNNING node can still be recovered |
| `ClaimsReleased` | at rest no claim is held |
| `ToolsWithinBudget` | the results tools gave and the tools being executed are together within the budget, when nodes run one at a time; a failed execution is not charged, and its retry may call the tool again |
| `OneDeadLetter` | exhausted retries leave at most one dead letter per node |
| `SucceededIsFinal`, `DeadLetterIsFinal`, `TerminalIsFinal`, `CancelledIsFinal` | what no later step takes back |
| `EventuallySettled` | the task ends or waits for its user |
| `BondConserved` | what an account was opened with is available, held or slashed |
| `HeldCoversLocks` | the held balance covers every lock still to be settled, so no `Math.max(0, ...)` hides a shortage |
| `CompensationBacked` | an intent that says it was compensated has a refund and a bond that was slashed |
| `FinishedFreesBond` | an approved or compensated intent refers to no lock that is still held |
| `KeepsPromise` | the runtime implements `TaskExecution` |
| `SavedIsWhole` | the database never holds the task of one snapshot and the nodes of another |
| `RedisKeepsAcked` | what Redis was reported to have saved survives every restart |
| `SavedWhenAlone` | after a save that overlapped no other, a restart loses nothing of that task |
| `AckedResultReused` | once a tool's result is reported as saved, no call executes the tool again for its key |
| `EveryCallEnds` | no save waits for ever for the row of the task |
| `SlotsShared` | the pool counts its fetches right, stays within its cap and lets nobody wait beside a free slot |
| `TrippedIsLeftAlone` | an open circuit lets each search under way have at most one more page |
| `RateKept` | pages admitted from any moment on stay within a full bucket and its refill since, for each of the three buckets |
| `CooldownKept` | what fetches under way bring in neither shortens nor prolongs an open circuit's cooldown |
| `EveryBroadcastReturns` | every broadcast ends, as long as one slot is left |
| `RevocationHolds` | a credential revoked while no call held a copy is not used before a rotation |
| `WindowKept` | with one store for both services, a window holds the posts of the limit and of the dispatches admitted by then, no more |

| Run | Instance | Shows |
|---|---|---|
| `rt_overlap` | a tool and an approval, 2 invocations, leases lost while executing, 1 retry, 1 approval, 1 cancellation | the safety properties under every interleaving (2.3 million states) |
| `rt_crash` | a tool feeding a best-effort merge, merge deadline, a budget of tokens, 1 crash at any step | safety across a restart, no second dead letter (860 000 states) |
| `rt_life` | two tools in a chain, every policy answer in each phase, tool budget 1, latency deadline, 1 approval, polling | error exits, budget, finality, and the liveness of a task (29 000 states) |
| `rt_two_retries`, `rt_restart`, `rt_downgraded_retry`, `rt_budget` | small instances | disagreements between the code and its tests, see "Findings" |
| `lix_bonds` | 2 intents, one under a bond; a human expert and a collaborating one; 3 locks; client amounts 1 and 2 | the properties of the bonds under every order of calls (about 550 000 states) |
| `lix_unbonded` | the same | a delivery without a bond, see "Findings" |
| `store_restart` | both drivers; 2 flows, a task of 2 parts, 1 job, 1 key; failing statements and restarts | the durability properties (221 000 states) |
| `fetch_fanout` | 1 shop, 2 broadcasts, 2 slots of which 1 may be lost, buckets of 3, 2 and 2, 2 ticks to the minute | pool, circuit and buckets under every order of arrivals (230 000 states) |
| `conn_delivery` | 2 dispatches, 1 administrator, 3 calls, 2 leases, 2 attempts, rate 1, one store | the credential, the attempts and the rate under every order of answers (2.7 million states) |

Why the bounds suffice: two invocations are enough for any pair of overlapping runs, and the
exclusion is proved for any number; two nodes give a batch, a dependency and a race on the task's
record; one retry gives a first, a second and an exhausted attempt; `MaxAttempt` leaves room for
the attempts that approvals and recovered leases add, and bounds nothing else. `MaxApprovals`,
`MaxCancels` and `MaxCrashes` bound the environment. `RunningIsLeased` holds for one crash: a
second one, between the release of an expired claim and the reopening of its node, loses the node.

For the bonds: the second intent carries no bond and shows that the two kinds do not disturb each other; two
experts let an intent change hands; three locks give one intent two locks in turn while a client holds a third.
`Bond = 2` stands for `LIX_15_BOND_MIN_CNY` (500): it leaves an amount below a whole bond, so partial slashes
happen; quotes of 1 and 3 lie on either side of it. When the locks are used up the run goes no further along
that path, and clients may stop calling, hence `CHECK_DEADLOCK FALSE`. The locks are symmetric: nothing
distinguishes one from another.

Properties with conditions. `NoLostRetry` excludes crashes (see `rt_restart`), cancellation and an expired task.
`ToolsWithinBudget` is about charged results: under a budget of one, a tool may be called, fail and be called
again, and `rt_life` contains that. `KeepsPromise` and `NoLostRetry` say nothing of a late REQUEUED mark over a
COMPLETED job (first fact below). `TerminalIsFinal` excludes an approval in flight and cancellation:
`approveTask` writes RUNNING without looking at the task again. It is checked and proved with one invocation at
a time and no lost lease, as `KeepsPromise` is; the facts below say what happens otherwise, and section 4 which
conditions each proof has. `CancelledIsFinal` speaks of the time after the run that was in progress: that run
can overwrite CANCELLED. `EventuallySettled` exempts `Stranded`: a PENDING node whose dependency failed for good
keeps its task RUNNING for ever, and nothing in the repository says what should become of it.

The new bounds: two flows give every pair of overlapping saves, and a third save of the same task adds no order
that two do not have; a task of two parts is the least that can be torn. Two broadcasts at one shop meet in its
circuit, its buckets and the pool; with one slot lost they queue. With two shops the state space is beyond TLC
here, so the global bucket and the pool are shared by the searches of one shop only. Two signals of half the
threshold open the circuit; the ticks see a cooldown begin and end, a bucket half refilled, and a full one.
Three calls let a revocation meet a dispatch and the next one; two attempts give a first, a last and a dead
letter.

### The refinement

`TaskExecution.tla` promises: an executor is called at most once for an attempt, attempts grow, a node is
neither called nor answered for before enough of its inputs are there, a result stays, a node given up is left
alone, and the task is done only with every result; its end is reopened only by an approval.
`TaskGraphProperties.tla` instantiates it: `calls` is `invoked`, `results` are the SUCCEEDED nodes, `abandoned`
the dead letters, `outcome` the terminal status; every step of the runtime, requeueing, recovery and crashes
included, is a step of it or a stutter. `rt_crash` checks this with a crash at any step and a best-effort merge
that can do without its input; `rt_life` with every policy answer, downgrades and an approval.
`RuntimeKeepsPromise` proves it for every finite graph (section 4).

### Findings

1. `rt_two_retries`: one timer per task, and a run that finds a second retry due in the same
   moment sets none. Without polling, which production code never starts, the task stays RUNNING.
2. `rt_restart`: a restart between the FAILED write and `scheduleRetryJob` loses the retry.
3. `rt_downgraded_retry`: a requeued retry that is downgraded leaves its job REQUEUED, which keeps
   its task RUNNING.
4. `rt_budget`: tools of one batch all pass the budget test before any is charged.
5. `lix_unbonded`: `acceptSolutionOffer` marks the offer accepted before it asks for the bond; when
   the bond is refused the mark stays, and the delivery is taken without one.

More facts the model shows and no text of the repository contradicts. A task that FAILED can be set
RUNNING again without an approval, in two orders: a run reopens a due retry, another run executes it to a fatal
error and ends the task before the first one writes its late REQUEUED mark, which then counts as a retry ahead; or a
lease runs out under a live flow, recovery takes its claim, a sibling's failure finds no claim and ends the
task, and the flow's commit writes RUNNING. Three more orders came out of the proofs below, as the reason why a
condition could not be dropped, and TLC confirmed each: with two parallel nodes, one that is downgraded
*before* its claim has no claim yet and is still PENDING when its sibling's failure is reconciled and ends the
task, and its next write sets the FAILED task RUNNING; an approval node that is answered after the latency deadline
failed its task becomes SUCCEEDED under the FAILED task; and after a crash a latency deadline drops the claims of
nodes that are RUNNING, which nothing recovers from then on. A second acceptance
overwrites `bond_lock_id` and the first lock stays locked with no intent referring to it; a partial
slash closes the lock and the rest of its amount stays in `locked_balance`, out of reach of every call.

## 4. Proofs

`ExecutionSubstrateProofs.tla`: each operation of the substrate keeps its types.

`TaskGraphRuntimeProofs.tla`, for every finite or infinite set of nodes, every graph, every number
of invocations and every bound, from the assumptions on constants in `TaskGraphRuntime.tla` only:

* `TypeCorrect`: `Spec => []TypeOK`;
* `RunsExclude`: `Spec => []RunExclusive`;
* `OneInvocationPerAttempt`: `Spec => []ToolOncePerAttempt`.

They follow from `InductiveHolds`. `ToolOncePerAttempt` alone is not inductive: one must know that a
flow on its way to the executor aims at an attempt that has not been invoked (`InvokedPast`), which holds because
the RUNNING write moved the node to a fresh number (`FlowAttempts`); that no other flow or run
rewrites the number meanwhile, which holds because flows live only under the one invocation that waits for their
batch (`FlowOwned`), which in turn needs the exclusion. Recovery, approval, requeueing and
cancellation change a node's status, never its number downwards.

The proof has three layers: types, action by action; ownership (`Owned`), for which most actions are
covered by `FlowShape` and `WorldShape`, which say what such a step cannot touch; numbering (`Numbered`),
node by node.

`TaskGraphSafetyProofs.tla`, with the same generality, for seven more of the runtime's properties:

* `RetriesKept`: `Spec => []NoLostRetry`;
* `DoneIsSettled`: `Spec => []DoneMeansSettled`;
* `LeasesReleased`: `Spec => []ClaimsReleased`;
* `ResultsKept`: `Spec => SucceededIsFinal`;
* `DeadLettersFinal`: `Spec => DeadLetterIsFinal`;
* `DeadLettersSingle`: `Spec => []OneDeadLetter`;
* `CancelledStays`: `Spec => CancelledIsFinal`.

They rest on a second inductive invariant, `Safe`, on top of `Inductive`. Its parts say, of each node, that its
status fits the place of its flow unless a user cancels (`StatusFits`: recovery and a retry can only have put it
back to PENDING), that a node marked for a retry is at most at attempt `max_retries` with the job for the next
one active (`RetryAhead`), and that a dead node is FAILED or CANCELLED past the last attempt (`DeadClosed`), so
that a second dead letter would need a node which is past its retries to fail once more. A dead node stays dead
because the attempts of all jobs, listed, about to be marked or in the store, are bounded (`JobsAllowed`), and
because the snapshot a run downgrades from was taken while no node was executed (`PlansAlive`). `ClaimsHeld`
ties every claim to the flow that will release it, and `UsersKnown` says that a cancelled task shows no wait, so
that a late `approveTask` does not set it RUNNING. `DoneMeansSettled` is inductive given these: only a
reconciliation writes DONE, after a batch has ended or by a flow whose own node is FAILED or PENDING, and the
latter cannot find the task done.

`TaskGraphPromiseProofs.tla`: what holds of the task's own record and of what its client sees, for every
graph and every bound again, all but the first under conditions, which the theorems name:

| Theorem | Proves | When |
|---|---|---|
| `StatusFollowsNodes` | `Spec => []StatusAgrees` | always |
| `RunningNodesLeased` | `Spec => []RunningIsLeased` | no crash; or one crash, no lost lease, no cancellation, no latency deadline |
| `BudgetKept` | `Spec /\ []OneAtATime => []ToolsWithinBudget` | no crash, finitely many nodes |
| `EndIsFinal` | `Spec /\ []StandInsAlone => TerminalIsFinal` | one invocation of `runTask` at a time, no lost lease |
| `RuntimeKeepsPromise` | `Spec /\ []StandInsAlone => KeepsPromise` | the same, no cancellation, finitely many nodes, no latency deadline beside approval nodes |
| `BudgetKeptOneByOne`, `EndIsFinalOneByOne`, `PromiseKeptOneByOne` | the same three from `Spec` alone | also `max_parallel_nodes` = 1 |

`OneAtATime` (nodes are executed one at a time) and `StandInsAlone` (no node downgraded before its claim is still
to be written while another node's failure is reconciled) are conditions on behaviours; `OneNodeAtATime` proves both
of `max_parallel_nodes` = 1, for any number of invocations. Without these two, and without the conditions on
invocations, leases, deadlines and the number of crashes, the properties fail: the facts at the end of section 3 and
the finding `rt_budget` are the counterexamples.

The arguments. `StatusAgrees` is not inductive, as the status lags behind the nodes inside every run;
`StatusFollows` says that whoever changes a node's wait leaves a run, a timer or a cancellation still to come,
and that the run writes the status last. For `RunningIsLeased` a RUNNING node has to be under a live claim at
every step, from its claim to the write after its executor (`RunningFits`, `Leased`), and after a crash under
the claim it had, which only time takes away. The budget invariant (`Charged`) compares the results of tools
with the count, one more while a result is given but not charged (`HasRoom`, `Charging`); a tool being executed
passed the budget test, and nobody has charged since. `TerminalIsFinal` needs `Ending`: once the task ended,
every flow still under way is one that reconciles it again with the same result, because any other leaves a
claim or a node that is not closed where `reconcileTaskTerminalState` looks. The refinement adds `InputsThere`
(who is about to call or answer for a node has its inputs, which stay, as results do) and `CalledFirst` (a dead
letter comes after a call). Its step proof (`ClientSees`) says of each action which of the client's four
variables it changes, and matches it with a step of `TaskExecution`: call, answer, give up, end, reopen, or a
stutter.

`SolutionBondsProofs.tla`, for any intents, experts, locks, quotes and bond:

* `TypeCorrect`: `Spec => []TypeOK`;
* `CompensationsBacked`: `Spec => []CompensationBacked`;
* `FinishedIntentsFree`: `Spec => []FinishedFreesBond`;
* `MoneyConserved`: `Spec => []BondConserved`;
* `LocksCovered`: `Spec => []HeldCoversLocks`.

The inductive invariant (`BondsHold`) adds to the types and to two of the properties that an intent without the
bond requirement never refers to a lock (`BondsAreRequired`): without it an acceptance that takes no bond could
finish an intent whose earlier bond is still locked. It also needs that a lock which left "locked" never returns
to it, which `LockBond` keeps by taking free locks only. `AccountsHold` is about the balances: per account, the
coins of its locks are finitely many and no more than it holds, and an account nobody opened is empty. A lock
adds as many coins as it adds to `held`; a slash or release takes the lock's coins away and takes at most their
number from `held`, so no `Math.max(0, ...)` cuts anything off, which is what conservation needs.

`DurableStoreProofs.tla`, for any clients, parts, jobs, keys, failures and restarts, under either driver:

* `TypeCorrect`: `Spec => []TypeOK`;
* `SnapshotsWhole`: `Spec => []SavedIsWhole`;
* `AckedResultsReused`: `Spec => AckedResultReused`;
* `SavedAloneIsRestored`: `Spec => []SavedWhenAlone`;
* `RedisKeepsWhatItSaved`: `Spec => []RedisKeepsAcked`.

`WellFormed` adds to the types where a call can be (`Placed`): a call inside
a transaction saves a part of a task, under Postgres, with a version it was given. `KeepsRecords` says
that a record reported as saved is in memory and would be restored (`AckedIsKept`), which is preserved only
because one knows how far each save has come (`Advanced`): the reply is given after the value is
stored and, under Redis, after its key is in the index. From it, `ExecuteTool` finds the key in memory and does not
execute again, after restarts included. Without `ExecuteTool`'s look at the cache the proof fails.

`SavesAlone` carries `SavedWhenAlone`: what a call saves alone is what is in memory, on its way or arrived
(`SavesMemory`), because nobody else saves the same task or record meanwhile (`AloneIsAlone`), and a save that begins
marks both as overlapping. `RedisOrder` carries `RedisKeepsAcked`, where saves do overlap: nobody waits twice for the
connection (`WireOnce`), no value on its way is newer than memory (`VersionsOrdered`), of two commands that set the same
key the later carries the newer value, and none is older than what is stored (`WireOrdered`), so a set never goes
back; hence what a call wrote is in the store once it is through (`Through`), and indexed once it is told. It holds
because the snapshot is taken and sent in one step; under Postgres, where they are on different connections, it does not.

`ProviderFetchProofs.tla`, for any providers, broadcasts, slots, candidates, limits, thresholds and credits:

* `TypeCorrect`: `Spec => []TypeOK`;
* `SlotsAreShared`: `Spec => []SlotsShared`;
* `TrippedLeftAlone`: `Spec => []TrippedIsLeftAlone`;
* `CooldownsKept`: `Spec => CooldownKept`;
* `RatesKept`: `Spec => []RateKept`.

`PoolInvariant` adds to `SlotsShared` that the set of slot holders is finite, that nobody waits twice
(`QueuedOnce`: otherwise a slot handed to the head would leave the same flow waiting), and that only flows of a
broadcast that waits for them are under way (`SearchedFor`: otherwise a fanout would restart a flow that holds a
slot). The lemmas `Acquired` and `Released` stand for `acquireSlot` and `releaseSlot`; each action is one of
them, or leaves the pool alone. `LateAtMostOnce` adds to `TrippedIsLeftAlone` that a flow that waits has fetched
nothing late, which holds because admission leaves the circuit closed (`AsksForm`). `CooldownKept` needs only
the types of the circuits: every write of one keeps `openAt`, finds it `None`, or comes after the cooldown
(`SetCircuitForm`). `RateCovered` adds to `RateKept` the tokens that are left: in parts, admitted pages and
tokens together stay within a full bucket and its refill since the count began. An admission takes a token of
all three before it counts a page; a refusal may waste tokens, never the reverse; a tick adds at most `Limit`
parts to the tokens, as it does to the bound; and the count begins with no page and at most a full bucket.

`ConnectorDeliveryProofs.tla`, for any dispatches, administrators, leases and attempts:

* `TypeCorrect`: `Spec => []TypeOK`;
* `RevocationsHold`: `Spec => []RevocationHolds`;
* `WindowsKept`: `Spec => []WindowKept`, for finitely many dispatches and one store for both services.

`RevocationHolds` alone is not inductive: a call that holds an old copy of the record,
or is about to renew its lease, would write the credential back. `SealHolds` says that after a revocation that
met no other call the record is blocked and its lease is dead in Vault (`Void`), and that every call is
at a point from which no use follows (`Halted`), whichever calls start later. `WindowCovered` strengthens `WindowKept` by the
posts still to come: those in the log and those of the attempts that admitted dispatches have left are together within the
overrun, so an attempt moves a post from one to the other, and only an admission below the limit adds any.

Every invariant and safety action property of the runs is thereby stated by a theorem. Model-checked only: liveness
(`EventuallySettled`, `EveryCallEnds`, `EveryBroadcastReturns`), which is out of this prover's reach, the findings, and
what lies between the conditions above and the runs (two invocations at once for `TerminalIsFinal` and
`KeepsPromise` is where they fail; a second crash is where `RunningIsLeased` fails).

## 5. Plan

1. Proofs: an abstract store (a task and its last snapshot) that `DurableStore` implements for saves that do not
   overlap; weaker conditions for `EndIsFinal`, with several invocations but no due retry reopened by another run.
2. `TrialWorkspace` (`trialWorkspace.ts`): the whole state loaded, changed and saved by each request.
3. Several workers on one substrate; the service's authorization that runs out.
4. The rules of the policy engine as an operator beside its reference definition.

### Not modelled, and why

* Accept tokens, fees, invoices and disputes: `createAcceptToken` is reached only from the browser
  (`lixStore.acceptOffer`, called by `IntentDetail.tsx`), so the server that handles callbacks and
  expiries never holds a token; `disputeService`, `invoiceLedger` and `applyDailyDecay` have no callers.
  There is no running system to model.
* Ledger and events: append-only; nothing in the runtime reads them.
* Assistant services (`superAgentService.ts` and its like), contracts, the user interface, request
  parsing: more than half of the repository's lines, and transformation of data that a run passes once
  from top to bottom. Neither order nor failure makes them hard; unit tests reach them.
* The user's identity administration, summaries of the product shell: reads and formatting over records.
* Intent proofs: a proof is verified once from top to bottom, and its nonce is checked and recorded by the one call
  `validateAndRecordNonce` that `verifyIntentProof.ts` awaits; the older pair of functions of `nonceCache.ts` has no caller.
* `retryPolicy.ts`, the Redis branches of the providers, `forceOpenCircuit`: never reached in production.
