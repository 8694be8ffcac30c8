# Verification of the Spyderbyte runtime

TLA+ specifications, model-checking configurations and proofs for the core of
this repository: the TypeScript runtime under `platform/packages`, which takes
commands, records events, publishes them, runs workflows and workers, accounts
for budgets and derives views. Paths below are relative to
`src/platform/packages/` unless they begin with `src/`.

## 1. The system

The repository holds two programs. `src/platform/` is a TypeScript monorepo,
the durable runtime with its API, daemon and clients. `src/src/`, `src/packages/`
and the web front ends are a Python agent CLI and its libraries. The runtime
carries the state and the promises about it, so it comes first.

### Components, their state, and what makes them correct

| Component | Source | State | Operations | What makes it correct |
|---|---|---|---|---|
| Command dispatcher | `runtime-domain/src/dispatcher.ts` | handlers; commands by idempotency key | `register`, `dispatch` | one execution per key, all or nothing, the same answer to every repetition |
| State store | `state/src/*-store.ts` | aggregates, events, outbox, commands, checkpoints, workflows, receipts | transactions over repositories | transactions are serial and atomic; a rejected one does not block the next |
| Outbox dispatcher | `runtime-domain/src/outbox.ts` | rows with claims; per process the set in flight | `enqueue`, `dispatch` | a row is published after it was delivered, by who owns it, at least once |
| Worker pool | `backends/src/worker-pool.ts` | tasks with leases and attempts | `enqueue`, `claim`, `heartbeat`, `ack`, `fail`, `park`, `reapExpired` | one lease per task, bounded attempts, quotas, no task is lost |
| Workflow engine | `runtime-domain/src/workflow-engine.ts` | engine state with the workflow; handlers with their abort controllers | `startWorkflow`, `scheduleActivity`, `resumeAfterRestart`, `waitForApproval`, `signal`, `cancel`, `upgrade` | terminal is final, no replay of what completed, durable waits, cancellation reaches handlers |
| Budget ledger | `budget/src/ledger.ts` | totals per budget and category, reservations, usage | `reserve`, `consume`, `reconcile`, `release` | never over the limit unless reported; totals and reservations agree |
| Projection engine | `projections/src/engine.ts` | views in memory, checkpoint in the store | `project`, `rebuild` | a view is the replay of the whole stream up to its cursor |
| Run coordinator | `runtime-domain/src/universal-run.ts` | runs as events; controllers and replayers in memory | `execute`, `retry`, `cancel` | one run per key, run and attempts agree, answers are stored |
| Tool broker | `tool-broker/src/broker.ts` | grants with their uses | `issueGrant`, `execute` | metered runs are paid, nothing stays reserved, uses are counted |
| Subscriptions | `runtime-domain/src/subscriptions.ts` | retention floors, cursors | `replay`, `subscribe` | no event is skipped without a reported gap |
| Approvals, authority | `policy/src/approvals.ts`, `authority.ts` | approvals, revocation epochs | `request`, `decide`, `revoke`, `assertValid` | what is approved is what is done, until it expires or is revoked |
| Scoped budgets, break-glass, governance | `budget/src/scoped-policy.ts`, `policy/src/` | scopes, emergency grants, decisions | | limits of every scope, two different people |
| Tenant lifecycle, disaster recovery | `state/src/` | job records | resumable steps | a step is not lost and not done twice |
| Cloud runtime | `cloud-runtime/src/managed-execution.ts`, `billing.ts`, `persistence.ts` | estimates, approvals, usage, billing records, the prepaid account, results | `estimate`, `approve`, `execute` | what is charged was used and approved; results are paid; the account adds up |
| PostgreSQL store | `state/src/postgres-store.ts` | tables, row locks, advisory locks | transactions on connections of their own | concurrent transactions keep the order of the stream and of each aggregate |
| Artifacts, agents, harness | `artifact-registry`, `agent-transport`, `harness-core` | versions, messages | | immutable versions, delivery |
| Backends and provider runtime | `backends`, `provider-runtime` | mostly that of external services | | |
| Contracts | `runtime-contracts/src/state-machines.ts` | none | pure transition tables | the components make no other transition |
| Agent CLI | `src/src/kimi_cli/` | background tasks, approval requests, notifications, a turn | asyncio tasks | one turn at a time, no lost task or notification |

### How they interact

A client's command enters the command dispatcher, which opens one transaction
of the state store: it looks the idempotency key up, reserves it, runs the
handler, appends the handler's events, each with an outbox row, and completes the
command. Outbox dispatchers claim rows with a lease, hand them to an event
transport and mark them published. The projection engine reads the event stream
and moves a durable checkpoint; subscriptions page through the same stream. The
workflow engine keeps its state in the store and runs activities in the worker
process; worker pools hand tasks to worker processes by lease. The run coordinator records every run of the clients
in the event stream. The tool broker asks authority, approvals and, for metered
tools, the budget ledger before a tool runs and settles with the ledger
afterwards. The hosted runtime bills its runs in the same way, from a prepaid balance.
Orchestrator, harness and API call these components.

### What is hard

Everything runs on an event loop, so each component is atomic between two
awaits and interleaved at each of them, and it is several processes that share
the store. The hazards of `PROJECT.json` list where this bites, each at
its line: leases that end while their owner works; a time or a snapshot read before
an await and used after it; crashes between an effect and its record; calls
repeated under the same key; limits checked in one operation and not in
another; a durable cursor over a view in memory.

## 2. Modules

| Module | Models | Abstract / proofs |
|---|---|---|
| `OutboxDispatch` | outbox repository and `TransactionalOutboxDispatcher.dispatch` | `EventPathProofs` |
| `CommandDispatch` | `CommandDispatcher.dispatch` over the store's transaction queue | `EventPathProofs`: implements `AtomicCommands` |
| `WorkerPool` | `InMemoryWorkerPool` and the workers that poll it | `ExecutionProofs` |
| `WorkflowEngine` | `DurableWorkflowEngine`, one workflow | `ExecutionProofs` |
| `BudgetLedger` | `BudgetLedger` | `BudgetLedgerProofs` |
| `ToolBroker` | `ToolBroker`, approvals and revocation, composed with `BudgetLedger` | `ToolBrokerProofs`: implements `BudgetLedger` |
| `ProjectionEngine` | `ProjectionEngine`, one tenant and projection | `ProjectionEngineProofs` |
| `UniversalRun` | `UniversalRunCoordinator` | `UniversalRunProofs` |
| `CloudRun` | continuity service, billing coordinator and prepaid ledger of the hosted runtime | `CloudRunProofs` |
| `PostgresDispatch` | `CommandDispatcher.dispatch` over `PostgresStateStore` | `PostgresDispatchProofs` |
| `Totals` | no code: what it means that a number is the sum of amounts | used by `BudgetLedger` and `CloudRun` |
| `MC...` | the small instances of each | |

Definitions named `Name_What`, under the comment `MUTANT`, are plausible faults of
the code. They are not part of any specification: put in the place of `Name`, each
makes the property it is listed with in `PROJECT.json` fail.

### OutboxDispatch

A row of the outbox has the fields of the code (`availableAt`, `attempts`,
`claimedBy`, `claimExpiresAt`, and `published` for `publishedAt`). `Begin` is
the claim transaction of `dispatch()`, which fixes `callNow`, the one reading of
the clock the call uses to its end. Then, for each record, `Take` and
`Attempt` (the in-flight set and the attempt transaction), `Publish` or
`PublishFails`, `Acknowledge`, and `Release`, the `finally` of the loop body.
`FirstInQueue` says which transactions may run. Crashes, rejected transactions,
transport errors and acceptances without an answer are the faults. A dispatcher
that crashes does not come back (`alive`): the constructor gives every new one a
consumer ID of its own (`outbox.ts:84`), so a row claimed by a dead dispatcher has to
wait for the end of its lease and for somebody else.

- `LeaseExclusion`, `ExclusivePublication`: within its lease a call works on
  rows that are its own; two calls publish one row at the same time only if one
  overran its lease.
- `PublishedWasDelivered`, `ExactlyOnceWithoutFaults`:
  at least once, and once when nothing went wrong and no lease ran out.
- `PublishedIsFinal`: a published row is not claimed or attempted again.
- `PublishedIfDispatched`: as long as anybody calls `dispatch()` again and again, every
  row is published, also one that a dead dispatcher had claimed.

### CommandDispatch and AtomicCommands

The transaction is spread over its awaits: it works on a `draft`, may throw or
die anywhere, and is committed as a whole. `queue` is the promise chain of the
in-memory and SQLite stores. `AtomicCommands` says what clients may rely on: the
effect of a key happens in one step, once, and answers are its result.
`ImplementsAtomicCommands` maps the committed store to it.
As in the stores, an event takes the number after the last of its aggregate
(`NextEvent`), whatever version its handler declared; the declared version is what the
store compares before (`Expected`). The ghost field `basis` of an event is the version
its writer had decided on. `AllOrNothing` and `NoStaleDecision` (no event of another
command lies between an event and the version it was decided on) are
invariants, `EveryDispatchEnds` is liveness.

### WorkerPool

Operations of the pool are synchronous, hence one step each. Workers keep a copy
of their lease (`held`), which the pool may have given to somebody else. Time is
what remains of each lease. A worker may die, hold on past the expiry, or answer
late; every answer the pool refuses changes nothing.
`AttemptsAccounted` relates attempts, failures and state; `CopiesAccounted` relates
what workers hold to what the pool gave out; `QuotasHold` is the in-flight limit of
tenant and pool; `SettledIsFinal` says that an acknowledged or parked task stays so;
`EveryTaskSettles` that each becomes so. `BacklogBounded` says by how much
returning tasks may overfill a queue.

### WorkflowEngine

`resumeAfterRestart()` is modelled step by step (it reads, registers its
controller, stores the start of the attempt, runs the handler, stores the outcome,
deregisters), every other operation as one transaction followed by what it does to
handlers. Reports of external activities are signals, possibly of an attempt that
is over. Callers may begin an activity while an approval is awaited, or the other
way round: `schedule` and `waitForApproval` do not look (lines 513 and 534). `cancel()` may be
repeated and aborts each time; `MaxCancels` bounds how many calls are between their
transaction and their abort.

- `HistoryConsistent`: the records of attempts fit the activity, whoever reports.
- `WaitsCanEnd`: the status never names an activity that is settled or an approval
  nobody asks for, however it was overwritten.
- `TerminalIsFinal`: late results change nothing in a failed or cancelled workflow.
- `CompletedIsNotReplayed`: what succeeded is run again only by a call that had read it before.
- `AttemptsBounded`, `CancellationReachesHandlers`, `EveryActivityEnds`: limits of
  attempts, aborts of handlers that run, and the end of every wait, with crashes.

### BudgetLedger

Calls on one budget are serialized, so a call is a step. Reservations of all
budgets of a tenant share one map, as in the code, so a reservation ID names one
reservation. `Balanced` equates
the totals with the reservations they come from; `WithinLimits` bounds what is
committed by the limit plus the overruns that reconciliation reported;
`UsageAccounted` bounds the usage records by what was consumed, and allows
less only for a reservation that was settled or lost a record (the ghost `replaced`) to a
later report with the same usage ID. Both use `IsTotal` of `Totals`, which counts the units of
the amounts; the MC module has TLC compare it with the sum of the community modules.

### ToolBroker

`execute()` makes its checks in one step and then awaits the reservation, the
tool and the reconciliation or release; authority, approvals and the other calls
go on meanwhile. The ledger is an instance of `BudgetLedger`, and its variables
are changed by its actions only. `epoch` is the revocation epoch of the agent;
time is which grants and approvals have expired. A grant may be issued without
an approval for a tool that requires one, since the request can override the
requirement (`broker.ts:202`); `execute()` then goes by the tool's definition.

- `NothingStranded`: what is reserved belongs to an execution on its way, unless
  authority was revoked while a tool of that price ran (then `release()` is refused, too).
- `RunsArePaid`: a metered tool runs on a reservation of its own, of its price.
- `UsesCounted`: executions of a grant that come one after the other are counted and limited.
- `DeniedStaysDenied`: `revoke()` and `decide()`, which look at little, never
  bring an approval back.

### UniversalRun

A transaction is one step with the code that runs when its promise resolves.
The event stream is kept as what `projectDetail()` and `recordedResult()` read
from it. Operations may end in any way, late, or after they were cancelled.
An operation that answers 202 or names another run is delegated: the run is `queued`
again (`universal-run.ts:674`) and `delegated` remembers why. A caller may give the ID of its
run, and nothing refuses one that exists (line 595): the run is then created once more.
`replayers` are the operations this process can retry; they do not survive it, and a
retry needs one or an operation of its caller (line 851).
`raced` collects the keys looked up by two calls at once, the runs retried while another
call works on them and the runs created twice: for these the code makes no promise, and
the properties say so. In the code the only caller of `execute()` gives no run ID and
those of `retry()` give an operation (`local-api/src/index.ts:1473`, `:6481`); the model
allows what the interface allows.

- `OneRunPerKey`: repeated requests, before or after a crash, name one run.
- `RunFollowsLatestAttempt`: `cancel()`, late results and rejected appends leave
  the state of the run with its latest attempt.
- `AnswersAreStored`: who was told success or failure was told what is stored.
- `AcceptedRunsSettle`: without faults an accepted run leaves the queue or was delegated.

### CloudRun

`estimate()`, `approve()` and `execute()` keep nothing in memory between calls.
Each read or write of a store is a step, and any call may fail at any step; a
process that ends is all its calls failing. Receipts keep the first record of a
key, billing records are appended.

- `ChargeIsUsage`: the charge is the recorded usage and within the approved cost.
- `ResultsArePaid`: a stored result names an estimate of its run that was charged its amount.
- `PrepaidBalanced`: deposits are what is available, reserved and charged.

### PostgresDispatch

The same dispatcher as in `CommandDispatch`, on concurrent connections.
Each statement is a step under READ COMMITTED: it sees what was committed and what its own
transaction wrote, and waits for row locks, for a pending insert of the same key
and for the advisory locks that `append()` takes. `Deadlocked` follows who waits
for whom; one transaction of a circle is rolled back.

- `StreamInOrder`: events become visible in the order of their numbers.
- `StreamHasNoGap`: a rolled back transaction leaves no number out.
- `AggregatesInOrder`: the events of an aggregate are numbered without gaps.
- `OneRequestPerKey`: a key is executed for one request. That it is executed
  once (`OneExecution`) does not hold: see section 3.
- `EveryDispatchEnds`: neither waits nor circles keep a dispatch.

### ProjectionEngine

A view is the sequence of events that were applied, the finest projection there
is. `Replay[k]` is the reference: the state after the first k events in one
uninterrupted run; the assumption `ReplayAssumption` defines it and TLC evaluates
that assumption. A call waits for the engine's lock, clears (a rebuild), reads the stream or
takes the list its caller brought, reads the checkpoint, drops it if the engine
restarted, and applies one event at a time, each with its checkpoint transaction.
Another component appends events, calls fail at any transaction, processes crash.

- `ViewsAreWhole`, `SnapshotsAreReplays`: view and snapshot are the replay up to
  the cursor, never a part of it or a part twice.
- `SnapshotsAreCurrent`: a call reflects what was in the stream when it was made,
  and never less than an earlier snapshot.
- `EveryCallEnds`: the lock is handed on whatever happens.

## 3. Runs

Runs that pass:

| Run | Properties | Instance | Why the bounds are enough |
|---|---|---|---|
| `outbox` | `LeaseExclusion`, `ExclusivePublication`, `ExactlyOnceWithoutFaults`, `PublishedIfDispatched` | 1 row, 2 dispatchers, 3 calls (two of one dispatcher), lease 2, clock to 3, 1 fault, not after 1 | a lease ends while a call of its owner, another call of that owner and a rival work on the row; the lease of a dead owner ends before the clock stops, and the other dispatcher takes the row over |
| `command` | `AllOrNothing`, `NoStaleDecision`, `ImplementsAtomicCommands`, `EveryDispatchEnds` | 2 calls, 2 keys, 2 digests, 2 results, 2 aggregates, 1 fault | equal and different keys and digests; events of one aggregate from both commands; a queue behind a failing transaction |
| `worker_pool` | `AttemptsAccounted`, `QuotasHold`, `SettledIsFinal`, `EveryTaskSettles` | 3 tasks, 2 workers, 2 tenants, 2 pools, lease 2 | quotas of tenant and of pool bind separately; a lease expires while a rival claims; no worker need answer |
| `workflow_safety` | `HistoryConsistent`, `WaitsCanEnd`, `TerminalIsFinal`, `CompletedIsNotReplayed` | 2 overlapping resumptions, 2 activities, 1 approval, 2 versions, attempts to 3, 1 crash, 1 pending cancellation | superseded attempts, old snapshots and handles, late reports of another activity, waits that overwrite each other |
| `workflow_single` | `AttemptsBounded`, `CancellationReachesHandlers`, `EveryActivityEnds` | 1 resumption at a time, 2 activities, 1 approval, 2 versions, 2 crashes, 2 pending cancellations, attempts to 7 | a crash in each attempt, an upgrade during a call; the bound on attempts is above what the code allows, so that it hides nothing |
| `budget_safety` | `WithinLimits`, `Balanced`, `UsageAccounted` | 3 reservations, 2 budgets, 2 categories, amounts 1-2, actuals 0-3, 2 usage IDs | total and category limits bind separately; actuals above the reservation; a usage ID reported twice, for the same reservation and for another |
| `tool_broker` | `NothingStranded`, `RunsArePaid`, `UsesCounted`, `DeniedStaysDenied` | a metered grant with 2 uses at 2, an approved one with 1 use; 1 approval, 2 calls, 3 reservations, limit 4, 1 revocation | overlapping uses of one grant, a revocation at every await, a budget that is used up |
| `projection` | `ViewsAreWhole`, `SnapshotsAreCurrent`, `EveryCallEnds` | 1 engine, 2 overlapping calls, 3 events (2 of the tenant), 2 faults | lists with a gap, a rebuild that dies after its clear, a restart after that |
| `universal_run` | `OneRunPerKey`, `RunFollowsLatestAttempt`, `AnswersAreStored`, `AcceptedRunsSettle` | 2 runs (of 2 attempts and 1), 1 key, 2 calls, 1 fault | a repetition, retry or cancellation at every await of an execution, and one crash or rejected append; two overlapping requests that name one run |
| `cloud_run` | `ChargeIsUsage`, `ResultsArePaid`, `PrepaidBalanced` | 2 runs, 2 keys, 2 estimates, 2 calls; 2 reserved, 3 approved, costs 1, 3 and 4, deposits to 5 | costs below, above and too far above what is reserved; both calls in the same estimate; a balance for one run only |
| `postgres` | `StreamInOrder`, `AggregatesInOrder`, `OneRequestPerKey`, `EveryDispatchEnds` | 2 calls, 3 keys, one with 2 digests, 2 aggregates, 1 fault | a key with events of both aggregates meets ones that hold either, so that transactions wait for each other in a circle |

`postgres_once` ends in a violation, a disagreement between the code and what its
tests say (`findings` of `PROJECT.json` quotes both). Its property is
`OneExecution` of `PostgresDispatch`, its instance that of `postgres` without faults. Two requests
have one key. The second looks the key up before the first has committed, and
reserves it afterwards: `reserve()` finds the completed record and returns it, but
`dispatch()` ignores what it returns (`dispatcher.ts:143`) and runs the
handler again. `dispatcher.test.ts:176` promises one execution, and tests it over the
serial stores, where the lookup and the reservation are in one serial transaction.

Symmetry is used in runs without liveness only, over constants no definition tells apart.
The workflow runs, `tool_broker` and `cloud_run` switch the deadlock check off: a
failed or cancelled workflow stops for good, grants end, a run that has its
result is over. All other runs keep it on.

### Where a promise ends

Some properties hold only under a condition, which is a constant, a ghost
variable or a bound of the model. Without it, TLC finds what the code does:

- An activity that succeeded is run again by a call of `resumeAfterRestart()` that had
  read it before (`workflow-engine.ts:576` stores the start of the attempt over whatever is
  there). `CompletedIsNotReplayed` says that no other call does.
- `AttemptsBounded` and `CancellationReachesHandlers` hold with one resumption at a time. Of two
  overlapping ones the controller of the second replaces that of the first,
  whose handler a cancellation then does not reach (line 573).
- A handler that is registered after `cancel()` has aborted runs with a signal that
  nobody aborts. `CancellationReachesHandlers` is about handlers that run at that time;
  `TerminalIsFinal` says that the result of the others changes nothing.
- Scheduling an activity ends the wait for an approval that is still asked for, and the
  reverse (lines 523 and 541); the start of an attempt is stored over an activity scheduled
  meanwhile (line 578). `WaitsCanEnd` says only that what is waited for can come.
- `ViewsAreWhole` holds with one engine per store. With two
  `Engines`, an engine that has a view resumes at the cursor the other one moved
  (`engine.ts:99`), and its snapshot misses events or repeats them.
- `OneRunPerKey` leaves out keys in `raced`: two requests that both look a key up before
  either appended its run make two runs (`universal-run.ts:580`).
- `UsesCounted` leaves out grants in `overlapped`: two executions that overlap
  store the same count, so a grant for one use can be used twice (`broker.ts:373`).
- A usage ID used twice replaces the record and consumes twice (`ledger.ts:392`):
  `UsageAccounted` excepts reservations that lost a record.
- A delegated run stays `queued` until somebody reports its end to the stream:
  `AcceptedRunsSettle` excepts it, as well as runs of a process that ended, runs whose
  records the store rejected, and runs created twice.
- `RunFollowsLatestAttempt` leaves out runs in `raced`: retried while another call
  worked on them, or created twice because a caller gave their ID.
- `NothingStranded` leaves out reservations whose authority was revoked while their tool ran:
  `release()` is then refused, too (`broker.ts:391`).
- The limit on queued tasks is tested by `enqueue` alone (`worker-pool.ts:189`);
  failed and expired tasks return to a full queue (lines 296 and 344). What holds instead
  is `BacklogBounded`: the unsettled tasks of a tenant in a pool stay within the queue
  limit plus the quota of what may be leased. It is proved. The run of the pool does not
  have it, since a queue that overfills takes five tasks, which TLC can explore without
  liveness only.
- A prepaid reservation of a run that fails stays open: nobody calls `release()`
  of the prepaid ledger. `PrepaidBalanced` counts it as reserved.

## 4. Fairness

- `OutboxDispatch`: weak fairness of the clock and of the steps of each call that has
  begun. The event loop runs what is ready, and the transport answers or rejects. That
  `dispatch()` is called at all is not assumed, since nothing in the repository schedules
  it: `PublishedIfDispatched` has it as its premise.
- `CommandDispatch`: weak fairness of the steps of each dispatch that has
  begun; clients need not call.
- `WorkerPool`: weak fairness of time, of claims for every tenant and pool, and of
  a worker letting go of an expired copy. No worker is assumed to answer.
- `WorkflowEngine`: weak fairness of the resumption; callers and external
  reports are free not to come.
- `ProjectionEngine`: weak fairness of the steps of a call.
- `UniversalRun`: weak fairness of the steps of each call that has begun:
  operations end, in some way, and transactions are carried out.
- `PostgresDispatch`: strong fairness of the statements of each call, since a
  waiting transaction is queued for its lock and gets it when it is free again and again, and
  weak fairness of the deadlock detector.
- Callers, faults and the appending of events are not fair anywhere.
  `BudgetLedger`, `ToolBroker` and `CloudRun` state no liveness: their calls may fail at
  every await, and clients need not repeat them.

## 5. Proofs

All theorems hold for every value of the constants that satisfies the named
assumptions next to the declarations: any number of calls, rows, tasks, runs or
keys, any amounts, limits and numbers of faults. `PROJECT.json` lists them; each
proof module says what its inductive invariant is.

A proof module may have two components, those that work hand in hand. Their actions
and invariants then have names of their own (`CommandSpec`, `WorkflowTypeOK`).

- `EventPathProofs`, commands: `CommandTypeCorrect`, `AllOrNothingHolds`,
  `NoStaleDecisionHolds`, `ImplementsAtomicCommandsHolds`. None of the properties is
  inductive, since none speaks of the open transaction. `DraftInv` says how the
  draft of a call differs from the store: the record of its key, which the store does
  not have, and the events emitted so far behind the stream, of that call and numbered.
  `CallInv` requires it of the one call whose transaction is open, and of a call that
  answers that its result is the stored one. So a commit adds a key with all of its events, which
  is `Atomic!Execute` under the refinement mapping; every other step is an answer or a
  stutter (`StepImplements`).
- `EventPathProofs`, outbox: `TypeCorrect`, `LeaseExclusionHolds`,
  `ExclusivePublicationHolds`, `PublishedWasDeliveredHolds`,
  `PublishedIsFinalHolds`, `ExactlyOnceHolds`. The invariant ties each phase of a
  call to the row it works on: while `clock` is before the end of the lease that
  `callNow` gave it, the row is claimed by the call's dispatcher until at least that
  time, and is in the dispatcher's in-flight set, for exactly one of its calls.
  `LeaseExclusion` alone is not inductive: it says nothing of the records a call
  has still to do. `OnceInv` adds, for histories without faults or overruns, that a row was
  delivered once if it is published or about to be marked so, and else not.
- `ExecutionProofs`, workflow: `WorkflowTypeCorrect`, `HistoryConsistentHolds`,
  `TerminalIsFinalHolds`, `WaitsCanEndHolds` and `CompletedIsNotReplayedHolds` for any number
  of overlapping resumptions and callers.
  `WorkflowInv` demands of the snapshot in each call what it demands of the store,
  because the call stores that snapshot later, over whatever is there.
  `AttemptsBoundedHolds` and `CancellationReachesHandlersHolds` assume `OneCall`: resumptions
  do not overlap, while callers do as they please (section 3 says what happens without; it is
  what the instance of `workflow_single` has). `AloneInv` says how far that one call is, and
  that an attempt beyond the limit was paid for by a crash or an upgrade (`Allowance`).
- `ExecutionProofs`, pool: `TypeCorrect`, `TaskAttemptsBoundedHolds`,
  `AttemptsAccountedHolds`, `CopiesAccountedHolds`, `QuotasHoldHolds`,
  `SettledIsFinalHolds`, `BacklogBoundedHolds`. The copy of a lease that a worker holds
  names an attempt no later than the task's, and the task's holder has the current one; so no
  answer that the pool accepts is about a settled task. The quota proof argues over the
  cardinality of the set of leased tasks, which grows by one task in `Claim` alone.
  The backlog grows in `Enqueue` alone, when the queued part is below its limit and the
  leased part within its quota.
- `BudgetLedgerProofs`: `TypeCorrect`, `WithinLimitsHolds`,
  `OverrunsAreReportedHolds`, `BalancedHolds`, `UsageAccountedHolds`. The first two need that the part of a reservation
  that is left is within what is reserved, which the invariant carries as
  bounds of the totals. The sums need no induction: `IsTotal` counts units, so
  that changing one amount changes the total by as much (`TotalChanges`), by
  cardinalities of disjoint sets. Every operation rewrites one record by what
  `Move` moves (`Rewrites`), whence `BalancedHolds`. `UsageInv` adds to
  `UsageAccounted` that nothing remains of a reservation once reconciliation has put its own
  number in the place of the sum.
- `ToolBrokerProofs`: `TypeCorrect`, `RunsArePaidHolds`, `NothingStrandedHolds`,
  `DenialsAreFinal`, `UsesTheLedger`, `LimitsHold`, `LedgerBalanced`.
  `StepKinds` shows that a step of the broker is of one of a few kinds (it starts,
  reserves, ends, settles, ...), and the invariants are proved kind by kind:
  `HoldInv` says what a reservation looks like while its call has it.
  `UsesTheLedger` is a refinement: every step of the broker is one of
  `BudgetLedger` or leaves the ledger alone. What `BudgetLedgerProofs` proves is
  therefore inherited: `LimitsHold` and `LedgerBalanced` cite it through an instance.
- `ProjectionEngineProofs`: `TypeCorrect` and `SnapshotsAreCurrentHolds` for any
  number of engines; `ViewsAreWholeHolds` and `SnapshotsAreReplaysHolds` when a
  store has one engine (`OneEngineOnly`; section 3 says what happens without).
  `Whole` adds that a call past the lock holds it, so that no other call is in the
  loop, and that the loop is at the stored checkpoint with the replay up to it.
  `Current` relates what a call has read, the cursor and the snapshots answered so far.
- `UniversalRunProofs`: `TypeCorrect`, `OneRunPerKeyHolds`,
  `RunFollowsLatestAttemptHolds`, `AnswersAreStoredHolds`. The coordinator decides on what
  it read before, so the invariant says what cannot have changed since:
  `KeyInv` for a key between its lookup and `run.created`, `FollowInv` for the
  attempt of a run that is not raced, `FirstInv` for the one execution a run has
  before it is retried or created once more. `HasLast` says that the attempts of a run
  have a highest number, which `LastNumber` is. `IdsLeft` counts the run IDs that calls on their way will
  need, without which the type of a new run cannot be shown.
- `CloudRunProofs`: `TypeCorrect`, `ApprovedIsReservedHolds`, `ChargeIsUsageHolds`,
  `ResultsArePaidHolds`, `PrepaidBalancedHolds`, `ChargesAreFinal`. The stores only grow (`Growth`): what a
  call has seen in them is still there when it goes on, whatever other calls did
  in between. `CallInv` says what each place of a call has seen.
  The account adds up because what is open is the estimate's own amount, whatever the cost was.
- `PostgresDispatchProofs`: `TypeCorrect`, `OneRequestPerKeyHolds`,
  `AggregatesInOrderHolds`, `StreamInOrderHolds`, `StreamHasNoGapHolds`. What a transaction relies on is
  protected by a lock that it keeps to its end: its key by the row lock, the
  versions of its aggregates by their advisory locks, the end of the stream by the
  lock of the stream. `CallInv` says so for each place.

Only model-checked is liveness, which needs fairness: `PublishedIfDispatched`, both
`EveryDispatchEnds`, `EveryTaskSettles`, `EveryActivityEnds`, `EveryCallEnds`,
`AcceptedRunsSettle`. `UsesCounted` is only model-checked, too. Every other invariant and
action property of a passing run is proved.

Some invariants are proved and not in a run, since the run's properties imply
or exercise the same steps: the `TypeOK` of the ten modules,
`PublishedWasDelivered`, `PublishedIsFinal`, `TaskAttemptsBounded`,
`CopiesAccounted` and `BacklogBounded` of the pool, `SnapshotsAreReplays`,
`OverrunsAreReported`, `ApprovedIsReserved`, `StreamHasNoGap`.

## 6. Not modelled

`PROJECT.json` lists every component with its reason. In short:

- Of the PostgreSQL store, what the command dispatcher does not use: outbox claims
  (`FOR UPDATE SKIP LOCKED`), aggregates, checkpoints, receipts and artifact versions. The
  other models take transactions as serial, as the in-memory and SQLite stores make them.
- Of the cloud runtime, Stripe billing, accounts and sessions, the event log and
  the provider streams.
- A commit whose answer is lost: the stores of the models answer for what they did.
- Schema validation, digests, scopes and policy rules before a call, unless a
  property is about them; soft alerts, metrics and audit text.
- Subscriptions, scoped budgets, tenant lifecycle, artifact registry, agent
  transport and the agent CLI: see the plan.
- Adapters to external services, rendering, request routing, user interfaces and
  command lines: most of the repository's lines are of this kind. They have little state of
  their own between two calls; what they keep is data of the components above.

## 7. Plan

Done: outbox, commands with their abstract specification, worker pool, workflow
engine, budget ledger, tool broker with approvals over that ledger, projection engine, run
coordinator, cloud runs, commands over PostgreSQL; proofs for all of them.

1. `EventPipeline`: `CommandDispatch` to `OutboxDispatch` to consumers, with
   `Subscriptions` (cursors, floors and gaps), composed over one stream.
2. `ScopedBudget`, `TenantLifecycle`, `ArtifactRegistry`.
3. Outbox claims over PostgreSQL (`SKIP LOCKED`), against `OutboxDispatch`.
4. Background tasks, approvals and notifications of the agent CLI.

Proofs still worth writing: that the conditions of section 3 are needed is shown by TLC
alone, so what holds without them could be stated and proved (how often an
activity is replayed by overlapping resumptions, how far uses of a grant are
undercounted); and a refinement of `AtomicCommands` by `PostgresDispatch` for
requests with different keys.
