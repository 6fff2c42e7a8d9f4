# Formal model of hiveCrypto

TLA+ specifications of the part of hiveCrypto that has to survive concurrency and
crashes, the TLC configurations that check them on small instances, and TLAPS proofs
of what they guarantee for every value of their constants. Paths below are relative to
the root of the repository; `core/` stands for `packages/core/src/`.

Contents: 1 inventory of the system, 2 modules, 3 runs and what they show, 4 where the
code and its comments disagree, 5 proofs, 6 what is not modelled, 7 plan.

## 1. The system

hiveCrypto is a local gateway (one Bun process, one event loop, one embedded document
store with versioned `put`s) in which a coordinator agent answers conversations from
several channels, delegates work to catalogue agents, and drives a simulated trading
desk. Everything asynchronous goes through one durable queue of jobs.

| Component | State | Operations | Interacts with | Hard behaviour | What makes it correct |
|---|---|---|---|---|---|
| **Durable queue** `core/gateway/job-store.ts`, `durable-queue.ts` | collection `jobQueue`; in memory `runningCount`, `runningAborts`, `dispatchTimers` | enqueue, dispatch, claim, execute, complete/fail/retry, renew, reclaim, cancel, cancelLane, terminal hooks | executors, delegation groups, reconcile | several dispatchers at every `await`, leases and the process's death, one counter for crashes and retries, cancels racing with claims | one executor per job, no lost or orphaned job, bounded number of starts, final means final, one hook call per end, cap and lane order |
| **Boot reconciliation** `core/storage/reconcile.ts` | none of its own | six repairs: task runs, meetings, agent runs, jobs, tasks, retention | every collection above | runs between two process lives, before hooks are registered | after it no document claims to be run by a dead process |
| **Delegation groups** `core/gateway/delegation-groups.ts`, `delegation-notify.ts` | collection `delegationGroups` | register, record outcome, seal, finalize | `task_delegate`, `task_revise`, chat turn, queue hook | outcomes, seal and revision in any order, claim of the summary, crash or throw between its steps | a join: every registered task reports, then the coordinator is told once |
| **Executors and agent runs** `core/gateway/job-executors.ts`, `core/agent/run-store.ts`, `goal-runner.ts`, `run-epoch.ts` | `agentRuns`, `tasks` | create, claim, heartbeat, complete/fail/interrupt a run; goal turns | queue, reconcile | unconditional status writes by stale executors, resumption after a death in the middle of a tool, lost counter updates | no tool call twice, none hidden from the model, budgets hold across deaths, nothing left "running" without work |
| **Chat turns** `core/gateway/webchat-turn.ts` | conversation documents | run a turn, stream, seal the group | queue, groups, channels | rerun after a crash from a checkpoint | the user is answered or told of the failure |
| **Cron scheduler** `core/scheduler/` | `cronJobs`, `taskRuns`, timers | create, activate, execute, pause, resume, delete, misfire | agent loop, notifications | overlapping executions with a stale snapshot, automatic pause | counters match the outcomes, records settle, a failing task is paused, boot revives nothing |
| **Paper trading** `packages/mcp-trading/src/` | accounts, positions, trades, decision log | order, close, backtest, policy checks | trading tools | concurrent orders over one account, three separate writes | never negative; balance, positions and trades agree; no order past the policy |
| **Circuit breaker, retries** `core/resilience/`, `core/utils/retry.ts` | state, failure and probe counters | call, success, failure, half-open timer | LLM and tool calls | late results of calls begun in another state | no caller in the repository |
| **Tool worker pool** `core/tool-runtime/` | workers, queue of calls | run, RPC, timeout, abort batch, dispose | agent loop | answer, timeout and abort of one call | each call settles once, each slot is freed once |
| **In-memory lane queue** `core/gateway/lane-queue.ts` | lanes, running item | enqueue (no caller), cancel | slash commands | - | - |
| **MCP manager and leases** `packages/mcp/src/manager.ts`, `core/agent/delegation-runtime.ts` | servers and their clients, leases of delegations, idle timers | connect, disconnect, update, call, acquire, release | delegations, turns, hot reload, API | concurrent connect and disconnect, timers racing with new holders | a delegation keeps its client, an idle lease ends, "connected" has a client no disconnect closed |
| **Store helpers** `core/storage/hive.ts` | counters, rollups | nextId, updateDoc, bumpRollup | all | get/put loops that give up after eight conflicts | unique ids, no lost update |
| **Rate limits, pairing** `core/security/` | small tables | check, pair | channels | expiry | limits hold |
| Agent loop, events, server and routes, channels, canvas/voice/meetings, schema and seeds, tools, plugins/config, command line and interfaces | - | - | - | driven by a language model or by external services | see section 6 |

How a delegation flows through them: a chat turn is a `chat_turn` job. Its model calls
`task_delegate`, which registers a task in the turn's *group*, enqueues a `worker_task`
job in the lane `task:<id>` and returns. When the turn ends it *seals* the group. The
queue runs the worker and, at its end, calls the terminal hook, which records the
outcome in the group; whichever of the seal and the last outcome comes second enqueues
a summary, again a `chat_turn`, in the lane of the conversation.

## 2. The modules

| Module | Role |
|---|---|
| `JobLifecycle` | what a job promises its creator: abstract life cycle and bounded starts |
| `DurableQueue` | the queue, job by job, with its process, crashes and boot; implements `JobLifecycle` |
| `MCDurableQueue` | instance for TLC: kinds of jobs, symmetry |
| `DurableQueueProofs` | inductive invariant, types, start budget, ownership, finality, refinement of `JobLifecycle` |
| `QueueSafetyProofs` | one executor per job, no orphans, one announcement, order of a lane, slots and cap |
| `FanIn` | what a group promises its turn: a join that tells once |
| `DelegationGroups` | the group, its turn, its workers and their callbacks; implements `FanIn` |
| `MCDelegationGroups` | instance for TLC: symmetry of the tasks |
| `DelegationGroupsProofs` | inductive invariant, exclusive claim, refinement of `FanIn` |
| `CronScheduler`, `MCCronScheduler` | tasks, timers, executions, user calls and boot of the scheduler |
| `CronSchedulerProofs` | inductive invariant, settled records, counts, automatic pause, quiet boot |
| `PaperTrading`, `MCPaperTrading` | orders and closes over one stored account, with engine and policy |
| `PaperTradingProofs` | two inductive invariants: solvency, the readonly mode, the ledger, best fills |
| `ToolPool`, `MCToolPool` | the workers that run the tool calls of a turn |
| `ToolPoolProofs` | inductive invariant, no lost call, no idle wait, own aborts; lemmas on drain and splice |
| `McpLeases`, `MCMcpLeases` | one MCP server: its connections, its leases, its users |
| `McpLeasesProofs` | inductive invariant, references, timers, client of a held lease |
| `AgentRuns`, `MCAgentRuns` | an agent run beside its job and its task: checkpoints, resumption, ends, budgets |
| `AgentRunsProofs` | two inductive invariants: calls, and documents beside what executions remember |

The modules meet where one takes another's result as an assumption: `DelegationGroups` and
`AgentRuns` make one step each of claims, lapses and ends that `DurableQueue` models await
by await; the tool call of `AgentRuns` is a batch of `ToolPool`; a delegation
of `McpLeases` is a worker run.

### 2.1 DurableQueue

*Grain.* JavaScript runs without interruption between two `await`s, so an action is the
code between two of them and every `await` is a point where any other activation may
act. The functions of `job-store.ts` read a document and `put` it with the version they
read, and start again on a conflict; their effect is one atomic guarded write, and that
is how they appear (`CanClaim`/`ClaimedDoc`, `Owned`, `RetriedDoc`, `ReclaimedDoc`,
`CanCancel`). That such a loop *gives up* after `MAX_RETRIES` is kept where it matters, at the
final write of an execution (`GiveUpStore`).

*State.* `job` is the collection. Volatile state is `armed` (`dispatchTimers`), `disp`
(activations of `dispatchLane` with what they read), `exec` (activations of `executeJob`,
one for each start of each job, because a stale one may outlive its job's next start), `running`
(`runningCount`), `aborts` (`runningAborts`) and the calls in flight: those of users and of the tick
(`cancelling`, `stopping`, `noticing`) and `creating`, the documents of `createJob` calls that have
their id and wait to be put. `Crash` clears all of it. `seq` is the stored counter of ids. `hooks`,
`lost` and `older` are history: the terminal hook calls, the executions lost, and for each job the
jobs of smaller id that were stored before it, which properties speak about.

*Actions and code.*

| Actions | Code |
|---|---|
| `Enqueue`, `StoreJob` | `DurableLaneQueue.enqueue` and `createJob` up to the id, and from the `put` of the document on |
| `FireTimer`, `ReadLane`, `ClaimJob`, `Launch` | `scheduleDispatch`, `dispatchLane` up to each of its awaits, `claimJob`, start of `executeJob` |
| `SucceedJob`, `FailJob`, `FailOrRetryJob`, `AbortJob`, `GiveUpStore` | the answer of the executor and the write it leads to |
| `CallHook`, `CloseExec` | `runTerminalHook`, the `finally` of `executeJob` |
| `TimeOut`, `RenewLease`, `LeaseLapses`, `BackoffElapses` | timers and clock |
| `TickReclaim`, `TickNotice`, `TickDispatch` | `runMaintenanceTick` |
| `Cancel`, `WriteCancel`, `CancelLane`, `CancelRunning`, `CancelWaiting` | `cancel`, `cancelJob`, `cancelLane` |
| `Crash`, `Restart`, `Reconcile`, `StartQueue` | death of the process, `reconcileOnBoot`, `initDurableQueue` |

*Abstractions.* Clock values become flags: `due` for `not_before`, `lease` in
`null/live/lapsed`. No caller sets a priority or a future `not_before`, so a lane is ordered by
id. `nextId` is one step, its document another: calls of `createJob` may overtake each other
in between, and an id whose call died is never used. An executor may throw an `AbortError` at any
time, its own signal fired or not (`AbortJob`). `startGateway` registers the
executors and hooks synchronously after reconciliation, so `StartQueue` is atomic and the
"no executor" branch cannot be taken. `LeaseMayLapse` lets the lease of a *living*
execution lapse, as happens when the event loop is blocked for longer than the lease.
Only `cancelLane` is called in production (server and realtime bridge); the public
`cancel` is kept as an operation of its own. Not modelled: live callbacks, getters, `stop()` (never
called), the caller that goes on when the store itself fails at boot.

### 2.2 DelegationGroups

One turn and its group (groups share no document). `group` is the document, `worker` the
`worker_task` jobs of each task (round 1 is the delegation, later rounds are revisions),
`pc` the position of every activation of `recordDelegationOutcome`/`sealDelegationGroup`
inside `finalizeIfReady`. A worker is `live` until the queue ends it; `DurableQueue`
tells how it gets there, and the composition relies on two of its results: an ended job
never changes (`FinalStays`) and its hook is called once unless a lease lapses
(`NotifiedOnce`; the other case is `RepeatHook`).

| Actions | Code |
|---|---|
| `Delegate`, `EnqueueWorker`, `EnqueueThrows` | `task_delegate`, async mode: registration, then run, job and task document, or its `catch` |
| `Revise` | `task_revise` of a task of the same turn |
| `FinishTurn`, `FailTurn`, `EndTurn`, `RerunTurn` | `runWebchatTurn`: `generate` returns or throws, end, rerun of the job after a crash |
| `DeliverTask`, `EndWorker`, `RepeatHook` | the worker's executor, the final write and the hook |
| `RecordOutcome`, `Seal` | `recordDelegationOutcome`, `sealDelegationGroup` |
| `ReadGroup`, `MakeReady`, `ClaimSummary`, `FindSummary`, `CreateSummary`, `NotifyGroup` | `finalizeIfReady`, await by await, with `createJob`'s look-up of the idempotency key apart from its creation |
| `SummaryThrows`, `ResetClaim` | its `catch` |
| `Crash` | death, restart, and the jobs `reconcileOnBoot` interrupts before the hook is registered |

Left out: narration, prompts and results; the failure of `mutate` after eight conflicts; a tool
call that goes on after its own timeout; the notice of a task delegated outside any turn.
`EnqueueWorker` merges the enqueue with the task document that follows it.

### 2.3 CronScheduler

Tasks of either kind, their records in `taskRuns`, the table of Croner instances, and every
activation of `execute`, `activate` and the user calls. An action runs between two
awaits; `updateJob` and `updateTaskRun` re-read until their conditional write succeeds and are
atomic. Croner is external: an instance refuses a name another one holds, skips ticks
while it is paused and, being protected, while its function runs; `trigger` asks for neither. Tasks are
protected and keep their type, as those the agents' tools create; the HTTP routes can create or make a task
unprotected and change its type (`core/gateway/routes/cron-api.ts:148`, `CronScheduler.ts:564`, `:576`),
which is not modelled.

| Actions | Code |
|---|---|
| `FireTimer`, `Trigger` | the timer of an instance, `trigger` |
| `ReadTask` ... `Deactivate`, `NotifyLoss`, `ExecuteThrows`, `HandleError` | `execute` await by await, with the branch of success, its `catch`, and `handleError` |
| `StopInstance`, `BuildInstance`, `WriteNextRun`, `PauseAtActivation` | `activate` |
| `Create`, `Pause`/`PauseWrite`, `Resume`, `Update`/`PatchWrite`, `Delete`/`Remove`, `CleanupScan`/`CleanupCancel` | the calls of users and the clean-up |
| `Crash`, `TimePasses`, `Restart`, `RepairRun`, `BootScan`, `BootTask`, `CatchUp`, `BootDone` | death, the dates that go by, `reconcileOnBoot`, `boot` |

Dates become `past`: the next fire time has gone by. The read of the task and the creation
of the record are one step. Ids are not used again. Left out: names, patterns, payloads,
`max_runs`, `interval`, unprotected tasks, changes of type, the retention of records.

### 2.4 PaperTrading

One account, its positions and the sums of its trades. A call holds what it has read and
writes what it computed; `torn` is history and says that a write went over something its
call had not read, or that a call stopped between its writes.

| Actions | Code |
|---|---|
| `AskCreate` | `paperAccount`, `create` |
| `ReadAccount`, `ReadBook`, `ReadPosition` | `paperOrder`: account, book and policy, position and engine |
| `ReadToClose`, `BookToClose` | `paperClose` |
| `PutAccount`, `PutPosition`, `AppendTrade` | the three writes of both |
| `Throw`, `Restart` | an await that throws; death and a start in any mode |

The engine is a set of operators: `TakeFirst`/`TakeSecond` (`fillFromBook`), `Notional`,
`CanAfford`, `CanSell`, `Outcome`. Money is counted in units of 1/`FeeDen`, so that fees are whole
(the code uses floating point); books show two levels at most; an order by notional is one
of some size; an empty list of symbols allows all (`Listed`). Entry prices, realised gains and reports are left out.

### 2.5 ToolPool

Every callback of the main thread runs to its end, so each is one action: `ExecuteBatch`,
`RefuseBatch` (the signal has fired), `AbortBatch`, `Answers`, `Fails`, `Dies`, `TimesOut`,
`Shutdown`. The loop of `drain` is one function (`Drained`, `LeftOver`): it serves the idle slots in
the order of the array, then appends new ones, so which call goes where can be said without the
loop. `Keep` closes a sequence up over some positions, as `splice` and `filter` do. The walk of
`abortBatch` over the array that its own `finishJob` shortens is `Reached`: after a splice the walk
goes past the next slot, so of neighbours of the batch it reaches the first, the third and so on. A worker that dies without an error event,
or while it is idle, stays in its slot (`Dies`); the next call it is given waits
for its timer. Late answers of dropped workers and the calls a worker asks of
the main thread change nothing here. Batches are numbered in the order of their calls, and
a batch of one call runs in the main thread, outside the pool.

The `postMessage` that hands a call to its worker (`index.ts:481`) is taken to return. To a worker that
has exited it may throw, as the code expects of the other one (`:519`): from `execute` it would reject the
promise of a call that keeps its slot until its timer, and from a callback it would end that
`drain` early, leaving calls that wait to the next one. `WaitsForWorkers` and `EveryCallEnds` hold where it
does not.

### 2.6 McpLeases

One server. `open` holds the connections the manager has opened and not closed, also those whose client it
has lost; `dead` those the server has ended or whose session it has lost, which the manager does not notice, as it
installs no `onclose`; `conn` the calls of `connectServer` under way; `timers` the idle timers
armed, those the lease has lost included; `raced` is history and marks the windows of
`LeaseKeepsClient`.

| Actions | Code |
|---|---|
| `ConnectOk`, `ConnectFails`, `ListTools`, `Discovered` | `connectServer` and `discoverCapabilities` after their awaits |
| `Dies` | the server ends a connection by itself, or restarts and loses its session |
| `Acquire`, `PrepareThrows`, `Release`, `TimerFires`, `LeaseCloses` | `acquireMcpLease`, `prepareDelegation`, `releaseMcpLease` and its timer |
| `Compile`, `GiveUp`, `CallTool` | the lazy wake of `context-compiler.ts`, `callTool` |
| `Reload`, `Reconnect`, `Disable`, `Closed`, `ConnectNow` | `updateConfig`, `reconnectServer` after a session error, the API |

A delegation that loses the server shows nothing here but `Reconnect`: its calls fail or reconnect. Errors
that are not session errors reconnect nobody (`manager.ts:348`).

### 2.7 AgentRuns

One run, its job and, for a worker, its task. The job is `DurableQueue`'s, with claim, lapse,
cancel and settlement in one step each. What the model answers, whether a tool or the
verifier throws, and what acceptance checks say is arbitrary; a batch of tool calls is one
call; a turn of a goal, which leaves no checkpoint, is one action.

| Actions | Code |
|---|---|
| `Claim`, `Lapse`, `Cancel`, `TimeOut`, `Settle` | the queue |
| `Refuse`, `Start`, `Peek`, `Load`, `Reclaim` | the executors before the loop; `runAgent` resumes |
| `Ask`, `LeaveLoop`, `PreCheckpoint`, `RunTool`, `PostCheckpoint` | the durable loop |
| `Synthesise`, `FinalCheckpoint` | after a loop that left no words: `synthesizeFinalResponse`, one or two model calls; the last checkpoint |
| `EndRun`, `CatchLoop`, `Finally`, `ReleaseRun` | the ends of `runAgent` |
| `WorkerOutcome`, `ChatOutcome` | the executors after the loop |
| `StartGoal`, `AbortGoal`, `ExhaustGoal`, `Turn`, `BumpRead`, `Bump`, `Note`, `Verify`, `Packet`, `CatchGoal` | `goalRunExecutor` |
| `ListRuns`, `StopRuns`, `Restart` | SIGTERM; death and `reconcileOnBoot` |

`ran`, `calls`, `rounds`, `erased` are history: what tools ran, what was asked, how often the model was
called (of a goal, how many turns it took), and what the last erasure of the checkpoint forgot. Compaction of
the history and retries inside `callLLM` are no rounds. Not modelled: epochs (`run-epoch.ts`), the promotion of
a long turn to a run, truncation of large checkpoints.

### 2.8 Faulty variants

Some definitions are preceded by a variant with a plausible bug (`ClaimUnread`,
`OwnSlotOnly`, `FindAlways`, ...). The specifications do not use them. Put in
place of the definition that follows, each breaks one property: that is how every property is
known to depend on the code it is about.

## 3. Runs

All runs finish within a few minutes on two workers. The bounds are constants of the
modules and named there.

| Run | Instance | Properties | Shows |
|---|---|---|---|
| `QueueLapse` | 1 job, 2 dispatchers, 2 attempts, 1 retry, lapsing lease, a write that gives up, cancels, 2 process lives | `StartBudget`, `RunningIsOwned`, `RunningIsHeld`, `SlotsMatchExecutions`, `FinalStays`, `ImplementsLifecycle` | stale and new executions of one job live side by side and the process dies at every await; the job is owned and held while it runs, is not started beyond its budget, stays as it ended, and every slot is returned once |
| `QueueCancel` | 2 jobs in one lane, 2 dispatchers, 1 retry, cancels of jobs and lane, one crash | `OneExecutorPerJob`, `NotifiedOnce` | dispatchers, retries, cancels and crash never give a job two executors or two announcements |
| `QueueEnds` | 2 jobs, 2 lanes, 1 dispatcher, cap 1, 2 attempts, 2 process lives, a write that gives up, under `FairSpec` | `TypeOK`, `EveryJobEnds` | a stored job ends, although the process dies at any point, the cap refuses it for the job of the other lane, or the write of its end gives up |
| `QueueCap` | 3 jobs in one lane, both kinds, 2 dispatchers, cap 1 | `OverrunBounded`, `FifoStarts` | how far the cap can be overrun; of two jobs the one with the smaller id and the earlier document starts first |
| `GroupJoin` | 2 tasks, one revision each, 2 executions of the turn, 1 crash, 1 fault | `ClaimIsExclusive`, `SummaryIsKnown`, `ImplementsFanIn` | the join holds over every order of outcomes, seal, revision, repeated hook, crash and throw |
| `GroupFair` | the same without crash and fault | `FanInArrives` | a sealed group is answered |
| `Cron` | 1 task of either kind, 2 executions, 2 callers, threshold 2, 2 user calls, 1 crash, 1 fault | `RunsSettle`, `CountsHonest`, `FailingIsPaused`, `BootQuiet`, `SettledStays` | no record stays "running", counters agree with outcomes unless executions overlap, a failing task is paused, boot revives nothing that is over |
| `Paper` | 4 calls, 2 symbols, changing books, 1 restart, 1 error | `Solvent`, `LedgerAgrees`, `FillIsBest`, `ReadonlyBuysNothing` | nothing negative whatever overlaps; the books agree unless a call was overwritten or torn |
| `Pool` | 3 batches of 2 calls, 3 workers, 1 death, 1 shutdown | `NoCallLost`, `WaitsForWorkers`, `AbortIsOwn`, `EveryCallEnds` | each call settles once and ends; no call waits beside a free worker; aborts stay within their batch |
| `PoolAbort` | 2 batches of 2 calls, 2 workers | `AbortReachesAll` (violated) | an abort misses a running call of its batch, section 4 |
| `Leases` | 3 delegations, 1 turn, 1 administrator, 2 closes at once, 2 connects, 1 fault, connections the server ends | `RefsHaveHolders`, `IdleLeaseIsTimed`, `ConnectedIsNotClosed`, `LeaseKeepsClient`, `IdleLeaseEnds` | leases are neither lost nor kept for nobody; nobody in the gateway takes the client of a running delegation outside three windows |
| `Runs` | 1 run of each kind, 2 executions, 2 iterations, 2 turns, 2 claims, 1 trouble, 1 retry | `EffectsKnown`, `OncePerCall`, `RoundsBounded`, `GoalBudget`, `RunIsSettled`, `CompletedStays` | a resumed run repeats no tool call and hides none; budgets survive deaths; ends are settled, and a completed run stays so but for a goal without its proof packet |

*Are the bounds enough?* The races of the queue are between two dispatchers, an executor
and a maintenance or user call over one document; two jobs add the lane and the cap; three jobs are
needed only to overrun a cap of one by two dispatchers, and to have a job between two whose documents come in
the other order. `QueueEnds` has no retries, cancels, lapses of leases in use or chat turns: what it asks is
whether somebody comes back to a job, and it needs two lanes for the cap, two process lives for the death and one
failing write. Two attempts and one retry
give the three starts in which crash recovery and retries interleave. Two process lives give one
crash at every state; longer histories are covered by
the proofs, which do not depend on any bound. Two tasks are needed so that one worker's hook
meets another's; a third adds only another symmetric caller.

Tasks of the scheduler share nothing, so `Cron` has one; two executions are what can
overlap, and a threshold of two tells consecutive errors from others. In `Paper` a create and
three calls give two orders that overlap and a third that sees the result. `Pool` has
a third batch that waits while two others run. In `Leases` three delegations give a
holder, one that leaves and one that comes meanwhile; the same properties were checked with
three connects, and with two administrators. A death, a lapsing lease or a failing write
needs one occurrence in `Runs` (`MaxTroubles` bounds the three together), since the
properties about them say what one of them may add to a budget. Two iterations are needed since a
resumed run must not get the first one twice. A worker or chat run has a retry instead of the trouble, a goal
both (`FewTroubles`, the constraint of the run).

*Fairness.* Weak fairness on the code's own continuations: an `await` of the store
resolves, a timer fires, an executor answers (its timeout aborts it), the maintenance
tick comes, a supervisor restarts the process, the lease of an execution that no timer renews
runs out. No fairness for users, crashes, faults, time-outs and lapses of renewed leases. In
`DelegationGroups` a worker is brought to its end by the queue: that assumption is `EveryJobEnds`, which speaks of
jobs that are stored; an `enqueue` that dies before its `put` leaves none.
`GroupFair` excludes crashes and throwing enqueues because the code does not recover from
them (section 4). In `ToolPool` only the timers of calls are fair: tools and workers may hang. In
`McpLeases` idle timers fire and clients close; connecting may take for ever.

*Deadlock.* Checked in all queue runs; a process can always be asked for its tick. Not
checked in the other modules, where the end of the calls, turns, tasks or runs of the
instance is the normal end.

## 4. Where the code and its comments disagree

`PoolAbort` is a run because a test states what the code should do:
`tests/tool-runtime.test.ts:211`, "marks queued and running work as aborted", with one worker. With two,
`abortBatch` (`core/tool-runtime/index.ts:339`) walks over `this.workers` while `finishJob` splices the
finished slot out of it, and passes over the next slot: the second of two neighbouring workers
of the batch works on, and the batch waits for it.

The same models show the following; each can be reproduced by checking the formula, defined in
the module or given here, as an invariant or property. They are kept here rather than as runs.

The queue and the groups:

* `OneRunningPerLane`: "1 concurrent running job per lane" (`durable-queue.ts:7`). `dispatchLane`
  starts one job per activation and never looks at running ones; a second enqueue while the
  first job runs starts the second job beside it.
* `CapRespected`: "maxGlobalConcurrency across all lanes" (`:8`). The count is compared before
  and incremented after the await of `claimJob`. `OverrunBounded` says by how much.
* `InterruptedIsNotified`: "that path already fires the hook, this one didn't before"
  (`job-store.ts:340`). At boot the interruption is written before any hook is registered.
* `InterruptedAfterLosses`: `attempts` is for "crash/lease-expiry only" (`collections.ts:442`), but
  `claimJob` counts every start: after one retry a single crash interrupts the job.
* `OutcomeIsRelayed` (with `FairSpec`): the hook "on completion or final failure, enqueues a
  synthetic chat turn" (`delegation-notify.ts:6`). A turn that throws after delegating never
  seals its group, and the outcome reaches nobody. For turns that do not fail the same
  happens with one crash, between the final write and the hook (`durable-queue.ts:310`) or while a claim
  is held (`delegation-groups.ts:164` turns everybody away from `__claim__` for ever), and with one
  fault, when the enqueuer throws after the last caller came (`:189`) or when `enqueue`
  throws after the task was registered (`core/tools/agents/index.ts:587`).
* `DurableQueue`, `\A j \in Jobs : TRUE \in Range(hooks[j]) => Status(j) = "completed"`
  (cancels allowed): a cancelled job whose executor answers ok announces success, because the
  result of `completeJob` is not looked at (`durable-queue.ts:309`).
* `DurableQueue`, `\A j \in Jobs : Len(hooks[j]) <= 1` (`LeaseMayLapse`): both executions
  of a job whose lease lapsed announce its end, against "Fires exactly once" (`:85`).
* `DurableQueue`, `Status(j) = "cancelled" /\ Working(j, n) => exec[<<j, n>>].aborted`
  (cancels allowed): a cancel between the claim and the registration of the controller fires no signal (`:169`).
* `DurableQueue`, `[][Status(j) = "interrupted" => job'[j] = job[j]]_vars`: `cancelJob`
  rewrites an interrupted, announced job as cancelled (`job-store.ts:378`).
* `DurableQueue`: when `CancelWaiting(l)` is taken, a pending job of the lane with
  `due = FALSE` is not among the cancelled (`durable-queue.ts:185`; "all pending and running jobs", `:175`).
* `DelegationGroups`, `summaries > 0 => \A j \in Jobs : worker[j] # "live"`: the first outcome
  of a task counts (`delegation-groups.ts:244`), so a revision in the same turn is still running
  when the summary says that all tasks are terminal (`:131`).

The scheduler:

* `PauseIsForConsecutiveErrors`: "Auto-paused after 5 consecutive errors" (`CronScheduler.ts:144`).
  A success never sets the count back; nor does `resume`, so a task that was paused
  this way is paused again as soon as it is activated.
* A run recorded as a success becomes a failure when the notification after it throws; hence
  the exception in `SettledStays`.
* A pause that overlaps a resume or an activation leaves a paused document with an instance
  that ticks; a deletion that overlaps one leaves an instance without a document.
* `handleError` counts from what the instance was armed with, so it may lower the count. A
  one-shot that fails stays "active" until the next boot. No tool or route sets `misfire_policy`.

Simulated trading:

* `ReadonlyTradesNothing`: in readonly mode there are no simulated orders
  (`docs/guides/trading.md:13`); `paperClose` does not ask the policy.
* `MAX_ORDER_NOTIONAL`, the limit of an order (`trading.md:30`), is compared with the best
  price of the book, not with what the levels below cost.
* Two closes that overlap credit the proceeds twice; an order whose account write is
  overwritten is lost; a closed position can come back. This is what `torn` stands for.
* The decision log is "Append-only, nunca se borra ni se reescribe" (`policy.ts:30`), keeps 5000
  entries (`:78`) and lives in memory.

MCP servers:

* A server that dies, restarts or drops its connection stays "connected" with a dead client until a call meets a session
  error (`manager.ts:342`) or somebody disconnects it; a lease taken meanwhile finds it connected.
  `ConnectedIsNotClosed` therefore says no more than that no disconnect closed the client.
* `OffersAreConnected`: "Connect on demand so the coordinator isn't permanently cut off"
  (`context-compiler.ts:263`). `disconnectServer` keeps the tools of the server, so the turn
  takes a sleeping server for an awake one, and its calls are refused.
* Two first leases taken together both connect and both record one reference; a
  connect during another one leaks the first client; the `finally` after a close removes a lease taken
  meanwhile; the end of a disconnect drops a client that was connected meanwhile; a reload
  cuts running delegations off, against `docs/reference/mcp.md:26`. `LeaseKeepsClient` says
  that, connections the server ends aside, these windows are the only ones.
* When `prepareDelegation` throws after it took a lease, nobody gives it back and the server stays
  connected.

Runs:

* `completeRun` and `failRun` throw the checkpoint away, so a retry, or a crash between the end of
  the run and the end of the job, does all the work again; `EffectsKnown` and `RoundsBounded`
  hold from one erasure to the next. A goal that was met runs again after such a crash.
* A pending job that is cancelled leaves its run "running" until the next boot; so does a job
  refused because its worker is missing or disabled. After a crash, a cancel of the pending
  job leaves the task "in_progress". A worker that is aborted gives its task back as
  "pending", and nobody picks it up.
* SIGTERM reads the list of running runs and interrupts them one by one: a run that completed
  meanwhile becomes interrupted. A stale execution may do the same.
* A proof packet that cannot be stored, or that `buildProofPacket` refuses to build (`proof-packet.ts:32`: no checks, as for
  a goal with an empty list of acceptance criteria, or no evidence), turns the completed run of a met goal into a
  failed one, after the user was told of the success. `CompletedStays` names this exception.
* The synthesis after the loop is one or two more model calls beyond `max_iterations`
  (`agent-loop.ts:1119`), again after each death or retry: the terms of `RoundsBounded`.
* The lease of a run is renewed and never consulted (`docs/architecture/overview.md:39`, "según sus leases").
* A turn of a goal that throws is not counted, although "the budget is HARD"
  (`job-executors.ts:338`): `GoalBudget` needs its term for retries.

Elsewhere: `/stop` and `/status` (`slash-commands.ts:152`) ask the in-memory lane queue,
in which nothing is ever enqueued, while turns run in the durable queue.

A batch of one tool call runs in the main thread, where a call that times out
is reported and goes on.

## 5. Proofs

TLC explores small instances; the following holds for every number of jobs, lanes,
dispatchers, tasks, clients, executions, batches, workers, attempts, retries, faults and process
lives, and for all prices, amounts, fees and calls, allowed by the assumptions (`BoundsAssumption`, `NamesAssumption`,
`GroupBounds`, `TurnIsNoTask`, `SchedulerBounds`, `TradingBounds`, `BestFirst`, `PoolBounds`, `NoJobIsNone`,
`LeaseBounds`, `ThreadSorts`, `RunBounds`). They say that counts are naturals, positive where the code needs one;
that a fee is at most the whole; that an exchange lists the best price first, on which the code
relies when it takes `asks[0]` and `bids[0]` for the best (`paper-engine.ts:176`); that a batch of the pool has several calls; that the activations
of `dispatchLane` are finitely many; that a stand-in ("none", the caller "boot") is not a
real name; and that delegations, turns, administrators and closers are different threads. `TypeOK` of
the groups, of the scheduler, of trading, of the pool, of leases and of runs is proved and not run.

| Theorem | Module | States |
|---|---|---|
| `QueueInvariant` | `DurableQueueProofs` | `QueueInv` is an invariant |
| `TypeCorrect`, `BudgetHolds`, `OwnershipHolds` | `DurableQueueProofs` | `TypeOK`, `StartBudget`, `RunningIsOwned` |
| `FinalIsFinal` | `DurableQueueProofs` | `FinalStays` |
| `QueueImplementsLifecycle` | `DurableQueueProofs` | `ImplementsLifecycle` |
| `ExecutorsExclude`, `NoOrphans`, `HooksAnnounceOnce` | `QueueSafetyProofs` | `OneExecutorPerJob`, `RunningIsHeld`, `NotifiedOnce` |
| `LanesAreFifo`, `SlotsAreExact`, `CapIsNearlyKept` | `QueueSafetyProofs` | `FifoStarts`, `SlotsMatchExecutions`, `OverrunBounded` |
| `GroupInvariant` | `DelegationGroupsProofs` | `GroupInv` is an invariant |
| `GroupTypes`, `ClaimHeldByOne`, `SummaryAgrees` | `DelegationGroupsProofs` | `TypeOK`, `ClaimIsExclusive`, `SummaryIsKnown` |
| `GroupImplementsFanIn` | `DelegationGroupsProofs` | `ImplementsFanIn` |
| `SchedulerInvariant` | `CronSchedulerProofs` | `IInv` is an invariant |
| `SchedulerTypes`, `RecordsSettle`, `CountsAreHonest` | `CronSchedulerProofs` | `TypeOK`, `RunsSettle`, `CountsHonest` |
| `FailingTaskIsPaused`, `BootIsQuiet`, `SettledRecordsStay` | `CronSchedulerProofs` | `FailingIsPaused`, `BootQuiet`, `SettledStays` |
| `TradingInvariant` | `PaperTradingProofs` | `IInv` is an invariant |
| `TradingTypes`, `NeverNegative` | `PaperTradingProofs` | `TypeOK`, `Solvent` |
| `ReadonlySafe` | `PaperTradingProofs` | `ReadonlyBuysNothing` |
| `LedgerInvariant` | `PaperTradingProofs` | `LedgerInv` is an invariant |
| `BooksAgree`, `FillsAreBest` | `PaperTradingProofs` | `LedgerAgrees`, `FillIsBest` |
| `PoolInvariant` | `ToolPoolProofs` | `PoolInv` is an invariant |
| `PoolTypes`, `NoCallIsLost`, `NoIdleWait`, `AbortsStayOwn` | `ToolPoolProofs` | `TypeOK`, `NoCallLost`, `WaitsForWorkers`, `AbortIsOwn` |
| `LeasesInvariant` | `McpLeasesProofs` | `IInv` is an invariant |
| `LeaseTypes`, `ConnectedHasClient` | `McpLeasesProofs` | `TypeOK`, `ConnectedIsNotClosed` |
| `ReferencesHaveHolders`, `IdleLeasesAreTimed`, `LeasesKeepClients` | `McpLeasesProofs` | `RefsHaveHolders`, `IdleLeaseIsTimed`, `LeaseKeepsClient` |
| `RunsInvariant`, `DocumentsInvariant` | `AgentRunsProofs` | `IInv` and `DocInv` are invariants |
| `RunTypes`, `CallsRunOnce` | `AgentRunsProofs` | `TypeOK`, `OncePerCall` |
| `EffectsAreKnown`, `RunsSettle`, `CompletedRunsStay` | `AgentRunsProofs` | `EffectsKnown`, `RunIsSettled`, `CompletedStays` |
| `GoalsKeepBudget`, `RoundsAreBounded` | `AgentRunsProofs` | `GoalBudget`, `RoundsBounded` |

*The queue's inductive invariant.* `QueueInv` has five parts. `DocsInv`: every document
is a `GoodDoc`, which ties status, owner, lease, starts and retries together; each guarded write of
`job-store.ts` is a lemma from a good document to a good document, and this is where
`StartBudget` comes from: it is not inductive alone, since a requeued job needs to know
that its retry was counted. `ProcessInv` types the process and says that a running document
belongs to this process while it serves. `DispInv` and `ExecInv` type the activations and
say which start they hold. `QuietUnlessServing` says that a process that is down or
reconciling has no activations at all; without it a step of a dead executor could not be excluded.
The proof has one lemma for each group of actions.

*Life cycle.* `Move` lists what a step may make of one document; `StepMoves` shows that every
action makes at most one such move, and the refinement maps moves to actions of `JobLifecycle`.

*Exclusion.* `OneExecutorPerJob` follows from `HolderInv`: whoever holds a job, as a dispatcher past
its claim or as an executor, carries the number of the job's last claim, and a held job's
lease has not lapsed. All but two actions only remove holders (`Shrink`), so the argument
is needed only for a claim and a launch. `RunningIsHeld` is the converse: a running document
has a holder, because an executor leaves only by writing it. `NotifiedOnce` adds that a
job with an announced end has no holder and cannot get one.

*Order, slots and cap.* Three counting arguments over the same steps. `FifoInv` speaks of the pairs in
`older`, since documents may come in another order than their ids: a job that never started is always due, and when a
dispatcher took a job, all of its `older` ones in the lane had started or were cancelled; a job is passed over only while it waits for a retry, and
then it had its start. `SlotInv`: the counter equals the executions because a launch always adds a new one;
that needs `SlotNumbers`, that no two activations carry one start of one job and none
carries a start whose execution is still there. `CapInv`: the counter is compared with the cap
two awaits before it is raised, so what the check bounds is the executions together with the dispatchers that
passed it; the one that checks is not among those, hence fewer than `MaxGlobal + |Dispatchers|`.
Every other action only takes from both sets (`Steady`, `Closes`).

*Groups.* `GroupInv` strengthens the checked invariants by what each step relies on. `DocInv`: a
group exists exactly when it has a task, and a ready or notified one has all outcomes;
since nobody registers in a group that is not open, it stays that way. `WorkInv`: every
job and every caller acts for a registered task. `BusyInv`: a job's callback runs only
after its end, and the turn's only while it seals, so a new activation never replaces one
that is still under way. `TellInv`: who is about to create the summary knows that there is
none; this needs `ClaimIsExclusive`, as the look-up of the key and the creation are two steps. The
refinement maps registration, seal, first outcome and creation to `Join`, `Close`, `Report` and
`Tell`, and everything else to a stutter.

*Scheduler.* `IInv` has eight parts. `ProcessInv` says what a dead, reconciling or booting
process does not hold; `BornInv` that only created tasks are run or armed; `RunInv` ties the record of
an execution to its place, from which `RunsSettle` and `SettledStays` follow. For the counters,
`CountsBounded` speaks of what every execution, instance and call *remembers*, since each writes a
count it read before an await; `CountsExact` says that without overlap the remembered count is the stored one.
`FailInv` names who is about to pause a task at the error limit in every position of the
callers, boot included; `FailingIsPaused` alone is lost at a boot. `BootInv`: a task is left alone until
the walk of the boot reaches it.

*Trading.* `Solvent` is not inductive: a call about to write must be known to write something
that is not negative. `IInv` says so of every call, from one lemma on the engine: what `Execute`
returns for a consistent pair of readings is affordable or held, so that the balance
and the amount it is about to write are naturals. Whose readings they were, and what others
wrote meanwhile, plays no part, which is why the races leave this property intact while they break the
ledger. `ReadonlySafe` rests on a second invariant: in a readonly process no call
past the policy is a purchase; a restart is what could break it, and a restart drops all calls.

`LedgerAgrees` speaks of moments when no order is between its writes; in between, the balance is ahead
of the trades by what the orders under way have paid or got. A sum over them would need induction over a
set, so `LedgerInv` keeps a certificate instead: `Explained` lists the orders under way, each once, with the running
total after each, from what the trades say to what is stored. Writing the account (for the balance) or
the position (for the holdings) puts an order at the end of its list, unless the value written over was not
the one read, which `torn` records; appending the trade takes it out of the list, wherever it
stands, and moves the totals before it. An empty list says that both ends are equal. `DealInv` says that what a call
is about to write is what it read plus what its fill is worth. `FillIsBest` is arithmetic on that
fill: any other way to take as much moves some amount from the better level to the worse one (`Shift`), and
the products of unknowns are split by hand.

*Tool pool.* Every callback ends in `drain`, so one lemma, `FinishKeeps`, carries the argument: if the
promises, the queue and the array agree before the drain (`Waits`, `Works`), they agree after
it, and a call is left waiting only if no worker is idle and none can be created. It rests on
lemmas about the sequences: `Ranks` and `Kept` (closing up keeps each element once), and
`DrainedPlaces` (each call that is taken goes to one slot). `Together` adds that the calls of a batch are made
in one go and only called batches are aborted, which `AbortIsOwn` needs for the signal that fired before the call.

*Leases.* `RefsHaveHolders` is an inequality because two first leases taken together record one
reference; the exact count is `CalmInv`, which holds outside the windows that `raced` records: then an
open lease has its client, a closing one no holder, and a first lease is taken by one delegation at a time.
`ConnInv` says that a thread awaits one `connectServer`, without which a late answer could settle
another's attempt.

*Runs.* `OncePerCall` is about a step, and needs to know of every execution between the request and
the call: `CallInv` says that the call it holds was numbered, did not run, and is held by no other
execution. Resuming is the step that could break it: the checkpoint may hold the number of a call
that ran, and `Resume` puts that number among the calls the model is told of, never
among those to run. A stale execution and a new one therefore hold different calls, although they
may write the same checkpoint.

The other properties need `DocInv`, which compares documents with what executions remember. `Solo`: unless
a lease lapses one execution lives, and its job does not wait for another. `RunHeld` and `TaskHeld`: what says
that work goes on has an execution that will close it, or a job that waits; `RunIsSettled` is the case of none left. `KnownInv`:
what ran since the last erasure is known to the checkpoint, its pending call included, and to
every execution past its load. `RoundsInv` and `GoalInv` follow the counts through memory and rows:
an answer is counted at most one write late, the synthesis is counted by where the execution stands, and a death or
a retry pays for what was lost.

*Only model-checked.* Liveness (`EveryJobEnds`, `FanInArrives`, `EveryCallEnds`,
`IdleLeaseEnds`) is out of the prover's reach here. Every other property of a passing run is proved.
The certificates of `LedgerInv` are not evaluated by TLC (they range over functions to the integers); the
run checks `LedgerAgrees` itself.

## 6. Not modelled

* Agent loop apart from its durable side, providers, context, compaction and tool selection:
  control depends on the answers of a language model.
* Channels, voice, canvas, meetings, routes, command line, web and desktop interfaces: input and
  output around external services.
* Schemas, seeds, encryption, configuration, plugins, skills: loading and formatting.
* The document store itself (a library): `get` and versioned `put` are taken to be atomic and
  durable. Croner likewise, see 2.3.
* Circuit breaker and in-memory lane queue: nothing in the repository calls
  `CircuitBreaker.execute` or `LaneQueue.enqueue`.
* Rate limits and pairing: one synchronous function for each change.
* Testnet orders, backtests and technical analysis of the trading package.
* Epochs of tool effects, promotion of turns to runs, unprotected scheduled tasks and changes of their type, retention
  of records, reconciliation of meetings.

## 7. Plan

Done: `DurableQueue`, `DelegationGroups`, `CronScheduler`, `PaperTrading`, `ToolPool`,
`McpLeases`, `AgentRuns`, with the proofs of section 5. Left, in order of importance:

| Step | Modules | Abstract specification | Theorems |
|---|---|---|---|
| 1 | `JobStoreOcc`: the get/put loops with versions and idempotency keys | the atomic writes of `DurableQueue` | each loop implements its guarded write |
| 2 | epochs of tool effects in `AgentRuns` | - | a stale epoch writes nothing |
