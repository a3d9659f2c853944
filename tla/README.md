# TLA+ models of agent-bureau

TLA+ specifications of the parts of agent-bureau where the order of events
decides whether the program is right: the task scheduler and what is built on it,
durable goals, sessions and their outbox, tool approvals and idempotency, webhook
delivery, and the loop and the closing of an agent's run. TLC checks them on small
instances; TLAPS proves the safety of the scheduler, goals, sessions and their outbox,
approvals, idempotent calls, the services in the background, and the run and its closing
for every instance.
`PROJECT.json` maps every definition to the lines it stands for, and lists the
runs, the mutants that each property must catch, the findings, the hazards and
the theorems.

## The system

agent-bureau is a TypeScript monorepo. JavaScript runs one segment of code at a
time, so a data race is impossible and every `await` is a point where anything
else may happen. Durable work goes through Weft, a workflow engine that is not
part of the repository: it replays a workflow from its checkpoints after a
crash, runs an activity at least once, delivers signals, and can suspend, resume
and cancel an instance.

| Part | State | Operations | What is hard | What makes it correct |
| --- | --- | --- | --- | --- |
| Task scheduler (`operative/src/scheduler`) | priority queue, the active dispatch, ownership and resolver maps, retained outcomes, lifecycle flags | submit, dispatch, awaitTask, locateTask, cancel, start, stop, the loop, preemption | every caller interleaves with the loop's awaits; engine calls reject | one run at a time, no promise forgotten or settled twice, no suspended run left over, stop() ends and leaves nothing |
| Heartbeats, flow control, chunked tasks (`operative/src/scheduler`) | loop flag, failure count; counters and claims per key; the state between chunks | start, stop, tick; admit, park, resume, settle; submit a chunk | stop and start around a tick; slots taken back; preemption of a chunk that finishes nevertheless | stop is a boundary, counters equal to the runs that hold them, no chunk is done twice |
| Durable goals (`bureau/src/goal-*`, `operative/src/durable/goal-*`) | the goal record, claims of run ids, controller and attempt workflows, finalizer, forwarder | create, the controller's segments, startAttempt, abortAttempt, the fence, forward, cancel, recover, boot sweep | crashes anywhere, starts that outlive their timeout, several writers of one record | the record is a legal history, attempts do not overlap, "canceled" means quiet, what was asked for happens |
| Sessions and their outbox (`operative/src/session`, `bureau/src`) | body, summary index, outbox with ordinals and claims, history and audit rows | save, update, delete, list, cleanup; claim, renew, replay, acknowledge | compare-and-swap over several keys, drains that die or lose their claim | no message lost, the outbox tells every commit, each fact is durable once and in order |
| Tool approvals, idempotency (`armorer/src`) | approval binding, started and finished markers with leases | reserve, commit, release, revoke, restore; claim, renew, settle, take over | aborts between awaits, leases that run out | an approval is spent once, an execution of unknown outcome is not repeated silently |
| Webhook notifier (`bureau/src`) | delivery records, claims in memory | deliver, retry, dispose | crash between record and delivery, shutdown during back-off | one process notifies, dispose() returns |
| Agent run loop and closing (`operative/src`) | the run, its step, conversation, usage; counts of callbacks, hooks, children | steps with hooks, retries, tools; pause, resume, abort; closed() | an abort, a throwing hook or a pause at every await; callbacks that outlive their batch | the run leaves a whole account, a pause holds, `completed` means quiet |
| Session input, steering ledger, durable run workflow, child topology, watchdog, event history (`bureau/src`, `operative/src`) | mailboxes, checkpoints, trees, an append-only feed | admit, promote; park, reattach; page, retain | replay and reattachment, two stores that must agree | see the plan |
| Compaction and history (`conversationalist/src`) | a history with a revision; requests, the candidate in flight, windows | commit, compact, request, cancel, dispose, close | a summary of a history that has moved on, summarizers that ignore their cancellation | no write is lost, nothing late is published, every request settles |
| Lifecycle primitives (`lifecycle/src`) | listeners, buffers, hooks | dispatch, iterate, complete | overlapping reads, completion while waiting | no waiter is forgotten |
| Memory governance, skills (`memory/src`, `skills/src`) | records, lineage, deletion receipts; proposals | delete, hold, resume, propagate | a deletion interrupted half way | a deletion ends with no derived record |
| Providers, tool protocol, cryptography, embeddings, search | none | translation | — | data; not modelled |

The scheduler calls the engine and the agents' runs; heartbeats and chunked tasks
submit to it, and its events drive the flow controller. Goals use the engine, the
catalog that claims run ids, and the session store for transcripts. Sessions feed
the event history through the outbox. The toolbox, with approvals and idempotency
around a call, sits inside a run's step.

## Modules

| Module | Stands for |
| --- | --- |
| `PriorityQueue` | `priority-queue.ts` and the priority weights of `types.ts` |
| `Scheduler` | `create-scheduler.ts`, `task-retention.ts` |
| `TaskLocation` | abstract: the life of a task id as `locateTask()` shows it |
| `Heartbeat` | `create-heartbeat.ts` |
| `FlowControl` | `create-flow-controller.ts`, the sliding window of `backpressure.ts`, and the bureau's calls |
| `ChunkedTask` | `create-chunked-task.ts` |
| `GoalRecord` | the record, what the store accepts (`goal-state.ts`, `goal-store.ts`), and the decisions and write builders (`goal-decision.ts`, `goal-workflow-transitions.ts`) |
| `GoalRun` | everything that acts on one goal: controller, ports, fence, forwarder, cancel, recover, boot sweep, finalizer, crashes |
| `GoalLifecycle` | abstract: what a goal promises its owner |
| `SessionStore` | `create-session-store.ts`: save, update, delete, list, cleanup |
| `OutboxDrain` | the outbox of that file and its drain in `create-bureau.ts`, down to the rows of history and audit trail |
| `OrderedFeed` | abstract: what the outbox promises its readers |
| `ApprovalResume` | `toolbox-approval-*.ts`, `approval-binding.ts` and the places that consume an approval |
| `IdempotentCall` | `armorer/src/idempotency` |
| `WebhookDelivery` | `webhook-notifier.ts` |
| `CompactionScheduler` | `compaction-scheduler.ts` with the candidate of `history-compaction.ts` and the compare-and-swap of `history-transaction.ts` |
| `RunLoop` | `loop.ts`, `run-step*.ts` |
| `RunClosing` | the counting and closed() of `create-run.ts`, with the batch of `toolbox-execution*.ts` and its limiter |
| `Sessions`, `Tools`, `Background`, `Runs` | session stores and outboxes; the toolbox's records of its calls; the services that work in the background; runs and their closing: their components side by side |
| `SchedulerProofs`, `GoalRunProofs`, `GoalEndProofs`, `SessionProofs`, `OutboxProofs`, `ToolProofs`, `BackgroundProofs`, `RunProofs` | theorems about `Scheduler` with its `PriorityQueue`, `GoalRun` (twice: what always holds, and how a goal ends), `Sessions` (its stores and its outboxes), `Tools`, `Background` and `Runs` |
| `MC*` | instances for TLC |

### Several instances in one run

Most components are checked on several small instances. `Sessions`, `Tools`,
`Background` and `Runs` put instances side by side: each is an
`INSTANCE ... WITH` its own constants, the variable `instance` is chosen by the initial
state and never changes, and only the chosen instance moves. The variables of a
component that was not chosen keep one dummy value. A property is an implication per
instance, so the run answers the same question as separate runs of the instances would.
They are parameterised, so that theorems about them are about every
instance: in `Tools` there are any number of approvals and of keys, and a constant of a
component is a function of the approval or key; `MCSessions`, `MCTools`, `MCBackground` and
`MCRuns` give the values.
In `Sessions`, the mapping of `OrderedFeed` gives the initial values while a store is
picked. Fairness is stated per instance, for the instances with a liveness property.
Symmetry sets only hold values that an instance uses alike.

### The scheduler

An action of `Scheduler` is the code between two awaits. `pc` names the await at
which the loop is parked: `head` (top of the loop), `wait` and `delay` (the two
sleeps), `create` (awaiting `createRun`), `race` (awaiting the result or a wake),
`suspend`, `get`, `got`, `drop` (the stages of `suspendAndDetach`), `abort` (an
in-memory preemption), `finish` (the completion path), `dead` (the loop's promise
rejected). `wake` is `wakeResolver`; a wake with nothing armed is lost, as in
the code. `running`, `owned`, `resolvers`, `retained`, `waiters`, `marks` and
`callbacks` are the maps and sets of the closure. A submission is numbered, so a
promise can be told from a later one of the same id.

`runs`, `aborts`, `cancels` and `lost` are the outside: how each run stands, which
were aborted, and which `engine.cancel` calls are in flight or were rejected. The
engine's effects are taken from how the scheduler uses them: start and resume take
effect at the call, suspend parks a running run and does nothing to another, cancel
ends a running or suspended one. Several cancels of one run count as one. An
id is submitted again only when no resolver is registered for it, as the interface
asks ("unique among tasks in progress"). Events other than the completion event,
and the arguments of callbacks, are left out; the clock is one bit, whether
`idleDelay` has passed since the last completion.

### Heartbeats, flow control, chunked tasks

`Heartbeat` keeps the closure's `running` and `sleepResolver`, which every loop that
start() ever spawned shares, and the loops and ticks in flight. `Patient` says whether
the caller waits for the last loop before it starts again: what holds only then is
checked only then. The scheduler is external: a submission ends with a result, null
or an error. One stop() is in flight at a time; an `onFailure` that throws and the
durable heartbeat are not modelled.

In `FlowControl` every operation of the controller is one step, since it has no await;
`life` is what a run really does, and the events and calls that tell the controller
come in any order around it. With `Faults` the engine fails to suspend a task, which is
reported as failed while it runs on. One `signalSession()` is in flight per run; queued
tasks that stop() discards without an event are not modelled.

`ChunkedTask` counts the chunks done; `Heeds` says whether a chunk gives up when its
signal fires or comes to its end nevertheless.

### Durable goals

`GoalRecord` has no variables. A request is a record that names the sequence
number it moves to, the status, the attempt it inserts or replaces, and the
usage. `evaluateTransition` gives the store's answers in the code's order. The
store's loop of read, evaluate and compare-and-swap takes effect at one instant,
since an evaluation is a function of the text it read and the swap succeeds only
against that text. Detail that no property tells apart is merged: a run reports one
unit of usage; `error` and `indeterminate` verdicts are one; the two details of
`attempt-run-failed` are two reasons; `invalid-terminal-reason` is part of
`invalid-record`.

`GoalRun` has the record, the claims, the runs and the controller (which survive a
crash), and the start calls, the forwarder and the host calls (which do not). A
durable activity's effect and its recorded answer are two steps, so a crash
between them repeats the effect. Mapping of the longer handlers:

* `advance` chooses the segment; `TryStart`, `TryTimesOut`, `AttemptWins`,
  `CancelOrDeadlineWins`, `runValidator` and `Reread` are the awaits of
  `openAttempt`, `awaitAttempt` and `validate`; `commitTransition` and
  `CommitRecorded` are the commit and what `createGoalWorkflow` makes of its answer.
* `StartChecks` to `StartConfirms` are the awaits of `startAttempt`, and
  `StartFences`, `StartStops` its undo. A timed-out call goes on in its slot.
* `FenceReadsRecord`, `FenceReadsClaim`, `Step`: the two reads of the fence and
  the step after them, as three steps.
* `FirstRead` to `readBack` are cancel() and recover(); the boot sweep is the
  recover() of the host `boot`.
* The finalizer state is durable from the next checkpoint on: `prior` is what a
  cancel may still find, `staged` what the controller has staged.

Fencing or stopping the (at most two) runs of one ending is one step, and so are
the reads of a read-back; adjacent re-checks around the seating of the
conversation are one. A host calls cancel() or recover() once.

### Sessions and the outbox

In `SessionStore` a step is one storage call with the code up to the next one. A
mutation reads the body, the index and the ordinal at different times and writes all
of them, with the fact it commits, in one conditional batch; a lost race reads again
and merges. A body is its incarnation, revision and messages; `FineClock` says that no two
commits fall into one millisecond, so that the text of a summary tells them apart. Callers
may be in any process: the queue of mutations inside one (`runMutation`) only takes
interleavings away. Legacy keys are left out, and `at` is taken when the batch is
written.

`OutboxDrain` has processes that share one store: a pass claims the first pending
entry, checks the history for its dedupe key, replays the fact, waits for the
listeners' rows and acknowledges, while a timer renews the claim; a lapsed or lost
claim ends the pass, and the retry timer starts another. A crash loses the drain, its
calls, timers and writes in flight, not what is stored. One renewal is in flight at a
time; malformed attachment payloads and the shutdown of the drain are not modelled.

### Tools

`ApprovalResume` is one approval, the requests that resume it, an operator who revokes it,
a host that restores it, and the clock. `pc` names the awaits of reserve, commit and
release; `late` is what goes on after a request has answered. It uses the process-local
store, whose revoke() may fail for a while; a crash of the store, signatures and mismatches
of the bound context are not modelled.

`IdempotentCall` is one key. A locked operation of the cache is one step; getState() reads,
and deletes an expired result, without the lock, in steps of its own. The direct wrapper,
a ttl of zero and legacy markers are not modelled.

### Webhooks

`WebhookDelivery` has a record, a claim and a `pc` per delivery; the target answers or
refuses, the store may fail, the owner's signal fires, dispose() waits for what it found
under way, and a new process starts with the records of the old one. A failing `kv.has`
rejects the delivery. Payloads and liveness snapshots are left out.

### Compaction

`CompactionScheduler` has the jobs in the order of their requests, the job that new
requests join, the tasks the schedule adapter holds, and the call of compact() of each job.
A history is the number of writes it tells of, as messages or through a summary, so that a
summary which is published over newer writes is seen as a loss. A candidate is three steps:
its snapshot in the window that starts it, the settling of the summarizer with the publication
that follows in the same turn, and what #attempt makes of the result. A withdrawn task may still
run, since an adapter's cancel can lose to its timer. `boundary` says whether a stream is open or
a tool call pending, as the last write left it. The chunks of a summary, listeners that call back
into the scheduler, undo, redo and the `candidates` and `deferred` totals are left out;
another caller's compact() is a write.

### Runs

`RunLoop` has one step per await of executeLoop() and runStep(); hooks, the provider and
the toolbox answer anything their types allow. A response is the set of its tool calls, and
`dangling` those that are in the conversation without a result. `captured` is what the step
has read of the steering gate. Hooks that substitute calls, settled-result events,
streaming, elicitation and epochs are left out; the terminal events are `run.completed` and
`run.aborted`. `Rejected` stands wherever the code calls or appends something outside of any
try: what it throws leaves runStep() and executeLoop(), and the result rejects. `MayReject` says
whether a run has such callbacks; a gate, an emitter and a conversation that is open do not throw.

`RunClosing` is one batch of a run, its end, and the callers of closed(). It counts events
as the code does, and next to that knows which callbacks really run. The first `Limit`
calls of a batch start in one step; a caller's own `complete()`, streams, the limiter of a
single tool and rejected results are not modelled.

## Runs

Passing runs:

| Run | Instances | Shows |
| --- | --- | --- |
| `scheduler_memory` | two background tasks and an immediate one, three submissions, one requeue, no engine | type correctness; sorted and first-come-first-served queue; one run at a time; no forgotten or resettled promise |
| `scheduler_durable` | a background and an immediate task, two submissions, one requeue, suspend, get and cancel may reject, a dispatch() and the external signal at any time | no dangling suspended run, no forgotten promise, the ownership guards never fire, still serial (`Reachable`); results belong to their submission (`ResultIsEarned`); quiet once the shutdown is over (`StoppedIsQuiet`) |
| `scheduler_shutdown` | two submissions, callbacks, retention, a caller's stop(), fairness | `TaskLocation` is implemented; every submission settles and every stop() returns (`EverythingEnds`) |
| `goal_starts` | one attempt, one timeout, two start slots, a cancel() and a recover() | no step before the attempt is opened; nothing alive at the end; `GoalLifecycle` is implemented |
| `goal_crash` | two attempts, a deadline, failing starts, a crash, a failing host call, a cancel() | attempts do not overlap; "canceled" means no further step, the record decodes, and the controller is neither refused for good nor spinning (`CancelKeepsItsWord`) |
| `goal_live` | one attempt, one crash, a cancel(), fairness | a recorded cancellation is carried through; controllers finish unless the process dies, and a goal waiting at the crash is resumed (`GoalGoesOn`) |
| `sessions` | `shared`: two drains of one outbox; `mixed`: facts of all kinds and a failing store; `crashing`: a drain that dies; `writers`, `merging`: two and three callers on one session; `returning`: a caller that outlives the session it holds; `indexing`: two callers and two sessions with listing, expiry and repair | no fact is retired before its rows are durable; `OrderedFeed` is implemented; the outbox tells every revision and deletion; no acknowledged message is lost; the index shows every session as it is; claims and lives are not taken back |
| `tools` | `pair`, `race`: two and three requests on an approval, with deadlines, expiry, revocation, restoration; `expiring`, `lasting`: two and three calls with one key, leases, crashes | an approval is spent once or given back whole; one effect per key; an interrupted call leaves no marker; what is revoked or superseded stays so |
| `background` | two flow controllers, two heartbeats, two chunked tasks, three notifiers, one outbox with two facts, a crash and a fault, and one compaction scheduler with two requests, failing adapters and summarizers, and three writes; fairness for one heartbeat, one notifier, the outbox and the compaction | books that balance and tell the truth; stop() of a heartbeat is a boundary; no chunk is done twice; one process notifies; stop() and dispose() return and an exhausted delivery is audited; every fact of the outbox is retired in the end, also after its drain died with the claim; summaries do not overlap, requests settle once and in the end (unless a stream holds them up), and no summary replaces a newer history or is published after its cancellation |
| `runs` | `tools`, `billing`, `steered`: a run with two calls, all retries and an output schema, with and without aborts, and one that is paused and reconfigured; `batch`, `bare`, `queued`, `swapped`: batches with hooks, children, a limiter and a toolbox of the step; fairness for `steered` and `batch` | the run ends whole (results, one terminal event, final step, usage), also where a callback that no try surrounds throws; a pause holds; `completed` and `not-required` are true; an aborted run ends and closed() answers |

Runs that TLC must refute, because the code does not do what a comment says
(quoted under "findings" in `PROJECT.json`):

| Run | Says | Code |
| --- | --- | --- |
| `doubt_forwarder_lost` | a lost forwarder never parks a goal | a crash between a recorded start and the commit that opens the attempt, and a sweep that reads before the replayed commit, leave the run unwatched |
| `doubt_marker_purged` | operations on a key are atomic among the caches of a process | an expired result is deleted after an await without the lock, and may take the marker of a call that has just started with it: the tool runs twice at once |

Every property has a mutant in `PROJECT.json`: a plausible fault in one mapped
definition that makes TLC refute it under the same configuration.

### Bounds

`MaxSubmits` (2 or 3) lets a task be preempted by one submission and re-used by
another; `MaxRequeues` = 1 reaches both sides of the cap; `MaxLost` = 1 cancel that
rejects. `MaximumAttempts` 1 or 2 (2 where the overlap of attempts matters),
`StepBudget` the same, `MaxTries` 1 or 2, `MaxIdleWakes` = `MaxRefusals` = 3 (smaller
than the code's limits, so that reaching them would be seen sooner),
`MaximumControllerRestarts` = 1, `AuditLogMaximum` = 16, `MaxSteps` = 1 step of a run,
`MaxTimeouts`, `MaxCrashes` and `MaxFaults` at most 1. One crash is enough for
every pair of steps to be separated by it; a second one during the replay
repeats the same reads.

Sessions: two facts (one claimed while the other is first in line), one or two lapses of a
lease of one or two ticks, three operations by two or three callers or four by one, two
tries of the conditional batch. Tools: two or three requests are enough for one to be
reserving, one committed and one late; the clock runs one tick past each lease and expiry.
Background: two runs and two tasks over two keys with two slots, three starts of a
heartbeat and two or three ticks, three chunks with five preemptions and two retries, two
deliveries of two attempts; two requests to compact, of two candidates each, and three writes,
so that both candidates of a request can go stale and an older one can return late. Runs: two steps, two calls (three with the limiter), each retry
used up once, four steering commands, two children, up to three callers of closed().

Deadlock is checked wherever the system cannot stop: a scheduler can always be submitted to
or started again. A goal that is over, a scheduler whose engine refused a cancel, a store
whose callers have used up their operations, and a run that has ended may stop.

### Fairness

Weak fairness only. Scheduler: the loop and stop() continuations (a settled
promise is resumed), runs, engine answers and callbacks (agents' runs and
user callbacks end, by assumption), the idle timer. Goals: the controller, the
finalizer and the runs (Weft drives a live instance), the start port, the forwarder
and a host call (their promises are settled), the boot sweep. Outbox: the clock, a drain's
own steps, calls and writes, the maintenance timer of an idle process, and the restart of a
dead one. Heartbeat: timers, submissions and stop(). Webhooks: a delivery goes on by itself;
that includes a fetch, which the code gives no timeout. Compaction: windows open, summarizers
return (which the code does not enforce either) and promises are resumed; nobody need write. Closing: callbacks, hooks, children and
the continuations of closed(); another run's call on the same toolbox may hang. Run loop: what the
run awaits settles; nobody need resume a paused run. None for callers, the deadline, timeouts,
give-ups, faults, crashes or the retention timers.

## Proofs

Every theorem holds for all values of the constants: any tasks, processes, requests and
calls, any number of submissions, attempts, faults, crashes and clock ticks. The only
hypotheses are the typing of the constants (the named assumptions of each module) and
those listed under "Hypotheses". Each proof follows one pattern: an inductive invariant,
shown for `Init`, then for one action after the other, and a last temporal step. A property
of a run that is proved had passed TLC first.

### Queue and scheduler

`SchedulerProofs` begins with the queue: insertion keeps a queue of any length sorted
(`EnqueueKeepsOrder`), and in a sorted queue the head alone decides whether anything outranks a
priority (`HeadDecides`), which is all `hasHigherPriority` reads. Then, in the
order in which the arguments build on one another:

| Theorem | States | Inductive invariant |
| --- | --- | --- |
| `TypeCorrect` | `TypeOK` | `TypeInv`: stop() looks the run of the loop's entry up by an id of the `running` map, so types rest on where the loop is: it holds an entry wherever it uses one, and a task in the map is the loop's |
| `QueueStaysOrdered` | `QueueOrdered` | each step inserts, takes the head, removes an id, clears, or leaves the queue alone |
| `LoopIsSerial` | `SerialExecution` | `SerialInv`: a task's run executes only at the race, the pending suspend, the pending abort and the completion path, into which a rejected suspend falls |
| `QueueIsFair` | `FirstComeFirstServed` | `PlayInv` (no submission is in play twice) and `InLine`: within a priority, entries never preempted stand in the order of their submission, and behind the one that was taken |
| `NoPromiseIsOrphaned` | `NoOrphanedPromise` | `PromiseInv`: a registered resolver belongs to a pending promise whose task is in play, ids never share one, and every pending promise has one |
| `SettledStaysSettled` | `SettledForGood` | the same |
| `SchedulerImplementsTaskLocation` | the refinement of `TaskLocation` | the same; `TaskLocation` has no fairness, so this is the whole refinement |
| `FaultsLeaveNothingBehind` | `Reachable`: serial, no orphan, no dangling suspended run, both maps hold what is dispatched | `SuspendInv` (where a run may be suspended, and that one that is not to be resumed is being cancelled) and `OwnsInv` |
| `StoppedSchedulerIsQuiet` | `StoppedIsQuiet` | `StopsInv`: a stop() in flight means stopping and started, and nothing is registered once the loop is awaited; `QuietInv` |
| `CompletesOnce` | no submission completes twice | `CompletesInv`: what is in play has not completed, and what has completed is not in play again |
| `DurableResultIsEarned` | `ResultIsEarned` | `OwnResolverInv`: the resolver of a task in play is its own submission's or gone; `EmptyInv`: nothing is queued while an engine's scheduler stops |

The actions are first reduced to a few kinds of step (what they do to the queue, to the
resolvers, to the runs, to the life of the scheduler), so that each invariant is proved
per kind and not per action.

### Goals

`GoalRunProofs` rests on one invariant, `IInv`. Its core is `ReaderInv`: whoever holds a copy
of the record with the current sequence number holds the current record, so a write that
passes the compare-and-swap was decided on what it overwrites; nobody writes without
having read. Around it: `RunInv` (all attempts but the newest are over, and only the
acknowledged one is let through), `StartInv` (a start under way is for an attempt whose
predecessors are over), `Grounded` (what the controller believes of a run that ended is
true) and `Awaited` (the try it waits for is still under way). It gives `TypeCorrect`,
`StepsAreAcknowledged` (`StepsOnlyAcknowledged`), `AttemptsNeverOverlap` (`AtMostOneLiveRun`)
and, since it makes every accepted write a legal one, `GoalImplementsLifecycle`: every write of
the controller, cancel() or recover() is a step of `GoalLifecycle`, and the steps that do
not write leave its state alone. `CanceledGoalIsQuiet` (`CanceledMeansQuiet`) adds `QuietInv`: when
a caller answers "canceled", the run the record names has been seen to its end, and
no later one is let through.

`GoalEndProofs` is about endings, and builds on both invariants.

* `NothingIsLeftBehind` (`NothingLeftBehind`) needs `Orderly`, which holds while nothing crashes and no call of
  a host fails. A run is alive only for the newest attempt, or for the one that an idle record opens
  next (`Reach`); who writes an ending has stopped that attempt in a record that is still the stored one
  (`Drives` for the controller, `Clears` for cancel() and recover()); and a run that comes to life later is
  `Tended`: the start that created it still has to look back at the goal, and will find it over.
* `ControllerFailsByTimeouts` (`OnlyTimeoutsFail`), and with the theorems above `CancelIsKept`
  (`CancelKeepsItsWord`). A write could be refused for many reasons; `Growing` excludes those that lie in
  the record (three writes for each attempt that is over, no attempt passed before the end), so that a write
  always decodes. `Patience` holds until a start has timed out as often as it may be tried. It says what
  the controller knows when it writes (`Knows`: only a cancellation can have come in between), that it
  idles, or is refused, at most once in a row and then because the goal is about to be over
  (`Steers`), that every try but the one under way has timed out (`Tries`), and that nobody restarts it or stops
  its attempt before the goal is over (`HostWaits` and the claims, starts, finalizer and signals).

### Sessions

`SessionProofs` is about any number of stores. Any number of callers of a store hold sessions they have read at some time, and write
them back. `IInv` is about these copies: a copy of a life is no newer than the stored session
of that life and has some of its messages, and a copy of the current revision has them all; a
candidate for a write has besides the message its operation adds, and whatever else it has
that is not stored was made for the same life. So mergeSessions loses nothing in either of
its cases, and `MessagesAreKept` (`NoLostMessage`) and the half of `NothingIsTaken`
(`NothingIsTakenBack`) about stored sessions follow.

`IndexIsFaithful` (`IndexFaithful`): what an operation will write over the index is the index as
it read it, or, when there was none, one rebuilt from bodies. The rebuilt one may be stale, but
it is written only if there still is no index, and then, by the invariant itself, there is no
session for it to miss. list() prunes a summary only if the index has not changed since a
body was found missing; `IndexInv` says that a session which has appeared since is newer than the
summary in that copy, which is where `FineClock` is needed.

`LogIsTheStory` (`LogTellsBodies`): `LogInv` adds to the property that no entry of a life that
lasts is its end or names another id, and that no incarnation is from the future; since the
ordinal is compared in the batch, entries are appended and never overwritten. Besides, it says
that the variables of the store keep their types; what the index and its copies are about is `SpanInv`.

### Outbox

`OutboxProofs` is about any number of outboxes. A drain works through an entry in stages, and
its knowledge may be old: its claim can lapse between any two of them. `FactInv` therefore says of each process which
rows it has seen to be durable (`Stage`), that every fact it has gone past is durable
(`Passed`), and that a write in flight is for a fact whose predecessors are durable
(`InFlight`); durable rows stay durable. It gives `FactsAreNotLost` (`NoFactIsLost`, with the types of the variables) without any
trust in the claim. `ClaimsAreKept` (the half of `NothingIsTakenBack` about claims) rests on `SwapInv`: what a process is
about to swap in was computed from what it read, and the swap compares. `OutboxImplementsFeed`
is the refinement of `OrderedFeed` (safety; it has no fairness): `OrderInv` says that the
n-th row to count was that of the n-th fact, and by `FactInv` a row that lands is either there
already or the next one.

### Tools

`ToolProofs` is about any number of approvals and keys, each with its own requests or calls,
deadlines, leases and expiry. Every invariant is proved for the one that was picked
(`A(i)`, `K(i)`), which alone moves (`OnePickMoves`).

| Theorem | Property | Inductive invariant |
| --- | --- | --- |
| `ApprovalIsSpentOnce` | `SpentOnce` | `TokenInv`: the reservation is in the store, in the hands of exactly one request, spent or withdrawn |
| `ApprovalIsGivenBack` | `GivenBack` | the same, with `ResumerInv` (what a request has been told is what happened) and `ExchangeInv`: a new approval is usable exactly if the old one was given for it |
| `KeyHasOneEffect` | `OneEffect` | `MarkerInv`: whose marker the store holds, and that an attempt which answered before the tool ran has the removal of its marker under way; `EffectInv`: the key belongs to the one attempt that was started and not retired |
| `SettledStaysSettled` | `SettledIsFinal` | the same |

### Services in the background

`BackgroundProofs` treats each service alone, and then the composition, in which one of them moves.

| Theorem | Property | Inductive invariant |
| --- | --- | --- |
| `CountsAreRight` | `CountsMatch` | `FlowInv`, of the engine with faults, whose steps include those of the other: counters and claims are what the runs hold, by the cardinality of the holders before and after each call. `FaultlessInv` adds that what is live is in the books, which faults break |
| `StopsAreBoundaries` | `StopIsABoundary` | `StopSees`: every tick of a loop that is in flight is one that the pending stop() waits for, until the next start(); `OneLoop`: while the caller is patient, one loop is alive and it is the one that `sleepResolver` may wake |
| `ChunksAreDoneOnce` | `EachChunkOnce` | `ChunkProgress`: what is still to be done, by the state that the next attempt starts from, has not been processed, wherever a preemption hits; `HeedfulInv`: the tries of the chunk at hand count its retries |
| `NotifiedOnce` | `NotifiedByOneProcess` | `HookInv`: what each stage of a delivery says of the record, the claim and who has posted |
| `SummariesDoNotOverlap` | `OneSummaryAtATime` | `WorkInv`: a job has a candidate exactly while it is in flight, windows belong to pending jobs, and each total is the number of jobs that ended so |
| `SummariesAreFresh` | `PublishesOnlyFresh` | `Summaries`: if the revision is still that of its base, a summary covers the whole history |

### Runs

`RunProofs` is about any number of loops and closings, each with its own calls, limits, retries,
commands and callers.

| Theorem | States | Inductive invariant |
| --- | --- | --- |
| `RunsEndWhole` | `RunEndsWhole` | `DanglingInv`: calls without a result are in the conversation only between the response and its results, and then among the calls of the response, or among those that execute, or left behind by a rejection. `EndingInv`: nothing ends before the end, and no recorded step before the last is final. `ExactUsageInv`: every response that was billed is counted or still to be counted, where nothing interrupts |
| `PausedStaysPaused` | `PauseHolds` | `GateInv`: what a step works with was read when the gate was open |
| `VersionsInOrder` | announced versions ascend, and no response is counted twice | `UsageInv` |
| `ClosedRunsAreQuiet` | `ClosedIsQuiet` | `CountInv`, which needs no hypothesis: the count of the run never exceeds the calls that really run, and every call that lost its race is known; with `Steady` both are equal. `QuietInv`: with `Tame` nothing can start once the step has ended, what is no longer counted does not run, and children and hooks have ended where closed() has seen them end |

The count and the calls are compared by the cardinality of the sets before and after each
event; `Promotion` says what the limiter makes of a call that settles.

### Hypotheses

Beyond the types of the constants:

* `RunsAssumption` (scheduler) and the `None` of `OutboxAssumption` and `SessionStoreAssumption` only
  keep values of different kinds apart.
* `StoppedSchedulerIsQuiet` needs an engine or a single caller of stop() (`SoleStopper`), and
  `DurableResultIsEarned` both. Without them the code does break the properties: in memory a task
  that is being preempted is requeued although stop() has cleared the queue, and its stale
  entry may settle a later submission of its id; two overlapping stop() calls return at
  different times, and a restart can come between. Both are under "Disagreements".
* `IndexFaithful` is about stores with `FineClock`, no two commits in one millisecond: without it a session that was
  deleted and created again can leave the same summary text, and is pruned (see "Disagreements").
* `ControllerFailsByTimeouts` and `CancelIsKept` need `SecondChance`: a controller that is allowed to be refused, and to
  idle, once in a row (`MaxRefusals` and `MaxIdleWakes` at least 2; `goal-workflow.ts` allows 5 at `:262` and
  25 at `:270`). A cancellation that comes in between a read and a write uses the one up, a deadline
  or a signal that ends a wait the other.
* In `GivenBack`, the exchange needs `MaxFaults < 3`: `revokeLateIssuance` gives up after three failures.
* In `OneEffect`, that callbacks start once needs `TTL >= MaxNow`, that is, no recorded result expires in the time
  looked at: getState() deletes an expired result without the lock, and the run
  `doubt_marker_purged` shows what that does.
* `RunEndsWhole` is about every run, but says less of one whose result rejects: at most one terminal event, no
  final step before the last, no calls without results when the provider is asked. A result does not reject
  where nothing that is called or appended outside of a try throws (`~MayReject`). Of the usage it says that it is
  exact where nobody aborts the run or a step and no hook throws once the provider has answered. What the code does
  otherwise is under "Disagreements".
* `ClosedIsQuiet` says of the count that it is exact where no abort can find a call that waits for its turn
  (`Steady`), and of the answers of closed() that they are true where the batch is `Tame`: the step uses the base
  toolbox, children are registered in time, and either all calls of the batch start at once or it neither fails
  fast nor is aborted; and of `not-required`, that no hook runs at the end. Outside of these TLC finds the
  counterexamples that are listed there.

### Only model-checked

Liveness and everything that rests on fairness or ENABLED, which is outside the prover
(`EverythingEnds`, `CancellationCompletes`, `GoalGoesOn`, `ShutdownReturns`, `EveryFactIsRetired`,
`EndsWhenTold`). Every other property of a passing run is stated by a theorem.

## Disagreements between code and documents

Besides the two runs above, TLC refuted these statements of the repository on the
same models. Each property that would state one is left out of the runs, or is
stated for the instances in which it holds.

Scheduler (`create-scheduler.ts`):

* `:136` stop() "discards queued-but-not-started tasks", but a task that is being preempted in
  memory meanwhile is queued again behind it (`:752`) and runs after the next start(); it may
  then settle a later submission of its id.
* `README.md:1706` "stop() awaits every such promise", but it awaits the callbacks tracked at one
  instant (`:1107`).
* `:765` "if a higher-priority task is submitted while we're waiting, wakeLoop() fires", but not
  while `createRun()` is awaited (`:890`).
* Without a contrary statement: a run whose queue entry cancel() removed may still be suspended
  when stop() has returned (`:507`); a mark in `cancelledRunningTasks` can outlive its task
  (`:710`); any wake ends the `idleDelay` (`:583`); a rejected `engine.cancel` in the suspend gap
  hangs stop() (`:1093`); a rejected `engine.get` ends the loop (`:663`); a stop() overtaken by a
  restart settles submissions of the new life (`:1116`).

Around the scheduler:

* `create-heartbeat.ts:74` "prevent tick stacking", but a start() before the stopped loop has
  looked at `running` leaves two loops (`:217`).
* `create-flow-controller.ts:115` settle() is called "when the run reaches a terminal state", but a
  rejected `engine.suspend` is reported as a failure of a task that runs on
  (`create-scheduler.ts:654`), and its slot and singleton claim are given away.
* `create-flow-controller.ts:84` a slot is "freed while parked", but only a wait for a human parks
  (`run-workflow-park.ts:62`).
* `create-flow-controller.ts:38` "Maximum number of admissions", but in the millisecond in which the
  oldest stamp is exactly one window old every check passes (`backpressure.ts:186`).
* `create-chunked-task.ts:18` `done` says "whether more chunks remain", but is ignored when the
  submission comes back null (`:101`); `:24` retries are counted over chunks, not for "a single
  chunk" (`:104`).

Goals: `goal-store.ts:189` "exactly one is counted", but a second recovery that reads the record after
the first count and the engine before the first restart counts the same end again
(`goal-recovery.ts:414`).

Sessions:

* `create-session-store.ts:1179` a concurrent save cannot be "mistaken for an orphan", but a session
  deleted and created again with as many messages within one millisecond leaves the same text, and
  list() prunes its summary (`:1199`). `IndexFaithful` therefore holds with `FineClock` only.
* `types.ts:226` a summary is "never silently left behind", but a commit that found no index puts the
  summary of a session deleted meanwhile back (`:766`); list() repairs it.
* `bureau/README.md:270` a deletion is durable when deleteSession() returns, but not when another
  process holds an earlier entry (`create-bureau.ts:5643`); `:272` "exactly once", but the audit
  listener has no dedupe key (`audit-trail.ts:1415`).

Tools and webhooks:

* `armorer/src/types.ts:57` `approvalBindingConsumed` tells whether the approval "crossed the
  execution-admission boundary", but stays true after a rollback
  (`toolbox-approval-consumption.ts:65`).
* `webhook-notifier.ts:791` a pending record is left "for a future process to retry", but deliver()
  returns as soon as one exists (`:758`); `:326` dispose() awaits "every in-flight deliver()", but
  notify() does not look at `disposed` (`:888`). A crash between the record `exhausted` and its
  audit entry loses the entry.

Runs:

* `operative/README.md:1512` closed() withholds `completed` until every callback has returned, but a call that is
  cancelled before it starts lowers the count for a sibling (`create-run.ts:460`), the count is
  zero between two calls of a limited batch that failed fast (`:318`), and a callback that is
  being drained may register a child too late (`:713`, README `:1523`).
* `operative/README.md:1497` `not-required` means nothing needed cleanup, but a hook may still run (`:705`).
* `create-run.ts:588` "no drain wait is needed" for a swapped toolbox, but a batch that fails fast
  leaves siblings whose end nobody counts, and closed() is never answered (`:591`).
* `create-run.ts:678` "resolves `result` for every terminal shape", and `run-lifecycle.ts:73` relies on a
  terminal event, but these are called outside of any try, and what they throw rejects the result without
  one: selectTools, selectToolChoice, tokenEstimator, the compaction scheduler's cancel(), revalidate() and
  beforeStep() (`run-step-preparation.ts:313`, `:325`, `:178`, `:247`, `:129`, `:139`), the gate's
  getAppliedFloor() (`loop.ts:168`), backpressure's onError() (`run-step-generation.ts:389`), and schemaRetryMessage()
  (`run-step-finalization.ts:123`), which leaves a recorded step `final` at that although it asks for another one.
  So do a tool call or a tool result that cannot be appended, because it is not JSON or its stream fails
  (`run-step-tools.ts:61`, `:350`); a result leaves its calls without one.
* `run-step-utilities.ts:77` "individual failures never block the caller", but runHookSilently() calls the handlers
  in a map() (`:101`), and one that throws at once rather than rejects is not caught: onRunError
  takes the place of `run.completed` (`run-lifecycle.ts:199`), onRunAbort and onRunComplete reject the result after
  the event (`:158`, `:290`).
* `run-step-support.ts:177` usage is recorded for a response "already billed", but not when the run or
  the step was aborted while it arrived (`run-step.ts:416`).

Compaction:

* `compaction-scheduler.ts:469` "the phase always describes the newest request", but once the newest
  request has settled (cancelled or failed while it waited for an older, cancelled candidate) `#job`
  is undefined again, and the older one that settles afterwards overwrites its phase (`:470`).

## Not modelled

Within goals: close() and clean-up, conversations, foreign or corrupt
ownership, the restart of a run the engine lost, cost bounds, determinism checks,
several processes and their leases, sixteen lost swaps in a row, a finalizer that
fails, event projection. `NothingLeftBehind` excludes the ending of a failed start, which
stops nothing and leaves a late run to its own fence, as the code documents. The defences
against a late run overlap: with the fence, the stop or the undo of the port removed
alone, some of the properties still hold because the others act.

Five simplifications no property depends on: a commit always refreshes `updatedAt`, though a caller may
ask it not to (`create-session-store.ts:729`); the repair of a listing reads all bodies again, the code
those it missed (`:1190`); a replacement is one step with the unlocked read before it
(`with-toolbox-idempotency.ts:548`); a claim that comes too late is answered before its entry
is taken back, not after (`:851`); and `dispose` is taken only on a run that is not yet aborted,
since a second abort changes nothing there.

What each other model leaves out is said with it above. The parts of the repository without a
model are listed in `PROJECT.json` with the reason: most of its lines are wiring, types, reads,
provider formats, command-line tools and text processing, which hold no state whose order
matters.

## Plan

1. More of the system: close() of goals; the durable run workflow with checkpoints and
   reattachment; the durable heartbeat; the event iterator; the steering ledger and session input;
   child topology; event history and audit trail with retention.
2. More proofs, of what is modelled next; of what is modelled, the safety properties of the runs
   are proved, and the temporal ones are out of the prover's reach.
3. Compositions: the scheduler with heartbeats and the flow controller, sessions with session input.
