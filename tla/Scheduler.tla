------------------------------ MODULE Scheduler ------------------------------
(***************************************************************************)
(* The priority-aware scheduler: one serial loop that dispatches submitted *)
(* tasks, preempts the active one for a higher-priority submission, and is *)
(* raced by submit, dispatch, cancel, awaitTask, stop, an external abort   *)
(* signal, and the durable engine.                                         *)
(* Source: packages/operative/src/scheduler/create-scheduler.ts            *)
(*         packages/operative/src/scheduler/task-retention.ts              *)
(*                                                                         *)
(* JavaScript runs one segment of code at a time, so an action is the code *)
(* between two awaits; `pc` names the await the loop is parked at.  Every  *)
(* submit() call is a submission, numbered in order of arrival, and every  *)
(* dispatch of a submission drives a run.                                  *)
(***************************************************************************)
EXTENDS PriorityQueue

CONSTANTS
  Tasks,            \* task ids passed to submit()
  Dispatches,       \* ids minted by dispatch(), one run each
  Priority,         \* [Tasks -> SchedulerPriority]
  Requeue,          \* [Tasks -> BOOLEAN]: task.requeue, the default applied
  MaxRequeues,      \* task.maxRequeues
  Durable,          \* TRUE when a durable engine is attached
  Retention,        \* TRUE when retentionWindowMs is set
  Callbacks,        \* tasks whose onComplete/onPreempted return a promise
  Faults,           \* engine calls that may reject: "suspend", "get", "cancel"
  Stoppers,         \* stop() calls that may be in flight at once
  Signal,           \* the stop() that the external signal makes; absent if no signal
  MaxSubmits,       \* bound: submissions made in one behaviour
  MaxLost,          \* bound: runs whose engine.cancel rejects
  NoEntry           \* no task is being dispatched

ASSUME TasksAssumption ==
  /\ Tasks \cap Dispatches = {}
  /\ Priority \in [Tasks -> SchedulerPriority]
  /\ Requeue \in [Tasks -> BOOLEAN]
  /\ Callbacks \subseteq Tasks
ASSUME BoundsAssumption == MaxRequeues \in Nat /\ MaxSubmits \in Nat /\ MaxLost \in Nat
ASSUME SwitchAssumption == Durable \in BOOLEAN /\ Retention \in BOOLEAN

VARIABLES
  queue,            \* the priority queue of entries
  pc, cur, seen,    \* the loop: where it is parked, its entry, what engine.get saw
  wake,             \* wakeResolver: none, armed, or armed and called
  recent,           \* a task completed less than idleDelay ago
  running,          \* ids in the `running` map
  owned,            \* ids in the `currentDispatch` map
  resolvers,        \* taskResolvers: the registered submission of an id, 0 if none
  settled,          \* how each submit() promise stands
  retained,         \* the retention record of an id
  waiters,          \* ids with a pending awaitTask() promise
  marks,            \* cancelledRunningTasks
  callbacks,        \* trackedCallbackPromises
  started, stopping,
  signalled,        \* the external signal is aborted
  stops,            \* the stop() calls in flight
  runs,             \* the run of each dispatch, as the engine or executeLoop has it
  aborts,           \* runs whose abort controller has fired
  cancels,          \* engine.cancel calls that have not settled
  lost,             \* runs whose engine.cancel rejected
  completions,      \* SchedulerTaskCompletedEvents of each submission
  submits           \* submissions made so far

loopVars    == <<pc, cur, seen, wake, recent>>
promiseVars == <<resolvers, settled, retained, waiters>>
lifeVars    == <<started, stopping, signalled, stops>>
engineVars  == <<runs, aborts, cancels, lost>>
vars == <<queue, loopVars, running, owned, promiseVars, marks, callbacks,
          lifeVars, engineVars, completions, submits>>

Submissions == 1..MaxSubmits
Attempts    == 0..MaxRequeues
Runs        == (Submissions \X Attempts) \cup Dispatches

(* A QueuedTask: `resume` says that it continues a suspended durable run. *)
Entry == [id: Tasks, priority: SchedulerPriority, sub: Submissions,
          requeues: Attempts, resume: BOOLEAN]

ASSUME NoEntryAssumption == NoEntry \notin Entry
ASSUME RunsAssumption == Dispatches \cap (Submissions \X Attempts) = {}

Executing  == {"running"}
Terminal   == {"completed", "failed", "aborted", "cancelled"}
RunStatus  == {"none", "suspended"} \cup Executing \cup Terminal
Outcome    == {"result", "null", "error"}
Callback   == Submissions \X Attempts \X {"complete", "preempted"}

(* Where stop() is parked, and what it awaits there. *)
NotStopping == [at |-> "idle", results |-> {}, cancels |-> {}, callbacks |-> {}]
StopCall == [at: {"idle", "results", "cancels", "loop"}, results: SUBSET Runs,
             cancels: SUBSET Runs, callbacks: SUBSET Callback]

(* A durable run keeps its id across requeues; an in-memory task restarts as *)
(* a new run each time.                                                      *)
RunOf(entry) == IF Durable THEN <<entry.sub, 0>> ELSE <<entry.sub, entry.requeues>>

IsImmediate(id) == id \in Dispatches \/ Priority[id] = "immediate"

(* The runs of the ids in the `running` map: dispatch() ids run under their   *)
(* own name, and the only other id there is the loop's.                       *)
RunningRuns(ids) == (ids \cap Dispatches) \cup
                    {RunOf(cur) : id \in {i \in ids \cap Tasks : i = cur.id}}

Init ==
  /\ queue = <<>>
  /\ pc = "off" /\ cur = NoEntry /\ seen = FALSE /\ wake = "none" /\ recent = FALSE
  /\ running = {} /\ owned = {}
  /\ resolvers = [id \in Tasks |-> 0]
  /\ settled = [s \in Submissions |-> "none"]
  /\ retained = [id \in Tasks |-> "none"]
  /\ waiters = {} /\ marks = {} /\ callbacks = {}
  /\ started = FALSE /\ stopping = FALSE /\ signalled = FALSE
  /\ stops = [s \in Stoppers |-> NotStopping]
  /\ runs = [r \in Runs |-> "none"]
  /\ aborts = {} /\ cancels = {} /\ lost = {}
  /\ completions = [s \in Submissions |-> 0]
  /\ submits = 0

-----------------------------------------------------------------------------
(* Pieces shared by the handlers.                                            *)

\* Mutated form: the resolver stays registered after it was called.
settleTask_keepsResolver(ids, outcome) ==
  LET registered == {id \in ids : resolvers[id] # 0}
  IN  /\ settled' = [s \in Submissions |->
                       IF \E id \in registered : resolvers[id] = s THEN outcome ELSE settled[s]]
      /\ retained' = [id \in Tasks |-> IF id \in registered THEN outcome ELSE retained[id]]
      /\ waiters' = waiters \ registered
      /\ UNCHANGED resolvers

\* Mutated form: the outcome is not retained.
settleTask_unrecorded(ids, outcome) ==
  LET registered == {id \in ids : resolvers[id] # 0}
  IN  /\ settled' = [s \in Submissions |->
                       IF \E id \in registered : resolvers[id] = s THEN outcome ELSE settled[s]]
      /\ resolvers' = [id \in Tasks |-> IF id \in ids THEN 0 ELSE resolvers[id]]
      /\ waiters' = waiters \ registered
      /\ UNCHANGED retained

(* Resolve or reject the registered submit() promises of these ids: their    *)
(* resolvers are dropped, the outcome is retained, awaitTask() callers are   *)
(* answered.                                                                 *)
settleTask(ids, outcome) ==
  LET registered == {id \in ids : resolvers[id] # 0}
  IN  /\ settled' = [s \in Submissions |->
                       IF \E id \in registered : resolvers[id] = s THEN outcome ELSE settled[s]]
      /\ resolvers' = [id \in Tasks |-> IF id \in ids THEN 0 ELSE resolvers[id]]
      /\ retained' = [id \in Tasks |-> IF id \in registered THEN outcome ELSE retained[id]]
      /\ waiters' = waiters \ registered

(* A call with no resolver armed is lost. *)
wakeLoop == wake' = IF wake = "armed" THEN "fired" ELSE wake

trackCallback(entry, kind) ==
  callbacks' = IF entry.id \in Callbacks
               THEN callbacks \cup {<<entry.sub, entry.requeues, kind>>}
               ELSE callbacks

\* Mutated form: maxRequeues is not looked at.
shouldRequeueOnPreempt_uncapped(entry) == Requeue[entry.id]

shouldRequeueOnPreempt(entry) == Requeue[entry.id] /\ entry.requeues < MaxRequeues

Requeued(entry) == [id |-> entry.id, priority |-> entry.priority, sub |-> entry.sub,
                    requeues |-> entry.requeues + 1, resume |-> Durable]

(* The dispatch is over: the loop goes back to the top. *)
ToHead == pc' = "head" /\ cur' = NoEntry /\ seen' = FALSE

-----------------------------------------------------------------------------
(* Callers.                                                                  *)

(* submit(): ids are unique among the tasks in progress. A call made while   *)
(* stopping resolves null at once and changes nothing.                       *)
submit(id) ==
  /\ ~stopping
  /\ resolvers[id] = 0
  /\ submits < MaxSubmits
  /\ submits' = submits + 1
  /\ retained' = [retained EXCEPT ![id] = "none"]
  /\ resolvers' = [resolvers EXCEPT ![id] = submits + 1]
  /\ settled' = [settled EXCEPT ![submits + 1] = "pending"]
  /\ queue' = enqueue(queue, [id |-> id, priority |-> Priority[id], sub |-> submits + 1,
                              requeues |-> 0, resume |-> FALSE])
  /\ wakeLoop
  /\ UNCHANGED <<pc, cur, seen, recent, running, owned, waiters, marks, callbacks,
                 lifeVars, engineVars, completions>>

locateTask(id) ==
  IF resolvers[id] # 0 THEN "in-progress"
  ELSE CASE retained[id] = "none" -> "not-found"
         [] retained[id] = "tombstone" -> "expired"
         [] OTHER -> retained[id]

(* awaitTask() on an id in progress; on any other id it settles at once.     *)
awaitTask(id) ==
  /\ resolvers[id] # 0
  /\ waiters' = waiters \cup {id}
  /\ UNCHANGED <<queue, loopVars, running, owned, resolvers, settled, retained, marks,
                 callbacks, lifeVars, engineVars, completions, submits>>

(* dispatch(): an immediate run beside the loop, whatever the loop is doing. *)
dispatchMethod(d) ==
  /\ runs[d] = "none"
  /\ runs' = [runs EXCEPT ![d] = "running"]
  /\ running' = running \cup {d}
  /\ owned' = owned \cup {d}
  /\ UNCHANGED <<queue, loopVars, promiseVars, marks, callbacks, lifeVars,
                 aborts, cancels, lost, completions, submits>>

(* The continuation of a dispatch()ed run's result. *)
DispatchSettles(d) ==
  /\ d \in running /\ runs[d] \in Terminal
  /\ running' = running \ {d}
  /\ owned' = owned \ {d}
  /\ recent' = (recent \/ runs[d] = "completed")
  /\ wakeLoop
  /\ UNCHANGED <<queue, pc, cur, seen, promiseVars, marks, callbacks, lifeVars,
                 engineVars, completions, submits>>

\* Mutated form: the suspended run is not cancelled with its entry.
cancelQueued_orphans(id) ==
  /\ FirstWithId(queue, id) # 0
  /\ queue' = remove(queue, id)
  /\ settleTask({id}, "null")
  /\ wakeLoop
  /\ UNCHANGED <<pc, cur, seen, recent, running, owned, marks, callbacks, lifeVars,
                 engineVars, completions, submits>>

\* Mutated form: the entry stays in the queue.
cancelQueued_keepsEntry(id) ==
  LET at == FirstWithId(queue, id)
  IN  /\ at # 0
      /\ cancels' = IF queue[at].resume THEN cancels \cup {RunOf(queue[at])} ELSE cancels
      /\ settleTask({id}, "null")
      /\ wakeLoop
      /\ UNCHANGED <<queue, pc, cur, seen, recent, running, owned, marks, callbacks, lifeVars,
                     runs, aborts, lost, completions, submits>>

(* cancel() of a queued task: drops the entry, and cancels the suspended run *)
(* that the entry alone points to.                                           *)
cancelQueued(id) ==
  LET at == FirstWithId(queue, id)
  IN  /\ at # 0
      /\ queue' = remove(queue, id)
      /\ cancels' = IF queue[at].resume THEN cancels \cup {RunOf(queue[at])} ELSE cancels
      /\ settleTask({id}, "null")
      /\ wakeLoop
      /\ UNCHANGED <<pc, cur, seen, recent, running, owned, marks, callbacks, lifeVars,
                     runs, aborts, lost, completions, submits>>

(* cancel() of a running task: a durable run is cancelled at the engine and  *)
(* marked, so that its rejection reads as a cancellation; any other run is   *)
(* aborted. The dispatch's own completion path settles the promise.          *)
cancelRunning(id) ==
  /\ id \in running
  /\ id \in Tasks => FirstWithId(queue, id) = 0
  /\ IF Durable /\ id \in Tasks
     THEN /\ marks' = marks \cup {id}
          /\ cancels' = cancels \cup {RunOf(cur)}
          /\ UNCHANGED aborts
     ELSE /\ aborts' = aborts \cup RunningRuns({id})
          /\ UNCHANGED <<marks, cancels>>
  /\ wakeLoop
  /\ UNCHANGED <<queue, pc, cur, seen, recent, running, owned, promiseVars, callbacks,
                 lifeVars, runs, lost, completions, submits>>

-----------------------------------------------------------------------------
(* schedulerLoop.                                                            *)

\* Mutated form: only the signal ends the loop.
ExitRequested_signalOnly == signalled

ExitRequested == stopping \/ signalled

LoopExit ==
  /\ ExitRequested
  /\ pc = "head" \/ (pc = "delay" /\ (wake = "fired" \/ ~recent))
  /\ pc' = "off" /\ cur' = NoEntry /\ wake' = "none"
  /\ UNCHANGED <<queue, seen, recent, running, owned, promiseVars, marks, callbacks,
                 lifeVars, engineVars, completions, submits>>

(* Nothing queued, or a dispatch()ed run is active: sleep. *)
LoopWait ==
  /\ pc = "head" /\ ~ExitRequested
  /\ queue = <<>> \/ running # {}
  /\ pc' = "wait" /\ wake' = "armed"
  /\ UNCHANGED <<queue, cur, seen, recent, running, owned, promiseVars, marks, callbacks,
                 lifeVars, engineVars, completions, submits>>

(* Woken, or the idleDelay timer fired. *)
LoopWakes ==
  /\ pc = "wait"
  /\ pc' = "head" /\ wake' = "none"
  /\ UNCHANGED <<queue, cur, seen, recent, running, owned, promiseVars, marks, callbacks,
                 lifeVars, engineVars, completions, submits>>

(* A non-immediate task too soon after a completion: sleep on it. `cur` holds *)
(* the head that was peeked.                                                  *)
LoopDelays ==
  /\ pc = "head" /\ ~ExitRequested
  /\ queue # <<>> /\ running = {}
  /\ Head(queue).priority # "immediate" /\ recent
  /\ pc' = "delay" /\ cur' = Head(queue) /\ wake' = "armed"
  /\ UNCHANGED <<queue, seen, recent, running, owned, promiseVars, marks, callbacks,
                 lifeVars, engineVars, completions, submits>>

(* The head changed during the sleep. *)
LoopLooksAgain ==
  /\ pc = "delay" /\ (wake = "fired" \/ ~recent) /\ ~ExitRequested
  /\ ~(queue # <<>> /\ Head(queue) = cur)
  /\ pc' = "head" /\ cur' = NoEntry /\ wake' = "none"
  /\ UNCHANGED <<queue, seen, recent, running, owned, promiseVars, marks, callbacks,
                 lifeVars, engineVars, completions, submits>>

(* The loop dequeues its head: straight from the top, or after the delay if   *)
(* the head is still the one it slept on, however short the sleep was.        *)
MayDequeue ==
  /\ ~ExitRequested
  /\ queue # <<>>
  /\ \/ /\ pc = "head"
        /\ running = {}
        /\ Head(queue).priority = "immediate" \/ ~recent
     \/ /\ pc = "delay"
        /\ wake = "fired" \/ ~recent
        /\ Head(queue) = cur

(* startAndAwaitTask up to `await task.createRun()`: nothing is registered and *)
(* no wake is armed until it answers.                                          *)
DispatchFresh ==
  /\ MayDequeue /\ ~Head(queue).resume
  /\ queue' = Tail(queue)
  /\ pc' = "create" /\ cur' = Head(queue) /\ wake' = "none"
  /\ UNCHANGED <<seen, recent, running, owned, promiseVars, marks, callbacks, lifeVars,
                 engineVars, completions, submits>>

(* startAndAwaitTask of a suspended durable run. A run that was cancelled     *)
(* meanwhile is not revived: its result rejects.                              *)
DispatchResume ==
  LET entry == Head(queue)
      run == RunOf(entry)
  IN  /\ MayDequeue /\ entry.resume
      /\ queue' = Tail(queue)
      /\ runs' = [runs EXCEPT ![run] = IF @ = "suspended" THEN "running" ELSE @]
      /\ running' = running \cup {entry.id}
      /\ owned' = owned \cup {entry.id}
      /\ pc' = "race" /\ cur' = entry /\ wake' = "armed"
      /\ UNCHANGED <<seen, recent, promiseVars, marks, callbacks, lifeVars,
                     aborts, cancels, lost, completions, submits>>

-----------------------------------------------------------------------------
(* startAndAwaitTask from the answer of createRun() on.                      *)

CreateRunAnswers ==
  /\ pc = "create"
  /\ runs' = [runs EXCEPT ![RunOf(cur)] = "running"]
  /\ running' = running \cup {cur.id}
  /\ owned' = owned \cup {cur.id}
  /\ pc' = "race" /\ wake' = "armed"
  /\ UNCHANGED <<queue, cur, seen, recent, promiseVars, marks, callbacks, lifeVars,
                 aborts, cancels, lost, completions, submits>>

\* Mutated form: the submit() promise is not rejected.
failDispatch_silent ==
  /\ pc = "create"
  /\ owned' = owned \ {cur.id}
  /\ ToHead
  /\ UNCHANGED <<queue, wake, recent, running, promiseVars, marks, callbacks, lifeVars,
                 engineVars, completions, submits>>

failDispatch ==
  /\ pc = "create"
  /\ owned' = owned \ {cur.id}
  /\ settleTask({cur.id}, "error")
  /\ ToHead
  /\ UNCHANGED <<queue, wake, recent, running, marks, callbacks, lifeVars, engineVars,
                 completions, submits>>

Settled(run) == runs[run] \in Terminal

(* The race ends with the result, even if a wake came in the same turn. *)
RaceSettles ==
  /\ pc = "race" /\ Settled(RunOf(cur))
  /\ running' = running \ {cur.id}
  /\ pc' = "finish" /\ wake' = "none"
  /\ UNCHANGED <<queue, cur, seen, recent, owned, promiseVars, marks, callbacks, lifeVars,
                 engineVars, completions, submits>>

(* Woken with nothing that outranks the active task: race again. *)
RaceAgain ==
  /\ pc = "race" /\ wake = "fired" /\ ~Settled(RunOf(cur))
  /\ ~hasHigherPriority(queue, cur.priority)
  /\ wake' = "armed"
  /\ UNCHANGED <<queue, pc, cur, seen, recent, running, owned, promiseVars, marks,
                 callbacks, lifeVars, engineVars, completions, submits>>

(* preemptTask: a durable run is suspended, any other is aborted. *)
Preempt ==
  /\ pc = "race" /\ wake = "fired" /\ ~Settled(RunOf(cur))
  /\ hasHigherPriority(queue, cur.priority)
  /\ wake' = "none"
  /\ IF Durable
     THEN pc' = "suspend" /\ UNCHANGED aborts
     ELSE pc' = "abort" /\ aborts' = aborts \cup {RunOf(cur)}
  /\ UNCHANGED <<queue, cur, seen, recent, running, owned, promiseVars, marks, callbacks,
                 lifeVars, runs, cancels, lost, completions, submits>>

\* Mutated form: the aborted run's result is not awaited.
PreemptedInMemory_unawaited ==
  /\ pc = "abort"
  /\ running' = running \ {cur.id}
  /\ IF shouldRequeueOnPreempt(cur)
     THEN queue' = enqueue(queue, Requeued(cur)) /\ UNCHANGED <<owned, promiseVars>>
     ELSE owned' = owned \ {cur.id} /\ settleTask({cur.id}, "null") /\ UNCHANGED queue
  /\ trackCallback(cur, "preempted")
  /\ ToHead
  /\ UNCHANGED <<wake, recent, marks, lifeVars, engineVars, completions, submits>>

(* preemptTask after the aborted in-memory run has settled, however it did.   *)
PreemptedInMemory ==
  /\ pc = "abort" /\ Settled(RunOf(cur))
  /\ running' = running \ {cur.id}
  /\ IF shouldRequeueOnPreempt(cur)
     THEN queue' = enqueue(queue, Requeued(cur)) /\ UNCHANGED <<owned, promiseVars>>
     ELSE owned' = owned \ {cur.id} /\ settleTask({cur.id}, "null") /\ UNCHANGED queue
  /\ trackCallback(cur, "preempted")
  /\ ToHead
  /\ UNCHANGED <<wake, recent, marks, lifeVars, engineVars, completions, submits>>

-----------------------------------------------------------------------------
(* suspendAndDetach.                                                         *)

(* engine.suspend parks a running run and leaves any other alone. *)
SuspendAnswers ==
  /\ pc = "suspend"
  /\ runs' = [runs EXCEPT ![RunOf(cur)] = IF @ = "running" THEN "suspended" ELSE @]
  /\ pc' = "get"
  /\ UNCHANGED <<queue, cur, seen, wake, recent, running, owned, promiseVars, marks,
                 callbacks, lifeVars, aborts, cancels, lost, completions, submits>>

(* engine.suspend rejects: the dispatch goes on to await the run's result,    *)
(* out of the `running` map.                                                  *)
SuspendFails ==
  /\ pc = "suspend" /\ "suspend" \in Faults
  /\ running' = running \ {cur.id}
  /\ pc' = "finish"
  /\ UNCHANGED <<queue, cur, seen, wake, recent, owned, promiseVars, marks, callbacks,
                 lifeVars, engineVars, completions, submits>>

(* engine.get answers with the status the run has now. *)
GetAnswers ==
  /\ pc = "get"
  /\ seen' = (runs[RunOf(cur)] = "suspended")
  /\ pc' = "got"
  /\ UNCHANGED <<queue, cur, wake, recent, running, owned, promiseVars, marks, callbacks,
                 lifeVars, engineVars, completions, submits>>

(* engine.get rejects, outside of any try: the loop's promise rejects. *)
GetFails ==
  /\ pc = "get" /\ "get" \in Faults
  /\ pc' = "dead"
  /\ UNCHANGED <<queue, cur, seen, wake, recent, running, owned, promiseVars, marks,
                 callbacks, lifeVars, engineVars, completions, submits>>

(* The run was not parked: it had settled first. *)
NotSuspended ==
  /\ pc = "got" /\ ~seen
  /\ running' = running \ {cur.id}
  /\ pc' = "finish"
  /\ UNCHANGED <<queue, cur, seen, wake, recent, owned, promiseVars, marks, callbacks,
                 lifeVars, engineVars, completions, submits>>

MayRequeue(entry) == ~stopping /\ shouldRequeueOnPreempt(entry)

(* Parked: the dispatch lets go and queues an entry that resumes the run. *)
DetachRequeues ==
  /\ pc = "got" /\ seen /\ MayRequeue(cur)
  /\ owned' = owned \ {cur.id}
  /\ running' = running \ {cur.id}
  /\ queue' = enqueue(queue, Requeued(cur))
  /\ trackCallback(cur, "preempted")
  /\ ToHead
  /\ UNCHANGED <<wake, recent, promiseVars, marks, lifeVars, engineVars, completions,
                 submits>>

(* Parked, and not to be resumed: the run is cancelled, and that is awaited. *)
DetachDrops ==
  /\ pc = "got" /\ seen /\ ~MayRequeue(cur)
  /\ owned' = owned \ {cur.id}
  /\ running' = running \ {cur.id}
  /\ cancels' = cancels \cup {RunOf(cur)}
  /\ pc' = "drop"
  /\ UNCHANGED <<queue, cur, seen, wake, recent, promiseVars, marks, callbacks, lifeVars,
                 runs, aborts, lost, completions, submits>>

DropAnswers ==
  /\ pc = "drop" /\ RunOf(cur) \notin cancels
  /\ settleTask({cur.id}, "null")
  /\ trackCallback(cur, "preempted")
  /\ ToHead
  /\ UNCHANGED <<queue, wake, recent, running, owned, marks, lifeVars, engineVars,
                 completions, submits>>

-----------------------------------------------------------------------------
(* The completion path of startAndAwaitTask. Its re-check of ownership after  *)
(* the await is checked as OwnsWhileDispatching.                              *)

FinishCompleted ==
  /\ pc = "finish" /\ runs[RunOf(cur)] = "completed"
  /\ owned' = owned \ {cur.id}
  /\ marks' = marks \ {cur.id}
  /\ completions' = [completions EXCEPT ![cur.sub] = @ + 1]
  /\ recent' = TRUE
  /\ settleTask({cur.id}, "result")
  /\ trackCallback(cur, "complete")
  /\ ToHead
  /\ UNCHANGED <<queue, wake, running, lifeVars, engineVars, submits>>

FinishAborted ==
  /\ pc = "finish" /\ runs[RunOf(cur)] = "aborted"
  /\ owned' = owned \ {cur.id}
  /\ marks' = marks \ {cur.id}
  /\ settleTask({cur.id}, "null")
  /\ ToHead
  /\ UNCHANGED <<queue, wake, recent, running, callbacks, lifeVars, engineVars,
                 completions, submits>>

(* The result rejects: null for a marked task, the error for any other. *)
FinishRejected ==
  /\ pc = "finish" /\ runs[RunOf(cur)] \in {"failed", "cancelled"}
  /\ owned' = owned \ {cur.id}
  /\ marks' = marks \ {cur.id}
  /\ settleTask({cur.id}, IF cur.id \in marks THEN "null" ELSE "error")
  /\ ToHead
  /\ UNCHANGED <<queue, wake, recent, running, callbacks, lifeVars, engineVars,
                 completions, submits>>

-----------------------------------------------------------------------------
(* start() and stop().                                                       *)

QueuedIds  == {queue[i].id : i \in 1..Len(queue)}
ResumeRuns == {RunOf(queue[i]) : i \in {j \in 1..Len(queue) : queue[j].resume}}

(* stop() up to its first await, on a started scheduler: the queue is         *)
(* discarded and the non-immediate running tasks are cancelled or aborted.    *)
StopSync(s) ==
  LET victims == {id \in running : ~IsImmediate(id)}
      cancelled == ResumeRuns \cup (IF Durable THEN RunningRuns(victims) ELSE {})
  IN  /\ stopping' = TRUE
      /\ queue' = <<>>
      /\ settleTask(QueuedIds, "null")
      /\ cancels' = cancels \cup cancelled
      /\ marks' = IF Durable THEN marks \cup victims ELSE marks
      /\ aborts' = IF Durable THEN aborts ELSE aborts \cup RunningRuns(victims)
      /\ wakeLoop
      /\ stops' = [stops EXCEPT ![s] = [at |-> "results", results |-> RunningRuns(running),
                                        cancels |-> cancelled, callbacks |-> {}]]
      /\ UNCHANGED <<seen, recent, running, owned, callbacks, runs, lost, completions, submits>>

start ==
  /\ ~started
  /\ started' = TRUE
  /\ pc' = "head" /\ UNCHANGED <<cur, signalled>>
  /\ IF signalled
     THEN StopSync(Signal)
     ELSE /\ stopping' = FALSE
          /\ UNCHANGED <<queue, seen, wake, recent, running, owned, promiseVars, marks,
                         callbacks, stops, engineVars, completions, submits>>

stop(s) ==
  /\ started /\ s # Signal /\ stops[s].at = "idle"
  /\ StopSync(s)
  /\ UNCHANGED <<pc, cur, started, signalled>>

(* retention.purge() *)
Purge == retained' = [id \in Tasks |-> "none"]

stopNotStarted ==
  /\ ~started
  /\ Purge
  /\ UNCHANGED <<queue, loopVars, running, owned, resolvers, settled, waiters, marks,
                 callbacks, lifeVars, engineVars, completions, submits>>

(* The external signal aborts; the listener that start() added calls stop(). *)
ExternalAbort ==
  /\ Signal \in Stoppers /\ ~signalled
  /\ signalled' = TRUE
  /\ UNCHANGED <<pc, cur, started>>
  /\ IF started THEN StopSync(Signal)
     ELSE /\ IF stopping THEN Purge ELSE UNCHANGED retained
          /\ UNCHANGED <<queue, seen, wake, recent, running, owned, resolvers, settled,
                         waiters, marks, callbacks, stopping, stops, engineVars,
                         completions, submits>>

(* Every result of the running tasks has settled; the callbacks tracked by now *)
(* join the cancellations to await.                                            *)
StopResults(s) ==
  /\ stops[s].at = "results"
  /\ \A r \in stops[s].results : Settled(r)
  /\ stops' = [stops EXCEPT ![s] = [at |-> "cancels", results |-> {},
                                    cancels |-> stops[s].cancels, callbacks |-> callbacks]]
  /\ UNCHANGED <<queue, loopVars, running, owned, promiseVars, marks, callbacks, started,
                 stopping, signalled, engineVars, completions, submits>>

(* The cancellations and callbacks have settled: every remaining submit()      *)
(* promise resolves null, and the loop is awaited.                             *)
StopCancels(s) ==
  /\ stops[s].at = "cancels"
  /\ stops[s].cancels \cap cancels = {}
  /\ stops[s].callbacks \cap callbacks = {}
  /\ settleTask(Tasks, "null")
  /\ stops' = [stops EXCEPT ![s] = [at |-> "loop", results |-> {}, cancels |-> {},
                                    callbacks |-> {}]]
  /\ UNCHANGED <<queue, loopVars, running, owned, marks, callbacks, started, stopping,
                 signalled, engineVars, completions, submits>>

AtLoop == {s \in Stoppers : stops[s].at = "loop"}
StopsReturned == [s \in Stoppers |-> IF s \in AtLoop THEN NotStopping ELSE stops[s]]

\* Mutated form: the loop is not awaited.
StopReturns_early ==
  /\ AtLoop # {}
  /\ stops' = StopsReturned
  /\ Purge
  /\ started' = FALSE
  /\ UNCHANGED <<queue, loopVars, running, owned, resolvers, settled, waiters, marks,
                 callbacks, stopping, signalled, engineVars, completions, submits>>

(* The loop has ended: every stop() that awaits it returns in the same turn. *)
StopReturns ==
  /\ AtLoop # {} /\ pc = "off"
  /\ stops' = StopsReturned
  /\ Purge
  /\ started' = FALSE
  /\ UNCHANGED <<queue, loopVars, running, owned, resolvers, settled, waiters, marks,
                 callbacks, stopping, signalled, engineVars, completions, submits>>

(* The loop's promise rejected, and so does stop(). *)
StopRejects ==
  /\ AtLoop # {} /\ pc = "dead"
  /\ stops' = StopsReturned
  /\ UNCHANGED <<queue, loopVars, running, owned, promiseVars, marks, callbacks, started,
                 stopping, signalled, engineVars, completions, submits>>

-----------------------------------------------------------------------------
(* What the runs, the engine, the callbacks and the clock do by themselves.  *)

(* A fresh run of the loop is wired to the external signal; a resumed run and *)
(* a dispatch()ed one are not.                                                *)
MayAbort(r) ==
  \/ r \in aborts
  \/ signalled /\ cur # NoEntry /\ ~cur.resume /\ r = RunOf(cur)

RunSettles(r) ==
  /\ runs[r] = "running"
  /\ \E how \in {"completed", "failed", "aborted"} :
       /\ how = "aborted" => MayAbort(r)
       /\ runs' = [runs EXCEPT ![r] = how]
  /\ UNCHANGED <<queue, loopVars, running, owned, promiseVars, marks, callbacks, lifeVars,
                 aborts, cancels, lost, completions, submits>>

(* engine.cancel terminalizes a running or suspended run. *)
CancelAnswers(r) ==
  /\ r \in cancels
  /\ runs' = [runs EXCEPT ![r] = IF @ \in {"running", "suspended"} THEN "cancelled" ELSE @]
  /\ cancels' = cancels \ {r}
  /\ UNCHANGED <<queue, loopVars, running, owned, promiseVars, marks, callbacks, lifeVars,
                 aborts, lost, completions, submits>>

CancelFails(r) ==
  /\ r \in cancels /\ "cancel" \in Faults /\ Cardinality(lost) < MaxLost
  /\ cancels' = cancels \ {r}
  /\ lost' = lost \cup {r}
  /\ UNCHANGED <<queue, loopVars, running, owned, promiseVars, marks, callbacks, lifeVars,
                 runs, aborts, completions, submits>>

CallbackSettles(c) ==
  /\ c \in callbacks
  /\ callbacks' = callbacks \ {c}
  /\ UNCHANGED <<queue, loopVars, running, owned, promiseVars, marks, lifeVars, engineVars,
                 completions, submits>>

(* idleDelay has passed since the last completion. *)
TimePasses ==
  /\ recent
  /\ recent' = FALSE
  /\ UNCHANGED <<queue, pc, cur, seen, wake, running, owned, promiseVars, marks, callbacks,
                 lifeVars, engineVars, completions, submits>>

(* A retained outcome is evicted to a tombstone, and the tombstone dropped,   *)
(* one retention window each.                                                 *)
RetentionTimer(id) ==
  /\ Retention /\ retained[id] # "none"
  /\ retained' = [retained EXCEPT ![id] = IF @ = "tombstone" THEN "none" ELSE "tombstone"]
  /\ UNCHANGED <<queue, loopVars, running, owned, resolvers, settled, waiters, marks,
                 callbacks, lifeVars, engineVars, completions, submits>>

-----------------------------------------------------------------------------
LoopStep ==
  \/ LoopExit \/ LoopWait \/ LoopWakes \/ LoopDelays \/ LoopLooksAgain
  \/ DispatchFresh \/ DispatchResume \/ CreateRunAnswers \/ failDispatch
  \/ RaceSettles \/ RaceAgain \/ Preempt \/ PreemptedInMemory
  \/ SuspendAnswers \/ SuspendFails \/ GetAnswers \/ GetFails
  \/ NotSuspended \/ DetachRequeues \/ DetachDrops \/ DropAnswers
  \/ FinishCompleted \/ FinishAborted \/ FinishRejected

StopStep(s) == StopResults(s) \/ StopCancels(s)

Next ==
  \/ \E id \in Tasks : submit(id) \/ awaitTask(id) \/ cancelQueued(id)
  \/ \E id \in Tasks \cup Dispatches : cancelRunning(id)
  \/ \E d \in Dispatches : dispatchMethod(d) \/ DispatchSettles(d)
  \/ LoopStep
  \/ start \/ stopNotStarted \/ ExternalAbort
  \/ \E s \in Stoppers : stop(s) \/ StopStep(s)
  \/ StopReturns \/ StopRejects
  \/ \E r \in Runs : RunSettles(r) \/ CancelAnswers(r) \/ CancelFails(r)
  \/ \E c \in Callback : CallbackSettles(c)
  \/ TimePasses
  \/ \E id \in Tasks : RetentionTimer(id)

Spec == Init /\ [][Next]_vars

(* What the JavaScript runtime, the clock, the engine and the agents' runs     *)
(* owe the scheduler: a ready continuation is run, a timer fires, an engine    *)
(* call answers, a run and a callback end.                                     *)
Fairness ==
  /\ WF_vars(LoopStep)
  /\ \A s \in Stoppers : WF_vars(StopStep(s))
  /\ WF_vars(StopReturns)
  /\ \A d \in Dispatches : WF_vars(DispatchSettles(d))
  /\ \A r \in Runs : WF_vars(RunSettles(r)) /\ WF_vars(CancelAnswers(r))
  /\ \A c \in Callback : WF_vars(CallbackSettles(c))
  /\ WF_vars(TimePasses)

FairSpec == Spec /\ Fairness

-----------------------------------------------------------------------------
(* Properties.                                                               *)

LoopPC == {"off", "head", "wait", "delay", "create", "race", "suspend", "get", "got",
           "drop", "abort", "finish", "dead"}

(* The type invariant. *)
TypeOK ==
  /\ queue \in Seq(Entry)
  /\ pc \in LoopPC /\ cur \in Entry \cup {NoEntry} /\ seen \in BOOLEAN
  /\ wake \in {"none", "armed", "fired"} /\ recent \in BOOLEAN
  /\ running \subseteq Tasks \cup Dispatches
  /\ owned \subseteq Tasks \cup Dispatches
  /\ resolvers \in [Tasks -> 0..MaxSubmits]
  /\ settled \in [Submissions -> {"none", "pending"} \cup Outcome]
  /\ retained \in [Tasks -> {"none", "tombstone"} \cup Outcome]
  /\ waiters \subseteq Tasks /\ marks \subseteq Tasks
  /\ callbacks \subseteq Callback
  /\ started \in BOOLEAN /\ stopping \in BOOLEAN /\ signalled \in BOOLEAN
  /\ stops \in [Stoppers -> StopCall]
  /\ runs \in [Runs -> RunStatus]
  /\ aborts \subseteq Runs /\ cancels \subseteq Runs /\ lost \subseteq Runs
  /\ completions \in [Submissions -> Nat]
  /\ submits \in 0..MaxSubmits

(* The head of the queue is always a task that nothing queued outranks, which  *)
(* is all that peek() and hasHigherPriority() look at.                         *)
QueueOrdered == Ordered(queue)

(* Within a priority, tasks that were never preempted are served in the order  *)
(* in which they were submitted.                                               *)
FirstComeFirstServed ==
  \A i, j \in 1..Len(queue) :
    (i < j /\ queue[i].priority = queue[j].priority /\ queue[i].requeues + queue[j].requeues = 0)
      => queue[i].sub < queue[j].sub

(* The loop is serial: whatever preemption, cancellation, shutdown and engine  *)
(* faults do, the only task run that executes is the one the loop is at.       *)
SerialExecution ==
  \A r \in Runs \ Dispatches :
    runs[r] = "running" => cur # NoEntry /\ r = RunOf(cur)

(* The entry that the loop has taken off the queue. *)
InHand == IF pc \in {"off", "head", "wait", "delay"} THEN NoEntry ELSE cur

(* A submit() promise is never forgotten: as long as it is pending its resolver *)
(* is registered, and its task is queued or in the loop's hands; and an         *)
(* awaitTask() promise waits on an id that is still in progress.                *)
NoOrphanedPromise ==
  /\ \A s \in Submissions : settled[s] = "pending" =>
       /\ \E id \in Tasks : resolvers[id] = s
       /\ \/ \E i \in 1..Len(queue) : queue[i].sub = s
          \/ InHand # NoEntry /\ InHand.sub = s
  /\ \A id \in waiters : resolvers[id] # 0

(* No durable run dangles as `suspended`: a queue entry resumes it, or the loop *)
(* is at it, or the engine has been told to cancel it (or refused to).          *)
SuspendedIsReachable ==
  \A r \in Runs : runs[r] = "suspended" =>
    \/ r \in ResumeRuns \cup cancels \cup lost
    \/ InHand # NoEntry /\ r = RunOf(InHand)

(* The ownership guards of startAndAwaitTask never fire: from the start of its  *)
(* run on, the loop's task is registered, it alone, and it owns itself.         *)
OwnsWhileDispatching ==
  /\ running \cap Tasks \subseteq {e.id : e \in {InHand} \ {NoEntry}}
  /\ pc \in {"race", "suspend", "get", "got", "abort"} => cur.id \in running
  /\ pc \in {"race", "suspend", "get", "got", "abort", "finish"} => cur.id \in owned

(* Engine calls that fail leave nothing behind: a suspended run is resumed *)
(* by a queued task, cancelled, or in the hands of the loop; what the loop *)
(* dispatches is in both of its maps, so that cancel() and stop() find it; *)
(* no promise is forgotten, and no second run starts beside the first.     *)
Reachable ==
  SuspendedIsReachable /\ OwnsWhileDispatching /\ NoOrphanedPromise /\ SerialExecution

(* When stop() has returned, and until the next start(), every promise is       *)
(* settled, nothing is retained and no task run executes.                       *)
StoppedIsQuiet ==
  stopping /\ ~started =>
    /\ \A s \in Submissions : settled[s] # "pending"
    /\ waiters = {}
    /\ \A id \in Tasks : retained[id] = "none"
    /\ running \cap Tasks = {}
    /\ \A r \in Runs \ Dispatches : runs[r] # "running"

(* A submit() promise resolves with a result only if that very submission       *)
(* completed, once.                                                             *)
ResultIsEarned ==
  \A s \in Submissions :
    completions[s] <= 1 /\ (settled[s] = "result" => completions[s] = 1)

(* A settled submit() promise, and the outcome that awaitTask() answers with,   *)
(* never change until the outcome is evicted or the id is submitted again.      *)
SettledForGood ==
  [][/\ \A s \in Submissions : settled[s] \in Outcome => settled'[s] = settled[s]
     /\ \A id \in Tasks : retained[id] \in Outcome =>
          retained'[id] \in {retained[id], "tombstone", "none"}]_vars

(* A task submitted to a started scheduler is settled in the end, by its run, a *)
(* cancellation, or stop().                                                     *)
SubmissionSettles ==
  \A s \in Submissions : (settled[s] = "pending" /\ started) ~> settled[s] # "pending"

(* stop() returns: it never waits on a suspended run, on a run nobody aborts,   *)
(* or on a loop that nobody wakes.                                              *)
StopTerminates == \A s \in Stoppers : stops[s].at # "idle" ~> stops[s].at = "idle"

(* The scheduler implements the lifecycle of a task id that locateTask() shows. *)
Locating == INSTANCE TaskLocation WITH location <- [id \in Tasks |-> locateTask(id)]
ImplementsTaskLocation == Locating!Spec
=============================================================================
