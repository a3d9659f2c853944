---------------------------- MODULE Background -------------------------------
(***************************************************************************)
(* The services that work in the background: flow control, heartbeats,     *)
(* chunked tasks, webhooks, the drain of the session outbox and background *)
(* compaction.  They share nothing, and are put together to be checked in  *)
(* one run: the initial state picks a service, and only that one moves.    *)
(* The variables that it does not have stay Unused.                        *)
(***************************************************************************)
EXTENDS Integers, Sequences, FiniteSets, TLC

CONSTANTS
    \* The flow controller: FlowControl explains the parameters.
    Runs, Tasks, Keys, KeyOf, SingletonOf, Limit, RateLimit, Window, MaxNow,
    \* Heartbeats: runImmediately of each of the two, and the rest of both.
    RunImmediately, maxConsecutiveFailures, MaxStarts, MaxTicks,
    \* Chunked tasks.
    Chunks, maxPreemptionRetries, MaxPreemptions,
    \* Webhooks.
    Ids, maxAttempts,
    \* The session outbox.
    Bureaus, Kinds, Lease, MaxTries, MaxFacts, MaxClock,
    \* Compaction.
    maxStaleRetries, MaxJobs, MaxWrites,
    MaxCrashes, MaxFaults,  \* bounds, of the webhooks and of the outbox
    Nobody, Unused

VARIABLES
    instance,               \* the instance that runs
    pc, aborted, awaited, life, counts, disposed,   \* names that two components have in common
    \* The flow controller (FlowControl).
    now, slot, holders, claims, stamps, signalled,
    \* A heartbeat (Heartbeat).
    running, failures, resolver, loop, tick, starts, ticks, stopping,
    \* A chunked task (ChunkedTask).
    currentState, stateForChunk, chunkResult, chunkError, submitted, retries, tries,
    processed, preempted,
    \* The webhook notifier (WebhookDelivery).
    record, audited, claimed, attempt, saving, disposal, caught, posters, accepted, crashes,
    faults,
    \* The session outbox (OutboxDrain).
    facts, entries, journal, clock, drain, call, writes, retryAt, deletion, used,
    \* Background compaction (CompactionScheduler).
    jobs, job, windows, inFlight, candidate, phase, open, revision, boundary, written, history

flowVars == <<now, slot, holders, claims, stamps, signalled>>
beatVars == <<running, failures, resolver, loop, tick, starts, ticks, stopping>>
chunkVars == <<currentState, stateForChunk, chunkResult, chunkError, submitted, retries,
               tries, processed, preempted>>
hookVars == <<record, audited, claimed, attempt, saving, disposal, caught, posters, accepted,
              crashes, faults>>
drainVars == <<facts, entries, journal, clock, drain, call, writes, retryAt, deletion, used>>
compactVars == <<jobs, job, windows, inFlight, candidate, phase, open, revision, boundary,
                 written, history>>
vars == <<instance, pc, aborted, awaited, life, counts, disposed, flowVars, beatVars,
          chunkVars, hookVars, drainVars, compactVars>>

\* An engine that does what it is told, and one that fails to suspend runs and
\* abandons them.
Flow == INSTANCE FlowControl WITH Faults <- FALSE
BrokenFlow == INSTANCE FlowControl WITH Faults <- TRUE

\* A heartbeat that is started again as soon as it was stopped, and one that is
\* only started again when its last loop is gone.
Restarts == INSTANCE Heartbeat WITH
    runImmediately <- RunImmediately["restarts"], Patient <- FALSE
Patiently == INSTANCE Heartbeat WITH
    runImmediately <- RunImmediately["patient"], Patient <- TRUE

\* Chunks that go on, and chunks that give up, when they are preempted.
Stubborn == INSTANCE ChunkedTask WITH Heeds <- FALSE
Heedful == INSTANCE ChunkedTask WITH Heeds <- TRUE

\* Deliveries with restarts of the process and a store that fails, and without.
Hooks == INSTANCE WebhookDelivery
CalmHooks == INSTANCE WebhookDelivery WITH MaxCrashes <- 0, MaxFaults <- 0

\* Processes that drain the outbox, crash, and have their storage fail.
Outbox == INSTANCE OutboxDrain WITH None <- Nobody

\* An adapter that throws, a summarizer that fails, and a writer.
Compaction == INSTANCE CompactionScheduler WITH Faults <- TRUE

ASSUME FlowInstances == Flow!FlowAssumption /\ BrokenFlow!FlowAssumption
ASSUME BeatInstances == Restarts!HeartbeatAssumption /\ Patiently!HeartbeatAssumption
ASSUME ChunkInstances == Stubborn!ChunkAssumption /\ Heedful!ChunkAssumption
ASSUME HookInstances == Hooks!WebhookAssumption /\ CalmHooks!WebhookAssumption
ASSUME DrainInstance == Outbox!OutboxAssumption
ASSUME CompactionInstance == Compaction!CompactionAssumption

NoFlow ==
    /\ now = Unused /\ slot = Unused /\ holders = Unused
    /\ claims = Unused /\ stamps = Unused /\ signalled = Unused

NoBeat ==
    /\ running = Unused /\ failures = Unused /\ resolver = Unused /\ loop = Unused
    /\ tick = Unused /\ starts = Unused /\ ticks = Unused /\ stopping = Unused

NoChunk ==
    /\ currentState = Unused /\ stateForChunk = Unused /\ chunkResult = Unused
    /\ chunkError = Unused /\ submitted = Unused /\ retries = Unused /\ tries = Unused
    /\ processed = Unused /\ preempted = Unused

NoHook ==
    /\ record = Unused /\ audited = Unused /\ claimed = Unused /\ attempt = Unused
    /\ saving = Unused /\ disposal = Unused /\ caught = Unused /\ posters = Unused
    /\ accepted = Unused /\ crashes = Unused /\ faults = Unused

NoDrain ==
    /\ facts = Unused /\ entries = Unused /\ journal = Unused /\ clock = Unused
    /\ drain = Unused /\ call = Unused /\ writes = Unused /\ retryAt = Unused
    /\ deletion = Unused /\ used = Unused

NoCompaction ==
    /\ jobs = Unused /\ job = Unused /\ windows = Unused /\ inFlight = Unused
    /\ candidate = Unused /\ phase = Unused /\ open = Unused /\ revision = Unused
    /\ boundary = Unused /\ written = Unused /\ history = Unused

FlowOnly ==
    /\ NoBeat /\ NoChunk /\ NoHook /\ NoDrain /\ NoCompaction
    /\ pc = Unused /\ aborted = Unused /\ awaited = Unused /\ disposed = Unused
BeatOnly ==
    /\ NoFlow /\ NoChunk /\ NoHook /\ NoDrain /\ NoCompaction
    /\ pc = Unused /\ life = Unused /\ counts = Unused /\ disposed = Unused
ChunkOnly ==
    /\ NoFlow /\ NoBeat /\ NoHook /\ NoDrain /\ NoCompaction
    /\ aborted = Unused /\ awaited = Unused /\ life = Unused
    /\ counts = Unused /\ disposed = Unused
HookOnly ==
    /\ NoFlow /\ NoBeat /\ NoChunk /\ NoDrain /\ NoCompaction
    /\ life = Unused /\ counts = Unused
DrainOnly ==
    /\ NoFlow /\ NoBeat /\ NoChunk /\ NoHook /\ NoCompaction
    /\ pc = Unused /\ aborted = Unused /\ awaited = Unused
    /\ counts = Unused /\ disposed = Unused
CompactionOnly ==
    /\ NoFlow /\ NoBeat /\ NoChunk /\ NoHook /\ NoDrain
    /\ pc = Unused /\ aborted = Unused /\ awaited = Unused /\ life = Unused

Init ==
    \/ instance = "flow" /\ Flow!Init /\ FlowOnly
    \/ instance = "brokenFlow" /\ BrokenFlow!Init /\ FlowOnly
    \/ instance = "restarts" /\ Restarts!Init /\ BeatOnly
    \/ instance = "patient" /\ Patiently!Init /\ BeatOnly
    \/ instance = "stubborn" /\ Stubborn!Init /\ ChunkOnly
    \/ instance = "heedful" /\ Heedful!Init /\ ChunkOnly
    \/ instance = "hooks" /\ Hooks!Init /\ HookOnly
    \/ instance = "calmHooks" /\ CalmHooks!Init /\ HookOnly
    \/ instance = "drain" /\ Outbox!Init /\ DrainOnly
    \/ instance = "compaction" /\ Compaction!Init /\ CompactionOnly

flowStays == <<instance, beatVars, chunkVars, hookVars, drainVars, compactVars,
               pc, aborted, awaited, disposed>>
beatStays == <<instance, flowVars, chunkVars, hookVars, drainVars, compactVars,
               pc, life, counts, disposed>>
chunkStays == <<instance, flowVars, beatVars, hookVars, drainVars, compactVars,
                aborted, awaited, life, counts, disposed>>
hookStays == <<instance, flowVars, beatVars, chunkVars, drainVars, compactVars, life, counts>>
drainStays == <<instance, flowVars, beatVars, chunkVars, hookVars, compactVars,
                pc, aborted, awaited, counts, disposed>>
compactStays == <<instance, flowVars, beatVars, chunkVars, hookVars, drainVars,
                  pc, aborted, awaited, life>>

Next ==
    \/ instance = "flow" /\ Flow!Next /\ UNCHANGED flowStays
    \/ instance = "brokenFlow" /\ BrokenFlow!Next /\ UNCHANGED flowStays
    \/ instance = "restarts" /\ Restarts!Next /\ UNCHANGED beatStays
    \/ instance = "patient" /\ Patiently!Next /\ UNCHANGED beatStays
    \/ instance = "stubborn" /\ Stubborn!Next /\ UNCHANGED chunkStays
    \/ instance = "heedful" /\ Heedful!Next /\ UNCHANGED chunkStays
    \/ instance = "hooks" /\ Hooks!Next /\ UNCHANGED hookStays
    \/ instance = "calmHooks" /\ CalmHooks!Next /\ UNCHANGED hookStays
    \/ instance = "drain" /\ Outbox!Next /\ UNCHANGED drainStays
    \/ instance = "compaction" /\ Compaction!Next /\ UNCHANGED compactStays

BeatDoes(A) == instance = "patient" /\ A /\ UNCHANGED beatStays
HooksDo(A) == instance = "calmHooks" /\ A /\ UNCHANGED hookStays
DrainDoes(A) == instance = "drain" /\ A /\ UNCHANGED drainStays

\* Timers fire, submissions settle and callbacks return.
BeatIsFair ==
    /\ \A l \in Patiently!Loops : WF_vars(BeatDoes(Patiently!LoopGoesOn(l)))
    /\ \A x \in Patiently!Tickers : WF_vars(BeatDoes(Patiently!TickGoesOn(x)))
    /\ WF_vars(BeatDoes(Patiently!Stopped))

\* A delivery goes on by itself; a fetch is assumed to settle, which the code
\* does not enforce (it has no timeout of its own).
HooksAreFair ==
    /\ \A i \in Ids : WF_vars(HooksDo(CalmHooks!DeliverStep(i)))
    /\ WF_vars(HooksDo(CalmHooks!Disposed))

\* Promises are resumed, writes settle, the maintenance timer fires, the clock
\* runs, and a process that died is started again.
DrainIsFair ==
    /\ WF_vars(DrainDoes(Outbox!Tick))
    /\ \A b \in Bureaus :
         /\ WF_vars(DrainDoes(Outbox!DrainStep(b)))
         /\ WF_vars(DrainDoes(Outbox!WriteSettles(b)))
         /\ \A c \in {"drain", "renew"} : WF_vars(DrainDoes(Outbox!CallStep(b, c)))
         /\ WF_vars(DrainDoes(drain[b].pc = "idle" /\ Outbox!Maintenance(b)))
         /\ WF_vars(DrainDoes(Outbox!Restart(b)))

\* Windows open, summarizers return and promises are resumed.
CompactionIsFair ==
    \A j \in 1 .. MaxJobs :
        WF_vars(instance = "compaction" /\ Compaction!JobStep(j) /\ UNCHANGED compactStays)

Spec ==
    /\ Init /\ [][Next]_vars
    /\ BeatIsFair /\ HooksAreFair /\ DrainIsFair /\ CompactionIsFair

-----------------------------------------------------------------------------
(* Properties: those of the modules, each on its instances.                *)

\* The books of the flow controller balance, also when the engine fails: the
\* counter of a key is the number of runs that hold a slot of it, and the two
\* maps of the singleton policy are inverse to each other.  They are true while
\* the engine does what it is told: two runs with one singleton key are never
\* live at once, and whatever executes is counted.
CountsMatch ==
    /\ instance = "flow" => Flow!TypeOK /\ Flow!OneLivePerKey /\ Flow!CountedWhileRunning
    /\ instance = "brokenFlow" =>
         BrokenFlow!TypeOK /\ BrokenFlow!CountsMatch /\ BrokenFlow!ClaimsMatch

\* Once stop() has returned, no tick of a loop is in flight until start() is
\* called again; and while start() waits for the last loop, there is one loop
\* at most and none sleeps on in a heartbeat that is stopped.
StopIsABoundary ==
    /\ instance = "restarts" => Restarts!TypeOK /\ Restarts!StopIsABoundary
    /\ instance = "patient" => Patiently!NoTickStacking /\ Patiently!StopWakes

\* A chunk that has returned its state is not carried out again, preempted or
\* not.  When the chunks heed their signal the job also ends where it said it
\* was done, and is given up only when one chunk has used up its retries.
EachChunkOnce ==
    /\ instance = "stubborn" => Stubborn!TypeOK /\ Stubborn!EachChunkOnce
    /\ instance = "heedful" => Heedful!DoneIsTheEnd /\ Heedful!RetriesPerChunk

\* A restart does not notify again: the attempts for an id are all made by the
\* process that wrote its record; and no delivery that the owner's signal caught
\* under way stays pending.
NotifiedByOneProcess ==
    instance = "hooks" =>
        Hooks!TypeOK /\ Hooks!NotifiedByOneProcess /\ Hooks!AbortIsRecorded

\* What a service owes to those who have called it: the stop() of a heartbeat or
\* the dispose() of the notifier that has not returned, a delivery that has used up
\* its attempts and is not in the audit trail, and a compaction that was asked for
\* and is not settled, unless a stream or a tool call holds it up.
Owes ==
    \/ instance = "patient" /\ stopping = "waiting"
    \/ instance = "calmHooks" /\ disposal = "waiting"
    \/ instance = "calmHooks" /\ \E i \in Ids \ audited : record[i] = "exhausted"
    \/ instance = "compaction" /\ Compaction!Unsettled # {} /\ boundary

\* Whoever waits for a service gets an answer: stop() and dispose() return although
\* ticks and deliveries go on, fail and are retried, exhausted deliveries are
\* audited, and no cancellation, deferral or retry loses a request to compact.
ShutdownReturns == Owes ~> ~Owes

\* Every fact of the outbox is replayed and retired in the end: no claim of a
\* dead process, failed write or join at the wrong moment strands it.
EveryFactIsRetired ==
    (instance = "drain" /\ DOMAIN entries # {}) ~>
        (instance = "drain" /\ DOMAIN entries = {})

\* Compaction takes nothing away: every write that was acknowledged is in the
\* history or in the summary that stands for it, and a summary that comes back
\* after its request was cancelled or the conversation was closed is not published.
PublishesOnlyFresh ==
    [][instance = "compaction" => Compaction!PublishesInTime /\ Compaction!NoWriteIsLost']_vars

\* Summaries never overlap, although a cancelled summarizer may run on while a new
\* request is served; a request is settled once, and new ones only join a job that
\* can still be cancelled.
OneSummaryAtATime ==
    instance = "compaction" =>
        /\ Compaction!TypeOK /\ Compaction!OneSummaryAtATime
        /\ Compaction!CountsAddUp /\ Compaction!JoinsALiveJob
=============================================================================
