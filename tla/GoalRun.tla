------------------------------- MODULE GoalRun -------------------------------
(***************************************************************************)
(* One durable goal: the controller workflow that drives it                *)
(* (operative/src/durable/goal-workflow.ts), the port that starts an       *)
(* attempt's run and the one that stops it (bureau/src/goal-ports.ts), the *)
(* fence every run reads before a step (goal-attempt-fence.ts), the        *)
(* forwarder (goal-forwarder.ts), cancel() (goal-cancellation.ts) and      *)
(* recover() (goal-recovery.ts), over the record of GoalRecord.            *)
(*                                                                         *)
(* Only the store, the claims and the engine survive a crash.  A durable   *)
(* activity runs at least once: its effect and its recorded answer are two *)
(* steps.  Weft is external: a workflow id has at most one live instance,  *)
(* a signal with a known id is delivered once to an instance, and a new    *)
(* instance has an empty inbox.                                            *)
(***************************************************************************)
EXTENDS GoalRecord

CONSTANTS
    Starts,                     \* slots for startAttempt calls in flight
    Hosts,                      \* cancel() and recover() callers; "boot" is one
    Calls,                      \* who calls what, "cancel" or "recover", once each
    DurationBound,              \* whether maximumTotalDurationMs is set
    MaximumControllerRestarts,  \* MAXIMUM_CONTROLLER_RESTARTS
    MaxTries,                   \* START_ATTEMPT_MAXIMUM_TRIES
    MaxIdleWakes,               \* MAXIMUM_CONSECUTIVE_IDLE_WAKES
    MaxRefusals,                \* MAXIMUM_CONSECUTIVE_REFUSALS
    MaxSteps,                   \* bound: steps of one run
    MaxTimeouts,                \* bound: starts that outlast their time
    MaxCrashes,                 \* bound: crashes
    MaxFaults,                  \* bound: engine and store calls of hosts that fail
    StartMayFail                \* whether a start may answer 'failed'

ASSUME GoalRunAssumption ==
    /\ "boot" \in Hosts /\ Starts # {} /\ None \notin Starts
    /\ Calls \subseteq (Hosts \ {"boot"}) \X {"cancel", "recover"}
    /\ {DurationBound, StartMayFail} \subseteq BOOLEAN
    /\ {MaximumControllerRestarts, MaxTimeouts, MaxCrashes,
        MaxFaults} \subseteq Nat
    /\ {MaxTries, MaxIdleWakes, MaxRefusals, MaxSteps} \subseteq Nat \ {0}

VARIABLES
    record,     \* the stored record
    elapsed,    \* the clock has passed the goal's deadline
    claim,      \* per attempt, its run's claim in the catalog
    run,        \* per attempt, its run in the engine
    ctl,        \* the controller workflow's instance
    finalizer,  \* the controller's finalizer, owed after a hard cancel
    start,      \* the startAttempt calls in flight
    watch,      \* attempts whose run the forwarder watches
    inbox,      \* per attempt, its terminal signal to the instance
    cancelSig,  \* the 'cancel' signal to the instance
    host,       \* the cancel() and recover() calls
    settled,    \* some call has answered 'canceled'
    used        \* what has been used of the bounds

vars == <<record, elapsed, claim, run, ctl, finalizer, start, watch, inbox,
          cancelSig, host, settled, used>>

Attempts == 1 .. MaximumAttempts

NoRun == [status |-> None, gate |-> "closed", steps |-> 0, finish |-> None]
NoStart == [pc |-> "idle", attempt |-> 0, timedOut |-> FALSE]
NoCall == [pc |-> "idle", op |-> None, rec |-> createGoalState, why |-> None,
           targets |-> {}, fenced |-> TRUE]
\* A faulty variant: no sweep at boot.
NoBootCall == NoCall

BootCall == [NoCall EXCEPT !.pc = "read", !.op = "recover"]
NoFinalizer == [pc |-> None, target |-> 0, first |-> 0]

\* staged is the last finalizer state, prior the one it replaced, which is
\* still the durable one until the next checkpoint; 0 is none.  gen is the
\* number of restarts counted when the instance was created.
NewController ==
    [status |-> "running", pc |-> "load", view |-> createGoalState,
     pending |-> None, request |-> None, answer |-> None, slot |-> None,
     tries |-> 0, idles |-> 0, refusals |-> 0, staged |-> 0, prior |-> 0,
     gen |-> 0]

NoController == [NewController EXCEPT !.status = None]

ControllerTerminal == {"completed", "failed", "cancelled"}

\* create(): the record is stored and ensureController starts the instance,
\* unless the process died in between.
Init ==
    /\ record = createGoalState
    /\ elapsed = FALSE
    /\ claim = [i \in Attempts |-> None]
    /\ run = [i \in Attempts |-> NoRun]
    /\ \/ ctl = NewController /\ host = [h \in Hosts |-> NoCall]
       \/ ctl = NoController /\ host = [h \in Hosts |-> IF h = "boot" THEN BootCall ELSE NoCall]
    /\ finalizer = NoFinalizer
    /\ start = [s \in Starts |-> NoStart]
    /\ watch = {}
    /\ inbox = [i \in Attempts |-> "empty"]
    /\ cancelSig = "empty"
    /\ settled = FALSE
    /\ used = [calls |-> {}, timeouts |-> 0, crashes |-> 0, faults |-> 0]

goalIsOver(withDeadline) ==
    \/ record.cancellation
    \/ isTerminal(record.status)
    \/ withDeadline /\ elapsed

-----------------------------------------------------------------------------
(* Stopping a run: tombstone its claim, then cancel it.                    *)

fenceAttempts(set) ==
    claim' = [i \in Attempts |-> IF i \in set THEN "tombstoned" ELSE claim[i]]

cancelRuns(set) ==
    run' = [i \in Attempts |->
              IF i \in set /\ run[i].status = "live"
              THEN [run[i] EXCEPT !.status = "cancelled", !.gate = "closed", !.finish = "aborted"]
              ELSE run[i]]

-----------------------------------------------------------------------------
(* The controller.  c below is the instance's next state.                  *)

Running(pc) == ctl.status = "running" /\ ctl.pc = pc

\* An instance that is over, and one back at the head of its loop, where
\* nothing of the last iteration is kept.
Over(c, status) == [NewController EXCEPT !.status = status, !.gen = c.gen]

ToLoad(c, idles, refusals) ==
    [NewController EXCEPT !.idles = idles, !.refusals = refusals,
                          !.staged = c.staged, !.prior = c.staged, !.gen = c.gen]

\* An iteration that committed nothing.
IdleWake(c) ==
    IF c.idles + 1 >= MaxIdleWakes THEN Over(c, "failed")
    ELSE ToLoad(c, c.idles + 1, c.refusals)

\* An activity's answer is recorded, and with it the staged finalizer state.
Checkpointed(c, pc) == [c EXCEPT !.pc = pc, !.prior = c.staged]

ToCommit(c, q) == [Checkpointed(c, "commit") EXCEPT !.request = q]

\* finishForced: abort the attempt, then commit.
ToForced(c, v, reason) ==
    [c EXCEPT !.pc = "abort", !.view = v, !.request = buildGoalForcedFinish(v, reason)]

\* The segment that advance() chooses for the record just read.
advance(c, v) ==
    IF v.cancellation THEN ToForced(c, v, "goalCanceled")
    ELSE IF elapsed THEN ToForced(c, v, "budget")
    ELSE IF v.status = "running" THEN [c EXCEPT !.pc = "wait"]
    ELSE IF v.status = "evaluating" THEN [c EXCEPT !.pc = "validate"]
    ELSE IF Len(v.attempts) >= MaximumAttempts THEN ToForced(c, v, "attemptLimit")
    ELSE [c EXCEPT !.pc = "start", !.slot = None, !.tries = 0]

loadGoalState ==
    /\ Running("load")
    /\ ctl' = IF isTerminal(record.status)
              THEN Over(ctl, "completed")
              ELSE advance([ctl EXCEPT !.view = record, !.staged = attemptToStop(record)],
                           record)
    /\ UNCHANGED <<record, elapsed, claim, run, finalizer, start, watch, inbox,
                   cancelSig, host, settled, used>>

\* abortAttempt: nothing for an index past the bound, else fence, then cancel.
ControllerFences ==
    /\ Running("abort")
    /\ fenceAttempts({attemptToStop(ctl.view)})
    /\ ctl' = [ctl EXCEPT !.pc = "abortRun"]
    /\ UNCHANGED <<record, elapsed, run, finalizer, start, watch, inbox,
                   cancelSig, host, settled, used>>

ControllerStops ==
    /\ Running("abortRun")
    /\ cancelRuns({attemptToStop(ctl.view)})
    /\ ctl' = Checkpointed(ctl, "commit")
    /\ UNCHANGED <<record, elapsed, claim, finalizer, start, watch, inbox,
                   cancelSig, host, settled, used>>

commitTransition ==
    /\ Running("commit")
    /\ record' = applyTransition(ctl.request, record)
    /\ ctl' = [ctl EXCEPT !.pc = "committed",
                          !.answer = evaluateTransition(ctl.request, record)]
    /\ UNCHANGED <<elapsed, claim, run, finalizer, start, watch, inbox,
                   cancelSig, host, settled, used>>

ADOPTABLE_REJECTIONS == {"terminal", "cancellation-requested", "decision-already-recorded"}

\* The answer is recorded: success, a refusal to adopt, or a failure.
AfterCommit(c) ==
    IF c.answer \in {"applied", "duplicate"}
    THEN ToLoad(c, 0, 0)
    ELSE IF c.answer \in ADOPTABLE_REJECTIONS \cup {"stale"} /\ c.refusals + 1 < MaxRefusals
    THEN ToLoad(c, 0, c.refusals + 1)
    ELSE Over(c, "failed")

CommitRecorded ==
    /\ Running("committed")
    /\ ctl' = AfterCommit(ctl)
    /\ UNCHANGED <<record, elapsed, claim, run, finalizer, start, watch, inbox,
                   cancelSig, host, settled, used>>

\* openAttempt: a try of startAttempt begins in a free slot.
TryStart(s) ==
    /\ Running("start") /\ ctl.slot = None
    /\ start[s].pc = "idle"
    /\ start' = [start EXCEPT ![s] = [pc |-> "check", attempt |-> Len(ctl.view.attempts) + 1,
                                      timedOut |-> FALSE]]
    /\ ctl' = [ctl EXCEPT !.slot = s, !.tries = @ + 1]
    /\ UNCHANGED <<record, elapsed, claim, run, finalizer, watch, inbox,
                   cancelSig, host, settled, used>>

\* Weft gives up on a try, which goes on in the background; the last one fails
\* the controller.
TryTimesOut ==
    /\ Running("start") /\ ctl.slot # None
    /\ used.timeouts < MaxTimeouts
    /\ used' = [used EXCEPT !.timeouts = @ + 1]
    /\ start' = [start EXCEPT ![ctl.slot].timedOut = TRUE]
    /\ ctl' = IF ctl.tries < MaxTries THEN [ctl EXCEPT !.slot = None]
              ELSE Over(ctl, "failed")
    /\ UNCHANGED <<record, elapsed, claim, run, finalizer, watch, inbox,
                   cancelSig, host, settled>>

\* A faulty variant: the run is taken to have ended before it is read to have.
AttemptWinsEarly ==
    /\ Running("wait")
    /\ ctl' = [Checkpointed(ctl, "reread") EXCEPT !.pending = "stop"]
    /\ UNCHANGED <<record, elapsed, claim, run, finalizer, start, watch, inbox,
                   cancelSig, host, settled, used>>

\* awaitAttempt: the race between the run's end, a cancel and the deadline.
AttemptWins ==
    /\ Running("wait")
    /\ LET i == Len(ctl.view.attempts)
       IN  /\ inbox[i] = "full"
           /\ inbox' = [inbox EXCEPT ![i] = "taken"]
           /\ ctl' = [Checkpointed(ctl, "reread") EXCEPT !.pending = run[i].finish]
    /\ UNCHANGED <<record, elapsed, claim, run, finalizer, start, watch,
                   cancelSig, host, settled, used>>

CancelOrDeadlineWins ==
    /\ Running("wait")
    /\ \/ cancelSig = "full" /\ cancelSig' = "taken"
       \/ elapsed /\ UNCHANGED cancelSig
    /\ ctl' = IdleWake(ctl)
    /\ UNCHANGED <<record, elapsed, claim, run, finalizer, start, watch, inbox,
                   host, settled, used>>

\* validate: the validator's verdict, or the deadline first.
runValidator ==
    /\ Running("validate")
    /\ \/ \E verdict \in Verdicts :
            ctl' = [Checkpointed(ctl, "reread") EXCEPT !.pending = verdict]
       \/ elapsed /\ ctl' = IdleWake(ctl)
    /\ UNCHANGED <<record, elapsed, claim, run, finalizer, start, watch, inbox,
                   cancelSig, host, settled, used>>

\* The commit that the answer asks for, built from the record re-read.
AnswerCommit(v, answer) ==
    IF answer = "startFailed" THEN buildStartFailure(v)
    ELSE IF answer = "stop" THEN buildEvaluationStarted(v)
    ELSE IF answer \in {"aborted", "broken"} THEN buildRunFinishDecision(v, answer)
    ELSE buildValidationDecision(v, answer)

\* The re-read before an answer is applied: the marker, the status, the clock.
Overtaken(v) == v.cancellation \/ v.status # ctl.view.status \/ v.seq # ctl.view.seq

Reread ==
    /\ Running("reread")
    /\ ctl' = IF Overtaken(record) THEN IdleWake(ctl)
              ELSE IF elapsed
              THEN IF ctl.pending \in {"stop", "aborted", "broken"} THEN IdleWake(ctl)
                   ELSE ToForced(ctl, record, "budget")
              ELSE ToCommit(ctl, AnswerCommit(record, ctl.pending))
    /\ UNCHANGED <<record, elapsed, claim, run, finalizer, start, watch, inbox,
                   cancelSig, host, settled, used>>

-----------------------------------------------------------------------------
(* The startAttempt port, call s.                                          *)

\* The call answers; the controller takes the answer of a try it waits for.
Answer(s, a) ==
    /\ start' = [start EXCEPT ![s] = NoStart]
    /\ ctl' = IF Running("start") /\ ctl.slot = s
              THEN IF a = "stood-down" THEN IdleWake(ctl)
                   ELSE IF a = "failed"
                   THEN [Checkpointed(ctl, "reread") EXCEPT !.pending = "startFailed"]
                   ELSE ToCommit(ctl, buildOpenAttempt(ctl.view))
              ELSE ctl

StartGoes(s, pc) == start' = [start EXCEPT ![s].pc = pc] /\ UNCHANGED ctl

mustStandDown(s, withDeadline) == start[s].timedOut \/ goalIsOver(withDeadline)

\* The first read of the goal, and of who holds the run id.
StartChecks(s) ==
    /\ start[s].pc = "check"
    /\ \/ mustStandDown(s, TRUE) /\ Answer(s, "stood-down")
       \/ ~ mustStandDown(s, TRUE) /\ StartGoes(s, "adopt")
       \/ ~ mustStandDown(s, TRUE) /\ StartMayFail /\ Answer(s, "failed")
    /\ UNCHANGED <<record, elapsed, claim, run, finalizer, watch, inbox,
                   cancelSig, host, settled, used>>

\* adopt(): does the run exist already?
StartAdopts(s) ==
    /\ start[s].pc = "adopt"
    /\ StartGoes(s, IF run[start[s].attempt].status # None THEN "adopting" ELSE "seat")
    /\ UNCHANGED <<record, elapsed, claim, run, finalizer, watch, inbox,
                   cancelSig, host, settled, used>>

StartAdopted(s) ==
    /\ start[s].pc = "adopting"
    /\ IF mustStandDown(s, FALSE)
       THEN Answer(s, "stood-down") /\ UNCHANGED watch
       ELSE Answer(s, "adopted") /\ watch' = watch \cup {start[s].attempt}
    /\ UNCHANGED <<record, elapsed, claim, run, finalizer, inbox, cancelSig,
                   host, settled, used>>

\* The goal is read again around seating the conversation.
StartSeats(s) ==
    /\ start[s].pc = "seat"
    /\ IF mustStandDown(s, TRUE) THEN Answer(s, "stood-down") ELSE StartGoes(s, "claim")
    /\ UNCHANGED <<record, elapsed, claim, run, finalizer, watch, inbox,
                   cancelSig, host, settled, used>>

\* The claim is made, found to be ours, or found tombstoned; then the start
\* adopts a run that exists, or stands down.
StartClaims(s) ==
    LET i == start[s].attempt
    IN  /\ start[s].pc = "claim"
        /\ IF claim[i] = "tombstoned"
           THEN /\ IF run[i].status # None THEN StartGoes(s, "adopting")
                   ELSE Answer(s, "stood-down")
                /\ UNCHANGED claim
           ELSE claim' = [claim EXCEPT ![i] = "claimed"] /\ StartGoes(s, "create")
        /\ UNCHANGED <<record, elapsed, run, finalizer, watch, inbox, cancelSig,
                       host, settled, used>>

StartCreates(s) ==
    LET i == start[s].attempt
    IN  /\ start[s].pc = "create"
        /\ IF run[i].status = None
           THEN /\ run' = [run EXCEPT ![i].status = "live"]
                /\ StartGoes(s, "created")
           ELSE UNCHANGED run /\ StartGoes(s, "adopting")
        /\ UNCHANGED <<record, elapsed, claim, finalizer, watch, inbox,
                       cancelSig, host, settled, used>>

\* A faulty variant: a start that does not look back.
StartConfirmsBlindly(s) ==
    /\ start[s].pc = "created"
    /\ IF start[s].timedOut THEN Answer(s, "stood-down") /\ UNCHANGED watch
       ELSE Answer(s, "started") /\ watch' = watch \cup {start[s].attempt}
    /\ UNCHANGED <<record, elapsed, claim, run, finalizer, inbox, cancelSig,
                   host, settled, used>>

\* A goal that ended while its run started: the port stops the run itself.
StartConfirms(s) ==
    /\ start[s].pc = "created"
    /\ IF goalIsOver(TRUE) THEN StartGoes(s, "undo") /\ UNCHANGED watch
       ELSE IF start[s].timedOut THEN Answer(s, "stood-down") /\ UNCHANGED watch
       ELSE Answer(s, "started") /\ watch' = watch \cup {start[s].attempt}
    /\ UNCHANGED <<record, elapsed, claim, run, finalizer, inbox, cancelSig,
                   host, settled, used>>

StartFences(s) ==
    /\ start[s].pc = "undo"
    /\ fenceAttempts({start[s].attempt})
    /\ StartGoes(s, "undoRun")
    /\ UNCHANGED <<record, elapsed, run, finalizer, watch, inbox, cancelSig,
                   host, settled, used>>

StartStops(s) ==
    /\ start[s].pc = "undoRun"
    /\ cancelRuns({start[s].attempt})
    /\ Answer(s, "stood-down")
    /\ UNCHANGED <<record, elapsed, claim, finalizer, watch, inbox, cancelSig,
                   host, settled, used>>

-----------------------------------------------------------------------------
(* The attempt's run i: a step is taken only behind the fence, which reads *)
(* the record and then the claim.                                          *)

\* A faulty variant: a run need not wait until its attempt is opened.
VerdictUnacknowledged(i) ==
    IF goalIsOver(TRUE) THEN "refuse"
    ELSE IF i >= Len(record.attempts) THEN "run" ELSE "refuse"

\* What mayRun makes of the record alone.
RecordVerdict(i) ==
    IF goalIsOver(TRUE) THEN "refuse"
    ELSE IF i = Len(record.attempts) + 1 THEN "await-open"
    ELSE IF /\ i = Len(record.attempts)
            /\ record.attempts[i].status = "running"
            /\ record.active = [kind |-> "attempt", attempt |-> i]
    THEN "run"
    ELSE "refuse"

FenceReadsRecord(i) ==
    /\ run[i].status = "live" /\ run[i].gate = "closed"
    /\ run' = IF RecordVerdict(i) = "refuse"
              THEN [run EXCEPT ![i].status = "ended", ![i].finish = "broken"]
              ELSE [run EXCEPT ![i].gate = RecordVerdict(i)]
    /\ UNCHANGED <<record, elapsed, claim, ctl, finalizer, start, watch, inbox,
                   cancelSig, host, settled, used>>

\* An unacknowledged run polls again, or gives up when its budget is spent.
FenceReadsClaim(i) ==
    /\ run[i].status = "live" /\ run[i].gate \in {"run", "await-open"}
    /\ IF claim[i] # "claimed"
       THEN run' = [run EXCEPT ![i].status = "ended", ![i].gate = "closed",
                               ![i].finish = "broken"]
       ELSE IF run[i].gate = "run" THEN run' = [run EXCEPT ![i].gate = "open"]
       ELSE run' = [run EXCEPT ![i].gate = "closed"]
    /\ UNCHANGED <<record, elapsed, claim, ctl, finalizer, start, watch, inbox,
                   cancelSig, host, settled, used>>

GivesUpWaiting(i) ==
    /\ run[i].status = "live" /\ run[i].gate = "await-open"
    /\ run' = [run EXCEPT ![i].status = "ended", ![i].gate = "closed", ![i].finish = "broken"]
    /\ UNCHANGED <<record, elapsed, claim, ctl, finalizer, start, watch, inbox,
                   cancelSig, host, settled, used>>

\* A step, after which the run goes on or ends: "stop" is 'stop-condition', and
\* "broken" any finish reason but that and 'aborted'.
Step(i) ==
    /\ run[i].status = "live" /\ run[i].gate = "open"
    /\ \/ /\ run[i].steps + 1 < MaxSteps
          /\ run' = [run EXCEPT ![i].gate = "closed", ![i].steps = @ + 1]
       \/ \E finish \in {"stop", "broken"} :
            run' = [run EXCEPT ![i].status = "ended", ![i].gate = "closed",
                               ![i].steps = @ + 1, ![i].finish = finish]
    /\ UNCHANGED <<record, elapsed, claim, ctl, finalizer, start, watch, inbox,
                   cancelSig, host, settled, used>>

-----------------------------------------------------------------------------
(* The forwarder.                                                          *)

\* Signal i is delivered once to an instance, under its stable id.
Delivered(i) == [inbox EXCEPT ![i] = IF @ = "empty" THEN "full" ELSE @]

\* A send to an instance that has ended fails and is tried again, until the
\* goal is over.
forward(i) ==
    /\ i \in watch /\ run[i].status \in {"ended", "cancelled"}
    /\ IF goalIsOver(FALSE) THEN UNCHANGED inbox
       ELSE ctl.status = "running" /\ inbox' = Delivered(i)
    /\ watch' = watch \ {i}
    /\ UNCHANGED <<record, elapsed, claim, run, ctl, finalizer, start,
                   cancelSig, host, settled, used>>

-----------------------------------------------------------------------------
(* cancel() and recover(), call h.  rec is the record the call last read,  *)
(* targets the attempts it has to stop, why what the stage is for.         *)

HostGoes(h, c) == host' = [host EXCEPT ![h] = c]
HostDone(h) == HostGoes(h, NoCall)

\* stopRuns(c.rec) comes next.
ToFence(c, v) ==
    [c EXCEPT !.pc = "fence", !.rec = v, !.targets = attemptIndexesToStop(v)]

\* A host's call to the engine or the store may fail; the caller goes on.
Faulty == used.faults < MaxFaults /\ used' = [used EXCEPT !.faults = @ + 1]

\* The first read: recoverGoal, and cancelGoal.
FirstRead(c, v) ==
    IF v.status = "canceled" THEN [c EXCEPT !.pc = "settle", !.rec = v]
    ELSE IF isTerminal(v.status)
    THEN IF c.op = "recover" /\ mayHaveOvertakenAStart(v)
         THEN [ToFence(c, v) EXCEPT !.why = "overtaken"] ELSE NoCall
    ELSE [c EXCEPT !.pc = IF c.op = "cancel" THEN "mark" ELSE "get", !.rec = v]

CallBegins(h, op) ==
    /\ host[h].pc = "idle"
    /\ <<h, op>> \in Calls \ used.calls
    /\ used' = [used EXCEPT !.calls = @ \cup {<<h, op>>}]
    /\ HostGoes(h, FirstRead([NoCall EXCEPT !.op = op], record))
    /\ UNCHANGED <<record, elapsed, claim, run, ctl, finalizer, start, watch,
                   inbox, cancelSig, settled>>

\* recoverGoalsAtBoot.
BootReads ==
    /\ host["boot"].pc = "read"
    /\ HostGoes("boot", FirstRead(host["boot"], record))
    /\ UNCHANGED <<record, elapsed, claim, run, ctl, finalizer, start, watch,
                   inbox, cancelSig, settled, used>>

\* The last restart may have been counted and not started yet: a question of
\* time, so both answers are possible until its instance exists.
finalRestartIsInFlight(c) == ctl.gen < c.rec.restarts

\* recoverController: what the engine says of the controller.
HostGets(h) ==
    LET c == host[h]
    IN  /\ c.pc = "get"
        /\ \/ /\ ctl.status = None
              /\ HostGoes(h, [c EXCEPT !.pc = "stand", !.why = "start"])
           \/ /\ ctl.status = "running"
              /\ HostGoes(h, [c EXCEPT !.pc = IF c.rec.cancellation THEN "end" ELSE "attempt"])
           \/ /\ ctl.status = "cancelled" \/ (ctl.status \in ControllerTerminal /\ c.rec.cancellation)
              /\ HostGoes(h, IF c.rec.cancellation THEN ToFence(c, c.rec)
                             ELSE [c EXCEPT !.pc = "mark"])
           \/ /\ ctl.status \in {"failed", "completed"} /\ ~ c.rec.cancellation
              /\ c.rec.restarts < MaximumControllerRestarts
              /\ HostGoes(h, [c EXCEPT !.pc = "stand", !.why = "count"])
           \/ /\ ctl.status \in {"failed", "completed"} /\ ~ c.rec.cancellation
              /\ c.rec.restarts >= MaximumControllerRestarts
              /\ \/ HostGoes(h, [ToFence(c, c.rec) EXCEPT !.why = "orphan"])
                 \/ finalRestartIsInFlight(c) /\ HostDone(h)
        /\ UNCHANGED <<record, elapsed, claim, run, ctl, finalizer, start, watch,
                       inbox, cancelSig, settled, used>>

standDownIfOvertaken(h) ==
    LET c == host[h]
    IN  /\ c.pc = "stand"
        /\ HostGoes(h, IF record.cancellation THEN [c EXCEPT !.pc = "end", !.rec = record]
                       ELSE IF isTerminal(record.status) THEN NoCall
                       ELSE [c EXCEPT !.pc = IF c.why = "count" THEN "count" ELSE "start"])
        /\ UNCHANGED <<record, elapsed, claim, run, ctl, finalizer, start, watch,
                       inbox, cancelSig, settled, used>>

recordControllerRestart(h) ==
    LET c == host[h]
    IN  /\ c.pc = "count"
        /\ record' = IF MayCountRestart(record, c.rec.restarts)
                     THEN [record EXCEPT !.restarts = @ + 1] ELSE record
        /\ HostGoes(h,
             IF MayCountRestart(record, c.rec.restarts)
             THEN [c EXCEPT !.pc = "stand", !.why = "restart"]
             ELSE IF isTerminal(record.status) THEN NoCall
             ELSE IF record.cancellation THEN [c EXCEPT !.pc = "end", !.rec = record]
             ELSE IF record.restarts # c.rec.restarts THEN [c EXCEPT !.pc = "attempt"]
             ELSE [ToFence(c, c.rec) EXCEPT !.why = "orphan"])
        /\ UNCHANGED <<elapsed, claim, run, ctl, finalizer, start, watch, inbox,
                       cancelSig, settled, used>>

\* Only a restart replaces an ended instance, and only once its finalizer is
\* over.
startController(h) ==
    LET c == host[h]
        replaces == c.why = "restart" /\ ctl.status \in ControllerTerminal
        teardown == finalizer.pc \notin {None, "succeeded"}
    IN  /\ c.pc = "start"
        /\ IF ctl.status = None \/ (replaces /\ ~ teardown)
           THEN /\ ctl' = [NewController EXCEPT !.gen = record.restarts]
                /\ inbox' = [i \in Attempts |-> "empty"]
                /\ cancelSig' = "empty"
                /\ finalizer' = NoFinalizer
           ELSE UNCHANGED <<ctl, inbox, cancelSig, finalizer>>
        /\ HostGoes(h, IF replaces /\ teardown THEN NoCall
                       ELSE [c EXCEPT !.pc = "attempt"])
        /\ UNCHANGED <<record, elapsed, claim, run, start, watch, settled, used>>

\* A faulty variant: a run that is alive is left to its old forwarder.
recoverAttemptUnwatched(h) ==
    LET i == Len(record.attempts)
    IN  /\ host[h].pc = "attempt"
        /\ inbox' = IF /\ record.status = "running" /\ ~ goalIsOver(FALSE)
                       /\ run[i].status # "live" /\ ctl.status = "running"
                    THEN Delivered(i) ELSE inbox
        /\ HostDone(h)
        /\ UNCHANGED <<record, elapsed, claim, run, ctl, finalizer, start, watch,
                       cancelSig, settled, used>>

\* recoverAttempt: signal again for a run that ended, watch one that lives.
recoverAttempt(h) ==
    LET i == Len(record.attempts)
    IN  /\ host[h].pc = "attempt"
        /\ IF record.status = "running" /\ ~ goalIsOver(FALSE)
           THEN IF run[i].status = "live" THEN watch' = watch \cup {i} /\ UNCHANGED inbox
                ELSE /\ inbox' = IF ctl.status = "running" THEN Delivered(i) ELSE inbox
                     /\ UNCHANGED watch
           ELSE UNCHANGED <<watch, inbox>>
        /\ HostDone(h)
        /\ UNCHANGED <<record, elapsed, claim, run, ctl, finalizer, start,
                       cancelSig, settled, used>>

\* The marker: cancelGoal's, or completeCancellation's for a controller that
\* was cancelled without one.
requestCancellationOf(h) ==
    LET c == host[h]
    IN  /\ c.pc = "mark"
        /\ record' = requestCancellation(record)
        /\ HostGoes(h,
             IF isTerminal(record.status) /\ record.status # "canceled" THEN NoCall
             ELSE IF c.op = "recover" THEN ToFence(c, record')
             ELSE IF isTerminal(record.status) THEN [c EXCEPT !.pc = "settle", !.rec = record]
             ELSE [c EXCEPT !.pc = "signal", !.rec = record'])
        /\ UNCHANGED <<elapsed, claim, run, ctl, finalizer, start, watch, inbox,
                       cancelSig, settled, used>>

HostSignals(h) ==
    /\ host[h].pc = "signal"
    /\ \/ /\ cancelSig' = IF ctl.status = "running" /\ cancelSig = "empty"
                          THEN "full" ELSE cancelSig
          /\ UNCHANGED used
       \/ Faulty /\ UNCHANGED cancelSig
    /\ HostGoes(h, [host[h] EXCEPT !.pc = "end"])
    /\ UNCHANGED <<record, elapsed, claim, run, ctl, finalizer, start, watch,
                   inbox, settled>>

\* engine.cancel of the controller: the generator dies where it is, and its
\* finalizer is owed with the state the last checkpoint kept.  The signal of
\* an activity in flight may or may not reach it.
cancelController ==
    /\ ctl.status = "running"
    /\ ctl' = Over(ctl, "cancelled")
    /\ \E target \in ctl.prior .. ctl.staged :
         finalizer' = IF target = 0 THEN NoFinalizer
                      ELSE [pc |-> "fence", target |-> target, first |-> target]
    /\ \/ UNCHANGED start
       \/ /\ ctl.pc = "start" /\ ctl.slot # None
          /\ start' = [start EXCEPT ![ctl.slot].timedOut = TRUE]

HostEnds(h) ==
    LET c == host[h]
        settling == [ToFence(c, c.rec) EXCEPT !.why = IF c.pc = "settle" THEN "settle" ELSE @]
    IN  /\ c.pc \in {"end", "settle"}
        /\ \/ cancelController /\ UNCHANGED used
           \/ ctl.status # "running" /\ UNCHANGED <<ctl, finalizer, start, used>>
           \/ ctl.status = "running" /\ Faulty /\ UNCHANGED <<ctl, finalizer, start>>
        /\ HostGoes(h, settling)
        /\ UNCHANGED <<record, elapsed, claim, run, watch, inbox, cancelSig, settled>>

\* stopRuns, stopOrphanedAttempts, stopOvertakenRuns: every claim, then every run.
HostFences(h) ==
    LET c == host[h]
    IN  /\ c.pc = "fence"
        /\ \/ /\ fenceAttempts(c.targets)
              /\ HostGoes(h, [c EXCEPT !.pc = "stop"])
              /\ UNCHANGED used
           \/ /\ Faulty
              /\ HostGoes(h, [c EXCEPT !.pc = "stop", !.fenced = FALSE])
              /\ UNCHANGED claim
        /\ UNCHANGED <<record, elapsed, run, ctl, finalizer, start, watch, inbox,
                       cancelSig, settled>>

\* cancel() then reads the record it commits over.
HostStops(h) ==
    LET c == host[h]
        next == IF c.why \in {"overtaken", "orphan"} THEN NoCall
                ELSE IF c.why = "settle" THEN [c EXCEPT !.pc = "readBack"]
                ELSE [c EXCEPT !.pc = "commit", !.rec = IF c.op = "cancel" THEN record ELSE @]
    IN  /\ c.pc = "stop"
        /\ \/ cancelRuns(c.targets) /\ UNCHANGED used
           \/ Faulty /\ UNCHANGED run
        /\ HostGoes(h, next)
        /\ UNCHANGED <<record, elapsed, claim, ctl, finalizer, start, watch,
                       inbox, cancelSig, settled>>

\* commitCancellation, and settleCancellationCommit's answer to a lost race.
commitCancellation(h) ==
    LET c == host[h]
        q == buildGoalForcedFinish(c.rec, "goalCanceled")
        over == isTerminal(c.rec.status)
        after == IF over THEN record ELSE applyTransition(q, record)
    IN  /\ c.pc = "commit"
        /\ record' = after
        /\ HostGoes(h,
             IF c.op = "cancel" \/ after.status = "canceled" THEN [c EXCEPT !.pc = "readBack"]
             ELSE IF ~ isTerminal(after.status) /\ evaluateTransition(q, record) = "stale"
             THEN [c EXCEPT !.rec = record] ELSE NoCall)
        /\ UNCHANGED <<elapsed, claim, run, ctl, finalizer, start, watch, inbox,
                       cancelSig, settled, used>>

\* A faulty variant: the record alone is read back.
unfinishedRecord(c) == record.status # "canceled"

\* unfinishedAfterCancellation.
unfinished(c) ==
    \/ record.status # "canceled"
    \/ ctl.status = "running"
    \/ finalizer.pc \notin {None, "succeeded"}
    \/ \E i \in c.targets : run[i].status = "live"

readBack(h) ==
    LET c == host[h]
    IN  /\ c.pc = "readBack"
        /\ settled' = (settled \/ (c.fenced /\ ~ unfinished(c)))
        /\ HostDone(h)
        /\ UNCHANGED <<record, elapsed, claim, run, ctl, finalizer, start, watch,
                       inbox, cancelSig, used>>

-----------------------------------------------------------------------------
(* The finalizer: the staged attempt, then the one the record names now.   *)

FinalizerFences ==
    /\ finalizer.pc = "fence"
    /\ fenceAttempts({finalizer.target})
    /\ finalizer' = [finalizer EXCEPT !.pc = "stop"]
    /\ UNCHANGED <<record, elapsed, run, ctl, start, watch, inbox, cancelSig,
                   host, settled, used>>

FinalizerStops ==
    /\ finalizer.pc = "stop"
    /\ cancelRuns({finalizer.target})
    /\ finalizer' = [finalizer EXCEPT
                        !.pc = IF finalizer.target = finalizer.first THEN "read" ELSE "succeeded"]
    /\ UNCHANGED <<record, elapsed, claim, ctl, start, watch, inbox, cancelSig,
                   host, settled, used>>

FinalizerReads ==
    /\ finalizer.pc = "read"
    /\ finalizer' = IF attemptToStop(record) = finalizer.first
                    THEN [finalizer EXCEPT !.pc = "succeeded"]
                    ELSE [finalizer EXCEPT !.pc = "fence", !.target = attemptToStop(record)]
    /\ UNCHANGED <<record, elapsed, claim, run, ctl, start, watch, inbox,
                   cancelSig, host, settled, used>>

-----------------------------------------------------------------------------
(* The environment.                                                        *)

DeadlinePasses ==
    /\ DurationBound /\ ~ elapsed
    /\ elapsed' = TRUE
    /\ UNCHANGED <<record, claim, run, ctl, finalizer, start, watch, inbox,
                   cancelSig, host, settled, used>>

\* A recovered instance repeats the activity whose answer was not recorded,
\* and stages every older target again as it replays.
Replayed(c) ==
    LET pc == IF c.pc = "abortRun" THEN "abort"
              ELSE IF c.pc = "committed" THEN "commit" ELSE c.pc
    IN  IF c.status # "running" THEN c
        ELSE [c EXCEPT !.pc = pc, !.slot = None, !.tries = 0,
                       !.prior = IF @ = 0 THEN 0 ELSE 1]

\* The process dies: everything in memory is lost; recoverAll resumes the
\* workflows, and the boot sweep runs beside them.
Crash ==
    /\ used.crashes < MaxCrashes
    /\ used' = [used EXCEPT !.crashes = @ + 1]
    /\ ctl' = Replayed(ctl)
    /\ run' = [i \in Attempts |-> [run[i] EXCEPT !.gate = "closed"]]
    /\ finalizer' = IF finalizer.pc \in {None, "succeeded"} THEN finalizer
                    ELSE [finalizer EXCEPT !.pc = "fence", !.target = finalizer.first]
    /\ start' = [s \in Starts |-> NoStart]
    /\ watch' = {}
    /\ host' = [h \in Hosts |-> IF h = "boot" THEN BootCall ELSE NoCall]
    /\ UNCHANGED <<record, elapsed, claim, inbox, cancelSig, settled>>

-----------------------------------------------------------------------------
Controller ==
    \/ loadGoalState \/ ControllerFences \/ ControllerStops
    \/ commitTransition \/ CommitRecorded
    \/ (\E s \in Starts : TryStart(s))
    \/ AttemptWins \/ CancelOrDeadlineWins \/ runValidator \/ Reread

StartPort(s) ==
    \/ StartChecks(s) \/ StartAdopts(s) \/ StartAdopted(s) \/ StartSeats(s)
    \/ StartClaims(s) \/ StartCreates(s) \/ StartConfirms(s)
    \/ StartFences(s) \/ StartStops(s)

AttemptRun(i) == FenceReadsRecord(i) \/ FenceReadsClaim(i) \/ Step(i)

HostCall(h) ==
    \/ HostGets(h) \/ standDownIfOvertaken(h) \/ recordControllerRestart(h)
    \/ startController(h) \/ recoverAttempt(h) \/ requestCancellationOf(h)
    \/ HostSignals(h) \/ HostEnds(h) \/ HostFences(h) \/ HostStops(h)
    \/ commitCancellation(h) \/ readBack(h)

Finalizer == FinalizerFences \/ FinalizerStops \/ FinalizerReads

Next ==
    \/ Controller \/ TryTimesOut
    \/ \E s \in Starts : StartPort(s)
    \/ \E i \in Attempts : AttemptRun(i) \/ GivesUpWaiting(i) \/ forward(i)
    \/ \E h \in Hosts : HostCall(h)
    \/ \E call \in Calls : CallBegins(call[1], call[2])
    \/ BootReads
    \/ Finalizer
    \/ DeadlinePasses \/ Crash

Spec == Init /\ [][Next]_vars

\* Weft drives a live instance and a finalizer that is owed, a run polls or
\* steps, and a promise that nothing blocks is settled.
FairSpec ==
    /\ Spec
    /\ WF_vars(Controller)
    /\ \A s \in Starts : WF_vars(StartPort(s))
    /\ \A i \in Attempts : WF_vars(AttemptRun(i)) /\ WF_vars(forward(i))
    /\ \A h \in Hosts : WF_vars(HostCall(h))
    /\ WF_vars(BootReads)
    /\ WF_vars(Finalizer)

-----------------------------------------------------------------------------
(* Properties.                                                             *)

Answers == {None, "applied", "duplicate", "stale", "terminal", "oversized",
            "cancellation-requested", "illegal-transition", "invalid-attempt",
            "decision-already-recorded", "invalid-record"}

\* Every variable keeps its shape, and the stored record always decodes
\* (goal-state.ts isGoalState), so no reader finds it corrupt.
TypeOK ==
    /\ record.status \in Status /\ record.seq \in Nat /\ record.restarts \in Nat
    /\ \A i \in DOMAIN record.attempts : record.attempts[i] \in Attempt
    /\ isGoalState(record)
    /\ elapsed \in BOOLEAN /\ settled \in BOOLEAN
    /\ claim \in [Attempts -> {None, "claimed", "tombstoned"}]
    /\ run \in [Attempts -> [status : {None, "live", "ended", "cancelled"},
                             gate : {"closed", "run", "await-open", "open"},
                             steps : 0 .. MaxSteps, finish : {None, "stop", "aborted", "broken"}]]
    /\ ctl.status \in {None, "running"} \cup ControllerTerminal
    /\ ctl.answer \in Answers
    /\ watch \subseteq Attempts
    /\ inbox \in [Attempts -> {"empty", "full", "taken"}]
    /\ cancelSig \in {"empty", "full", "taken"}

\* The fence's rule (goal-attempt-fence.ts): a run is let through to a step only
\* while it is the last attempt the record opened and still running there, or
\* the goal has just been canceled over it.
StepsOnlyAcknowledged ==
    \A i \in Attempts :
        run[i].status = "live" /\ run[i].gate = "open" =>
            /\ i = Len(record.attempts)
            /\ record.attempts[i].status = "running" \/ record.status = "canceled"

\* Attempts never overlap: at most one run of a goal can still take a step or
\* wait for one, whatever timed-out starts, recoveries and crashes did.
AtMostOneLiveRun ==
    \A i, j \in Attempts : run[i].status = "live" /\ run[j].status = "live" => i = j

\* Once cancel() or recover() has answered 'canceled' (goal-cancellation.ts
\* readBack), no run of the goal is ever let through to a step again.
CanceledMeansQuiet ==
    settled => \A i \in Attempts : ~ (run[i].status = "live" /\ run[i].gate = "open")

\* A controller ends failed only when every try of a start timed out: none of its
\* commits is ever refused for good, and it never spins (goal-workflow.ts
\* MAXIMUM_CONSECUTIVE_REFUSALS, MAXIMUM_CONSECUTIVE_IDLE_WAKES).
OnlyTimeoutsFail == ctl.status = "failed" => used.timeouts >= MaxTries

\* Once cancel() or recover() has answered 'canceled', no run of the goal is let
\* through to a step again; and however the answer came about, the stored record
\* decodes, and the controller has neither been refused for good nor spun.
CancelKeepsItsWord == TypeOK /\ CanceledMeansQuiet /\ OnlyTimeoutsFail

\* Nothing is left behind: once a goal is over and nobody works on it any more, no
\* run of it is alive, a late one that a timed-out start created included.  The
\* ending of a failed start, which stops nothing, is left to the run's own fence
\* (goal-recovery.ts mayHaveOvertakenAStart).
NothingLeftBehind ==
    /\ isTerminal(record.status) /\ record.reason # "startFailed"
    /\ used.crashes = 0 /\ used.faults = 0
    /\ ctl.status # "running" /\ finalizer.pc \in {None, "succeeded"}
    /\ \A s \in Starts : start[s].pc = "idle"
    /\ \A h \in Hosts : host[h].pc = "idle"
    => \A i \in Attempts : run[i].status # "live"

Phase(status) ==
    CASE status \in {"pending", "retrying"} -> "idle"
      [] status = "running" -> "attempt"
      [] status = "evaluating" -> "verdict"
      [] OTHER -> status

Lifecycle == INSTANCE GoalLifecycle WITH
    phase <- Phase(record.status), marked <- record.cancellation,
    opened <- Len(record.attempts), spent <- record.usage

\* Every write of the record, by the controller, cancel() or recover(), is a step
\* the abstract lifecycle allows.
ImplementsLifecycle == Lifecycle!LSpec

\* A cancellation that was recorded in time is carried through, by the caller, the
\* controller or the sweep of the next boot.
CancellationCompletes == record.cancellation ~> (record.status = "canceled")

\* A live controller comes to an end: neither a lost forwarder nor a crash leaves
\* it waiting (goal-forwarder.ts: three things keep a lost forwarder from parking
\* a goal forever).
ControllerFinishes == (ctl.status = "running") ~> (ctl.status # "running")

\* While the process lives, whoever starts or adopts a run also watches it, so the
\* controller is told of every end it waits for.
FinishesUnlessCrashed == <>(used.crashes > 0) \/ ControllerFinishes

\* A goal whose record says it waits for an attempt when the process comes back is
\* told of the run's end by the boot sweep (goal-recovery.ts recoverAttempt).
WaitingGoalIsResumed ==
    (used.crashes = MaxCrashes /\ host["boot"].pc = "read" /\ record.status = "running")
        ~> (ctl.status # "running")
=============================================================================
