-------------------------------- MODULE Runs ---------------------------------
(***************************************************************************)
(* The loop of an agent's run, and the closing of a run.  Different runs   *)
(* do not meet; the initial state picks one of them with its               *)
(* configuration, and only that one moves.  The variables of the component *)
(* that is not picked stay Unused.                                         *)
(***************************************************************************)
EXTENDS Naturals, Sequences, FiniteSets

CONSTANTS
    Loops, Closings,    \* the runs of which the loop, and the closing, is looked at
    Calls, Aborts,      \* Calls[n]: a set of calls if n loops, a batch if it closes
    \* Of each loop: RunLoop explains the parameters.
    maximumSteps, maxErrorRetries, RetryAttempts, RetryDelays, WithOutput, schemaRetries,
    MaxCommands, AppliedFloor, StepAborts, MayReject, AfterThrows,
    \* Of each closing: RunClosing explains them.
    Limit, FailFast, Swapped, Hooked, LateChildren, Children, Callers,
    Unused

VARIABLES
    instance,   \* the run that is picked
    \* The loop of a run (RunLoop).
    pc, step, aborted, stepAborted, paused, configVersion, woken, captured, lastApplied,
    stepRetryCount, attempt, response, dangling, executing, billed, recorded, unrecorded,
    steps, schemaAttempts, terminalEvents, finishReason,
    \* The closing of a run (RunClosing).
    loop, call, queue, failed, cancelRequested, listening, inFlightTools, seen, detaching,
    hook, child, other, stage, drained, watched, childrenDone, cached, answer

loopVars ==
    <<pc, step, aborted, stepAborted, paused, configVersion, woken, captured, lastApplied,
      stepRetryCount, attempt, response, dangling, executing, billed, recorded, unrecorded,
      steps, schemaAttempts, terminalEvents, finishReason>>
closingVars ==
    <<loop, call, queue, failed, cancelRequested, listening, inFlightTools, seen, detaching,
      hook, child, other, stage, drained, watched, childrenDone, cached, answer>>
vars == <<instance, loopVars, closingVars>>

L(n) == INSTANCE RunLoop WITH
    Calls <- Calls[n], maximumSteps <- maximumSteps[n], maxErrorRetries <- maxErrorRetries[n],
    RetryAttempts <- RetryAttempts[n], RetryDelays <- RetryDelays[n],
    WithOutput <- WithOutput[n], schemaRetries <- schemaRetries[n],
    MaxCommands <- MaxCommands[n], AppliedFloor <- AppliedFloor[n], Aborts <- Aborts[n],
    StepAborts <- StepAborts[n], MayReject <- MayReject[n], AfterThrows <- AfterThrows[n]

C(n) == INSTANCE RunClosing WITH
    Calls <- Calls[n], Limit <- Limit[n], FailFast <- FailFast[n], Swapped <- Swapped[n],
    Hooked <- Hooked[n], Aborts <- Aborts[n], LateChildren <- LateChildren[n],
    Children <- Children[n], Callers <- Callers[n]

ASSUME Apart == Loops \cap Closings = {}
ASSUME LoopInstances == \A n \in Loops : L(n)!LoopAssumption
ASSUME ClosingInstances == \A n \in Closings : C(n)!ClosingAssumption

NoLoop ==
    /\ pc = Unused /\ step = Unused /\ aborted = Unused /\ stepAborted = Unused
    /\ paused = Unused /\ configVersion = Unused /\ woken = Unused /\ captured = Unused
    /\ lastApplied = Unused /\ stepRetryCount = Unused /\ attempt = Unused
    /\ response = Unused /\ dangling = Unused /\ executing = Unused /\ billed = Unused
    /\ recorded = Unused /\ unrecorded = Unused /\ steps = Unused /\ schemaAttempts = Unused
    /\ terminalEvents = Unused /\ finishReason = Unused

NoClosing ==
    /\ loop = Unused /\ call = Unused /\ queue = Unused /\ failed = Unused
    /\ cancelRequested = Unused /\ listening = Unused /\ inFlightTools = Unused
    /\ seen = Unused /\ detaching = Unused /\ hook = Unused /\ child = Unused
    /\ other = Unused /\ stage = Unused /\ drained = Unused /\ watched = Unused
    /\ childrenDone = Unused /\ cached = Unused /\ answer = Unused

Init ==
    \/ \E n \in Loops : instance = n /\ L(n)!Init /\ NoClosing
    \/ \E n \in Closings : instance = n /\ C(n)!Init /\ NoLoop

LoopDoes(n, A) == instance = n /\ A /\ UNCHANGED <<instance, closingVars>>
ClosingDoes(n, A) == instance = n /\ A /\ UNCHANGED <<instance, loopVars>>

Next ==
    \/ \E n \in Loops : LoopDoes(n, L(n)!Next)
    \/ \E n \in Closings : ClosingDoes(n, C(n)!Next)

Spec == Init /\ [][Next]_vars

-----------------------------------------------------------------------------
(* Properties: those of the modules, each where it holds.                  *)

\* A run leaves a whole account of itself, wherever an abort, an error, a veto
\* or a retry stops it: every tool call in the conversation has a result, one
\* terminal event was sent, the final step is the last one, and what the provider
\* billed is in the usage, as long as nobody aborts and no hook throws after the
\* provider has answered.  A run whose result rejects, which takes something that
\* throws outside of a try, sends at most one terminal event, and no step before
\* its last one is final.
RunEndsWhole ==
    \A n \in Loops : instance = n =>
        /\ L(n)!TypeOK /\ L(n)!NoDanglingToolCall /\ L(n)!FinalIsLast
        /\ L(n)!OneTerminalEvent
        /\ ~MayReject[n] => finishReason # "rejected"
        /\ ~Aborts[n] /\ ~StepAborts[n] /\ ~AfterThrows[n] => L(n)!BilledIsRecorded

\* No step goes to work while the state it has read of the gate is paused, and
\* the version it works with has been announced as applied.
PauseHolds ==
    \A n \in Loops : instance = n => L(n)!PauseHolds /\ L(n)!AppliedIsWhatRuns

\* When closed() has answered, no callback, hook or child of the run is at
\* work, and all callers were told the same; and the count it rests on is that
\* of the run's own callbacks.
ClosedIsQuiet ==
    \A n \in Closings : instance = n =>
        /\ C(n)!TypeOK /\ C(n)!SameAnswer
        /\ C(n)!Steady => C(n)!CountsOwnCallbacks
        /\ C(n)!Tame => C(n)!CompletedIsQuiet
        /\ C(n)!Tame /\ ~Hooked[n] => C(n)!NotRequiredIsQuiet
=============================================================================
