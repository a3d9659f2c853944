------------------------------ MODULE RunLoop -------------------------------
(***************************************************************************)
(* The agent loop: executeLoop() runs runStep() until a step stops the run, *)
(* aborts it or fails, or maximumSteps is reached.  A step passes the       *)
(* boundary (abort, pause, backpressure), prepares, generates, executes the *)
(* tool calls of the response and evaluates the stop conditions.            *)
(*                                                                         *)
(* Every await is a step of its own, so that an abort of the run, an        *)
(* abortStep() by a hook, a pause or a resume may come at any of them.      *)
(* Hooks, the provider and the toolbox are external: what they answer is a  *)
(* choice.  A response is the set of its tool calls; whether the provider   *)
(* has billed it, and whether the run has accounted for it, is counted.     *)
(***************************************************************************)
EXTENDS Naturals, Sequences

CONSTANTS
    Calls,              \* the tool calls a response may ask for
    maximumSteps,
    maxErrorRetries,    \* retries of a step by its onError hook
    RetryAttempts,      \* retry.attempts of a generate call
    RetryDelays,        \* whether retry.delay is positive
    WithOutput,         \* whether the run has an output schema
    schemaRetries,
    MaxCommands,        \* bound: steering commands
    AppliedFloor,       \* the version the session has applied before this run
    Aborts,             \* whether the run may be aborted
    StepAborts,         \* whether hooks call abortStep()
    MayReject,          \* whether what is called, or appended, outside of a try may throw
    AfterThrows         \* whether a hook may throw once the provider has answered

LoopAssumption ==
    /\ maximumSteps \in Nat \ {0} /\ RetryAttempts \in Nat \ {0}
    /\ {maxErrorRetries, schemaRetries, MaxCommands, AppliedFloor} \subseteq Nat
    /\ {RetryDelays, WithOutput, Aborts, StepAborts, MayReject, AfterThrows} \subseteq BOOLEAN

VARIABLES
    pc,
    step,
    aborted,        \* the run's signal
    stepAborted,    \* the signal of this step
    paused,         \* the gate's desired state
    configVersion,
    woken,          \* whether the gate has released the waiting run
    captured,       \* steeringDesiredState: what this step has read of the gate
    lastApplied,    \* lastAppliedConfigVersion
    stepRetryCount,
    attempt,        \* of callGenerateWithRetry
    response,       \* the calls of the response
    dangling,       \* calls appended to the conversation that have no result yet
    executing,      \* callsToExecute
    billed,         \* responses the provider has billed
    recorded,       \* responses accumulated into totalUsage
    unrecorded,     \* whether the response at hand was billed
    steps,          \* the `final` of each recorded step
    schemaAttempts,
    terminalEvents,
    finishReason

steering == <<paused, configVersion>>
reading == <<captured, lastApplied>>
usage == <<billed, recorded, unrecorded>>
results == <<steps, schemaAttempts>>
ending == <<terminalEvents, finishReason>>
vars == <<pc, step, aborted, stepAborted, steering, woken, reading, stepRetryCount, attempt,
          response, dangling, executing, usage, results, ending>>

Init ==
    /\ pc = "start" /\ step = 0
    /\ aborted = FALSE /\ stepAborted = FALSE
    /\ paused = FALSE /\ configVersion = 0 /\ woken = FALSE
    /\ captured = [paused |-> FALSE, version |-> 0]
    /\ lastApplied = AppliedFloor
    /\ stepRetryCount = 0 /\ attempt = 0
    /\ response = {} /\ dangling = {} /\ executing = {}
    /\ billed = 0 /\ recorded = 0 /\ unrecorded = FALSE
    /\ steps = <<>> /\ schemaAttempts = 0
    /\ terminalEvents = 0 /\ finishReason = "none"

-----------------------------------------------------------------------------
(* The ends of a run: each emits one terminal event, run.completed or        *)
(* run.aborted (a run.error that precedes it is not one of them).           *)
(* runHookSilently() starts the hook of the end outside of any try: if it    *)
(* throws at once the result rejects, after the event or, for onRunError     *)
(* of an error, in its place.                                                *)

Ended(reason) ==
    /\ pc' = "ended"
    /\ finishReason' = reason
    /\ terminalEvents' = terminalEvents + 1

\* runStep() throws, and with it executeLoop(): the result rejects.
Rejected ==
    /\ MayReject
    /\ pc' = "ended" /\ finishReason' = "rejected"
    /\ UNCHANGED terminalEvents

makeAbortResult == Ended("aborted") \/ (MayReject /\ Ended("rejected"))
makeErrorResult == Ended("error") \/ Rejected
makeCompletedResult(reason) == Ended(reason) \/ (MayReject /\ Ended("rejected"))

\* The outcomes `next` and `continue`: the loop's step++.
Continue ==
    /\ step' = step + 1
    /\ pc' = IF step + 1 < maximumSteps THEN "boundary" ELSE "maximum"
    /\ UNCHANGED ending

Goto(where) == pc' = where /\ UNCHANGED ending

-----------------------------------------------------------------------------
(* The start and the boundary of a step.                                    *)

\* The gate's floor is read outside of any try; onRunStart is called in one.
startRunLifecycle ==
    /\ pc = "start"
    /\ Goto("boundary") \/ makeErrorResult \/ Rejected
    /\ UNCHANGED <<step, aborted, stepAborted, steering, woken, reading, stepRetryCount, attempt,
                   response, dangling, executing, usage, results>>

\* Read the gate; an applied version above the last is announced.
ReadGate ==
    /\ captured' = [paused |-> paused, version |-> configVersion]
    /\ lastApplied' = IF configVersion > lastApplied THEN configVersion ELSE lastApplied

\* The planned selection is revalidated, and backpressure may impose a delay; both
\* revalidate() and beforeStep() are called outside of any try.
EnterStep == makeErrorResult \/ Rejected \/ Goto("held") \/ Goto("prepare")

boundary ==
    /\ pc = "boundary"
    /\ IF aborted
       THEN makeAbortResult /\ UNCHANGED reading
       ELSE ReadGate /\ (IF paused THEN Goto("paused") ELSE EnterStep)
    /\ stepAborted' = FALSE
    /\ woken' = FALSE
    /\ stepRetryCount' = 0 /\ attempt' = 0
    /\ response' = {} /\ executing' = {}
    /\ UNCHANGED <<step, aborted, steering, dangling, usage, results>>

\* A faulty variant: the waiting run does not look at its signal.
abortWins_deaf ==
    /\ pc = "paused" /\ aborted /\ woken
    /\ makeAbortResult
    /\ UNCHANGED <<step, aborted, stepAborted, steering, woken, reading, stepRetryCount, attempt,
                   response, dangling, executing, usage, results>>

\* awaitResumeOrAbort(): the abort wins the race.
abortWins ==
    /\ pc = "paused" /\ aborted
    /\ makeAbortResult
    /\ UNCHANGED <<step, aborted, stepAborted, steering, woken, reading, stepRetryCount, attempt,
                   response, dangling, executing, usage, results>>

\* A faulty variant: one resume is enough, whatever the gate says by then.
resumeWins_once ==
    /\ pc = "paused" /\ woken
    /\ ReadGate
    /\ IF aborted THEN makeAbortResult ELSE EnterStep
    /\ woken' = FALSE
    /\ UNCHANGED <<step, aborted, stepAborted, steering, stepRetryCount, attempt,
                   response, dangling, executing, usage, results>>

\* The resume wins: the gate is read again, and it may be paused again.
resumeWins ==
    /\ pc = "paused" /\ woken
    /\ ReadGate
    /\ IF paused THEN Goto("paused")
       ELSE IF aborted THEN makeAbortResult ELSE EnterStep
    /\ woken' = FALSE
    /\ UNCHANGED <<step, aborted, stepAborted, steering, stepRetryCount, attempt,
                   response, dangling, executing, usage, results>>

\* The delay that backpressure imposes is over, or the run is aborted.
afterBackpressure ==
    /\ pc = "held"
    /\ IF aborted THEN makeAbortResult ELSE Goto("prepare")
    /\ UNCHANGED <<step, aborted, stepAborted, steering, woken, reading, stepRetryCount, attempt,
                   response, dangling, executing, usage, results>>

\* Compaction, whose hooks and whose onCompact are called in a try; not in one are the
\* tokenEstimator, the scheduler's cancel(), and selectTools and selectToolChoice.
prepareStep ==
    /\ pc = "prepare"
    /\ Goto("generate") \/ makeErrorResult \/ Rejected
    /\ UNCHANGED <<step, aborted, stepAborted, steering, woken, reading, stepRetryCount, attempt,
                   response, dangling, executing, usage, results>>

-----------------------------------------------------------------------------
(* Generation.                                                              *)

\* A prepareStep hook gives the response itself, or generate() is called; a hook may
\* throw, and a tripwire ends the run at once.
executeGeneration ==
    /\ pc = "generate"
    /\ \/ \E asked \in SUBSET Calls :
              Goto("responded") /\ response' = asked /\ unrecorded' = FALSE /\ UNCHANGED attempt
       \/ Goto("generating") /\ attempt' = 1 /\ UNCHANGED <<response, unrecorded>>
       \/ (Goto("caught") \/ makeErrorResult) /\ UNCHANGED <<attempt, response, unrecorded>>
    /\ UNCHANGED <<step, aborted, stepAborted, steering, woken, reading, stepRetryCount,
                   dangling, executing, billed, recorded, results>>

\* The provider responds, and bills; an afterGenerate hook may throw, and a tripwire
\* ends the run at once.
generateResponds ==
    /\ pc = "generating"
    /\ billed' = billed + 1
    /\ \/ \E asked \in SUBSET Calls :
              Goto("responded") /\ response' = asked /\ unrecorded' = TRUE
       \/ /\ AfterThrows /\ (Goto("caught") \/ makeErrorResult)
          /\ UNCHANGED <<response, unrecorded>>
    /\ UNCHANGED <<step, aborted, stepAborted, steering, woken, reading, stepRetryCount, attempt,
                   dangling, executing, recorded, results>>

\* generate() throws.  Attempts are left and shouldRetry agrees: once more, unless
\* the signal ends the delay before it.  A tripwire ends the run at once.
generateThrows ==
    /\ pc = "generating"
    /\ \/ attempt < RetryAttempts /\ ~(RetryDelays /\ (aborted \/ stepAborted))
          /\ attempt' = attempt + 1 /\ Goto("generating")
       \/ Goto("caught") /\ UNCHANGED attempt
       \/ makeErrorResult /\ UNCHANGED attempt
    /\ UNCHANGED <<step, aborted, stepAborted, steering, woken, reading, stepRetryCount,
                   response, dangling, executing, usage, results>>

\* The onError hook retries or skips the step; without it backpressure is told, outside
\* of any try, and the run ends.
onGenerateError ==
    /\ pc = "caught"
    /\ \/ /\ stepRetryCount < maxErrorRetries
          /\ stepRetryCount' = stepRetryCount + 1
          /\ Goto("generate") /\ UNCHANGED step
       \/ Continue /\ UNCHANGED stepRetryCount
       \/ /\ Rejected \/ (IF aborted THEN makeAbortResult ELSE makeErrorResult)
          /\ UNCHANGED <<step, stepRetryCount>>
    /\ UNCHANGED <<aborted, stepAborted, steering, woken, reading, attempt,
                   response, dangling, executing, usage, results>>

accumulateUsage ==
    /\ recorded' = IF unrecorded THEN recorded + 1 ELSE recorded
    /\ unrecorded' = FALSE
    /\ UNCHANGED billed

\* The output guardrails.
validateResponse ==
    /\ pc = "responded"
    /\ \/ makeErrorResult /\ accumulateUsage
       \/ Goto("validated") /\ UNCHANGED usage
    /\ UNCHANGED <<step, aborted, stepAborted, steering, woken, reading, stepRetryCount, attempt,
                   response, dangling, executing, results>>

\* The response is taken: its usage, its message and its tool calls; unless the
\* run or the step has been aborted.  A call that is not JSON cannot be appended.
takeResponse ==
    /\ pc = "validated"
    /\ IF aborted
       THEN makeAbortResult /\ UNCHANGED <<step, usage, dangling>>
       ELSE IF stepAborted
       THEN Continue /\ UNCHANGED <<usage, dangling>>
       ELSE /\ accumulateUsage
            /\ \/ /\ dangling' = dangling \cup response
                  /\ Goto(IF response = {} THEN "finalize" ELSE "tools")
               \/ Rejected /\ UNCHANGED dangling
            /\ UNCHANGED step
    /\ UNCHANGED <<aborted, stepAborted, steering, woken, reading, stepRetryCount, attempt,
                   response, executing, results>>

-----------------------------------------------------------------------------
(* Tools.                                                                   *)

\* A faulty variant: calls that the hook has filtered out get no result.
beforeToolExecution_unsealed ==
    /\ pc = "tools"
    /\ \/ makeErrorResult /\ dangling' = {} /\ UNCHANGED executing
       \/ \E kept \in SUBSET response :
              /\ executing' = kept
              /\ Goto(IF kept = {} THEN "finalize" ELSE "executing")
              /\ UNCHANGED dangling
    /\ UNCHANGED <<step, aborted, stepAborted, steering, woken, reading, stepRetryCount, attempt,
                   response, usage, results>>

\* The hook may filter the calls; the others, or all if it throws, are sealed.
beforeToolExecution ==
    /\ pc = "tools"
    /\ \/ makeErrorResult /\ dangling' = {} /\ UNCHANGED executing
       \/ \E kept \in SUBSET response :
              /\ executing' = kept
              /\ dangling' = dangling \ (response \ kept)
              /\ Goto(IF kept = {} THEN "finalize" ELSE "executing")
    /\ UNCHANGED <<step, aborted, stepAborted, steering, woken, reading, stepRetryCount, attempt,
                   response, usage, results>>

\* execute() returns a result for every call (also for the cancelled ones), or it
\* rejects: the onError hook makes up results, or the calls are sealed.
executeTools ==
    /\ pc = "executing"
    /\ \/ Goto("executed") /\ UNCHANGED dangling
       \/ makeErrorResult /\ dangling' = {}
    /\ UNCHANGED <<step, aborted, stepAborted, steering, woken, reading, stepRetryCount, attempt,
                   response, executing, usage, results>>

\* The results are validated and appended; the originals, if the validation fails.
\* A result that is not JSON, or whose stream fails, cannot be appended, and what this
\* throws is not caught: the calls stay without results.
appendToolResults ==
    /\ pc = "executed"
    /\ \/ Rejected /\ UNCHANGED <<step, dangling>>
       \/ /\ dangling' = dangling \ executing
          /\ \/ makeErrorResult /\ UNCHANGED step
             \/ IF stepAborted /\ ~aborted THEN Continue
                ELSE (Goto("finalize") \/ makeErrorResult) /\ UNCHANGED step
    /\ UNCHANGED <<aborted, stepAborted, steering, woken, reading, stepRetryCount, attempt,
                   response, executing, usage, results>>

-----------------------------------------------------------------------------
(* The end of a step.                                                       *)

\* The content does not satisfy the schema: another step, if a retry is left.  The step
\* is no longer final once schemaRetryMessage(), outside of any try, has returned.
validateOutput ==
    /\ schemaAttempts' = schemaAttempts + 1
    /\ IF schemaAttempts + 1 <= schemaRetries
       THEN \/ Continue /\ steps' = Append(steps, FALSE)
            \/ Rejected /\ steps' = Append(steps, TRUE) /\ UNCHANGED step
       ELSE makeCompletedResult("stop-condition") /\ steps' = Append(steps, TRUE) /\ UNCHANGED step

\* Stop conditions, the onStep hook, the record of the step and its outcome.
finalizeStep ==
    /\ pc = "finalize"
    /\ \* a stop condition throws
       \/ makeErrorResult /\ steps' = Append(steps, FALSE) /\ UNCHANGED <<step, schemaAttempts>>
       \* onStep throws
       \/ makeErrorResult /\ UNCHANGED <<step, results>>
       \* no stop condition holds
       \/ Continue /\ steps' = Append(steps, FALSE) /\ UNCHANGED schemaAttempts
       \* one holds, and the output is what was asked for
       \/ /\ makeCompletedResult("stop-condition")
          /\ steps' = Append(steps, TRUE) /\ UNCHANGED <<step, schemaAttempts>>
       \* one holds, and the output is not
       \/ WithOutput /\ validateOutput
    /\ UNCHANGED <<aborted, stepAborted, steering, woken, reading, stepRetryCount, attempt,
                   response, dangling, executing, usage>>

\* onMaximumSteps may add a last message, or throw.
onMaximumSteps ==
    /\ pc = "maximum"
    /\ makeCompletedResult("maximum-steps") \/ makeErrorResult
    /\ UNCHANGED <<step, aborted, stepAborted, steering, woken, reading, stepRetryCount, attempt,
                   response, dangling, executing, usage, results>>

-----------------------------------------------------------------------------
(* Others.                                                                  *)

Abort ==
    /\ Aborts /\ ~aborted /\ pc # "ended"
    /\ aborted' = TRUE
    /\ UNCHANGED <<pc, step, stepAborted, steering, woken, reading, stepRetryCount, attempt,
                   response, dangling, executing, usage, results, ending>>

abortStep ==
    /\ StepAborts /\ ~stepAborted
    /\ pc \in {"generate", "generating", "responded", "executing"}
    /\ stepAborted' = TRUE
    /\ UNCHANGED <<pc, step, aborted, steering, woken, reading, stepRetryCount, attempt,
                   response, dangling, executing, usage, results, ending>>

\* A command to the gate: pause, resume (which releases the waiters) or a change
\* of the configuration.
Command ==
    /\ configVersion < MaxCommands /\ pc # "ended"
    /\ configVersion' = configVersion + 1
    /\ paused' \in BOOLEAN
    /\ woken' = (woken \/ (pc = "paused" /\ paused /\ ~paused'))
    /\ UNCHANGED <<pc, step, aborted, stepAborted, reading, stepRetryCount, attempt,
                   response, dangling, executing, usage, results, ending>>

Loop ==
    \/ startRunLifecycle \/ boundary \/ abortWins \/ resumeWins \/ afterBackpressure \/ prepareStep
    \/ executeGeneration \/ generateResponds \/ generateThrows \/ onGenerateError
    \/ validateResponse \/ takeResponse
    \/ beforeToolExecution \/ executeTools \/ appendToolResults
    \/ finalizeStep \/ onMaximumSteps

Next == Loop \/ Abort \/ abortStep \/ Command

Spec == Init /\ [][Next]_vars

-----------------------------------------------------------------------------

PCs == {"start", "boundary", "paused", "prepare", "held", "generate", "generating", "caught",
        "responded", "validated", "tools", "executing", "executed", "finalize", "maximum", "ended"}

TypeOK ==
    /\ pc \in PCs
    /\ step \in 0 .. maximumSteps
    /\ {aborted, stepAborted, paused, woken, unrecorded} \subseteq BOOLEAN
    /\ configVersion \in 0 .. MaxCommands
    /\ captured \in [paused : BOOLEAN, version : 0 .. MaxCommands]
    /\ lastApplied \in Nat
    /\ stepRetryCount \in 0 .. maxErrorRetries
    /\ attempt \in 0 .. RetryAttempts
    /\ dangling \subseteq Calls /\ executing \subseteq response /\ response \subseteq Calls
    /\ recorded \in Nat /\ billed \in Nat
    /\ Len(steps) <= maximumSteps
    /\ finishReason \in {"none", "aborted", "error", "rejected", "stop-condition", "maximum-steps"}

Working == pc \in {"prepare", "held", "generate", "generating", "caught", "responded", "validated",
                   "tools", "executing", "executed", "finalize"}

\* The conversation the provider is given, and the one the run leaves behind, has
\* a result for every tool call, unless the result rejects (sealDanglingToolCalls).
NoDanglingToolCall ==
    pc = "generating" \/ (pc = "ended" /\ finishReason # "rejected") => dangling = {}

\* A run says that it ends once, and not before it does; one whose result rejects
\* may do so without a word (makeAbortResult, makeErrorResult, makeCompletedResult).
OneTerminalEvent ==
    /\ terminalEvents \in {0, 1}
    /\ pc # "ended" => terminalEvents = 0
    /\ pc = "ended" /\ finishReason # "rejected" => terminalEvents = 1

\* Every response that was billed is part of the usage the run reports
\* (accumulateUsage).
BilledIsRecorded == pc = "ended" => recorded = billed

\* No step goes to work on a state of the gate that is paused: a pause that
\* follows a resume before the run has woken up holds (the loop at the boundary).
PauseHolds == Working => ~captured.paused

\* The version a step works with has been announced as applied, and versions are
\* announced in order, none below the floor (maybeDispatchSteeringApplied).
AppliedIsWhatRuns == Working => lastApplied >= captured.version /\ lastApplied >= AppliedFloor

\* No step but the last is final, and the last is exactly if the run stopped at it
\* (finalizeStep takes it back when the schema asks for another step); only a run
\* whose result rejects may leave a final step it was not going to stop at.
FinalIsLast ==
    \A i \in DOMAIN steps :
        /\ steps[i] => i = Len(steps) /\ finishReason \in {"stop-condition", "rejected"}
        /\ i = Len(steps) /\ finishReason = "stop-condition" => steps[i]
=============================================================================
