------------------------------ MODULE RunProofs ------------------------------
(***************************************************************************)
(* Proofs about Runs: the loop of any number of runs, with any tool calls, *)
(* any number of steps, retries and steering commands, and whatever is     *)
(* aborted or throws; and the closing of any number of runs, with a batch  *)
(* of any number of calls, any limit, any children and any callers of      *)
(* closed().                                                               *)
(***************************************************************************)
EXTENDS Runs, FiniteSetTheorems, FunctionTheorems, SequenceTheorems, TLAPS

-----------------------------------------------------------------------------
(* The loop.  A run is a sequence of steps, so most of the argument says   *)
(* what may be left over where: at which points calls without a result are *)
(* in the conversation, which calls still execute, and how far the record  *)
(* of the steps has come.                                                  *)

\* Where no call of the response at hand executes yet.
Between == {"start", "boundary", "paused", "prepare", "held", "generate", "generating",
            "caught", "responded", "validated"}

\* How far the run and its record have come: one record at most for each step
\* gone by, and that of the last step comes as the run ends.
ProgressInv(r) ==
    /\ pc \in L(r)!PCs
    /\ finishReason \in {"none", "aborted", "error", "rejected", "stop-condition", "maximum-steps"}
    /\ step \in Nat /\ step <= maximumSteps[r]
    /\ steps \in Seq(BOOLEAN) /\ Len(steps) <= maximumSteps[r]
    /\ pc # "ended" => Len(steps) <= step
    /\ pc \notin {"maximum", "ended"} => step < maximumSteps[r]

\* The signals, the gate and the response at hand: what is a flag, and the rest.
LoopFlagInv ==
    /\ aborted \in BOOLEAN /\ stepAborted \in BOOLEAN
    /\ paused \in BOOLEAN /\ woken \in BOOLEAN
    /\ unrecorded \in BOOLEAN

SteeringInv(r) ==
    /\ configVersion \in 0 .. MaxCommands[r]
    /\ captured \in [paused : BOOLEAN, version : 0 .. MaxCommands[r]]
    /\ lastApplied \in Nat

\* The response at hand, its calls and its retries.
ResponseInv(r) ==
    /\ stepRetryCount \in 0 .. maxErrorRetries[r]
    /\ attempt \in 0 .. RetryAttempts[r]
    /\ response \subseteq Calls[r] /\ executing \subseteq response /\ dangling \subseteq Calls[r]
    /\ pc \in Between \ {"start", "boundary"} => executing = {}
    /\ recorded \in Nat /\ billed \in Nat

LoopTypeInv(r) == ProgressInv(r) /\ LoopFlagInv /\ SteeringInv(r) /\ ResponseInv(r)

\* Which calls have no result yet.
DanglingInv ==
    /\ dangling # {} => pc \in {"tools", "executing", "executed"} \/ (pc = "ended" /\ finishReason = "rejected")
    /\ pc = "tools" => dangling \subseteq response
    /\ pc \in {"executing", "executed"} => dangling \subseteq executing

\* The end of a run is announced once, or at most once if its result rejects.
EndingInv(r) ==
    /\ pc = "ended" <=> finishReason # "none"
    /\ terminalEvents \in {0, 1}
    /\ pc # "ended" => terminalEvents = 0
    /\ pc = "ended" /\ finishReason # "rejected" => terminalEvents = 1
    /\ finishReason = "rejected" => MayReject[r]
    /\ L(r)!FinalIsLast

\* What a step has read of the gate.
GateInv(r) ==
    /\ lastApplied >= captured.version /\ lastApplied >= AppliedFloor[r]
    /\ L(r)!PauseHolds

\* What is billed and not counted is the response at hand, or is lost.
Pending == IF unrecorded THEN 1 ELSE 0
UsageInv == recorded + Pending <= billed

\* As long as nobody aborts and no hook throws after the provider has answered,
\* nothing is lost: what is billed and not counted is under examination.
ExactUsageInv ==
    /\ ~aborted /\ ~stepAborted
    /\ recorded + Pending = billed
    /\ unrecorded => pc \in {"responded", "validated"}

-----------------------------------------------------------------------------
(* Types.                                                                  *)

\* What the bounds are.
LEMMA LoopBounds ==
    ASSUME NEW r \in Loops
    PROVE  L(r)!LoopAssumption =>
               /\ maximumSteps[r] \in Nat /\ maximumSteps[r] > 0 /\ RetryAttempts[r] \in Nat /\ RetryAttempts[r] > 0
               /\ maxErrorRetries[r] \in Nat /\ schemaRetries[r] \in Nat /\ MaxCommands[r] \in Nat
               /\ AppliedFloor[r] \in Nat
BY DEF L!LoopAssumption

\* TypeInv is TypeOK and the progress of the record.
LEMMA LoopTypeInvTypes ==
    ASSUME NEW r \in Loops
    PROVE  L(r)!LoopAssumption /\ LoopTypeInv(r) => L(r)!TypeOK
<1> SUFFICES ASSUME L(r)!LoopAssumption, LoopTypeInv(r) PROVE L(r)!TypeOK
  OBVIOUS
<1>1. {aborted, stepAborted, paused, woken, unrecorded} \subseteq BOOLEAN
  BY DEF LoopTypeInv, LoopFlagInv
<1>2. step \in 0 .. maximumSteps[r]
  BY LoopBounds DEF LoopTypeInv, ProgressInv
<1> QED
  BY <1>1, <1>2 DEF LoopTypeInv, ProgressInv, SteeringInv, ResponseInv, L!TypeOK

\* The first state has its types.
LEMMA LoopTypeInit ==
    ASSUME NEW r \in Loops
    PROVE  L(r)!LoopAssumption /\ L(r)!Init => LoopTypeInv(r)
<1> SUFFICES ASSUME L(r)!LoopAssumption, L(r)!Init PROVE LoopTypeInv(r)
  OBVIOUS
<1>1. ProgressInv(r)
  BY LoopBounds DEF ProgressInv, L!Init, L!PCs
<1>2. LoopFlagInv
  BY Zenon DEF LoopFlagInv, L!Init
<1>3. SteeringInv(r)
  BY LoopBounds DEF SteeringInv, L!Init
<1>4. ResponseInv(r)
  BY LoopBounds DEF ResponseInv, L!Init
<1> QED
  BY <1>1, <1>2, <1>3, <1>4 DEF LoopTypeInv

\* No step of the run records twice, or is taken past the maximum.
LEMMA ProgressStep ==
    ASSUME NEW r \in Loops
    PROVE  L(r)!LoopAssumption /\ LoopTypeInv(r) /\ (L(r)!Next \/ UNCHANGED L(r)!vars) => ProgressInv(r)'
<1> SUFFICES ASSUME L(r)!LoopAssumption, LoopTypeInv(r), (L(r)!Next \/ UNCHANGED L(r)!vars) PROVE ProgressInv(r)'
  OBVIOUS
<1>0. ProgressInv(r) /\ maximumSteps[r] \in Nat /\ schemaRetries[r] \in Nat
  BY LoopBounds DEF LoopTypeInv
<1>1. CASE L(r)!startRunLifecycle
  BY <1>0, <1>1
     DEF L!startRunLifecycle, L!Rejected, L!makeErrorResult, L!Goto, L!Ended, L!steering, L!reading, L!usage,
         L!results, L!ending, ProgressInv, L!PCs
<1>2. CASE L(r)!boundary
  BY <1>0, <1>2
     DEF L!boundary, L!Rejected, L!makeAbortResult, L!makeErrorResult, L!Goto, L!ReadGate, L!EnterStep,
         L!Ended, L!steering, L!reading, L!usage, L!results, L!ending, ProgressInv, L!PCs
<1>3. CASE L(r)!abortWins
  BY <1>0, <1>3
     DEF L!abortWins, L!makeAbortResult, L!Ended, L!steering, L!reading, L!usage, L!results, ProgressInv, L!PCs
<1>4. CASE L(r)!resumeWins
  BY <1>0, <1>4
     DEF L!resumeWins, L!Rejected, L!makeAbortResult, L!makeErrorResult, L!Goto, L!ReadGate, L!EnterStep,
         L!Ended, L!steering, L!usage, L!results, L!ending, ProgressInv, L!PCs
<1>5. CASE L(r)!afterBackpressure
  BY <1>0, <1>5
     DEF L!afterBackpressure, L!makeAbortResult, L!Goto, L!Ended, L!steering, L!reading, L!usage, L!results,
         L!ending, ProgressInv, L!PCs
<1>6. CASE L(r)!prepareStep
  BY <1>0, <1>6
     DEF L!prepareStep, L!makeErrorResult, L!Rejected, L!Goto, L!Ended, L!steering, L!reading, L!usage,
         L!results, L!ending, ProgressInv, L!PCs
<1>7. CASE L(r)!executeGeneration
  BY <1>0, <1>7
     DEF L!executeGeneration, L!Rejected, L!makeErrorResult, L!Goto, L!Ended, L!steering, L!reading,
         L!results, L!ending, ProgressInv, L!PCs
<1>8. CASE L(r)!generateResponds
  BY <1>0, <1>8
     DEF L!generateResponds, L!makeErrorResult, L!Ended, L!Rejected, L!Goto, L!steering, L!reading, L!results,
         L!ending, ProgressInv, L!PCs
<1>9. CASE L(r)!generateThrows
  BY <1>0, <1>9
     DEF L!generateThrows, L!Rejected, L!makeErrorResult, L!Goto, L!Ended, L!steering, L!reading, L!usage,
         L!results, L!ending, ProgressInv, L!PCs
<1>10. CASE L(r)!onGenerateError
  BY <1>0, <1>10
     DEF L!onGenerateError, L!Rejected, L!makeAbortResult, L!makeErrorResult, L!Continue, L!Goto, L!Ended,
         L!steering, L!reading, L!usage, L!results, L!ending, ProgressInv, L!PCs
<1>11. CASE L(r)!validateResponse
  BY <1>0, <1>11
     DEF L!validateResponse, L!Rejected, L!makeErrorResult, L!Goto, L!accumulateUsage, L!Ended, L!steering,
         L!reading, L!usage, L!results, L!ending, ProgressInv, L!PCs
<1>12. CASE L(r)!takeResponse
  BY <1>0, <1>12
     DEF L!takeResponse, L!Rejected, L!makeAbortResult, L!Continue, L!Goto, L!accumulateUsage, L!Ended,
         L!steering, L!reading, L!usage, L!results, L!ending, ProgressInv, L!PCs
<1>13. CASE L(r)!beforeToolExecution
  BY <1>0, <1>13
     DEF L!beforeToolExecution, L!Rejected, L!makeErrorResult, L!Goto, L!Ended, L!steering, L!reading,
         L!usage, L!results, L!ending, ProgressInv, L!PCs
<1>14. CASE L(r)!executeTools
  BY <1>0, <1>14
     DEF L!executeTools, L!Rejected, L!makeErrorResult, L!Goto, L!Ended, L!steering, L!reading, L!usage,
         L!results, L!ending, ProgressInv, L!PCs
<1>15. CASE L(r)!appendToolResults
  BY <1>0, <1>15
     DEF L!appendToolResults, L!Rejected, L!makeErrorResult, L!Continue, L!Goto, L!Ended, L!steering,
         L!reading, L!usage, L!results, L!ending, ProgressInv, L!PCs
<1>16. CASE L(r)!finalizeStep
  <2>1. \A v \in BOOLEAN :
            Append(steps, v) \in Seq(BOOLEAN) /\ Len(Append(steps, v)) = Len(steps) + 1
    BY <1>0 DEF ProgressInv
  <2>2. steps' = steps \/ steps' = Append(steps, TRUE) \/ steps' = Append(steps, FALSE)
    BY <1>16 DEF L!finalizeStep, L!validateOutput, L!results
  <2>3. steps' \in Seq(BOOLEAN) /\ Len(steps') \in Nat /\ Len(steps') <= Len(steps) + 1
    <3>1. CASE steps' = steps
      BY <1>0, <3>1 DEF ProgressInv
    <3>2. CASE steps' = Append(steps, TRUE)
      BY <1>0, <2>1, <3>2 DEF ProgressInv
    <3>3. CASE steps' = Append(steps, FALSE)
      BY <1>0, <2>1, <3>3 DEF ProgressInv
    <3> QED
      BY <2>2, <3>1, <3>2, <3>3
  <2>4. step < maximumSteps[r] /\ Len(steps) \in Nat /\ Len(steps) <= step
    BY <1>0, <1>16 DEF L!finalizeStep, ProgressInv
  <2>5. \/ L(r)!Continue
        \/ /\ pc' = "ended" /\ step' = step
           /\ finishReason' \in {"error", "rejected", "stop-condition"}
    BY <1>16
       DEF L!finalizeStep, L!Rejected, L!validateOutput, L!makeErrorResult, L!makeCompletedResult, L!Ended,
           L!results
  <2> QED
    BY <1>0, <2>3, <2>4, <2>5 DEF L!Continue, L!ending, ProgressInv, L!PCs
<1>17. CASE L(r)!onMaximumSteps
  BY <1>0, <1>17
     DEF L!onMaximumSteps, L!Rejected, L!makeErrorResult, L!makeCompletedResult, L!Ended, L!steering,
         L!reading, L!usage, L!results, ProgressInv, L!PCs
<1>18. CASE L(r)!Abort
  BY <1>0, <1>18 DEF L!Abort, L!steering, L!reading, L!usage, L!results, L!ending, ProgressInv, L!PCs
<1>19. CASE L(r)!abortStep
  BY <1>0, <1>19 DEF L!abortStep, L!steering, L!reading, L!usage, L!results, L!ending, ProgressInv, L!PCs
<1>20. CASE L(r)!Command
  BY <1>0, <1>20 DEF L!Command, L!reading, L!usage, L!results, L!ending, ProgressInv, L!PCs
<1>21. CASE UNCHANGED L(r)!vars
  BY <1>0, <1>21 DEF L!vars, L!steering, L!reading, L!usage, L!results, L!ending, ProgressInv, L!PCs
<1> QED
  BY <1>1, <1>2, <1>3, <1>4, <1>5, <1>6, <1>7, <1>8, <1>9, <1>10, <1>11, <1>12, <1>13, <1>14,
     <1>15, <1>16, <1>17, <1>18, <1>19, <1>20, <1>21
     DEF L!Next, L!Loop

\* Flags stay flags.
LEMMA LoopFlagStep ==
    ASSUME NEW r \in Loops
    PROVE  L(r)!LoopAssumption /\ LoopTypeInv(r) /\ (L(r)!Next \/ UNCHANGED L(r)!vars) => LoopFlagInv'
<1> SUFFICES ASSUME L(r)!LoopAssumption, LoopTypeInv(r), (L(r)!Next \/ UNCHANGED L(r)!vars) PROVE LoopFlagInv'
  OBVIOUS
<1>0. LoopFlagInv
  BY DEF LoopTypeInv
<1>1. CASE L(r)!boundary
  BY Zenon, <1>0, <1>1
     DEF L!boundary, L!Rejected, L!makeAbortResult, L!makeErrorResult, L!Goto, L!ReadGate, L!EnterStep,
         L!Ended, L!steering, L!reading, L!usage, L!results, L!ending, LoopFlagInv
<1>2. CASE L(r)!resumeWins
  BY Zenon, <1>0, <1>2
     DEF L!resumeWins, L!Rejected, L!makeAbortResult, L!makeErrorResult, L!Goto, L!ReadGate, L!EnterStep,
         L!Ended, L!steering, L!usage, L!results, L!ending, LoopFlagInv
<1>3. CASE L(r)!executeGeneration
  BY Zenon, <1>0, <1>3
     DEF L!executeGeneration, L!Rejected, L!makeErrorResult, L!Goto, L!Ended, L!steering, L!reading,
         L!results, L!ending, LoopFlagInv
<1>4. CASE L(r)!generateResponds
  BY Zenon, <1>0, <1>4
     DEF L!generateResponds, L!makeErrorResult, L!Ended, L!Rejected, L!Goto, L!steering, L!reading, L!results,
         L!ending, LoopFlagInv
<1>5. CASE L(r)!validateResponse
  BY Zenon, <1>0, <1>5
     DEF L!validateResponse, L!Rejected, L!makeErrorResult, L!Goto, L!accumulateUsage, L!Ended, L!steering,
         L!reading, L!usage, L!results, L!ending, LoopFlagInv
<1>6. CASE L(r)!takeResponse
  BY Zenon, <1>0, <1>6
     DEF L!takeResponse, L!Rejected, L!makeAbortResult, L!Continue, L!Goto, L!accumulateUsage, L!Ended,
         L!steering, L!reading, L!usage, L!results, L!ending, LoopFlagInv
<1>7. CASE L(r)!Abort
  BY Zenon, <1>0, <1>7 DEF L!Abort, L!steering, L!reading, L!usage, L!results, L!ending, LoopFlagInv
<1>8. CASE L(r)!abortStep
  BY Zenon, <1>0, <1>8 DEF L!abortStep, L!steering, L!reading, L!usage, L!results, L!ending, LoopFlagInv
<1>9. CASE L(r)!Command
  BY Zenon, <1>0, <1>9 DEF L!Command, L!reading, L!usage, L!results, L!ending, LoopFlagInv
<1>10. CASE ~L(r)!boundary /\ ~L(r)!resumeWins /\ ~L(r)!executeGeneration /\ ~L(r)!generateResponds
               /\ ~L(r)!validateResponse /\ ~L(r)!takeResponse /\ ~L(r)!Abort /\ ~L(r)!abortStep /\ ~L(r)!Command
  <2>1. UNCHANGED <<aborted, stepAborted, paused, woken, unrecorded>>
    BY <1>10
       DEF L!Next, L!Loop, L!vars, L!steering, L!reading, L!usage, L!results, L!ending, L!Goto,
           L!startRunLifecycle, L!abortWins, L!afterBackpressure, L!prepareStep, L!generateThrows,
           L!onGenerateError, L!beforeToolExecution, L!executeTools, L!appendToolResults, L!finalizeStep,
           L!onMaximumSteps
  <2> QED
    BY Zenon, <1>0, <2>1 DEF LoopFlagInv
<1> QED
  BY <1>1, <1>2, <1>3, <1>4, <1>5, <1>6, <1>7, <1>8, <1>9, <1>10

\* What is read of the gate is what the gate said.
LEMMA SteeringStep ==
    ASSUME NEW r \in Loops
    PROVE  L(r)!LoopAssumption /\ LoopTypeInv(r) /\ (L(r)!Next \/ UNCHANGED L(r)!vars) => SteeringInv(r)'
<1> SUFFICES ASSUME L(r)!LoopAssumption, LoopTypeInv(r), (L(r)!Next \/ UNCHANGED L(r)!vars) PROVE SteeringInv(r)'
  OBVIOUS
<1>0. SteeringInv(r) /\ paused \in BOOLEAN /\ MaxCommands[r] \in Nat
  BY LoopBounds DEF LoopTypeInv, LoopFlagInv
<1>1. CASE L(r)!boundary
  BY <1>0, <1>1
     DEF L!boundary, L!Rejected, L!makeAbortResult, L!makeErrorResult, L!Goto, L!ReadGate, L!EnterStep,
         L!Ended, L!steering, L!reading, L!usage, L!results, L!ending, SteeringInv
<1>2. CASE L(r)!resumeWins
  BY <1>0, <1>2
     DEF L!resumeWins, L!Rejected, L!makeAbortResult, L!makeErrorResult, L!Goto, L!ReadGate, L!EnterStep,
         L!Ended, L!steering, L!usage, L!results, L!ending, SteeringInv
<1>3. CASE L(r)!Command
  BY <1>0, <1>3 DEF L!Command, L!reading, L!usage, L!results, L!ending, SteeringInv
<1>4. CASE ~L(r)!boundary /\ ~L(r)!resumeWins /\ ~L(r)!Command
  <2>1. UNCHANGED <<configVersion, captured, lastApplied>>
    BY <1>4
       DEF L!Next, L!Loop, L!vars, L!steering, L!reading, L!usage, L!results, L!ending, L!Goto,
           L!startRunLifecycle, L!abortWins, L!afterBackpressure, L!prepareStep, L!executeGeneration,
           L!generateResponds, L!generateThrows, L!onGenerateError, L!validateResponse, L!takeResponse,
           L!beforeToolExecution, L!executeTools, L!appendToolResults, L!finalizeStep, L!onMaximumSteps,
           L!Abort, L!abortStep
  <2> QED
    BY <1>0, <2>1 DEF SteeringInv
<1> QED
  BY <1>1, <1>2, <1>3, <1>4

\* Only calls of the response at hand execute, and those of the last are gone
\* before a new one comes.
LEMMA ResponseStep ==
    ASSUME NEW r \in Loops
    PROVE  L(r)!LoopAssumption /\ LoopTypeInv(r) /\ (L(r)!Next \/ UNCHANGED L(r)!vars) => ResponseInv(r)'
<1> SUFFICES ASSUME L(r)!LoopAssumption, LoopTypeInv(r), (L(r)!Next \/ UNCHANGED L(r)!vars) PROVE ResponseInv(r)'
  OBVIOUS
<1>0. ResponseInv(r) /\ RetryAttempts[r] \in Nat \ {0} /\ maxErrorRetries[r] \in Nat
  BY LoopBounds DEF LoopTypeInv
<1>1. CASE L(r)!startRunLifecycle
  BY <1>0, <1>1
     DEF L!startRunLifecycle, L!Rejected, L!makeErrorResult, L!Goto, L!Ended, L!steering, L!reading, L!usage,
         L!results, L!ending, ResponseInv, Between
<1>2. CASE L(r)!boundary
  BY <1>0, <1>2
     DEF L!boundary, L!Rejected, L!makeAbortResult, L!makeErrorResult, L!Goto, L!ReadGate, L!EnterStep,
         L!Ended, L!steering, L!reading, L!usage, L!results, L!ending, ResponseInv, Between
<1>3. CASE L(r)!abortWins
  BY <1>0, <1>3
     DEF L!abortWins, L!makeAbortResult, L!Ended, L!steering, L!reading, L!usage, L!results, ResponseInv,
         Between
<1>4. CASE L(r)!resumeWins
  BY <1>0, <1>4
     DEF L!resumeWins, L!Rejected, L!makeAbortResult, L!makeErrorResult, L!Goto, L!ReadGate, L!EnterStep,
         L!Ended, L!steering, L!usage, L!results, L!ending, ResponseInv, Between
<1>5. CASE L(r)!afterBackpressure
  BY <1>0, <1>5
     DEF L!afterBackpressure, L!makeAbortResult, L!Goto, L!Ended, L!steering, L!reading, L!usage, L!results,
         L!ending, ResponseInv, Between
<1>6. CASE L(r)!prepareStep
  BY <1>0, <1>6
     DEF L!prepareStep, L!makeErrorResult, L!Rejected, L!Goto, L!Ended, L!steering, L!reading, L!usage,
         L!results, L!ending, ResponseInv, Between
<1>7. CASE L(r)!executeGeneration
  BY <1>0, <1>7
     DEF L!executeGeneration, L!Rejected, L!makeErrorResult, L!Goto, L!Ended, L!steering, L!reading,
         L!results, L!ending, ResponseInv, Between
<1>8. CASE L(r)!generateResponds
  BY <1>0, <1>8
     DEF L!generateResponds, L!makeErrorResult, L!Ended, L!Rejected, L!Goto, L!steering, L!reading, L!results,
         L!ending, ResponseInv, Between
<1>9. CASE L(r)!generateThrows
  BY <1>0, <1>9
     DEF L!generateThrows, L!Rejected, L!makeErrorResult, L!Goto, L!Ended, L!steering, L!reading, L!usage,
         L!results, L!ending, ResponseInv, Between
<1>10. CASE L(r)!onGenerateError
  BY <1>0, <1>10
     DEF L!onGenerateError, L!Rejected, L!makeAbortResult, L!makeErrorResult, L!Continue, L!Goto, L!Ended,
         L!steering, L!reading, L!usage, L!results, L!ending, ResponseInv, Between
<1>11. CASE L(r)!validateResponse
  BY <1>0, <1>11
     DEF L!validateResponse, L!Rejected, L!makeErrorResult, L!Goto, L!accumulateUsage, L!Ended, L!steering,
         L!reading, L!usage, L!results, L!ending, ResponseInv, Between
<1>12. CASE L(r)!takeResponse
  BY <1>0, <1>12
     DEF L!takeResponse, L!Rejected, L!makeAbortResult, L!Continue, L!Goto, L!accumulateUsage, L!Ended,
         L!steering, L!reading, L!usage, L!results, L!ending, ResponseInv, Between
<1>13. CASE L(r)!beforeToolExecution
  BY <1>0, <1>13
     DEF L!beforeToolExecution, L!Rejected, L!makeErrorResult, L!Goto, L!Ended, L!steering, L!reading,
         L!usage, L!results, L!ending, ResponseInv, Between
<1>14. CASE L(r)!executeTools
  BY <1>0, <1>14
     DEF L!executeTools, L!Rejected, L!makeErrorResult, L!Goto, L!Ended, L!steering, L!reading, L!usage,
         L!results, L!ending, ResponseInv, Between
<1>15. CASE L(r)!appendToolResults
  BY <1>0, <1>15
     DEF L!appendToolResults, L!Rejected, L!makeErrorResult, L!Continue, L!Goto, L!Ended, L!steering,
         L!reading, L!usage, L!results, L!ending, ResponseInv, Between
<1>16. CASE L(r)!finalizeStep
  BY <1>0, <1>16
     DEF L!finalizeStep, L!Rejected, L!makeErrorResult, L!makeCompletedResult, L!Continue, L!validateOutput,
         L!Ended, L!steering, L!reading, L!usage, L!results, L!ending, ResponseInv, Between
<1>17. CASE L(r)!onMaximumSteps
  BY <1>0, <1>17
     DEF L!onMaximumSteps, L!Rejected, L!makeErrorResult, L!makeCompletedResult, L!Ended, L!steering,
         L!reading, L!usage, L!results, ResponseInv, Between
<1>18. CASE L(r)!Abort
  BY <1>0, <1>18 DEF L!Abort, L!steering, L!reading, L!usage, L!results, L!ending, ResponseInv, Between
<1>19. CASE L(r)!abortStep
  BY <1>0, <1>19 DEF L!abortStep, L!steering, L!reading, L!usage, L!results, L!ending, ResponseInv, Between
<1>20. CASE L(r)!Command
  BY <1>0, <1>20 DEF L!Command, L!reading, L!usage, L!results, L!ending, ResponseInv, Between
<1>21. CASE UNCHANGED L(r)!vars
  BY <1>0, <1>21 DEF L!vars, L!steering, L!reading, L!usage, L!results, L!ending, ResponseInv, Between
<1> QED
  BY <1>1, <1>2, <1>3, <1>4, <1>5, <1>6, <1>7, <1>8, <1>9, <1>10, <1>11, <1>12, <1>13, <1>14,
     <1>15, <1>16, <1>17, <1>18, <1>19, <1>20, <1>21
     DEF L!Next, L!Loop

\* The four together.
LEMMA LoopTypeStep ==
    ASSUME NEW r \in Loops
    PROVE  L(r)!LoopAssumption /\ LoopTypeInv(r) /\ (L(r)!Next \/ UNCHANGED L(r)!vars) => LoopTypeInv(r)'
BY ProgressStep, LoopFlagStep, SteeringStep, ResponseStep DEF LoopTypeInv

-----------------------------------------------------------------------------
(* The conversation.                                                        *)

\* Calls without a result are left only between the response and its results.
LEMMA DanglingStep ==
    ASSUME NEW r \in Loops
    PROVE  LoopTypeInv(r) /\ DanglingInv /\ (L(r)!Next \/ UNCHANGED L(r)!vars) => DanglingInv'
<1> SUFFICES ASSUME LoopTypeInv(r), DanglingInv, (L(r)!Next \/ UNCHANGED L(r)!vars) PROVE DanglingInv'
  OBVIOUS
<1>0. DanglingInv /\ executing \subseteq response
  BY DEF LoopTypeInv, ResponseInv
<1>1. CASE L(r)!startRunLifecycle
  BY <1>0, <1>1
     DEF L!startRunLifecycle, L!Rejected, L!makeErrorResult, L!Goto, L!Ended, L!steering, L!reading, L!usage,
         L!results, L!ending, DanglingInv
<1>2. CASE L(r)!boundary
  BY <1>0, <1>2
     DEF L!boundary, L!Rejected, L!makeAbortResult, L!makeErrorResult, L!Goto, L!ReadGate, L!EnterStep,
         L!Ended, L!steering, L!reading, L!usage, L!results, L!ending, DanglingInv
<1>3. CASE L(r)!abortWins
  BY <1>0, <1>3
     DEF L!abortWins, L!makeAbortResult, L!Ended, L!steering, L!reading, L!usage, L!results, DanglingInv
<1>4. CASE L(r)!resumeWins
  BY <1>0, <1>4
     DEF L!resumeWins, L!Rejected, L!makeAbortResult, L!makeErrorResult, L!Goto, L!ReadGate, L!EnterStep,
         L!Ended, L!steering, L!usage, L!results, L!ending, DanglingInv
<1>5. CASE L(r)!afterBackpressure
  BY <1>0, <1>5
     DEF L!afterBackpressure, L!makeAbortResult, L!Goto, L!Ended, L!steering, L!reading, L!usage, L!results,
         L!ending, DanglingInv
<1>6. CASE L(r)!prepareStep
  BY <1>0, <1>6
     DEF L!prepareStep, L!makeErrorResult, L!Rejected, L!Goto, L!Ended, L!steering, L!reading, L!usage,
         L!results, L!ending, DanglingInv
<1>7. CASE L(r)!executeGeneration
  BY <1>0, <1>7
     DEF L!executeGeneration, L!Rejected, L!makeErrorResult, L!Goto, L!Ended, L!steering, L!reading,
         L!results, L!ending, DanglingInv
<1>8. CASE L(r)!generateResponds
  BY <1>0, <1>8
     DEF L!generateResponds, L!makeErrorResult, L!Ended, L!Rejected, L!Goto, L!steering, L!reading, L!results,
         L!ending, DanglingInv
<1>9. CASE L(r)!generateThrows
  BY <1>0, <1>9
     DEF L!generateThrows, L!Rejected, L!makeErrorResult, L!Goto, L!Ended, L!steering, L!reading, L!usage,
         L!results, L!ending, DanglingInv
<1>10. CASE L(r)!onGenerateError
  BY <1>0, <1>10
     DEF L!onGenerateError, L!Rejected, L!makeAbortResult, L!makeErrorResult, L!Continue, L!Goto, L!Ended,
         L!steering, L!reading, L!usage, L!results, L!ending, DanglingInv
<1>11. CASE L(r)!validateResponse
  BY <1>0, <1>11
     DEF L!validateResponse, L!Rejected, L!makeErrorResult, L!Goto, L!accumulateUsage, L!Ended, L!steering,
         L!reading, L!usage, L!results, L!ending, DanglingInv
<1>12. CASE L(r)!takeResponse
  BY <1>0, <1>12
     DEF L!takeResponse, L!Rejected, L!makeAbortResult, L!Continue, L!Goto, L!accumulateUsage, L!Ended,
         L!steering, L!reading, L!usage, L!results, L!ending, DanglingInv
<1>13. CASE L(r)!beforeToolExecution
  BY <1>0, <1>13
     DEF L!beforeToolExecution, L!Rejected, L!makeErrorResult, L!Goto, L!Ended, L!steering, L!reading,
         L!usage, L!results, L!ending, DanglingInv
<1>14. CASE L(r)!executeTools
  BY <1>0, <1>14
     DEF L!executeTools, L!Rejected, L!makeErrorResult, L!Goto, L!Ended, L!steering, L!reading, L!usage,
         L!results, L!ending, DanglingInv
<1>15. CASE L(r)!appendToolResults
  BY <1>0, <1>15
     DEF L!appendToolResults, L!Rejected, L!makeErrorResult, L!Continue, L!Goto, L!Ended, L!steering,
         L!reading, L!usage, L!results, L!ending, DanglingInv
<1>16. CASE L(r)!finalizeStep
  BY <1>0, <1>16
     DEF L!finalizeStep, L!Rejected, L!makeErrorResult, L!makeCompletedResult, L!Continue, L!validateOutput,
         L!Ended, L!steering, L!reading, L!usage, L!results, L!ending, DanglingInv
<1>17. CASE L(r)!onMaximumSteps
  BY <1>0, <1>17
     DEF L!onMaximumSteps, L!Rejected, L!makeErrorResult, L!makeCompletedResult, L!Ended, L!steering,
         L!reading, L!usage, L!results, DanglingInv
<1>18. CASE L(r)!Abort
  BY <1>0, <1>18 DEF L!Abort, L!steering, L!reading, L!usage, L!results, L!ending, DanglingInv
<1>19. CASE L(r)!abortStep
  BY <1>0, <1>19 DEF L!abortStep, L!steering, L!reading, L!usage, L!results, L!ending, DanglingInv
<1>20. CASE L(r)!Command
  BY <1>0, <1>20 DEF L!Command, L!reading, L!usage, L!results, L!ending, DanglingInv
<1>21. CASE UNCHANGED L(r)!vars
  BY <1>0, <1>21 DEF L!vars, L!steering, L!reading, L!usage, L!results, L!ending, DanglingInv
<1> QED
  BY <1>1, <1>2, <1>3, <1>4, <1>5, <1>6, <1>7, <1>8, <1>9, <1>10, <1>11, <1>12, <1>13, <1>14,
     <1>15, <1>16, <1>17, <1>18, <1>19, <1>20, <1>21
     DEF L!Next, L!Loop

-----------------------------------------------------------------------------
(* The end.                                                                 *)

\* Nothing has ended at first.
LEMMA EndingInit ==
    ASSUME NEW r \in Loops
    PROVE  L(r)!Init => EndingInv(r)
<1> SUFFICES ASSUME L(r)!Init PROVE EndingInv(r)
  OBVIOUS
<1>1. DOMAIN steps = {}
  BY DEF L!Init
<1> QED
  BY <1>1 DEF L!Init, EndingInv, L!FinalIsLast

\* A step that does not end the run announces nothing, and none follows the end.
LEMMA EndingStep ==
    ASSUME NEW r \in Loops
    PROVE  LoopTypeInv(r) /\ EndingInv(r) /\ (L(r)!Next \/ UNCHANGED L(r)!vars) => EndingInv(r)'
<1> SUFFICES ASSUME LoopTypeInv(r), EndingInv(r), (L(r)!Next \/ UNCHANGED L(r)!vars) PROVE EndingInv(r)'
  OBVIOUS
<1>0. EndingInv(r) /\ steps \in Seq(BOOLEAN)
  BY DEF LoopTypeInv, ProgressInv
<1>1. CASE L(r)!startRunLifecycle
  BY <1>0, <1>1
     DEF L!startRunLifecycle, L!Rejected, L!makeErrorResult, L!Goto, L!Ended, L!steering, L!reading, L!usage,
         L!results, L!ending, EndingInv, L!FinalIsLast
<1>2. CASE L(r)!boundary
  BY <1>0, <1>2
     DEF L!boundary, L!Rejected, L!makeAbortResult, L!makeErrorResult, L!Goto, L!ReadGate, L!EnterStep,
         L!Ended, L!steering, L!reading, L!usage, L!results, L!ending, EndingInv, L!FinalIsLast
<1>3. CASE L(r)!abortWins
  BY <1>0, <1>3
     DEF L!abortWins, L!makeAbortResult, L!Ended, L!steering, L!reading, L!usage, L!results, EndingInv,
         L!FinalIsLast
<1>4. CASE L(r)!resumeWins
  BY <1>0, <1>4
     DEF L!resumeWins, L!Rejected, L!makeAbortResult, L!makeErrorResult, L!Goto, L!ReadGate, L!EnterStep,
         L!Ended, L!steering, L!usage, L!results, L!ending, EndingInv, L!FinalIsLast
<1>5. CASE L(r)!afterBackpressure
  BY <1>0, <1>5
     DEF L!afterBackpressure, L!makeAbortResult, L!Goto, L!Ended, L!steering, L!reading, L!usage, L!results,
         L!ending, EndingInv, L!FinalIsLast
<1>6. CASE L(r)!prepareStep
  BY <1>0, <1>6
     DEF L!prepareStep, L!makeErrorResult, L!Rejected, L!Goto, L!Ended, L!steering, L!reading, L!usage,
         L!results, L!ending, EndingInv, L!FinalIsLast
<1>7. CASE L(r)!executeGeneration
  BY <1>0, <1>7
     DEF L!executeGeneration, L!Rejected, L!makeErrorResult, L!Goto, L!Ended, L!steering, L!reading,
         L!results, L!ending, EndingInv, L!FinalIsLast
<1>8. CASE L(r)!generateResponds
  BY <1>0, <1>8
     DEF L!generateResponds, L!makeErrorResult, L!Ended, L!Rejected, L!Goto, L!steering, L!reading, L!results,
         L!ending, EndingInv, L!FinalIsLast
<1>9. CASE L(r)!generateThrows
  BY <1>0, <1>9
     DEF L!generateThrows, L!Rejected, L!makeErrorResult, L!Goto, L!Ended, L!steering, L!reading, L!usage,
         L!results, L!ending, EndingInv, L!FinalIsLast
<1>10. CASE L(r)!onGenerateError
  BY <1>0, <1>10
     DEF L!onGenerateError, L!Rejected, L!makeAbortResult, L!makeErrorResult, L!Continue, L!Goto, L!Ended,
         L!steering, L!reading, L!usage, L!results, L!ending, EndingInv, L!FinalIsLast
<1>11. CASE L(r)!validateResponse
  BY <1>0, <1>11
     DEF L!validateResponse, L!Rejected, L!makeErrorResult, L!Goto, L!accumulateUsage, L!Ended, L!steering,
         L!reading, L!usage, L!results, L!ending, EndingInv, L!FinalIsLast
<1>12. CASE L(r)!takeResponse
  BY <1>0, <1>12
     DEF L!takeResponse, L!Rejected, L!makeAbortResult, L!Continue, L!Goto, L!accumulateUsage, L!Ended,
         L!steering, L!reading, L!usage, L!results, L!ending, EndingInv, L!FinalIsLast
<1>13. CASE L(r)!beforeToolExecution
  BY <1>0, <1>13
     DEF L!beforeToolExecution, L!Rejected, L!makeErrorResult, L!Goto, L!Ended, L!steering, L!reading,
         L!usage, L!results, L!ending, EndingInv, L!FinalIsLast
<1>14. CASE L(r)!executeTools
  BY <1>0, <1>14
     DEF L!executeTools, L!Rejected, L!makeErrorResult, L!Goto, L!Ended, L!steering, L!reading, L!usage,
         L!results, L!ending, EndingInv, L!FinalIsLast
<1>15. CASE L(r)!appendToolResults
  BY <1>0, <1>15
     DEF L!appendToolResults, L!Rejected, L!makeErrorResult, L!Continue, L!Goto, L!Ended, L!steering,
         L!reading, L!usage, L!results, L!ending, EndingInv, L!FinalIsLast
<1>16. CASE L(r)!finalizeStep
  <2>1. finishReason = "none" /\ terminalEvents = 0 /\ pc = "finalize"
    BY <1>0, <1>16 DEF L!finalizeStep, EndingInv
  <2>2. \A i \in DOMAIN steps : ~steps[i]
    BY <1>0, <2>1 DEF EndingInv, L!FinalIsLast
  <2>3. CASE /\ steps' = Append(steps, TRUE)
             /\ L(r)!makeCompletedResult("stop-condition") \/ L(r)!Rejected
    <3>1. /\ pc' = "ended" /\ finishReason' \in {"stop-condition", "rejected"}
          /\ terminalEvents' \in {0, 1}
          /\ finishReason' = "stop-condition" => terminalEvents' = 1
          /\ finishReason' = "rejected" => MayReject[r]
      BY <2>1, <2>3 DEF L!makeCompletedResult, L!Ended, L!Rejected
    <3>2. /\ Len(steps') = Len(steps) + 1 /\ Len(steps) \in Nat
          /\ DOMAIN steps' = 1 .. Len(steps) + 1
          /\ \A i \in 1 .. Len(steps) : steps'[i] = steps[i]
          /\ steps'[Len(steps) + 1] = TRUE
      BY <1>0, <2>3
    <3>3. L(r)!FinalIsLast'
      BY <1>0, <2>2, <3>1, <3>2 DEF L!FinalIsLast
    <3> QED
      BY <3>1, <3>3 DEF EndingInv
  <2>4. CASE /\ steps' = steps \/ steps' = Append(steps, FALSE)
             /\ L(r)!Continue \/ L(r)!makeErrorResult
    <3>1. finishReason' # "stop-condition"
      BY <2>1, <2>4 DEF L!Continue, L!makeErrorResult, L!Rejected, L!Ended, L!ending
    <3>2. \A i \in DOMAIN steps' : ~steps'[i]
      <4>1. CASE steps' = steps
        BY <2>2, <4>1
      <4>2. CASE steps' = Append(steps, FALSE)
        BY <1>0, <2>2, <4>2
      <4> QED
        BY <2>4, <4>1, <4>2
    <3>3. L(r)!FinalIsLast'
      BY <3>1, <3>2 DEF L!FinalIsLast
    <3> QED
      BY <1>0, <2>1, <2>4, <3>3
         DEF EndingInv, L!Continue, L!makeErrorResult, L!Rejected, L!Ended, L!ending
  <2> QED
    BY <1>16, <2>3, <2>4 DEF L!finalizeStep, L!validateOutput, L!results
<1>17. CASE L(r)!onMaximumSteps
  BY <1>0, <1>17
     DEF L!onMaximumSteps, L!Rejected, L!makeErrorResult, L!makeCompletedResult, L!Ended, L!steering,
         L!reading, L!usage, L!results, EndingInv, L!FinalIsLast
<1>18. CASE L(r)!Abort
  BY <1>0, <1>18 DEF L!Abort, L!steering, L!reading, L!usage, L!results, L!ending, EndingInv, L!FinalIsLast
<1>19. CASE L(r)!abortStep
  BY <1>0, <1>19
     DEF L!abortStep, L!steering, L!reading, L!usage, L!results, L!ending, EndingInv, L!FinalIsLast
<1>20. CASE L(r)!Command
  BY <1>0, <1>20 DEF L!Command, L!reading, L!usage, L!results, L!ending, EndingInv, L!FinalIsLast
<1>21. CASE UNCHANGED L(r)!vars
  BY <1>0, <1>21 DEF L!vars, L!steering, L!reading, L!usage, L!results, L!ending, EndingInv, L!FinalIsLast
<1> QED
  BY <1>1, <1>2, <1>3, <1>4, <1>5, <1>6, <1>7, <1>8, <1>9, <1>10, <1>11, <1>12, <1>13, <1>14,
     <1>15, <1>16, <1>17, <1>18, <1>19, <1>20, <1>21
     DEF L!Next, L!Loop

-----------------------------------------------------------------------------
(* The gate.                                                                *)

\* A step enters its work with what it has just read of the gate.
LEMMA GateStep ==
    ASSUME NEW r \in Loops
    PROVE  L(r)!LoopAssumption /\ LoopTypeInv(r) /\ GateInv(r) /\ (L(r)!Next \/ UNCHANGED L(r)!vars) => GateInv(r)'
<1> SUFFICES ASSUME L(r)!LoopAssumption, LoopTypeInv(r), GateInv(r), (L(r)!Next \/ UNCHANGED L(r)!vars) PROVE GateInv(r)'
  OBVIOUS
<1>0. /\ GateInv(r) /\ AppliedFloor[r] \in Nat
      /\ configVersion \in Nat /\ lastApplied \in Nat /\ captured.version \in Nat
  BY LoopBounds DEF LoopTypeInv, SteeringInv
<1>1. CASE L(r)!startRunLifecycle
  BY <1>0, <1>1
     DEF L!startRunLifecycle, L!Rejected, L!makeErrorResult, L!Goto, L!Ended, L!steering, L!reading, L!usage,
         L!results, L!ending, GateInv, L!PauseHolds, L!Working
<1>2. CASE L(r)!boundary
  BY <1>0, <1>2
     DEF L!boundary, L!Rejected, L!makeAbortResult, L!makeErrorResult, L!Goto, L!ReadGate, L!EnterStep,
         L!Ended, L!steering, L!reading, L!usage, L!results, L!ending, GateInv, L!PauseHolds, L!Working
<1>3. CASE L(r)!abortWins
  BY <1>0, <1>3
     DEF L!abortWins, L!makeAbortResult, L!Ended, L!steering, L!reading, L!usage, L!results, GateInv,
         L!PauseHolds, L!Working
<1>4. CASE L(r)!resumeWins
  BY <1>0, <1>4
     DEF L!resumeWins, L!Rejected, L!makeAbortResult, L!makeErrorResult, L!Goto, L!ReadGate, L!EnterStep,
         L!Ended, L!steering, L!usage, L!results, L!ending, GateInv, L!PauseHolds, L!Working
<1>5. CASE L(r)!afterBackpressure
  BY <1>0, <1>5
     DEF L!afterBackpressure, L!makeAbortResult, L!Goto, L!Ended, L!steering, L!reading, L!usage, L!results,
         L!ending, GateInv, L!PauseHolds, L!Working
<1>6. CASE L(r)!prepareStep
  BY <1>0, <1>6
     DEF L!prepareStep, L!makeErrorResult, L!Rejected, L!Goto, L!Ended, L!steering, L!reading, L!usage,
         L!results, L!ending, GateInv, L!PauseHolds, L!Working
<1>7. CASE L(r)!executeGeneration
  BY <1>0, <1>7
     DEF L!executeGeneration, L!Rejected, L!makeErrorResult, L!Goto, L!Ended, L!steering, L!reading,
         L!results, L!ending, GateInv, L!PauseHolds, L!Working
<1>8. CASE L(r)!generateResponds
  BY <1>0, <1>8
     DEF L!generateResponds, L!makeErrorResult, L!Ended, L!Rejected, L!Goto, L!steering, L!reading, L!results,
         L!ending, GateInv, L!PauseHolds, L!Working
<1>9. CASE L(r)!generateThrows
  BY <1>0, <1>9
     DEF L!generateThrows, L!Rejected, L!makeErrorResult, L!Goto, L!Ended, L!steering, L!reading, L!usage,
         L!results, L!ending, GateInv, L!PauseHolds, L!Working
<1>10. CASE L(r)!onGenerateError
  BY <1>0, <1>10
     DEF L!onGenerateError, L!Rejected, L!makeAbortResult, L!makeErrorResult, L!Continue, L!Goto, L!Ended,
         L!steering, L!reading, L!usage, L!results, L!ending, GateInv, L!PauseHolds, L!Working
<1>11. CASE L(r)!validateResponse
  BY <1>0, <1>11
     DEF L!validateResponse, L!Rejected, L!makeErrorResult, L!Goto, L!accumulateUsage, L!Ended, L!steering,
         L!reading, L!usage, L!results, L!ending, GateInv, L!PauseHolds, L!Working
<1>12. CASE L(r)!takeResponse
  BY <1>0, <1>12
     DEF L!takeResponse, L!Rejected, L!makeAbortResult, L!Continue, L!Goto, L!accumulateUsage, L!Ended,
         L!steering, L!reading, L!usage, L!results, L!ending, GateInv, L!PauseHolds, L!Working
<1>13. CASE L(r)!beforeToolExecution
  BY <1>0, <1>13
     DEF L!beforeToolExecution, L!Rejected, L!makeErrorResult, L!Goto, L!Ended, L!steering, L!reading,
         L!usage, L!results, L!ending, GateInv, L!PauseHolds, L!Working
<1>14. CASE L(r)!executeTools
  BY <1>0, <1>14
     DEF L!executeTools, L!Rejected, L!makeErrorResult, L!Goto, L!Ended, L!steering, L!reading, L!usage,
         L!results, L!ending, GateInv, L!PauseHolds, L!Working
<1>15. CASE L(r)!appendToolResults
  BY <1>0, <1>15
     DEF L!appendToolResults, L!Rejected, L!makeErrorResult, L!Continue, L!Goto, L!Ended, L!steering,
         L!reading, L!usage, L!results, L!ending, GateInv, L!PauseHolds, L!Working
<1>16. CASE L(r)!finalizeStep
  BY <1>0, <1>16
     DEF L!finalizeStep, L!Rejected, L!makeErrorResult, L!makeCompletedResult, L!Continue, L!validateOutput,
         L!Ended, L!steering, L!reading, L!usage, L!results, L!ending, GateInv, L!PauseHolds, L!Working
<1>17. CASE L(r)!onMaximumSteps
  BY <1>0, <1>17
     DEF L!onMaximumSteps, L!Rejected, L!makeErrorResult, L!makeCompletedResult, L!Ended, L!steering,
         L!reading, L!usage, L!results, GateInv, L!PauseHolds, L!Working
<1>18. CASE L(r)!Abort
  BY <1>0, <1>18
     DEF L!Abort, L!steering, L!reading, L!usage, L!results, L!ending, GateInv, L!PauseHolds, L!Working
<1>19. CASE L(r)!abortStep
  BY <1>0, <1>19
     DEF L!abortStep, L!steering, L!reading, L!usage, L!results, L!ending, GateInv, L!PauseHolds, L!Working
<1>20. CASE L(r)!Command
  BY <1>0, <1>20 DEF L!Command, L!reading, L!usage, L!results, L!ending, GateInv, L!PauseHolds, L!Working
<1>21. CASE UNCHANGED L(r)!vars
  BY <1>0, <1>21
     DEF L!vars, L!steering, L!reading, L!usage, L!results, L!ending, GateInv, L!PauseHolds, L!Working
<1> QED
  BY <1>1, <1>2, <1>3, <1>4, <1>5, <1>6, <1>7, <1>8, <1>9, <1>10, <1>11, <1>12, <1>13, <1>14,
     <1>15, <1>16, <1>17, <1>18, <1>19, <1>20, <1>21
     DEF L!Next, L!Loop

\* Only reading the gate moves the version, and it looks before it does.
LEMMA AppliedStep ==
    ASSUME NEW r \in Loops
    PROVE  L(r)!LoopAssumption /\ LoopTypeInv(r) /\ (L(r)!Next \/ UNCHANGED L(r)!vars) => lastApplied' >= lastApplied
<1> SUFFICES ASSUME L(r)!LoopAssumption, LoopTypeInv(r), (L(r)!Next \/ UNCHANGED L(r)!vars)
             PROVE  lastApplied' >= lastApplied
  OBVIOUS
<1>1. lastApplied \in Nat /\ configVersion \in Nat
  BY LoopBounds DEF LoopTypeInv, SteeringInv
<1>2. L(r)!ReadGate \/ lastApplied' = lastApplied
  <2>1. CASE L(r)!boundary
    BY <2>1 DEF L!boundary, L!reading
  <2>2. CASE L(r)!resumeWins
    BY <2>2 DEF L!resumeWins
  <2>3. CASE ~L(r)!boundary /\ ~L(r)!resumeWins
    BY <2>3 DEF L!Next, L!Loop, L!vars, L!reading, L!startRunLifecycle, L!abortWins, L!afterBackpressure,
                L!prepareStep, L!executeGeneration, L!generateResponds, L!generateThrows,
                L!onGenerateError, L!validateResponse, L!takeResponse, L!beforeToolExecution,
                L!executeTools, L!appendToolResults, L!finalizeStep, L!onMaximumSteps, L!Abort,
                L!abortStep, L!Command
  <2> QED
    BY <2>1, <2>2, <2>3
<1> QED
  BY <1>1, <1>2 DEF L!ReadGate

-----------------------------------------------------------------------------
(* Usage.                                                                   *)

\* A response is counted at most once, after it was billed.
LEMMA UsageStep ==
    ASSUME NEW r \in Loops
    PROVE  LoopTypeInv(r) /\ UsageInv /\ (L(r)!Next \/ UNCHANGED L(r)!vars) => UsageInv'
<1> SUFFICES ASSUME LoopTypeInv(r), UsageInv, (L(r)!Next \/ UNCHANGED L(r)!vars) PROVE UsageInv'
  OBVIOUS
<1>0. UsageInv /\ recorded \in Nat /\ billed \in Nat
  BY DEF LoopTypeInv, ResponseInv
<1>1. CASE L(r)!executeGeneration
  BY <1>0, <1>1
     DEF L!executeGeneration, L!Rejected, L!makeErrorResult, L!Goto, L!Ended, L!steering, L!reading,
         L!results, L!ending, UsageInv, Pending
<1>2. CASE L(r)!generateResponds
  BY <1>0, <1>2
     DEF L!generateResponds, L!makeErrorResult, L!Ended, L!Rejected, L!Goto, L!steering, L!reading, L!results,
         L!ending, UsageInv, Pending
<1>3. CASE L(r)!validateResponse
  BY <1>0, <1>3
     DEF L!validateResponse, L!Rejected, L!makeErrorResult, L!Goto, L!accumulateUsage, L!Ended, L!steering,
         L!reading, L!usage, L!results, L!ending, UsageInv, Pending
<1>4. CASE L(r)!takeResponse
  BY <1>0, <1>4
     DEF L!takeResponse, L!Rejected, L!makeAbortResult, L!Continue, L!Goto, L!accumulateUsage, L!Ended,
         L!steering, L!reading, L!usage, L!results, L!ending, UsageInv, Pending
<1>5. CASE ~L(r)!executeGeneration /\ ~L(r)!generateResponds /\ ~L(r)!validateResponse /\ ~L(r)!takeResponse
  <2>1. UNCHANGED <<recorded, billed, unrecorded>>
    BY <1>5
       DEF L!Next, L!Loop, L!vars, L!steering, L!reading, L!usage, L!results, L!ending, L!Goto,
           L!startRunLifecycle, L!boundary, L!abortWins, L!resumeWins, L!afterBackpressure, L!prepareStep,
           L!generateThrows, L!onGenerateError, L!beforeToolExecution, L!executeTools,
           L!appendToolResults, L!finalizeStep, L!onMaximumSteps, L!Abort, L!abortStep, L!Command
  <2> QED
    BY <1>0, <2>1 DEF UsageInv, Pending
<1> QED
  BY <1>1, <1>2, <1>3, <1>4, <1>5

\* Without an abort a response that was billed is counted before the step goes on.
LEMMA ExactUsageStep ==
    ASSUME NEW r \in Loops
    PROVE  /\ ~Aborts[r] /\ ~StepAborts[r] /\ ~AfterThrows[r]
           /\ LoopTypeInv(r) /\ ExactUsageInv /\ (L(r)!Next \/ UNCHANGED L(r)!vars)
           => ExactUsageInv'
<1> SUFFICES ASSUME ~Aborts[r], ~StepAborts[r], ~AfterThrows[r], LoopTypeInv(r), ExactUsageInv, (L(r)!Next \/ UNCHANGED L(r)!vars)
             PROVE  ExactUsageInv'
  OBVIOUS
<1>0. ExactUsageInv /\ recorded \in Nat /\ billed \in Nat
  BY DEF LoopTypeInv, ResponseInv
<1>1. CASE L(r)!startRunLifecycle
  BY <1>0, <1>1
     DEF L!startRunLifecycle, L!Rejected, L!makeErrorResult, L!Goto, L!Ended, L!steering, L!reading, L!usage,
         L!results, L!ending, ExactUsageInv, Pending
<1>2. CASE L(r)!boundary
  BY <1>0, <1>2
     DEF L!boundary, L!Rejected, L!makeAbortResult, L!makeErrorResult, L!Goto, L!ReadGate, L!EnterStep,
         L!Ended, L!steering, L!reading, L!usage, L!results, L!ending, ExactUsageInv, Pending
<1>3. CASE L(r)!abortWins
  BY <1>0, <1>3
     DEF L!abortWins, L!makeAbortResult, L!Ended, L!steering, L!reading, L!usage, L!results, ExactUsageInv,
         Pending
<1>4. CASE L(r)!resumeWins
  BY <1>0, <1>4
     DEF L!resumeWins, L!Rejected, L!makeAbortResult, L!makeErrorResult, L!Goto, L!ReadGate, L!EnterStep,
         L!Ended, L!steering, L!usage, L!results, L!ending, ExactUsageInv, Pending
<1>5. CASE L(r)!afterBackpressure
  BY <1>0, <1>5
     DEF L!afterBackpressure, L!makeAbortResult, L!Goto, L!Ended, L!steering, L!reading, L!usage, L!results,
         L!ending, ExactUsageInv, Pending
<1>6. CASE L(r)!prepareStep
  BY <1>0, <1>6
     DEF L!prepareStep, L!makeErrorResult, L!Rejected, L!Goto, L!Ended, L!steering, L!reading, L!usage,
         L!results, L!ending, ExactUsageInv, Pending
<1>7. CASE L(r)!executeGeneration
  BY <1>0, <1>7
     DEF L!executeGeneration, L!Rejected, L!makeErrorResult, L!Goto, L!Ended, L!steering, L!reading,
         L!results, L!ending, ExactUsageInv, Pending
<1>8. CASE L(r)!generateResponds
  BY <1>0, <1>8
     DEF L!generateResponds, L!makeErrorResult, L!Ended, L!Rejected, L!Goto, L!steering, L!reading, L!results,
         L!ending, ExactUsageInv, Pending
<1>9. CASE L(r)!generateThrows
  BY <1>0, <1>9
     DEF L!generateThrows, L!Rejected, L!makeErrorResult, L!Goto, L!Ended, L!steering, L!reading, L!usage,
         L!results, L!ending, ExactUsageInv, Pending
<1>10. CASE L(r)!onGenerateError
  BY <1>0, <1>10
     DEF L!onGenerateError, L!Rejected, L!makeAbortResult, L!makeErrorResult, L!Continue, L!Goto, L!Ended,
         L!steering, L!reading, L!usage, L!results, L!ending, ExactUsageInv, Pending
<1>11. CASE L(r)!validateResponse
  BY <1>0, <1>11
     DEF L!validateResponse, L!Rejected, L!makeErrorResult, L!Goto, L!accumulateUsage, L!Ended, L!steering,
         L!reading, L!usage, L!results, L!ending, ExactUsageInv, Pending
<1>12. CASE L(r)!takeResponse
  BY <1>0, <1>12
     DEF L!takeResponse, L!Rejected, L!makeAbortResult, L!Continue, L!Goto, L!accumulateUsage, L!Ended,
         L!steering, L!reading, L!usage, L!results, L!ending, ExactUsageInv, Pending
<1>13. CASE L(r)!beforeToolExecution
  BY <1>0, <1>13
     DEF L!beforeToolExecution, L!Rejected, L!makeErrorResult, L!Goto, L!Ended, L!steering, L!reading,
         L!usage, L!results, L!ending, ExactUsageInv, Pending
<1>14. CASE L(r)!executeTools
  BY <1>0, <1>14
     DEF L!executeTools, L!Rejected, L!makeErrorResult, L!Goto, L!Ended, L!steering, L!reading, L!usage,
         L!results, L!ending, ExactUsageInv, Pending
<1>15. CASE L(r)!appendToolResults
  BY <1>0, <1>15
     DEF L!appendToolResults, L!Rejected, L!makeErrorResult, L!Continue, L!Goto, L!Ended, L!steering,
         L!reading, L!usage, L!results, L!ending, ExactUsageInv, Pending
<1>16. CASE L(r)!finalizeStep
  BY <1>0, <1>16
     DEF L!finalizeStep, L!Rejected, L!makeErrorResult, L!makeCompletedResult, L!Continue, L!validateOutput,
         L!Ended, L!steering, L!reading, L!usage, L!results, L!ending, ExactUsageInv, Pending
<1>17. CASE L(r)!onMaximumSteps
  BY <1>0, <1>17
     DEF L!onMaximumSteps, L!Rejected, L!makeErrorResult, L!makeCompletedResult, L!Ended, L!steering,
         L!reading, L!usage, L!results, ExactUsageInv, Pending
<1>18. CASE L(r)!Abort
  BY <1>0, <1>18 DEF L!Abort, L!steering, L!reading, L!usage, L!results, L!ending, ExactUsageInv, Pending
<1>19. CASE L(r)!abortStep
  BY <1>0, <1>19
     DEF L!abortStep, L!steering, L!reading, L!usage, L!results, L!ending, ExactUsageInv, Pending
<1>20. CASE L(r)!Command
  BY <1>0, <1>20 DEF L!Command, L!reading, L!usage, L!results, L!ending, ExactUsageInv, Pending
<1>21. CASE UNCHANGED L(r)!vars
  BY <1>0, <1>21 DEF L!vars, L!steering, L!reading, L!usage, L!results, L!ending, ExactUsageInv, Pending
<1> QED
  BY <1>1, <1>2, <1>3, <1>4, <1>5, <1>6, <1>7, <1>8, <1>9, <1>10, <1>11, <1>12, <1>13, <1>14,
     <1>15, <1>16, <1>17, <1>18, <1>19, <1>20, <1>21
     DEF L!Next, L!Loop

-----------------------------------------------------------------------------
(* The closing.  The count is compared with the calls that really run,     *)
(* step by step.  Where both agree for the whole run (Steady), zero means  *)
(* that nothing runs; where no call can start after that either (Tame), it *)
(* stays so, and closed() may say it.  README lists what happens beyond.   *)

Status == {"idle", "queued", "running", "raced", "over"}
Raced(r) == {c \in C(r)!Own : call[c] = "raced"}

\* What is a flag.
ClosingFlagInv ==
    /\ failed \in BOOLEAN /\ cancelRequested \in BOOLEAN
    /\ listening \in BOOLEAN /\ detaching \in BOOLEAN
    /\ drained \in BOOLEAN /\ childrenDone \in BOOLEAN

\* The limiter: what waits is queued once and in hand of nobody, and somebody
\* runs who will promote it.
LimiterInv(r) ==
    /\ loop \in {"start", "batch", "stepped", "settled"}
    /\ call \in [C(r)!Own -> Status]
    /\ queue \in Seq(C(r)!Own)
    /\ \A i \in DOMAIN queue : call[queue[i]] = "queued"
    /\ \A i, j \in DOMAIN queue : queue[i] = queue[j] => i = j
    /\ queue # <<>> => \E c \in C(r)!Own : call[c] = "running"
    /\ loop = "start" => \A c \in C(r)!Own : call[c] = "idle"

\* The count: never more than what runs, and every race that was lost is known.
CountInv(r) ==
    /\ inFlightTools \in Nat /\ inFlightTools <= Len(Calls[r])
    /\ seen \subseteq Raced(r)
    /\ listening => seen = Raced(r) /\ inFlightTools <= Cardinality(C(r)!Working)
    /\ loop = "start" => inFlightTools = 0

\* What belongs to the run beside its batch.
OwnedInv(r) ==
    /\ hook \in {"none", "running", "over"}
    /\ child \in [Children[r] -> {"none", "open", "closed"}]
    /\ other \in {"idle", "running", "over"}
    /\ watched = {C(r)!Unasked} \/ watched \subseteq C(r)!Registered

\* The promise of closed() and its callers: only the promise that is done has
\* said `completed`.
AnswerInv(r) ==
    /\ stage \in {"none", "result", "cleanup", "done"}
    /\ cached \in C(r)!Answers \cup {"none"}
    /\ answer \in [Callers[r] -> C(r)!Answers \cup {"uncalled", "waiting", "timed-out"}]
    /\ stage \in {"result", "cleanup"} => cached = "none"
    /\ stage = "done" <=> cached = "completed"
    /\ \A k \in Callers[r] : answer[k] \in C(r)!Answers => answer[k] = cached

ClosingTypeInv(r) == ClosingFlagInv /\ LimiterInv(r) /\ CountInv(r) /\ OwnedInv(r) /\ AnswerInv(r)

\* The call that the limiter promotes when another settles.
Started == IF queue = <<>> \/ cancelRequested THEN {} ELSE {Head(queue)}

\* How the batch begins: what starts at once, what waits, how many start.
Launched(r) ==
    [c \in C(r)!Own |-> IF \E i \in 1 .. Limit[r] : i <= Len(Calls[r]) /\ Calls[r][i] = c
                   THEN "running" ELSE "queued"]
Waiting(r) == SubSeq(Calls[r], Limit[r] + 1, Len(Calls[r]))
Width(r) == IF Limit[r] <= Len(Calls[r]) THEN Limit[r] ELSE Len(Calls[r])

\* A limiter that is emptied by an abort is counted wrongly; none is, if nobody
\* aborts or all calls run at once.
CountedWell == cancelRequested => queue = <<>>

LimitInv(r) ==
    /\ cancelRequested => Aborts[r]
    /\ Aborts[r] => queue = <<>>

CountIsRight(r) == listening => inFlightTools = Cardinality(C(r)!Working)
Exact(r) == ClosingTypeInv(r) /\ LimitInv(r) /\ CountIsRight(r)

\* Nothing starts any more; what is not counted does not run.
QuietInv(r) ==
    /\ Len(Calls[r]) <= Limit[r] => queue = <<>>
    /\ failed => FailFast[r]
    /\ loop \in {"stepped", "settled"} => queue = <<>>
    /\ detaching => queue = <<>> /\ loop # "start"
    /\ ~listening => C(r)!Working = {} /\ (loop # "start" \/ cancelRequested)
    /\ drained => C(r)!Working = {} /\ loop = "settled"
    /\ stage \in {"cleanup", "done"} => loop = "settled"
    /\ childrenDone => loop = "settled" /\ \A x \in Children[r] : child[x] # "open"
    /\ stage = "done" => drained /\ childrenDone /\ hook # "running"
    /\ hook # "none" => Hooked[r] /\ loop = "settled"
    /\ cached = "not-required" =>
          loop = "settled" /\ C(r)!Working = {} /\ \A x \in Children[r] : child[x] # "open"

-----------------------------------------------------------------------------
(* The calls of the batch.                                                  *)

\* The instance counts sets as the library does.
LEMMA SameCardinality ==
    ASSUME NEW r \in Closings, NEW S PROVE C(r)!Cardinality(S) = Cardinality(S)
BY DEF C!Cardinality, Cardinality, C!IsFiniteSet, IsFiniteSet

\* The batch is a sequence of distinct calls.
LEMMA OwnCalls ==
    ASSUME NEW r \in Closings
    PROVE  C(r)!ClosingAssumption =>
               /\ Len(Calls[r]) \in Nat /\ Calls[r] \in Seq(C(r)!Own) /\ DOMAIN Calls[r] = 1 .. Len(Calls[r])
               /\ \A i \in 1 .. Len(Calls[r]) : Calls[r][i] \in C(r)!Own
               /\ \A c \in C(r)!Own : \E i \in 1 .. Len(Calls[r]) : Calls[r][i] = c
               /\ \A i, j \in 1 .. Len(Calls[r]) : Calls[r][i] = Calls[r][j] => i = j
               /\ Limit[r] \in Nat /\ Limit[r] > 0
BY DEF C!ClosingAssumption, C!Own

\* A prefix of the batch has as many calls as its length.
LEMMA FirstCalls ==
    ASSUME NEW r \in Closings, C(r)!ClosingAssumption, NEW n \in 0 .. Len(Calls[r])
    PROVE  LET first == {Calls[r][i] : i \in 1 .. n}
           IN  IsFiniteSet(first) /\ Cardinality(first) = n /\ first \subseteq C(r)!Own
<1> DEFINE first == {Calls[r][i] : i \in 1 .. n}
           f == [i \in 1 .. n |-> Calls[r][i]]
<1>1. Len(Calls[r]) \in Nat /\ n \in Nat /\ n <= Len(Calls[r])
  BY OwnCalls
<1>2. IsFiniteSet(1 .. n) /\ Cardinality(1 .. n) = n
  BY <1>1, FS_Interval
<1>3. f \in Bijection(1 .. n, first)
  <2>1. f \in [1 .. n -> first]
    OBVIOUS
  <2>2. \A i, j \in 1 .. n : f[i] = f[j] => i = j
    <3>1. \A i \in 1 .. n : i \in 1 .. Len(Calls[r])
      BY <1>1
    <3> QED
      BY <3>1, OwnCalls
  <2>3. \A x \in first : \E i \in 1 .. n : f[i] = x
    OBVIOUS
  <2> QED
    BY <2>1, <2>2, <2>3, Fun_IsBij
<1>4. first \subseteq C(r)!Own
  <2>1. \A i \in 1 .. n : i \in 1 .. Len(Calls[r])
    BY <1>1
  <2> QED
    BY <2>1, OwnCalls
<1> QED
  BY <1>2, <1>3, <1>4, FS_Bijection DEF ExistsBijection

\* The batch is finite.
LEMMA OwnFinite ==
    ASSUME NEW r \in Closings
    PROVE  C(r)!ClosingAssumption => IsFiniteSet(C(r)!Own) /\ Cardinality(C(r)!Own) = Len(Calls[r])
<1> SUFFICES ASSUME C(r)!ClosingAssumption PROVE IsFiniteSet(C(r)!Own) /\ Cardinality(C(r)!Own) = Len(Calls[r])
  OBVIOUS
<1>1. {Calls[r][i] : i \in 1 .. Len(Calls[r])} = C(r)!Own
  BY OwnCalls DEF C!Own
<1>2. Len(Calls[r]) \in 0 .. Len(Calls[r])
  BY OwnCalls
<1> QED
  BY <1>1, <1>2, FirstCalls

\* So is what runs of it.
LEMMA WorkingFinite ==
    ASSUME NEW r \in Closings
    PROVE  C(r)!ClosingAssumption =>
               IsFiniteSet(C(r)!Working) /\ Cardinality(C(r)!Working) \in Nat /\ Cardinality(C(r)!Working) <= Len(Calls[r])
<1> SUFFICES ASSUME C(r)!ClosingAssumption
             PROVE  IsFiniteSet(C(r)!Working) /\ Cardinality(C(r)!Working) \in Nat
                    /\ Cardinality(C(r)!Working) <= Len(Calls[r])
  OBVIOUS
<1>1. C(r)!Working \in SUBSET C(r)!Own
  BY DEF C!Working
<1> QED
  BY <1>1, OwnFinite, FS_Subset, FS_CardinalityType

\* What the end v of call c leaves: one that waits takes its place, or, after an
\* abort, all that wait are cancelled.
Promotes(r, c, v) ==
    LET w == C(r)!NextCalls(<<c, v>>)
    IN  /\ w \in [C(r)!Own -> Status]
        /\ {x \in C(r)!Own : w[x] \in {"running", "raced"}} =
               (IF v = "over" THEN C(r)!Working \ {c} ELSE C(r)!Working) \cup Started
        /\ {x \in C(r)!Own : w[x] = "raced"} = IF v = "over" THEN Raced(r) ELSE Raced(r) \cup {c}
        /\ Started \subseteq C(r)!Own /\ Started \cap C(r)!Working = {}
        /\ \A x \in Started : w[x] = "running"
        /\ C(r)!NextQueue \in Seq(C(r)!Own)
        /\ \A i \in DOMAIN C(r)!NextQueue : w[C(r)!NextQueue[i]] = "queued"
        /\ \A i, j \in DOMAIN C(r)!NextQueue : C(r)!NextQueue[i] = C(r)!NextQueue[j] => i = j
        /\ C(r)!NextQueue # <<>> => Started # {}

\* It is what happens when a call settles.
LEMMA Promotion ==
    ASSUME NEW r \in Closings, LimiterInv(r), cancelRequested \in BOOLEAN, NEW c \in C(r)!Own, call[c] = "running",
           NEW v \in {"over", "raced"}
    PROVE  Promotes(r, c, v)
<1> DEFINE w == C(r)!NextCalls(<<c, v>>)
           after == [call EXCEPT ![c] = v]
<1>0. /\ after \in [C(r)!Own -> Status]
      /\ \A x \in C(r)!Own : after[x] = IF x = c THEN v ELSE call[x]
  BY DEF LimiterInv, Status
<1>1. CASE queue = <<>>
  <2>1. w = after /\ C(r)!NextQueue = <<>> /\ Started = {}
    BY <1>1 DEF C!NextCalls, C!NextQueue, Started
  <2>2. \A x \in C(r)!Own : w[x] = IF x = c THEN v ELSE call[x]
    BY <1>0, <2>1
  <2>3. w \in [C(r)!Own -> Status]
    BY <1>0, <2>1
  <2> HIDE DEF w
  <2>4. {x \in C(r)!Own : w[x] \in {"running", "raced"}} =
            (IF v = "over" THEN C(r)!Working \ {c} ELSE C(r)!Working) \cup Started
    BY <2>1, <2>2 DEF C!Working
  <2>5. {x \in C(r)!Own : w[x] = "raced"} = IF v = "over" THEN Raced(r) ELSE Raced(r) \cup {c}
    BY <2>2 DEF Raced
  <2> QED
    BY <2>1, <2>3, <2>4, <2>5 DEF w, Promotes
<1>2. CASE queue # <<>> /\ cancelRequested
  <2>1. w = [x \in C(r)!Own |-> IF \E i \in DOMAIN queue : queue[i] = x THEN "over" ELSE after[x]]
    BY <1>2 DEF C!NextCalls
  <2>2. C(r)!NextQueue = <<>> /\ Started = {}
    BY <1>2 DEF C!NextQueue, Started
  <2>3. \A i \in DOMAIN queue : queue[i] \in C(r)!Own /\ call[queue[i]] = "queued"
    BY DEF LimiterInv
  <2>4. \A x \in C(r)!Own : call[x] # "queued" => w[x] = after[x]
    BY <2>1, <2>3
  <2>5. \A x \in C(r)!Own : w[x] = after[x] \/ (w[x] = "over" /\ call[x] = "queued")
    BY <2>1, <2>3
  <2>6. w \in [C(r)!Own -> Status]
    BY <1>0, <2>1 DEF Status
  <2> HIDE DEF w
  <2> QED
    <3>1. {x \in C(r)!Own : w[x] \in {"running", "raced"}} =
              (IF v = "over" THEN C(r)!Working \ {c} ELSE C(r)!Working) \cup Started
      BY <1>0, <2>2, <2>4, <2>5 DEF C!Working
    <3>2. {x \in C(r)!Own : w[x] = "raced"} = IF v = "over" THEN Raced(r) ELSE Raced(r) \cup {c}
      BY <1>0, <2>4, <2>5 DEF Raced
    <3> QED
      BY <2>2, <2>6, <3>1, <3>2 DEF w, Promotes
<1>3. CASE queue # <<>> /\ ~cancelRequested
  <2>1. w = [after EXCEPT ![Head(queue)] = "running"] /\ Started = {Head(queue)}
    BY <1>3 DEF C!NextCalls, Started
  <2>2. C(r)!NextQueue = Tail(queue)
    BY <1>3 DEF C!NextQueue
  <2>3. /\ Head(queue) \in C(r)!Own /\ call[Head(queue)] = "queued" /\ Head(queue) = queue[1]
        /\ Len(queue) \in Nat /\ Len(queue) >= 1 /\ DOMAIN queue = 1 .. Len(queue)
    BY <1>3 DEF LimiterInv
  <2>4. \A x \in C(r)!Own : w[x] = IF x = Head(queue) THEN "running" ELSE after[x]
    BY <1>0, <2>1, <2>3
  <2>5. w \in [C(r)!Own -> Status]
    BY <1>0, <2>1, <2>3 DEF Status
  <2>6. /\ Tail(queue) \in Seq(C(r)!Own) /\ DOMAIN Tail(queue) = 1 .. (Len(queue) - 1)
        /\ \A i \in DOMAIN Tail(queue) : Tail(queue)[i] = queue[i + 1] /\ i + 1 \in DOMAIN queue
    BY <1>3, <2>3 DEF LimiterInv
  <2>7. \A i, j \in DOMAIN Tail(queue) : Tail(queue)[i] = Tail(queue)[j] => i = j
    BY <2>3, <2>6 DEF LimiterInv
  <2>8. \A i \in DOMAIN Tail(queue) : Tail(queue)[i] # Head(queue) /\ Tail(queue)[i] \in C(r)!Own
                                      /\ call[Tail(queue)[i]] = "queued"
    BY <2>3, <2>6 DEF LimiterInv
  <2>9. \A i \in DOMAIN Tail(queue) : w[Tail(queue)[i]] = "queued"
    BY <1>0, <2>4, <2>8
  <2> HIDE DEF w
  <2> QED
    <3>1. {x \in C(r)!Own : w[x] \in {"running", "raced"}} =
              (IF v = "over" THEN C(r)!Working \ {c} ELSE C(r)!Working) \cup Started
      BY <1>0, <2>1, <2>3, <2>4 DEF C!Working
    <3>2. {x \in C(r)!Own : w[x] = "raced"} = IF v = "over" THEN Raced(r) ELSE Raced(r) \cup {c}
      BY <1>0, <2>3, <2>4 DEF Raced
    <3>3. /\ Started \subseteq C(r)!Own /\ Started \cap C(r)!Working = {} /\ Started # {}
          /\ \A x \in Started : w[x] = "running"
      BY <2>1, <2>3, <2>4 DEF C!Working
    <3> QED
      BY <2>2, <2>5, <2>6, <2>7, <2>9, <3>1, <3>2, <3>3 DEF w, Promotes
<1> QED
  BY <1>1, <1>2, <1>3

\* The batch starts as many calls as the limit allows; the others wait in order.
LEMMA Launch ==
    ASSUME NEW r \in Closings, C(r)!ClosingAssumption
    PROVE  /\ Launched(r) \in [C(r)!Own -> Status]
           /\ LET started == {x \in C(r)!Own : Launched(r)[x] \in {"running", "raced"}}
              IN  started \subseteq C(r)!Own /\ IsFiniteSet(started) /\ Cardinality(started) = Width(r)
           /\ {x \in C(r)!Own : Launched(r)[x] = "raced"} = {}
           /\ Waiting(r) \in Seq(C(r)!Own)
           /\ \A i \in DOMAIN Waiting(r) : Launched(r)[Waiting(r)[i]] = "queued"
           /\ \A i, j \in DOMAIN Waiting(r) : Waiting(r)[i] = Waiting(r)[j] => i = j
           /\ Waiting(r) # <<>> => \E c \in C(r)!Own : Launched(r)[c] = "running"
           /\ Len(Calls[r]) <= Limit[r] => Waiting(r) = <<>>
<1> DEFINE started == {x \in C(r)!Own : Launched(r)[x] \in {"running", "raced"}}
<1>1. /\ Len(Calls[r]) \in Nat /\ Limit[r] \in Nat /\ Limit[r] > 0
      /\ \A i \in 1 .. Len(Calls[r]) : Calls[r][i] \in C(r)!Own
      /\ \A i, j \in 1 .. Len(Calls[r]) : Calls[r][i] = Calls[r][j] => i = j
  BY OwnCalls
<1>2. /\ Width(r) \in 0 .. Len(Calls[r]) /\ Width(r) <= Limit[r]
      /\ Len(Calls[r]) > 0 => Width(r) > 0
      /\ \A i \in 1 .. Limit[r] : i <= Len(Calls[r]) <=> i \in 1 .. Width(r)
      /\ \A i \in 1 .. Width(r) : i \in 1 .. Limit[r] /\ i <= Len(Calls[r])
  BY <1>1 DEF Width
<1>3. \A x \in C(r)!Own : Launched(r)[x] = IF \E i \in 1 .. Width(r) : Calls[r][i] = x THEN "running" ELSE "queued"
  BY <1>2 DEF Launched
<1>4. Launched(r) \in [C(r)!Own -> Status]
  BY DEF Launched, Status
<1>5. started = {Calls[r][i] : i \in 1 .. Width(r)}
  <2>1. \A i \in 1 .. Width(r) : Calls[r][i] \in C(r)!Own
    BY <1>1, <1>2
  <2> QED
    BY <1>3, <2>1
<1>6. started \subseteq C(r)!Own /\ IsFiniteSet(started) /\ Cardinality(started) = Width(r)
  BY <1>2, <1>5, FirstCalls
<1>7. {x \in C(r)!Own : Launched(r)[x] = "raced"} = {}
  BY <1>3
<1>8. CASE Len(Calls[r]) <= Limit[r]
  <2>1. Waiting(r) = <<>>
    BY <1>1, <1>8, SubSeqEmpty DEF Waiting
  <2> QED
    BY <1>4, <1>6, <1>7, <2>1
<1>9. CASE Limit[r] < Len(Calls[r])
  <2>1. /\ Waiting(r) \in Seq(C(r)!Own) /\ Len(Waiting(r)) = Len(Calls[r]) - Limit[r]
        /\ \A i \in 1 .. Len(Calls[r]) - Limit[r] : Waiting(r)[i] = Calls[r][Limit[r] + i]
    <3>1. Limit[r] + 1 \in Int /\ Len(Calls[r]) \in Int
          /\ \A i \in Limit[r] + 1 .. Len(Calls[r]) : Calls[r][i] \in C(r)!Own
      BY <1>1
    <3>2. /\ Waiting(r) \in Seq(C(r)!Own)
          /\ Len(Waiting(r)) = IF Limit[r] + 1 <= Len(Calls[r]) THEN Len(Calls[r]) - (Limit[r] + 1) + 1 ELSE 0
          /\ \A i \in 1 .. Len(Calls[r]) - (Limit[r] + 1) + 1 : Waiting(r)[i] = Calls[r][Limit[r] + 1 + i - 1]
      BY <3>1, SubSeqProperties DEF Waiting
    <3>3. \A i \in 1 .. Len(Calls[r]) - Limit[r] :
              /\ i \in 1 .. Len(Calls[r]) - (Limit[r] + 1) + 1
              /\ Limit[r] + 1 + i - 1 = Limit[r] + i
      BY <1>1
    <3>4. \A i \in 1 .. Len(Calls[r]) - Limit[r] : Waiting(r)[i] = Calls[r][Limit[r] + i]
      BY <3>2, <3>3
    <3> QED
      BY <1>1, <1>9, <3>2, <3>4
  <2>2. DOMAIN Waiting(r) = 1 .. Len(Calls[r]) - Limit[r]
    BY <2>1
  <2>3. \A i \in DOMAIN Waiting(r) : Limit[r] + i \in 1 .. Len(Calls[r]) /\ Limit[r] + i \notin 1 .. Width(r)
    BY <1>1, <1>2, <2>2
  <2>4. \A i \in DOMAIN Waiting(r) : Launched(r)[Waiting(r)[i]] = "queued"
    <3> SUFFICES ASSUME NEW i \in DOMAIN Waiting(r) PROVE Launched(r)[Waiting(r)[i]] = "queued"
      OBVIOUS
    <3>1. Waiting(r)[i] = Calls[r][Limit[r] + i] /\ Waiting(r)[i] \in C(r)!Own
      BY <1>1, <2>1, <2>2, <2>3
    <3>2. \A j \in 1 .. Width(r) : j \in 1 .. Len(Calls[r]) /\ j # Limit[r] + i
      BY <1>1, <1>2, <2>3
    <3>3. ~\E j \in 1 .. Width(r) : Calls[r][j] = Waiting(r)[i]
      BY <1>1, <2>3, <3>1, <3>2
    <3> QED
      BY <1>3, <3>1, <3>3
  <2>5. \A i, j \in DOMAIN Waiting(r) : Waiting(r)[i] = Waiting(r)[j] => i = j
    <3> SUFFICES ASSUME NEW i \in DOMAIN Waiting(r), NEW j \in DOMAIN Waiting(r), Waiting(r)[i] = Waiting(r)[j]
                 PROVE  i = j
      OBVIOUS
    <3>1. Limit[r] + i = Limit[r] + j
      BY <1>1, <2>1, <2>2, <2>3
    <3> QED
      BY <1>1, <2>2, <3>1
  <2>6. \E c \in C(r)!Own : Launched(r)[c] = "running"
    <3>1. 1 \in 1 .. Width(r) /\ Calls[r][1] \in C(r)!Own
      BY <1>1, <1>2, <1>9
    <3> QED
      BY <1>3, <3>1
  <2>7. ~(Len(Calls[r]) <= Limit[r])
    BY <1>1, <1>9
  <2> QED
    BY <1>4, <1>6, <1>7, <2>1, <2>4, <2>5, <2>6, <2>7
<1> QED
  BY <1>1, <1>8, <1>9

\* At most one call is promoted.
LEMMA StartedCount ==
    ASSUME NEW r \in Closings
    PROVE  /\ IsFiniteSet(Started) /\ Cardinality(Started) \in Nat
           /\ cancelRequested \/ queue = <<>> => Cardinality(Started) = 0
           /\ ~cancelRequested /\ queue # <<>> => Cardinality(Started) = 1
<1>1. CASE queue = <<>> \/ cancelRequested
  BY <1>1, FS_EmptySet DEF Started
<1>2. CASE queue # <<>> /\ ~cancelRequested
  <2>1. Started = {Head(queue)}
    BY <1>2 DEF Started
  <2>2. IsFiniteSet({Head(queue)}) /\ Cardinality({Head(queue)}) = 1
    BY FS_Singleton
  <2> QED
    BY <1>2, <2>1, <2>2
<1> QED
  BY <1>1, <1>2

\* What the count makes of a promotion; it is exact but for an abort that empties
\* the queue.
LEMMA PromotionCount ==
    ASSUME NEW r \in Closings, ClosingFlagInv, LimiterInv(r), NEW n \in Nat
    PROVE  /\ C(r)!AfterPromotion(n) \in Nat
           /\ C(r)!AfterPromotion(n) <= n + Cardinality(Started)
           /\ queue = <<>> \/ ~cancelRequested => C(r)!AfterPromotion(n) = n + Cardinality(Started)
<1>1. Len(queue) \in Nat
  BY DEF LimiterInv
<1> QED
  BY <1>1, StartedCount DEF C!AfterPromotion

\* The promoted call adds to what runs.
LEMMA AddStarted ==
    ASSUME NEW r \in Closings, NEW S, IsFiniteSet(S), Started \cap S = {}
    PROVE  /\ IsFiniteSet(S \cup Started) /\ Cardinality(S) \in Nat
           /\ Cardinality(S \cup Started) = Cardinality(S) + Cardinality(Started)
<1>1. Cardinality(S) \in Nat
  BY FS_CardinalityType
<1>2. CASE Started = {}
  BY <1>1, <1>2, FS_EmptySet
<1>3. CASE Started = {Head(queue)}
  <2>1. Head(queue) \notin S
    BY <1>3
  <2> QED
    BY <1>1, <1>3, <2>1, FS_AddElement, FS_Singleton
<1> QED
  BY <1>2, <1>3 DEF Started

-----------------------------------------------------------------------------
(* Types.                                                                  *)

\* The limiter loses no call and starts none twice.
LEMMA LimiterStep ==
    ASSUME NEW r \in Closings
    PROVE  C(r)!ClosingAssumption /\ ClosingFlagInv /\ LimiterInv(r) /\ (C(r)!Next \/ UNCHANGED C(r)!vars) => LimiterInv(r)'
<1> SUFFICES ASSUME C(r)!ClosingAssumption, ClosingFlagInv, LimiterInv(r), (C(r)!Next \/ UNCHANGED C(r)!vars) PROVE LimiterInv(r)'
  OBVIOUS
<1>0. ClosingFlagInv /\ LimiterInv(r) /\ C(r)!ClosingAssumption
  OBVIOUS
<1>1. CASE C(r)!BeginBatch
  <2>1. loop = "start" /\ loop' = "batch" /\ queue = <<>>
    BY <1>0, <1>1 DEF C!BeginBatch, LimiterInv
  <2>2. CASE cancelRequested
    BY <1>0, <1>1, <2>1, <2>2 DEF C!BeginBatch, LimiterInv, Status
  <2>3. CASE ~cancelRequested
    <3>1. call' = Launched(r) /\ queue' = Waiting(r)
      BY <1>1, <2>3 DEF C!BeginBatch, Launched, Waiting
    <3> QED
      BY <1>0, <2>1, <3>1, Launch DEF LimiterInv
  <2> QED
    BY <2>2, <2>3
<1>2. ASSUME NEW c \in C(r)!Own, NEW ok \in BOOLEAN, C(r)!Return(c, ok) PROVE LimiterInv(r)'
  <2>1. call[c] = "running" /\ call' = C(r)!NextCalls(<<c, "over">>) /\ queue' = C(r)!NextQueue /\ loop' = loop
    BY <1>2 DEF C!Return
  <2>2. cancelRequested \in BOOLEAN /\ "over" \in {"over", "raced"}
    BY DEF ClosingFlagInv
  <2>p. Promotes(r, c, "over")
    BY <1>0, <2>1, <2>2, Promotion
  <2>3. /\ C(r)!NextCalls(<<c, "over">>) \in [C(r)!Own -> Status] /\ Started \subseteq C(r)!Own
        /\ \A x \in Started : C(r)!NextCalls(<<c, "over">>)[x] = "running"
        /\ C(r)!NextQueue \in Seq(C(r)!Own)
        /\ \A i \in DOMAIN C(r)!NextQueue : C(r)!NextCalls(<<c, "over">>)[C(r)!NextQueue[i]] = "queued"
        /\ \A i, j \in DOMAIN C(r)!NextQueue : C(r)!NextQueue[i] = C(r)!NextQueue[j] => i = j
        /\ C(r)!NextQueue # <<>> => Started # {}
    BY <2>p DEF Promotes
  <2> QED
    BY <1>0, <2>1, <2>3 DEF LimiterInv
<1>3. ASSUME NEW c \in C(r)!Own, C(r)!Race(c) PROVE LimiterInv(r)'
  <2>1. call[c] = "running" /\ call' = C(r)!NextCalls(<<c, "raced">>) /\ queue' = C(r)!NextQueue /\ loop' = loop
    BY <1>3 DEF C!Race
  <2>2. cancelRequested \in BOOLEAN /\ "raced" \in {"over", "raced"}
    BY DEF ClosingFlagInv
  <2>p. Promotes(r, c, "raced")
    BY <1>0, <2>1, <2>2, Promotion
  <2>3. /\ C(r)!NextCalls(<<c, "raced">>) \in [C(r)!Own -> Status] /\ Started \subseteq C(r)!Own
        /\ \A x \in Started : C(r)!NextCalls(<<c, "raced">>)[x] = "running"
        /\ C(r)!NextQueue \in Seq(C(r)!Own)
        /\ \A i \in DOMAIN C(r)!NextQueue : C(r)!NextCalls(<<c, "raced">>)[C(r)!NextQueue[i]] = "queued"
        /\ \A i, j \in DOMAIN C(r)!NextQueue : C(r)!NextQueue[i] = C(r)!NextQueue[j] => i = j
        /\ C(r)!NextQueue # <<>> => Started # {}
    BY <2>p DEF Promotes
  <2> QED
    BY <1>0, <2>1, <2>3 DEF LimiterInv
<1>4. ASSUME NEW c \in C(r)!Own, C(r)!CallbackEnds(c) PROVE LimiterInv(r)'
  <2>1. call[c] = "raced" /\ call' = [call EXCEPT ![c] = "over"] /\ queue' = queue /\ loop' = loop
    BY <1>4 DEF C!CallbackEnds
  <2>2. call' \in [C(r)!Own -> Status] /\ \A x \in C(r)!Own \ {c} : call'[x] = call[x]
    BY <1>0, <2>1 DEF LimiterInv, Status
  <2>3. \A i \in DOMAIN queue : queue[i] \in C(r)!Own \ {c}
    BY <1>0, <2>1 DEF LimiterInv
  <2>4. loop # "start"
    BY <1>0, <2>1 DEF LimiterInv
  <2> QED
    BY <1>0, <2>1, <2>2, <2>3, <2>4 DEF LimiterInv
<1>5. CASE C(r)!StepEnds \/ C(r)!Settle
  BY <1>0, <1>5 DEF C!StepEnds, C!Settle, LimiterInv
<1>6. CASE UNCHANGED <<call, queue, loop>>
  BY <1>0, <1>6 DEF LimiterInv
<1>7. CASE \/ C(r)!OtherCall \/ C(r)!abort \/ C(r)!dispose \/ C(r)!HookEnds \/ C(r)!classifyOutcome
           \/ C(r)!awaitChildrenClosed \/ C(r)!resolveOutcome \/ UNCHANGED C(r)!vars
           \/ \E c \in C(r)!Own : \E x \in Children[r] : C(r)!DispatchChild(c, x)
           \/ \E x \in Children[r] : C(r)!ChildCloses(x)
           \/ \E k \in Callers[r] : C(r)!closed(k) \/ C(r)!Deliver(k) \/ C(r)!onAbort(k)
  BY <1>6, <1>7 DEF C!OtherCall, C!abort, C!dispose, C!HookEnds, C!classifyOutcome, C!awaitChildrenClosed,
                    C!resolveOutcome, C!DispatchChild, C!ChildCloses, C!closed, C!Deliver, C!onAbort,
                    C!vars, C!toolVars
<1> QED
  BY <1>1, <1>2, <1>3, <1>4, <1>5, <1>7 DEF C!Next

\* What each step of a call does to the calls that run.
LEMMA AfterBegin ==
    ASSUME NEW r \in Closings, C(r)!ClosingAssumption, LimiterInv(r), C(r)!BeginBatch
    PROVE  /\ C(r)!Working = {} /\ Raced(r) = {} /\ Raced(r)' = {}
           /\ cancelRequested => C(r)!Working' = {}
           /\ ~cancelRequested => Cardinality(C(r)!Working') = Width(r)
<1>1. C(r)!Working = {} /\ Raced(r) = {}
  BY DEF C!BeginBatch, LimiterInv, C!Working, Raced
<1>2. CASE cancelRequested
  BY <1>1, <1>2 DEF C!BeginBatch, C!Working, Raced
<1>3. CASE ~cancelRequested
  <2>1. call' = Launched(r)
    BY <1>3 DEF C!BeginBatch, Launched
  <2>2. /\ C(r)!Working' = {x \in C(r)!Own : Launched(r)[x] \in {"running", "raced"}}
        /\ Raced(r)' = {x \in C(r)!Own : Launched(r)[x] = "raced"}
    BY <2>1 DEF C!Working, Raced
  <2> QED
    BY <1>1, <1>3, <2>2, Launch
<1> QED
  BY <1>2, <1>3

LEMMA AfterReturn ==
    ASSUME NEW r \in Closings, C(r)!ClosingAssumption, ClosingFlagInv, LimiterInv(r), NEW c \in C(r)!Own, NEW ok \in BOOLEAN, C(r)!Return(c, ok)
    PROVE  /\ C(r)!Working' = (C(r)!Working \ {c}) \cup Started /\ Raced(r)' = Raced(r) /\ c \in C(r)!Working
           /\ Cardinality(C(r)!Working) > 0
           /\ Cardinality(C(r)!Working') = Cardinality(C(r)!Working) - 1 + Cardinality(Started)
<1>1. call[c] = "running" /\ call' = C(r)!NextCalls(<<c, "over">>)
  BY DEF C!Return
<1>2. cancelRequested \in BOOLEAN /\ "over" \in {"over", "raced"}
  BY DEF ClosingFlagInv
<1>p. Promotes(r, c, "over")
  BY <1>1, <1>2, Promotion
<1>3. /\ {x \in C(r)!Own : C(r)!NextCalls(<<c, "over">>)[x] \in {"running", "raced"}} =
             (C(r)!Working \ {c}) \cup Started
      /\ {x \in C(r)!Own : C(r)!NextCalls(<<c, "over">>)[x] = "raced"} = Raced(r)
      /\ Started \cap C(r)!Working = {}
  BY <1>p, <1>2 DEF Promotes
<1>4. C(r)!Working' = (C(r)!Working \ {c}) \cup Started /\ Raced(r)' = Raced(r)
  BY <1>1, <1>3 DEF C!Working, Raced
<1>5. c \in C(r)!Working
  BY <1>1 DEF C!Working
<1>6. /\ IsFiniteSet(C(r)!Working) /\ IsFiniteSet(C(r)!Working \ {c})
      /\ Cardinality(C(r)!Working) \in Nat /\ Cardinality(C(r)!Working \ {c}) \in Nat
      /\ Cardinality(C(r)!Working \ {c}) = Cardinality(C(r)!Working) - 1
  BY <1>5, WorkingFinite, FS_RemoveElement, FS_CardinalityType
<1>7. Cardinality((C(r)!Working \ {c}) \cup Started) =
          Cardinality(C(r)!Working \ {c}) + Cardinality(Started)
  <2>1. Started \cap (C(r)!Working \ {c}) = {}
    BY <1>3
  <2> QED
    BY <1>6, <2>1, AddStarted
<1> QED
  BY <1>3, <1>4, <1>5, <1>6, <1>7

LEMMA AfterRace ==
    ASSUME NEW r \in Closings, C(r)!ClosingAssumption, ClosingFlagInv, LimiterInv(r), NEW c \in C(r)!Own, C(r)!Race(c)
    PROVE  /\ C(r)!Working' = C(r)!Working \cup Started /\ Raced(r)' = Raced(r) \cup {c}
           /\ Cardinality(C(r)!Working') = Cardinality(C(r)!Working) + Cardinality(Started)
<1>1. call[c] = "running" /\ call' = C(r)!NextCalls(<<c, "raced">>)
  BY DEF C!Race
<1>2. cancelRequested \in BOOLEAN /\ "raced" \in {"over", "raced"} /\ "raced" # "over"
  BY DEF ClosingFlagInv
<1>p. Promotes(r, c, "raced")
  BY <1>1, <1>2, Promotion
<1>3. /\ {x \in C(r)!Own : C(r)!NextCalls(<<c, "raced">>)[x] \in {"running", "raced"}} =
             C(r)!Working \cup Started
      /\ {x \in C(r)!Own : C(r)!NextCalls(<<c, "raced">>)[x] = "raced"} = Raced(r) \cup {c}
      /\ Started \cap C(r)!Working = {}
  BY <1>p, <1>2 DEF Promotes
<1>4. C(r)!Working' = C(r)!Working \cup Started /\ Raced(r)' = Raced(r) \cup {c}
  BY <1>1, <1>3 DEF C!Working, Raced
<1>5. Cardinality(C(r)!Working \cup Started) = Cardinality(C(r)!Working) + Cardinality(Started)
  BY <1>3, WorkingFinite, AddStarted
<1> QED
  BY <1>4, <1>5

LEMMA AfterCallback ==
    ASSUME NEW r \in Closings, C(r)!ClosingAssumption, LimiterInv(r), NEW c \in C(r)!Own, C(r)!CallbackEnds(c)
    PROVE  /\ C(r)!Working' = C(r)!Working \ {c} /\ Raced(r)' = Raced(r) \ {c} /\ c \in C(r)!Working /\ c \in Raced(r)
           /\ Cardinality(C(r)!Working) > 0 /\ Cardinality(C(r)!Working') = Cardinality(C(r)!Working) - 1
<1>1. call[c] = "raced" /\ call' = [call EXCEPT ![c] = "over"]
  BY DEF C!CallbackEnds
<1>2. call' \in [C(r)!Own -> Status] /\ \A x \in C(r)!Own : call'[x] = IF x = c THEN "over" ELSE call[x]
  BY <1>1 DEF LimiterInv, Status
<1>3. C(r)!Working' = C(r)!Working \ {c} /\ Raced(r)' = Raced(r) \ {c} /\ c \in C(r)!Working /\ c \in Raced(r)
  BY <1>1, <1>2 DEF C!Working, Raced
<1>4. Cardinality(C(r)!Working \ {c}) \in Nat /\ Cardinality(C(r)!Working \ {c}) = Cardinality(C(r)!Working) - 1
  BY <1>3, WorkingFinite, FS_RemoveElement, FS_CardinalityType
<1>5. Cardinality(C(r)!Working) \in Nat
  BY WorkingFinite
<1> QED
  BY <1>3, <1>4, <1>5

LEMMA Unmoved ==
    ASSUME NEW r \in Closings
    PROVE  UNCHANGED call => C(r)!Working' = C(r)!Working /\ Raced(r)' = Raced(r)
BY DEF C!Working, Raced

\* The count never exceeds what runs, and where it was exact it stays so, unless
\* an abort empties the queue.
LEMMA CountStep ==
    ASSUME NEW r \in Closings, C(r)!ClosingAssumption, ClosingFlagInv, LimiterInv(r), CountInv(r), (C(r)!Next \/ UNCHANGED C(r)!vars)
    PROVE  CountInv(r)' /\ (CountedWell /\ CountIsRight(r) => CountIsRight(r)')
<1>0. /\ C(r)!ClosingAssumption /\ ClosingFlagInv /\ LimiterInv(r) /\ LimiterInv(r)'
      /\ Len(Calls[r]) \in Nat /\ Limit[r] \in Nat /\ Cardinality(C(r)!Working) \in Nat
      /\ inFlightTools \in Nat /\ inFlightTools <= Len(Calls[r]) /\ seen \subseteq Raced(r)
  BY LimiterStep, OwnCalls, WorkingFinite DEF CountInv
<1>w. Cardinality(C(r)!Working') \in Nat /\ Cardinality(C(r)!Working') <= Len(Calls[r])
  <2>1. C(r)!Working' \in SUBSET C(r)!Own
    BY DEF C!Working
  <2> QED
    BY <2>1, OwnFinite, FS_Subset, FS_CardinalityType
<1>1. CASE C(r)!BeginBatch
  <2>1. /\ loop = "start" /\ loop' = "batch" /\ inFlightTools = 0 /\ seen = {}
        /\ UNCHANGED <<listening, seen>>
    BY <1>0, <1>1, AfterBegin DEF C!BeginBatch, CountInv
  <2>2. CASE cancelRequested
    <3>1. inFlightTools' = 0
      BY <1>1, <2>1, <2>2 DEF C!BeginBatch, C!release
    <3> QED
      BY <1>0, <1>1, <1>w, <2>1, <2>2, <3>1, AfterBegin, FS_EmptySet DEF CountInv, CountIsRight
  <2>3. CASE ~cancelRequested
    <3>1. inFlightTools' = IF listening THEN Width(r) ELSE 0
      BY <1>0, <1>1, <2>1, <2>3 DEF C!BeginBatch, Width
    <3>2. Width(r) \in Nat /\ Width(r) <= Len(Calls[r])
      BY <1>0 DEF Width
    <3> QED
      BY <1>0, <1>1, <2>1, <2>3, <3>1, <3>2, AfterBegin DEF CountInv, CountIsRight
  <2> QED
    BY <2>2, <2>3
<1>2. ASSUME NEW c \in C(r)!Own, NEW ok \in BOOLEAN, C(r)!Return(c, ok)
      PROVE  CountInv(r)' /\ (CountedWell /\ CountIsRight(r) => CountIsRight(r)')
  <2> DEFINE n == C(r)!release(inFlightTools)
             goesOn == listening /\ ~(detaching /\ n = 0)
             k == IF goesOn THEN C(r)!AfterPromotion(n) ELSE n
  <2>1. /\ loop' = loop /\ loop # "start" /\ seen' = seen
    BY <1>0, <1>2 DEF C!Return, LimiterInv
  <2>2. n \in Nat /\ n <= inFlightTools /\ (inFlightTools > 0 => n = inFlightTools - 1)
    BY <1>0 DEF C!release
  <2>3. /\ Cardinality(C(r)!Working) > 0 /\ Cardinality(Started) \in Nat
        /\ Cardinality(C(r)!Working') = Cardinality(C(r)!Working) - 1 + Cardinality(Started)
        /\ Raced(r)' = Raced(r)
    BY <1>0, <1>2, AfterReturn, StartedCount
  <2>4. /\ C(r)!AfterPromotion(n) \in Nat /\ C(r)!AfterPromotion(n) <= n + Cardinality(Started)
        /\ queue = <<>> \/ ~cancelRequested => C(r)!AfterPromotion(n) = n + Cardinality(Started)
    BY <1>0, <2>2, PromotionCount
  <2>5. CASE ~listening
    <3>1. UNCHANGED <<inFlightTools, listening>>
      BY <1>2, <2>5 DEF C!Return
    <3> QED
      BY <1>0, <2>1, <2>3, <2>5, <3>1 DEF CountInv, CountIsRight
  <2>6. CASE listening
    <3>1. /\ inFlightTools' = k
          /\ listening' => goesOn
      BY <1>2, <2>6 DEF C!Return, C!Counted
    <3>2. n <= Cardinality(C(r)!Working) - 1 /\ seen = Raced(r)
      BY <1>0, <2>2, <2>3, <2>6 DEF CountInv
    <3>3. CASE ~goesOn
      <4>1. inFlightTools' = n /\ ~listening'
        BY <3>1, <3>3
      <4> HIDE DEF n, goesOn, k
      <4> QED
        BY <1>0, <2>1, <2>2, <2>3, <3>2, <4>1 DEF CountInv, CountIsRight
    <3>4. CASE goesOn
      <4>1. inFlightTools' = C(r)!AfterPromotion(n)
        BY <3>1, <3>4
      <4>2. CountIsRight(r) => inFlightTools = Cardinality(C(r)!Working)
        BY <2>6 DEF CountIsRight
      <4> HIDE DEF n, goesOn, k
      <4>3. inFlightTools' <= Cardinality(C(r)!Working') /\ inFlightTools' \in Nat
        BY <1>0, <2>2, <2>3, <2>4, <3>2, <4>1
      <4>4. CountedWell /\ CountIsRight(r) => inFlightTools' = Cardinality(C(r)!Working')
        BY <1>0, <2>2, <2>3, <2>4, <4>1, <4>2 DEF CountedWell
      <4> QED
        BY <1>0, <1>w, <2>1, <2>3, <3>2, <4>3, <4>4 DEF CountInv, CountIsRight
    <3> QED
      BY <3>3, <3>4
  <2> QED
    BY <2>5, <2>6 DEF ClosingFlagInv
<1>3. ASSUME NEW c \in C(r)!Own, C(r)!Race(c)
      PROVE  CountInv(r)' /\ (CountedWell /\ CountIsRight(r) => CountIsRight(r)')
  <2>1. /\ loop' = loop /\ loop # "start" /\ cancelRequested
        /\ seen' = IF listening THEN seen \cup {c} ELSE seen
    BY <1>0, <1>3 DEF C!Race, LimiterInv, C!onRaced
  <2>2. /\ Raced(r)' = Raced(r) \cup {c}
        /\ Cardinality(C(r)!Working') = Cardinality(C(r)!Working)
    BY <1>0, <1>3, <2>1, AfterRace, StartedCount
  <2>3. C(r)!AfterPromotion(inFlightTools) \in Nat /\ C(r)!AfterPromotion(inFlightTools) <= inFlightTools
    <3>1. inFlightTools \in Nat
      BY <1>0 DEF CountInv
    <3>2. /\ C(r)!AfterPromotion(inFlightTools) \in Nat
          /\ C(r)!AfterPromotion(inFlightTools) <= inFlightTools + Cardinality(Started)
      BY <1>0, <3>1, PromotionCount
    <3>3. Cardinality(Started) = 0
      BY <1>0, <2>1, StartedCount
    <3> QED
      BY <3>1, <3>2, <3>3
  <2>4. CASE queue = <<>> \/ ~listening
    <3>1. UNCHANGED <<inFlightTools, listening>>
      BY <1>3, <2>4 DEF C!Race, C!onRaced
    <3> QED
      BY <1>0, <2>1, <2>2, <2>4, <3>1 DEF CountInv, CountIsRight
  <2>5. CASE queue # <<>> /\ listening
    <3>1. inFlightTools' = C(r)!AfterPromotion(inFlightTools)
      BY <1>3, <2>5 DEF C!Race, C!Counted
    <3>2. ~CountedWell
      BY <2>1, <2>5 DEF CountedWell
    <3> QED
      BY <1>0, <2>1, <2>2, <2>3, <2>5, <3>1, <3>2 DEF CountInv
  <2> QED
    BY <2>4, <2>5
<1>4. ASSUME NEW c \in C(r)!Own, C(r)!CallbackEnds(c)
      PROVE  CountInv(r)' /\ (CountedWell /\ CountIsRight(r) => CountIsRight(r)')
  <2>1. /\ loop' = loop /\ loop # "start" /\ seen' = seen \ {c}
    BY <1>0, <1>4 DEF C!CallbackEnds, LimiterInv
  <2>2. /\ Raced(r)' = Raced(r) \ {c} /\ c \in Raced(r)
        /\ Cardinality(C(r)!Working) > 0 /\ Cardinality(C(r)!Working') = Cardinality(C(r)!Working) - 1
    BY <1>0, <1>4, AfterCallback
  <2>3. CASE c \notin seen
    <3>1. UNCHANGED <<inFlightTools, listening>> /\ ~listening
      BY <1>4, <2>2, <2>3 DEF C!CallbackEnds, CountInv
    <3> QED
      BY <1>0, <2>1, <2>2, <3>1 DEF CountInv, CountIsRight
  <2>4. CASE c \in seen
    <3>1. inFlightTools' = C(r)!release(inFlightTools) /\ (listening' => listening)
      BY <1>4, <2>4 DEF C!CallbackEnds, C!Counted
    <3>2. inFlightTools' \in Nat /\ inFlightTools' <= inFlightTools
          /\ (inFlightTools > 0 => inFlightTools' = inFlightTools - 1)
      BY <1>0, <3>1 DEF C!release
    <3> QED
      BY <1>0, <2>1, <2>2, <3>1, <3>2 DEF CountInv, CountIsRight
  <2> QED
    BY <2>3, <2>4
<1>5. CASE /\ UNCHANGED <<call, inFlightTools, seen>>
           /\ listening' => listening
           /\ loop' = "start" => loop = "start"
  BY <1>0, <1>5, Unmoved DEF CountInv, CountIsRight
<1>6. CASE C(r)!StepEnds \/ C(r)!Settle \/ C(r)!dispose
  BY <1>5, <1>6 DEF C!StepEnds, C!Settle, C!dispose, C!stopForwarding
<1>7. CASE \/ C(r)!OtherCall \/ C(r)!abort \/ C(r)!HookEnds \/ C(r)!classifyOutcome
           \/ C(r)!awaitChildrenClosed \/ C(r)!resolveOutcome \/ UNCHANGED C(r)!vars
           \/ \E c \in C(r)!Own : \E x \in Children[r] : C(r)!DispatchChild(c, x)
           \/ \E x \in Children[r] : C(r)!ChildCloses(x)
           \/ \E k \in Callers[r] : C(r)!closed(k) \/ C(r)!Deliver(k) \/ C(r)!onAbort(k)
  BY <1>5, <1>7 DEF C!OtherCall, C!onExecuteStart, C!isOwnEvent, C!abort, C!HookEnds, C!classifyOutcome,
                    C!awaitChildrenClosed, C!resolveOutcome, C!DispatchChild, C!ChildCloses, C!closed,
                    C!Deliver, C!onAbort, C!vars, C!toolVars
<1> QED
  BY <1>1, <1>2, <1>3, <1>4, <1>6, <1>7 DEF C!Next

\* Flags stay flags.
LEMMA ClosingFlagStep ==
    ASSUME NEW r \in Closings
    PROVE  ClosingFlagInv /\ (C(r)!Next \/ UNCHANGED C(r)!vars) => ClosingFlagInv'
<1> SUFFICES ASSUME ClosingFlagInv, (C(r)!Next \/ UNCHANGED C(r)!vars) PROVE ClosingFlagInv'
  OBVIOUS
<1>1. CASE C(r)!BeginBatch \/ C(r)!OtherCall \/ C(r)!HookEnds
  BY Zenon, <1>1 DEF C!BeginBatch, C!OtherCall, C!HookEnds, C!toolVars, C!closeVars, ClosingFlagInv
<1>2. ASSUME NEW c \in C(r)!Own, NEW ok \in BOOLEAN, C(r)!Return(c, ok) PROVE ClosingFlagInv'
  BY Zenon, <1>2 DEF C!Return, C!Counted, ClosingFlagInv
<1>3. ASSUME NEW c \in C(r)!Own, C(r)!Race(c) PROVE ClosingFlagInv'
  BY Zenon, <1>3 DEF C!Race, C!onRaced, C!Counted, ClosingFlagInv
<1>4. ASSUME NEW c \in C(r)!Own, C(r)!CallbackEnds(c) PROVE ClosingFlagInv'
  BY Zenon, <1>4 DEF C!CallbackEnds, C!Counted, ClosingFlagInv
<1>5. CASE C(r)!abort \/ C(r)!dispose
  BY Zenon, <1>5 DEF C!abort, C!dispose, C!stopForwarding, C!toolVars, C!closeVars, ClosingFlagInv
<1>6. CASE C(r)!StepEnds \/ C(r)!Settle
  BY Zenon, <1>6 DEF C!StepEnds, C!Settle, C!stopForwarding, C!closeVars, ClosingFlagInv
<1>7. CASE C(r)!classifyOutcome \/ C(r)!awaitChildrenClosed \/ C(r)!resolveOutcome
  BY Zenon, <1>7 DEF C!classifyOutcome, C!awaitChildrenClosed, C!resolveOutcome, C!toolVars, ClosingFlagInv
<1>8. ASSUME NEW x \in Children[r],
             C(r)!ChildCloses(x) \/ \E c \in C(r)!Own : C(r)!DispatchChild(c, x)
      PROVE  ClosingFlagInv'
  BY Zenon, <1>8 DEF C!ChildCloses, C!DispatchChild, C!toolVars, C!closeVars, ClosingFlagInv
<1>9. ASSUME NEW k \in Callers[r], C(r)!closed(k) \/ C(r)!Deliver(k) \/ C(r)!onAbort(k) PROVE ClosingFlagInv'
  BY Zenon, <1>9 DEF C!closed, C!Deliver, C!onAbort, C!toolVars, ClosingFlagInv
<1>10. CASE UNCHANGED C(r)!vars
  BY Zenon, <1>10 DEF C!vars, C!toolVars, C!closeVars, ClosingFlagInv
<1> QED
  BY <1>1, <1>2, <1>3, <1>4, <1>5, <1>6, <1>7, <1>8, <1>9, <1>10 DEF C!Next

\* Children are registered before anybody waits for them.
LEMMA OwnedStep ==
    ASSUME NEW r \in Closings
    PROVE  OwnedInv(r) /\ (C(r)!Next \/ UNCHANGED C(r)!vars) => OwnedInv(r)'
<1> SUFFICES ASSUME OwnedInv(r), (C(r)!Next \/ UNCHANGED C(r)!vars) PROVE OwnedInv(r)'
  OBVIOUS
<1>1. ASSUME NEW c \in C(r)!Own, NEW x \in Children[r], C(r)!DispatchChild(c, x) PROVE OwnedInv(r)'
  <2>1. /\ child' \in [Children[r] -> {"none", "open", "closed"}] /\ C(r)!Registered \subseteq C(r)!Registered'
        /\ UNCHANGED <<hook, other, watched>>
    BY <1>1 DEF C!DispatchChild, C!Registered, C!closeVars, OwnedInv
  <2> QED
    BY <2>1 DEF OwnedInv
<1>2. ASSUME NEW x \in Children[r], C(r)!ChildCloses(x) PROVE OwnedInv(r)'
  <2>1. /\ child' \in [Children[r] -> {"none", "open", "closed"}] /\ C(r)!Registered \subseteq C(r)!Registered'
        /\ UNCHANGED <<hook, other, watched>>
    BY <1>2 DEF C!ChildCloses, C!Registered, C!closeVars, OwnedInv
  <2> QED
    BY <2>1 DEF OwnedInv
<1>3. CASE C(r)!awaitChildrenClosed
  BY <1>3 DEF C!awaitChildrenClosed, OwnedInv, C!Registered
<1>4. CASE C(r)!Settle \/ C(r)!HookEnds \/ C(r)!OtherCall
  BY <1>4 DEF C!Settle, C!HookEnds, C!OtherCall, C!closeVars, OwnedInv, C!Registered
<1>5. CASE UNCHANGED <<hook, child, other, watched>>
  BY <1>5 DEF OwnedInv, C!Registered
<1>6. CASE \/ C(r)!BeginBatch \/ C(r)!abort \/ C(r)!dispose \/ C(r)!StepEnds \/ C(r)!classifyOutcome \/ C(r)!resolveOutcome
           \/ UNCHANGED C(r)!vars
           \/ \E c \in C(r)!Own : (\E ok \in BOOLEAN : C(r)!Return(c, ok)) \/ C(r)!Race(c) \/ C(r)!CallbackEnds(c)
           \/ \E k \in Callers[r] : C(r)!closed(k) \/ C(r)!Deliver(k) \/ C(r)!onAbort(k)
  BY <1>5, <1>6 DEF C!BeginBatch, C!abort, C!dispose, C!StepEnds, C!classifyOutcome, C!resolveOutcome,
                    C!Return, C!Race, C!CallbackEnds, C!closed, C!Deliver, C!onAbort, C!vars, C!closeVars
<1> QED
  BY <1>1, <1>2, <1>3, <1>4, <1>6 DEF C!Next

\* The answer is given once, and cached for the callers that come.
LEMMA AnswerStep ==
    ASSUME NEW r \in Closings
    PROVE  AnswerInv(r) /\ (C(r)!Next \/ UNCHANGED C(r)!vars) => AnswerInv(r)'
<1> SUFFICES ASSUME AnswerInv(r), (C(r)!Next \/ UNCHANGED C(r)!vars) PROVE AnswerInv(r)'
  OBVIOUS
<1>1. ASSUME NEW k \in Callers[r], C(r)!closed(k) PROVE AnswerInv(r)'
  <2>1. /\ \/ cached' = cached
           \/ cached = "none" /\ stage = "none" /\ cached' = "not-required"
        /\ answer' = [answer EXCEPT ![k] = IF cached' = "none" THEN "waiting" ELSE cached']
        /\ stage' = IF cached' = "none" /\ stage = "none" THEN "result" ELSE stage
    BY <1>1 DEF C!closed
  <2> QED
    BY <2>1 DEF AnswerInv, C!Answers
<1>2. ASSUME NEW k \in Callers[r], C(r)!Deliver(k) PROVE AnswerInv(r)'
  BY <1>2 DEF C!Deliver, AnswerInv, C!Answers
<1>3. ASSUME NEW k \in Callers[r], C(r)!onAbort(k) PROVE AnswerInv(r)'
  BY <1>3 DEF C!onAbort, AnswerInv, C!Answers
<1>4. CASE C(r)!classifyOutcome
  BY <1>4 DEF C!classifyOutcome, AnswerInv, C!Answers
<1>5. CASE C(r)!resolveOutcome
  BY <1>5 DEF C!resolveOutcome, AnswerInv, C!Answers
<1>6. CASE UNCHANGED <<stage, cached, answer>>
  BY <1>6 DEF AnswerInv
<1>7. CASE \/ C(r)!BeginBatch \/ C(r)!OtherCall \/ C(r)!abort \/ C(r)!dispose \/ C(r)!StepEnds \/ C(r)!Settle \/ C(r)!HookEnds
           \/ C(r)!awaitChildrenClosed \/ UNCHANGED C(r)!vars
           \/ \E c \in C(r)!Own : (\E ok \in BOOLEAN : C(r)!Return(c, ok)) \/ C(r)!Race(c) \/ C(r)!CallbackEnds(c)
           \/ \E x \in Children[r] : C(r)!ChildCloses(x) \/ \E c \in C(r)!Own : C(r)!DispatchChild(c, x)
  BY <1>6, <1>7 DEF C!BeginBatch, C!OtherCall, C!abort, C!dispose, C!StepEnds, C!Settle, C!HookEnds,
                    C!awaitChildrenClosed, C!Return, C!Race, C!CallbackEnds, C!ChildCloses,
                    C!DispatchChild, C!vars, C!closeVars
<1> QED
  BY <1>1, <1>2, <1>3, <1>4, <1>5, <1>7 DEF C!Next

\* The first state.
LEMMA ClosingTypeInit ==
    ASSUME NEW r \in Closings
    PROVE  C(r)!ClosingAssumption /\ C(r)!Init => ClosingTypeInv(r) /\ CountIsRight(r)
<1> SUFFICES ASSUME C(r)!ClosingAssumption, C(r)!Init PROVE ClosingTypeInv(r) /\ CountIsRight(r)
  OBVIOUS
<1>1. ClosingFlagInv
  BY Zenon DEF ClosingFlagInv, C!Init
<1>2. LimiterInv(r)
  BY DEF LimiterInv, C!Init, Status
<1>3. C(r)!Working = {} /\ Raced(r) = {}
  BY DEF C!Init, C!Working, Raced
<1>4. CountInv(r) /\ CountIsRight(r)
  BY <1>3, OwnCalls, FS_EmptySet DEF CountInv, CountIsRight, C!Init
<1>5. OwnedInv(r)
  BY DEF OwnedInv, C!Init
<1>6. AnswerInv(r)
  BY DEF AnswerInv, C!Init, C!Answers
<1> QED
  BY <1>1, <1>2, <1>4, <1>5, <1>6 DEF ClosingTypeInv

LEMMA ClosingTypeStep ==
    ASSUME NEW r \in Closings
    PROVE  C(r)!ClosingAssumption /\ ClosingTypeInv(r) /\ (C(r)!Next \/ UNCHANGED C(r)!vars) => ClosingTypeInv(r)'
BY ClosingFlagStep, LimiterStep, CountStep, OwnedStep, AnswerStep DEF ClosingTypeInv

\* Together they are the types.
LEMMA ClosingTypeInvTypes ==
    ASSUME NEW r \in Closings
    PROVE  C(r)!ClosingAssumption /\ ClosingTypeInv(r) => C(r)!TypeOK
<1> SUFFICES ASSUME C(r)!ClosingAssumption, ClosingTypeInv(r) PROVE C(r)!TypeOK
  OBVIOUS
<1>1. {failed, cancelRequested, listening, detaching, drained, childrenDone} \subseteq BOOLEAN
  BY DEF ClosingTypeInv, ClosingFlagInv
<1>2. inFlightTools \in 0 .. Len(Calls[r]) + 1
  BY OwnCalls DEF ClosingTypeInv, CountInv
<1>3. \A i \in DOMAIN queue : queue[i] \in C(r)!Own /\ call[queue[i]] = "queued"
  BY DEF ClosingTypeInv, LimiterInv
<1>4. seen \subseteq {c \in C(r)!Own : call[c] = "raced"}
  BY DEF ClosingTypeInv, CountInv, Raced
<1> QED
  BY <1>1, <1>2, <1>3, <1>4 DEF ClosingTypeInv, LimiterInv, Status, OwnedInv, AnswerInv, C!TypeOK

-----------------------------------------------------------------------------
(* The count.                                                               *)

\* No abort finds a queue.
LEMMA LimitStep ==
    ASSUME NEW r \in Closings, C(r)!ClosingAssumption, C(r)!Steady, LimitInv(r), (C(r)!Next \/ UNCHANGED C(r)!vars)
    PROVE  LimitInv(r)'
<1>1. CASE C(r)!BeginBatch
  <2>1. cancelRequested' = cancelRequested /\ (queue' = queue \/ queue' = Waiting(r))
    BY <1>1 DEF C!BeginBatch, Waiting
  <2>2. Aborts[r] => Waiting(r) = <<>>
    BY Launch DEF C!Steady
  <2> QED
    BY <2>1, <2>2 DEF LimitInv
<1>2. ASSUME NEW c \in C(r)!Own, (\E ok \in BOOLEAN : C(r)!Return(c, ok)) \/ C(r)!Race(c) PROVE LimitInv(r)'
  <2>1. cancelRequested' = cancelRequested /\ queue' = C(r)!NextQueue
    BY <1>2 DEF C!Return, C!Race
  <2> QED
    BY <2>1 DEF LimitInv, C!NextQueue
<1>3. CASE C(r)!abort \/ C(r)!dispose
  BY <1>3 DEF C!abort, C!dispose, C!toolVars, LimitInv
<1>4. CASE UNCHANGED <<cancelRequested, queue>>
  BY <1>4 DEF LimitInv
<1>5. CASE \/ C(r)!OtherCall \/ C(r)!StepEnds \/ C(r)!Settle \/ C(r)!HookEnds \/ C(r)!classifyOutcome
           \/ C(r)!awaitChildrenClosed \/ C(r)!resolveOutcome \/ UNCHANGED C(r)!vars
           \/ \E c \in C(r)!Own : C(r)!CallbackEnds(c)
           \/ \E x \in Children[r] : C(r)!ChildCloses(x) \/ \E c \in C(r)!Own : C(r)!DispatchChild(c, x)
           \/ \E k \in Callers[r] : C(r)!closed(k) \/ C(r)!Deliver(k) \/ C(r)!onAbort(k)
  BY <1>4, <1>5 DEF C!OtherCall, C!StepEnds, C!Settle, C!HookEnds, C!classifyOutcome,
                    C!awaitChildrenClosed, C!resolveOutcome, C!CallbackEnds, C!ChildCloses,
                    C!DispatchChild, C!closed, C!Deliver, C!onAbort, C!vars, C!toolVars
<1> QED
  BY <1>1, <1>2, <1>3, <1>5 DEF C!Next

\* So promotions are counted well.
LEMMA LimitsCount ==
    ASSUME NEW r \in Closings
    PROVE  LimitInv(r) => CountedWell
BY DEF LimitInv, CountedWell

LEMMA ExactStep ==
    ASSUME NEW r \in Closings
    PROVE  C(r)!ClosingAssumption /\ C(r)!Steady /\ Exact(r) /\ (C(r)!Next \/ UNCHANGED C(r)!vars) => Exact(r)'
BY ClosingTypeStep, LimitStep, LimitsCount, CountStep DEF Exact, ClosingTypeInv

LEMMA ExactInit ==
    ASSUME NEW r \in Closings
    PROVE  C(r)!ClosingAssumption /\ C(r)!Init => Exact(r)
BY ClosingTypeInit, Zenon DEF Exact, LimitInv, C!Init

-----------------------------------------------------------------------------
(* The acknowledgement.                                                     *)

\* What is tame is steady.
LEMMA TameIsSteady ==
    ASSUME NEW r \in Closings
    PROVE  C(r)!Tame => C(r)!Steady
BY DEF C!Tame, C!Steady

\* A count of zero tells the truth, also one that is no longer kept.
LEMMA NothingCounted ==
    ASSUME NEW r \in Closings
    PROVE  C(r)!ClosingAssumption /\ Exact(r) /\ QuietInv(r) /\ inFlightTools = 0 => C(r)!Working = {}
<1> SUFFICES ASSUME C(r)!ClosingAssumption, Exact(r), QuietInv(r), inFlightTools = 0 PROVE C(r)!Working = {}
  OBVIOUS
<1>1. IsFiniteSet(C(r)!Working)
  BY WorkingFinite
<1> QED
  BY <1>1, FS_EmptySet DEF Exact, CountIsRight, QuietInv

\* Once closed() has seen the count at zero nothing of the run starts any more.
LEMMA QuietStep ==
    ASSUME NEW r \in Closings, C(r)!ClosingAssumption, C(r)!Tame, Exact(r), QuietInv(r), (C(r)!Next \/ UNCHANGED C(r)!vars)
    PROVE  QuietInv(r)'
<1>0. /\ C(r)!ClosingAssumption /\ ClosingFlagInv /\ LimiterInv(r) /\ CountInv(r) /\ OwnedInv(r) /\ AnswerInv(r)
      /\ CountIsRight(r) /\ QuietInv(r) /\ LimitInv(r) /\ ~Swapped[r] /\ ~LateChildren[r]
      /\ IsFiniteSet(C(r)!Working) /\ Cardinality(C(r)!Working) \in Nat /\ IsFiniteSet(C(r)!Working')
  <2>1. C(r)!Working' \in SUBSET C(r)!Own
    BY DEF C!Working
  <2> QED
    BY <2>1, OwnFinite, FS_Subset, WorkingFinite DEF Exact, ClosingTypeInv, C!Tame
<1>1. CASE C(r)!BeginBatch
  <2>1. /\ loop = "start" /\ loop' = "batch" /\ queue = <<>>
        /\ UNCHANGED <<failed, listening, detaching, cancelRequested, hook, child, stage,
                       drained, childrenDone, cached>>
    BY <1>0, <1>1 DEF C!BeginBatch, C!closeVars, LimiterInv
  <2>2. ~listening => C(r)!Working' = {}
    BY <1>0, <1>1, <2>1, AfterBegin DEF QuietInv
  <2>3. queue' = queue \/ queue' = Waiting(r)
    BY <1>1 DEF C!BeginBatch, Waiting
  <2>4. Len(Calls[r]) <= Limit[r] => queue' = <<>>
    BY <2>1, <2>3, Launch
  <2> QED
    BY <1>0, <2>1, <2>2, <2>4 DEF QuietInv
<1>2. ASSUME NEW c \in C(r)!Own, NEW ok \in BOOLEAN, C(r)!Return(c, ok) PROVE QuietInv(r)'
  <2> DEFINE n == C(r)!release(inFlightTools)
             goesOn == listening /\ ~(detaching /\ n = 0)
             k == IF goesOn THEN C(r)!AfterPromotion(n) ELSE n
             isDrain == n = 0 \/ (goesOn /\ C(r)!AfterPromotion(n) = 0)
  <2>1. /\ loop' = loop /\ loop # "start" /\ queue' = C(r)!NextQueue
        /\ failed' = (failed \/ (FailFast[r] /\ ~ok))
        /\ UNCHANGED <<hook, child, cancelRequested, stage, childrenDone, cached>>
    BY <1>0, <1>2 DEF C!Return, LimiterInv
  <2>2. /\ C(r)!Working' = (C(r)!Working \ {c}) \cup Started /\ c \in C(r)!Working
        /\ Cardinality(C(r)!Working') = Cardinality(C(r)!Working) - 1 + Cardinality(Started)
        /\ Cardinality(C(r)!Working) > 0
    BY <1>0, <1>2, AfterReturn
  <2>3. listening /\ inFlightTools = Cardinality(C(r)!Working) /\ n = Cardinality(C(r)!Working) - 1
        /\ n \in Nat
    BY <1>0, <2>2 DEF QuietInv, CountIsRight, C!release
  <2>4. /\ drained' = (drained \/ (stage = "cleanup" /\ isDrain))
        /\ listening' = (listening /\ ~(detaching /\ isDrain))
        /\ detaching' = (detaching /\ ~isDrain)
    BY <1>2, <2>3 DEF C!Return, C!Counted
  <2>5. queue = <<>> => queue' = <<>> /\ Cardinality(Started) = 0 /\ Started = {}
    BY <2>1, StartedCount DEF C!NextQueue, Started
  <2>6. /\ Cardinality(Started) \in Nat
        /\ queue = <<>> => C(r)!AfterPromotion(n) = n
    BY <2>3, StartedCount, PromotionCount DEF C!AfterPromotion
  <2>7. queue = <<>> /\ isDrain => C(r)!Working' = {}
    <3> SUFFICES ASSUME queue = <<>>, isDrain PROVE C(r)!Working' = {}
      OBVIOUS
    <3>1. n = 0
      BY <2>6
    <3>2. Cardinality(C(r)!Working') = 0
      BY <2>2, <2>3, <2>5, <3>1
    <3> QED
      BY <1>0, <3>2, FS_EmptySet
  <2> HIDE DEF n, goesOn, k, isDrain
  <2>8. ~drained /\ cached # "not-required"
    BY <1>0, <2>2 DEF QuietInv
  <2>9. ~listening' => C(r)!Working' = {}
    BY <1>0, <2>3, <2>4, <2>7 DEF QuietInv
  <2>10. drained' => C(r)!Working' = {} /\ loop' = "settled"
    BY <1>0, <2>1, <2>4, <2>7, <2>8 DEF QuietInv
  <2>11. stage # "done"
    BY <1>0, <2>8 DEF QuietInv
  <2> QED
    BY <1>0, <2>1, <2>4, <2>5, <2>8, <2>9, <2>10, <2>11 DEF QuietInv
<1>3. ASSUME NEW c \in C(r)!Own, C(r)!Race(c) PROVE QuietInv(r)'
  <2>1. /\ cancelRequested /\ queue = <<>>
    BY <1>0, <1>3 DEF C!Race, LimitInv
  <2>2. /\ queue' = <<>> /\ FailFast[r]' = FailFast[r] /\ failed' = (failed \/ FailFast[r])
        /\ UNCHANGED <<loop, listening, detaching, drained, cancelRequested, hook, child,
                       stage, childrenDone, cached>>
    BY <1>3, <2>1 DEF C!Race, C!onRaced, C!NextQueue
  <2>3. C(r)!Working' = C(r)!Working
    BY <1>0, <1>3, <2>1, AfterRace DEF Started
  <2> QED
    BY <1>0, <2>1, <2>2, <2>3 DEF QuietInv
<1>4. ASSUME NEW c \in C(r)!Own, C(r)!CallbackEnds(c) PROVE QuietInv(r)'
  <2>1. /\ C(r)!Working' = C(r)!Working \ {c} /\ c \in C(r)!Working /\ c \in Raced(r)
        /\ Cardinality(C(r)!Working) > 0 /\ Cardinality(C(r)!Working') = Cardinality(C(r)!Working) - 1
    BY <1>0, <1>4, AfterCallback
  <2>2. listening /\ inFlightTools = Cardinality(C(r)!Working) /\ c \in seen
    BY <1>0, <2>1 DEF QuietInv, CountIsRight, CountInv
  <2>3. /\ UNCHANGED <<loop, queue, failed, cancelRequested, hook, child, stage, childrenDone,
                       cached>>
        /\ drained' = (drained \/ (stage = "cleanup" /\ C(r)!release(inFlightTools) = 0))
        /\ listening' = (listening /\ ~(detaching /\ C(r)!release(inFlightTools) = 0))
        /\ detaching' = (detaching /\ ~(C(r)!release(inFlightTools) = 0))
    BY <1>4, <2>2 DEF C!CallbackEnds, C!Counted
  <2>4. C(r)!release(inFlightTools) = 0 => C(r)!Working' = {}
    <3>1. C(r)!release(inFlightTools) = Cardinality(C(r)!Working')
      BY <1>0, <2>1, <2>2 DEF C!release
    <3> QED
      BY <1>0, <3>1, FS_EmptySet
  <2>5. ~drained /\ cached # "not-required" /\ stage # "done" /\ loop # "start"
    BY <1>0, <1>4, <2>1 DEF QuietInv, LimiterInv, C!CallbackEnds
  <2> QED
    BY <1>0, <2>2, <2>3, <2>4, <2>5 DEF QuietInv
<1>5. CASE C(r)!StepEnds
  <2>1. /\ loop = "batch" /\ loop' = "stepped" /\ listening' = listening
        /\ UNCHANGED <<call, queue, failed, detaching, cancelRequested, hook, child, stage,
                       drained, childrenDone, cached>>
    BY <1>0, <1>5 DEF C!StepEnds, C!closeVars, ClosingFlagInv
  <2>2. queue = <<>>
    <3>1. CASE Len(Calls[r]) <= Limit[r]
      BY <1>0, <3>1 DEF QuietInv
    <3>2. CASE ~FailFast[r]
      BY <1>0, <1>5, <3>2 DEF C!StepEnds, QuietInv, LimiterInv
    <3> QED
      BY <3>1, <3>2 DEF C!Tame
  <2> QED
    BY <1>0, <2>1, <2>2, Unmoved DEF QuietInv
<1>6. CASE C(r)!dispose
  <2>1. /\ cancelRequested' = TRUE
        /\ listening' = (listening /\ inFlightTools # 0)
        /\ detaching' = (listening /\ inFlightTools # 0)
        /\ UNCHANGED <<call, queue, loop, failed, hook, child, stage, drained, childrenDone,
                       cached>>
    BY <1>0, <1>6 DEF C!dispose, C!stopForwarding, C!closeVars
  <2>2. queue = <<>>
    BY <1>0, <1>6 DEF C!dispose, LimitInv
  <2>3. inFlightTools = 0 => C(r)!Working = {}
    BY NothingCounted
  <2>4. loop = "start" => inFlightTools = 0
    BY <1>0 DEF CountInv
  <2> QED
    BY <1>0, <2>1, <2>2, <2>3, <2>4, Unmoved DEF QuietInv
<1>7. CASE C(r)!Settle
  <2>1. /\ loop' = "settled" /\ loop \in {"start", "stepped"}
        /\ hook' = IF Hooked[r] THEN "running" ELSE "none"
        /\ listening' = (listening /\ inFlightTools # 0)
        /\ detaching' = (listening /\ inFlightTools # 0)
        /\ UNCHANGED <<call, queue, failed, cancelRequested, child, stage, drained,
                       childrenDone, cached>>
    BY <1>0, <1>7 DEF C!Settle, C!stopForwarding, C!closeVars
  <2>2. queue = <<>>
    BY <1>0, <2>1 DEF QuietInv, LimiterInv
  <2>3. inFlightTools = 0 => C(r)!Working = {}
    BY NothingCounted
  <2>4. ~drained /\ ~childrenDone /\ stage \notin {"cleanup", "done"} /\ cached # "not-required"
    BY <1>0, <2>1 DEF QuietInv
  <2> QED
    BY <1>0, <2>1, <2>2, <2>3, <2>4, Unmoved DEF QuietInv
<1>8. CASE C(r)!HookEnds \/ C(r)!OtherCall
  <2>1. /\ UNCHANGED <<call, queue, failed, loop, listening, detaching, cancelRequested, child,
                       stage, drained, childrenDone, cached>>
        /\ hook' = hook \/ (hook = "running" /\ hook' = "over")
    BY <1>8 DEF C!HookEnds, C!OtherCall, C!toolVars, C!closeVars
  <2> QED
    BY <1>0, <2>1, Unmoved DEF QuietInv
<1>9. CASE C(r)!abort
  BY <1>0, <1>9, Unmoved DEF C!abort, C!toolVars, C!closeVars, QuietInv
<1>10. ASSUME NEW c \in C(r)!Own, NEW x \in Children[r], C(r)!DispatchChild(c, x) PROVE QuietInv(r)'
  <2>1. loop = "batch" /\ UNCHANGED <<call, queue, failed, loop, listening, detaching,
            cancelRequested, hook, stage, drained, childrenDone, cached>>
    BY <1>0, <1>10 DEF C!DispatchChild, C!toolVars, C!closeVars
  <2> QED
    BY <1>0, <2>1, Unmoved DEF QuietInv
<1>11. ASSUME NEW x \in Children[r], C(r)!ChildCloses(x) PROVE QuietInv(r)'
  <2>1. /\ \A y \in Children[r] : child'[y] = "open" => child[y] = "open"
        /\ UNCHANGED <<call, queue, failed, loop, listening, detaching, cancelRequested, hook,
                       stage, drained, childrenDone, cached>>
    BY <1>0, <1>11 DEF C!ChildCloses, C!toolVars, C!closeVars, OwnedInv
  <2> QED
    BY <1>0, <2>1, Unmoved DEF QuietInv
<1>12. ASSUME NEW k \in Callers[r], C(r)!closed(k) PROVE QuietInv(r)'
  <2>1. /\ UNCHANGED <<call, queue, failed, loop, listening, detaching, cancelRequested, hook,
                       child, drained, childrenDone>>
        /\ stage' = stage \/ (stage = "none" /\ stage' = "result")
        /\ cached' = cached \/ (cached' = "not-required" /\ C(r)!evaluateNotRequired)
    BY <1>12 DEF C!closed, C!toolVars
  <2>2. C(r)!evaluateNotRequired => loop = "settled" /\ C(r)!Working = {}
                                  /\ \A x \in Children[r] : child[x] # "open"
    <3> SUFFICES ASSUME C(r)!evaluateNotRequired
                 PROVE  loop = "settled" /\ C(r)!Working = {} /\ \A x \in Children[r] : child[x] # "open"
      OBVIOUS
    <3>1. loop = "settled" /\ inFlightTools = 0 /\ C(r)!Registered = {}
      BY <1>0 DEF C!evaluateNotRequired, C!hasInFlightWork, CountInv
    <3> QED
      BY <3>1, NothingCounted DEF C!Registered
  <2> QED
    BY <1>0, <2>1, <2>2, Unmoved DEF QuietInv
<1>13. CASE C(r)!classifyOutcome
  <2>1. /\ loop = "settled" /\ stage = "result" /\ stage' = "cleanup"
        /\ drained' = (inFlightTools = 0)
        /\ UNCHANGED <<call, queue, failed, loop, listening, detaching, cancelRequested, hook,
                       child, childrenDone, cached>>
    BY <1>13 DEF C!classifyOutcome, C!toolVars
  <2>2. inFlightTools = 0 => C(r)!Working = {}
    BY NothingCounted
  <2> QED
    BY <1>0, <2>1, <2>2, Unmoved DEF QuietInv
<1>14. CASE C(r)!awaitChildrenClosed
  <2>1. /\ stage = "cleanup"
        /\ childrenDone' => childrenDone \/ \A x \in Children[r] : child[x] # "open"
        /\ UNCHANGED <<call, queue, failed, loop, listening, detaching, cancelRequested, hook,
                       child, stage, drained, cached>>
    BY <1>14 DEF C!awaitChildrenClosed, C!toolVars, C!Registered
  <2> QED
    BY <1>0, <2>1, Unmoved DEF QuietInv
<1>15. CASE C(r)!resolveOutcome
  BY <1>0, <1>15, Unmoved DEF C!resolveOutcome, C!toolVars, QuietInv
<1>16. ASSUME NEW k \in Callers[r], C(r)!Deliver(k) \/ C(r)!onAbort(k) PROVE QuietInv(r)'
  BY <1>0, <1>16, Unmoved DEF C!Deliver, C!onAbort, C!toolVars, QuietInv
<1>17. CASE UNCHANGED C(r)!vars
  BY <1>0, <1>17, Unmoved DEF C!vars, C!toolVars, C!closeVars, QuietInv
<1> QED
  BY <1>1, <1>2, <1>3, <1>4, <1>5, <1>6, <1>7, <1>8, <1>9, <1>10, <1>11, <1>12, <1>13, <1>14,
     <1>15, <1>16, <1>17 DEF C!Next

\* At first nothing has been said.
LEMMA QuietInit ==
    ASSUME NEW r \in Closings
    PROVE  C(r)!Init => QuietInv(r)
BY DEF C!Init, QuietInv

-----------------------------------------------------------------------------
(* Only the run that the initial state picks moves.                        *)

RunsInv ==
    /\ \A r \in Loops : instance = r =>
          /\ LoopTypeInv(r) /\ DanglingInv /\ EndingInv(r) /\ GateInv(r) /\ UsageInv
          /\ ~Aborts[r] /\ ~StepAborts[r] /\ ~AfterThrows[r] => ExactUsageInv
    /\ \A r \in Closings : instance = r =>
          /\ ClosingTypeInv(r)
          /\ C(r)!Steady => Exact(r)
          /\ C(r)!Tame => QuietInv(r)

\* The invariants of the component that is picked hold at the start.
LEMMA RunsInit ==
    ASSUME Init PROVE RunsInv
<1>1. ASSUME NEW r \in Loops, instance = r
      PROVE  /\ LoopTypeInv(r) /\ DanglingInv /\ EndingInv(r) /\ GateInv(r) /\ UsageInv
             /\ ~Aborts[r] /\ ~StepAborts[r] /\ ~AfterThrows[r] => ExactUsageInv
  <2>1. L(r)!Init BY <1>1, Apart DEF Init, ClosingDoes
  <2>2. LoopTypeInv(r) /\ EndingInv(r) BY <2>1, LoopInstances, LoopTypeInit, EndingInit
  <2>3. DanglingInv BY <2>1 DEF L!Init, DanglingInv
  <2>4. GateInv(r) BY <2>1, LoopInstances, LoopBounds DEF L!Init, GateInv, L!PauseHolds, L!Working
  <2>5. UsageInv /\ ExactUsageInv BY <2>1 DEF L!Init, UsageInv, ExactUsageInv, Pending
  <2>6. QED BY <2>2, <2>3, <2>4, <2>5
<1>2. ASSUME NEW r \in Closings, instance = r
      PROVE  /\ ClosingTypeInv(r)
             /\ C(r)!Steady => Exact(r)
             /\ C(r)!Tame => QuietInv(r)
  <2>1. C(r)!Init BY <1>2, Apart DEF Init, LoopDoes
  <2>2. ClosingTypeInv(r) /\ Exact(r) /\ QuietInv(r)
    BY <2>1, ClosingInstances, ClosingTypeInit, ExactInit, QuietInit
  <2>3. QED BY <2>2
<1>3. QED BY <1>1, <1>2 DEF RunsInv

\* A step moves the run that is picked as its component moves, or not at all.
LEMMA OnePickMoves ==
    ASSUME [Next]_vars
    PROVE  /\ instance' = instance
           /\ \A r \in Loops : instance = r => L(r)!Next \/ UNCHANGED L(r)!vars
           /\ \A r \in Closings : instance = r => C(r)!Next \/ UNCHANGED C(r)!vars
<1>1. CASE UNCHANGED vars
  BY <1>1 DEF vars, loopVars, closingVars, L!vars, L!steering, L!reading, L!usage, L!results,
     L!ending, C!vars, C!toolVars, C!closeVars
<1>2. CASE Next BY <1>2, Apart DEF Next, LoopDoes, ClosingDoes
<1>3. QED BY <1>1, <1>2

\* A step keeps the invariants of the component that is picked.
LEMMA RunsNext ==
    ASSUME RunsInv, [Next]_vars PROVE RunsInv'
<1>1. ASSUME NEW r \in Loops, instance' = r
      PROVE  (/\ LoopTypeInv(r) /\ DanglingInv /\ EndingInv(r) /\ GateInv(r) /\ UsageInv
              /\ ~Aborts[r] /\ ~StepAborts[r] /\ ~AfterThrows[r] => ExactUsageInv)'
  <2>1. /\ LoopTypeInv(r) /\ DanglingInv /\ EndingInv(r) /\ GateInv(r) /\ UsageInv
        /\ ~Aborts[r] /\ ~StepAborts[r] /\ ~AfterThrows[r] => ExactUsageInv
        /\ L(r)!Next \/ UNCHANGED L(r)!vars
        /\ L(r)!LoopAssumption
    BY <1>1, OnePickMoves, LoopInstances DEF RunsInv
  <2>2. LoopTypeInv(r)' BY <2>1, LoopTypeStep
  <2>3. DanglingInv' BY <2>1, DanglingStep
  <2>4. EndingInv(r)' BY <2>1, EndingStep
  <2>5. GateInv(r)' BY <2>1, GateStep
  <2>6. UsageInv' BY <2>1, UsageStep
  <2>7. ~Aborts[r] /\ ~StepAborts[r] /\ ~AfterThrows[r] => ExactUsageInv'
    BY <2>1, ExactUsageStep
  <2>8. QED BY <2>2, <2>3, <2>4, <2>5, <2>6, <2>7
<1>2. ASSUME NEW r \in Closings, instance' = r
      PROVE  (/\ ClosingTypeInv(r)
              /\ C(r)!Steady => Exact(r)
              /\ C(r)!Tame => QuietInv(r))'
  <2>1. /\ ClosingTypeInv(r)
        /\ C(r)!Steady => Exact(r)
        /\ C(r)!Tame => QuietInv(r)
        /\ C(r)!Next \/ UNCHANGED C(r)!vars
        /\ C(r)!ClosingAssumption
    BY <1>2, OnePickMoves, ClosingInstances DEF RunsInv
  <2>2. ClosingTypeInv(r)' BY <2>1, ClosingTypeStep
  <2>3. C(r)!Steady => Exact(r)' BY <2>1, ExactStep
  <2>4. C(r)!Tame => QuietInv(r)' BY <2>1, TameIsSteady, QuietStep
  <2>5. C(r)!Steady' = C(r)!Steady /\ C(r)!Tame' = C(r)!Tame BY DEF C!Steady, C!Tame
  <2>6. QED BY <2>2, <2>3, <2>4, <2>5
<1>3. QED BY <1>1, <1>2 DEF RunsInv

\* The invariant of the composition.
LEMMA RunsInvariant == Spec => []RunsInv
<1>1. Init => RunsInv BY RunsInit
<1>2. RunsInv /\ [Next]_vars => RunsInv' BY RunsNext
<1>3. QED BY <1>1, <1>2, PTL DEF Spec

-----------------------------------------------------------------------------
(* The theorems.                                                           *)

\* However a run ends (an abort, an error, a veto, a retry that is not left, a
\* hook that throws), every tool call in its conversation has a result whenever
\* the provider is asked and when it has ended (sealDanglingToolCalls); a
\* recorded step is final exactly if it is the one the run stopped at
\* (finalizeStep); one terminal event was sent (makeAbortResult,
\* makeErrorResult, makeCompletedResult); and if nobody aborts and no hook throws
\* once the provider has answered, every response that was billed is in the usage
\* (accumulateUsage).  A result rejects only if something throws outside of a
\* try, and then at most one terminal event was sent, no step before the last is
\* final, and the conversation is complete whenever the provider is asked.
THEOREM RunsEndWhole == Spec => []RunEndsWhole
<1>1. ASSUME RunsInv, NEW r \in Loops, instance = r
      PROVE  /\ L(r)!TypeOK /\ L(r)!NoDanglingToolCall /\ L(r)!FinalIsLast
             /\ L(r)!OneTerminalEvent
             /\ ~MayReject[r] => finishReason # "rejected"
             /\ ~Aborts[r] /\ ~StepAborts[r] /\ ~AfterThrows[r] => L(r)!BilledIsRecorded
  <2>1. /\ LoopTypeInv(r) /\ DanglingInv /\ EndingInv(r) /\ L(r)!LoopAssumption
        /\ ~Aborts[r] /\ ~StepAborts[r] /\ ~AfterThrows[r] => ExactUsageInv
    BY <1>1, LoopInstances DEF RunsInv
  <2>2. L(r)!TypeOK BY <2>1, LoopTypeInvTypes
  <2>3. L(r)!NoDanglingToolCall BY <2>1 DEF DanglingInv, L!NoDanglingToolCall
  <2>4. L(r)!FinalIsLast BY <2>1 DEF EndingInv
  <2>5. L(r)!OneTerminalEvent /\ (~MayReject[r] => finishReason # "rejected")
    BY <2>1 DEF EndingInv, L!OneTerminalEvent
  <2>6. ExactUsageInv => L(r)!BilledIsRecorded
    BY <2>1 DEF ExactUsageInv, Pending, L!BilledIsRecorded, LoopTypeInv, ResponseInv
  <2>7. QED BY <2>1, <2>2, <2>3, <2>4, <2>5, <2>6
<1>2. RunsInv => RunEndsWhole BY <1>1 DEF RunEndsWhole
<1>3. QED BY <1>2, RunsInvariant, PTL

\* No step goes to work with a state of the gate that is paused, or with a
\* version that was not announced as applied, for any number of commands at any
\* await (the loop at the boundary, maybeDispatchSteeringApplied).
THEOREM PausedStaysPaused == Spec => []PauseHolds
<1>1. ASSUME RunsInv, NEW r \in Loops, instance = r
      PROVE  L(r)!PauseHolds /\ L(r)!AppliedIsWhatRuns
  BY <1>1 DEF RunsInv, GateInv, L!AppliedIsWhatRuns
<1>2. RunsInv => PauseHolds BY <1>1 DEF PauseHolds
<1>3. QED BY <1>2, RunsInvariant, PTL

\* The versions of the configuration that a run announces as applied ascend, and
\* it never reports more responses than were billed.
InOrder ==
    \A r \in Loops : instance = r => lastApplied' >= lastApplied /\ recorded <= billed

AppliedInOrder == [][InOrder]_vars

\* Every announcement is of a version above the last one (ReadGate, for
\* maybeDispatchSteeringApplied), and a response is accumulated once
\* (accumulateUsage), whatever is retried, aborted or thrown.
THEOREM VersionsInOrder == Spec => AppliedInOrder
<1>1. RunsInv /\ [Next]_vars => InOrder
  <2> SUFFICES ASSUME RunsInv, [Next]_vars, NEW r \in Loops, instance = r
               PROVE  lastApplied' >= lastApplied /\ recorded <= billed
    BY DEF InOrder
  <2>1. /\ LoopTypeInv(r) /\ UsageInv /\ L(r)!LoopAssumption
        /\ L(r)!Next \/ UNCHANGED L(r)!vars
    BY OnePickMoves, LoopInstances DEF RunsInv
  <2>2. recorded <= billed
    BY <2>1 DEF UsageInv, Pending, LoopTypeInv, ResponseInv
  <2>3. lastApplied' >= lastApplied BY <2>1, AppliedStep
  <2>4. QED BY <2>2, <2>3
<1>2. QED BY <1>1, RunsInvariant, PTL DEF Spec, AppliedInOrder

\* All callers of closed() that were answered were told the same; while the run
\* listens its count is that of its own callbacks that really run, if no abort
\* can find a call that waits for its turn (onExecuteStart, onSettled); and for
\* the batches that are Tame, once closed() has answered `completed`, or
\* `not-required` where no hook runs at the end, no callback, hook or child of
\* the run is at work (resolveOutcome, evaluateNotRequired).
THEOREM ClosedRunsAreQuiet == Spec => []ClosedIsQuiet
<1>1. ASSUME RunsInv, NEW r \in Closings, instance = r
      PROVE  /\ C(r)!TypeOK /\ C(r)!SameAnswer
             /\ C(r)!Steady => C(r)!CountsOwnCallbacks
             /\ C(r)!Tame => C(r)!CompletedIsQuiet
             /\ C(r)!Tame /\ ~Hooked[r] => C(r)!NotRequiredIsQuiet
  <2>1. /\ ClosingTypeInv(r) /\ C(r)!ClosingAssumption
        /\ C(r)!Steady => Exact(r)
        /\ C(r)!Tame => QuietInv(r)
    BY <1>1, ClosingInstances DEF RunsInv
  <2>2. C(r)!TypeOK BY <2>1, ClosingTypeInvTypes
  <2>3. C(r)!SameAnswer BY <2>1 DEF ClosingTypeInv, AnswerInv, C!SameAnswer
  <2>4. C(r)!Steady => C(r)!CountsOwnCallbacks
    BY <2>1, SameCardinality DEF Exact, CountIsRight, C!CountsOwnCallbacks
  <2>5. C(r)!Tame => C(r)!CompletedIsQuiet
    BY <2>1 DEF ClosingTypeInv, AnswerInv, QuietInv, C!CompletedIsQuiet, C!Quiet
  <2>6. C(r)!Tame /\ ~Hooked[r] => C(r)!NotRequiredIsQuiet
    BY <2>1 DEF ClosingTypeInv, OwnedInv, QuietInv, C!NotRequiredIsQuiet, C!Quiet
  <2>7. QED BY <2>2, <2>3, <2>4, <2>5, <2>6
<1>2. RunsInv => ClosedIsQuiet BY <1>1 DEF ClosedIsQuiet
<1>3. QED BY <1>2, RunsInvariant, PTL
=============================================================================
