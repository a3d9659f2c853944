---------------------------- MODULE ChunkedTask -----------------------------
(***************************************************************************)
(* createChunkedTask(): a long job cut into chunks, each of them one task   *)
(* of the scheduler, submitted one after the other.  The state of the job   *)
(* is the number of chunks done; processChunk answers `done` at the last.   *)
(*                                                                         *)
(* The scheduler is external.  A submission runs the chunk or is preempted  *)
(* before it could; a chunk that is preempted while it runs still comes to  *)
(* its end (the run awaits generate()), and then the submission is null.    *)
(***************************************************************************)
EXTENDS Naturals

CONSTANTS
    Chunks,                 \* the number of chunks of the job
    maxPreemptionRetries,
    Heeds,                  \* whether a preempted chunk gives up without progress
    MaxPreemptions          \* bound: preemptions in one job

ChunkAssumption ==
    /\ Chunks \in Nat \ {0} /\ maxPreemptionRetries \in Nat
    /\ Heeds \in BOOLEAN /\ MaxPreemptions \in Nat

VARIABLES
    pc,           \* "next", "submitted", "processing", "back", "complete", "failed"
    currentState,
    stateForChunk,
    chunkResult,  \* the state the chunk returned, or None
    chunkError,
    submitted,    \* the result of the submission: "run" or "null"
    retries,      \* preemptionRetries
    tries,        \* history: submissions for each state
    processed,    \* history: how often the chunk after each state was carried out
    preempted     \* preemptions so far

vars == <<pc, currentState, stateForChunk, chunkResult, chunkError, submitted, retries,
          tries, processed, preempted>>

\* States past the end are what a processChunk called once more would return.
States == 0 .. Chunks + MaxPreemptions
None == Chunks + MaxPreemptions + 1

Init ==
    /\ pc = "next"
    /\ currentState = 0 /\ stateForChunk = 0
    /\ chunkResult = None /\ chunkError = FALSE
    /\ submitted = "run"
    /\ retries = 0
    /\ tries = [c \in States |-> 0]
    /\ processed = [c \in States |-> 0]
    /\ preempted = 0

\* The top of the loop: a task for the chunk that comes next.
submit ==
    /\ pc = "next"
    /\ pc' = "submitted"
    /\ stateForChunk' = currentState
    /\ chunkResult' = None /\ chunkError' = FALSE
    /\ tries' = [tries EXCEPT ![currentState] = @ + 1]
    /\ UNCHANGED <<currentState, submitted, retries, processed, preempted>>

\* The scheduler drops the task before it has run.
Drop ==
    /\ pc = "submitted" /\ preempted < MaxPreemptions
    /\ preempted' = preempted + 1
    /\ submitted' = "null" /\ pc' = "back"
    /\ UNCHANGED <<currentState, stateForChunk, chunkResult, chunkError, retries, tries, processed>>

\* The scheduler runs the task: generate() calls processChunk with the state.
Dispatch ==
    /\ pc = "submitted"
    /\ pc' = "processing"
    /\ submitted' = "run"
    /\ UNCHANGED <<currentState, stateForChunk, chunkResult, chunkError, retries, tries, processed, preempted>>

\* The scheduler preempts the task while the chunk is processed.
Preempt ==
    /\ pc = "processing" /\ submitted = "run" /\ preempted < MaxPreemptions
    /\ submitted' = "null" /\ preempted' = preempted + 1
    /\ UNCHANGED <<pc, currentState, stateForChunk, chunkResult, chunkError, retries, tries, processed>>

\* processChunk returns the state after the chunk.
Processed ==
    /\ pc = "processing" /\ stateForChunk < None - 1
    /\ Heeds => submitted = "run"
    /\ chunkResult' = stateForChunk + 1
    /\ processed' = [processed EXCEPT ![stateForChunk] = @ + 1]
    /\ pc' = "back"
    /\ UNCHANGED <<currentState, stateForChunk, chunkError, submitted, retries, tries, preempted>>

\* processChunk throws: generate() keeps the error and returns.
Threw ==
    /\ pc = "processing"
    /\ chunkError' = TRUE
    /\ pc' = "back"
    /\ UNCHANGED <<currentState, stateForChunk, chunkResult, submitted, retries, tries, processed, preempted>>

\* What processChunk says of the state it returns.
done(state) == state >= Chunks

\* A faulty variant: the progress of a preempted chunk is dropped.
OnNull_forgetful ==
    /\ pc = "back" /\ submitted = "null"
    /\ retries' = retries + 1
    /\ pc' = IF retries + 1 > maxPreemptionRetries THEN "failed" ELSE "next"
    /\ UNCHANGED <<currentState, stateForChunk, chunkResult, chunkError, submitted, tries, processed, preempted>>

\* The submission was preempted: what the chunk has done is kept.
OnNull ==
    /\ pc = "back" /\ submitted = "null"
    /\ currentState' = IF chunkResult # None THEN chunkResult ELSE currentState
    /\ retries' = retries + 1
    /\ pc' = IF retries + 1 > maxPreemptionRetries THEN "failed" ELSE "next"
    /\ UNCHANGED <<stateForChunk, chunkResult, chunkError, submitted, tries, processed, preempted>>

\* The submission ran to its end.
OnResult ==
    /\ pc = "back" /\ submitted = "run"
    /\ IF chunkError
       THEN pc' = "failed" /\ UNCHANGED <<currentState, retries>>
       ELSE /\ currentState' = chunkResult
            /\ retries' = 0
            /\ pc' = IF done(chunkResult) THEN "complete" ELSE "next"
    /\ UNCHANGED <<stateForChunk, chunkResult, chunkError, submitted, tries, processed, preempted>>

Next ==
    \/ submit \/ Drop \/ Dispatch \/ Preempt \/ Processed \/ Threw
    \/ OnNull \/ OnResult

Spec == Init /\ [][Next]_vars

-----------------------------------------------------------------------------
(* Properties.                                                             *)

TypeOK ==
    /\ pc \in {"next", "submitted", "processing", "back", "complete", "failed"}
    /\ currentState \in States /\ stateForChunk \in States
    /\ chunkResult \in States \cup {None} /\ chunkError \in BOOLEAN
    /\ submitted \in {"run", "null"}
    /\ retries \in 0 .. maxPreemptionRetries + 1
    /\ tries \in [States -> Nat] /\ processed \in [States -> Nat]
    /\ preempted \in 0 .. MaxPreemptions

\* A chunk that has returned its state is not carried out again, preempted or
\* not: submitChunkedWork keeps the partial progress before it retries.
EachChunkOnce == \A c \in States : processed[c] <= 1

\* The job ends where processChunk said so: no chunk is processed after the one
\* that answered `done`.
DoneIsTheEnd == \A c \in States : c >= Chunks => processed[c] = 0

\* The job is given up for preemption only when one chunk was retried more than
\* maxPreemptionRetries times: a chunk that got through resets the count.
RetriesPerChunk ==
    pc = "failed" /\ ~chunkError => \E c \in States : tries[c] > maxPreemptionRetries
=============================================================================
