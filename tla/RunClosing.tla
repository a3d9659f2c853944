----------------------------- MODULE RunClosing -----------------------------
(***************************************************************************)
(* closed() of an in-memory run: what createActiveRun() counts, and when    *)
(* it acknowledges that everything the run owns has come to its end.        *)
(*                                                                         *)
(* The run makes one batch of tool calls and ends.  A call's callback may   *)
(* outlive the batch: the batch fails fast while a sibling runs on, or the  *)
(* call loses the race against the abort signal and its callback takes no   *)
(* notice.  The run counts execute-start and settled events of the toolbox  *)
(* (inFlightTools), of its own calls only, as long as it listens; what the  *)
(* count misses, closed() does not wait for.  Beside the callbacks there    *)
(* are the hook that runs when the run ends, and the children that the      *)
(* callbacks dispatch.                                                      *)
(***************************************************************************)
EXTENDS Naturals, FiniteSets, Sequences

CONSTANTS
    Calls,          \* the batch, a sequence of distinct calls
    Limit,          \* the batch's concurrency
    FailFast,       \* errorMode: failFast, or collect
    Swapped,        \* whether selectTools gives the step a toolbox of its own
    Hooked,         \* whether a hook runs at the end of the run
    Aborts,         \* whether the run may be aborted
    LateChildren,   \* whether a callback dispatches a child after its batch has ended
    Children,
    Callers         \* the calls of closed()

Own == {Calls[i] : i \in DOMAIN Calls}

ClosingAssumption ==
    /\ Limit \in Nat \ {0}
    /\ Calls \in Seq(Own)
    /\ \A i, j \in DOMAIN Calls : Calls[i] = Calls[j] => i = j
    /\ {FailFast, Swapped, Hooked, Aborts, LateChildren} \subseteq BOOLEAN

VARIABLES
    loop,           \* "start", "batch", "stepped", "settled": where the run is
    call,           \* each call: "idle", "queued", "running", "raced", "over"
    queue,          \* the limiter's queue
    failed,         \* whether the batch has been rejected
    cancelRequested,
    listening,      \* whether the run's listeners are on the toolbox of the batch
    inFlightTools,
    seen,           \* the raced calls whose `settled` the run has seen
    detaching,      \* whether the base toolbox's listeners go at the next drain
    hook,           \* "none", "running", "over"
    child,          \* each child: "none", "open", "closed"
    other,          \* a call of another run on the same toolbox
    stage,          \* closed()'s pending promise: "none", "result", "cleanup", "done"
    drained,        \* whether its awaitToolDrain() has resolved
    watched,        \* the children its awaitChildrenClosed() has awaited last
    childrenDone,   \* whether its awaitChildrenClosed() has resolved
    cached,
    answer          \* each caller: "uncalled", "waiting" or what it was told

toolVars == <<loop, call, queue, failed, listening, inFlightTools, seen, detaching>>
closeVars == <<stage, drained, watched, childrenDone, cached, answer>>
vars == <<toolVars, closeVars, cancelRequested, hook, child, other>>

Unasked == "none"
Answers == {"not-required", "completed"}

Init ==
    /\ loop = "start"
    /\ call = [c \in Own |-> "idle"]
    /\ queue = <<>>
    /\ failed = FALSE
    /\ cancelRequested = FALSE
    /\ listening = TRUE
    /\ inFlightTools = 0
    /\ seen = {}
    /\ detaching = FALSE
    /\ hook = "none"
    /\ child = [x \in Children |-> "none"]
    /\ other = "idle"
    /\ stage = "none" /\ drained = FALSE
    /\ watched = {Unasked} /\ childrenDone = FALSE
    /\ cached = "none"
    /\ answer = [k \in Callers |-> "uncalled"]

Registered == {x \in Children : child[x] # "none"}

-----------------------------------------------------------------------------
(* The count.                                                               *)

isOwnEvent(mine) == mine

onExecuteStart(n, mine) ==
    IF listening /\ isOwnEvent(mine) THEN n + 1 ELSE n

release(n) == IF n = 0 THEN 0 ELSE n - 1

\* The count after the events of one step; at zero the waiters are resolved.
Counted(n, isDrain) ==
    /\ inFlightTools' = n
    /\ drained' = (drained \/ (stage = "cleanup" /\ isDrain))
    /\ listening' = (listening /\ ~(detaching /\ isDrain))
    /\ detaching' = (detaching /\ ~isDrain)

\* A faulty variant: the count goes down when the race is decided.
onRaced_early(c) ==
    /\ seen' = seen
    /\ IF listening THEN Counted(release(inFlightTools), release(inFlightTools) = 0)
       ELSE UNCHANGED <<inFlightTools, drained, listening, detaching>>

\* `settled` while the callback still runs: the count waits for callbackCompletion.
onRaced(c) ==
    /\ seen' = (IF listening THEN seen \cup {c} ELSE seen)
    /\ UNCHANGED <<inFlightTools, drained, listening, detaching>>

-----------------------------------------------------------------------------
(* The batch.  The limiter starts the next queued call when one settles.    *)

\* The call that the limiter promotes: cancelled before it starts if the run has
\* been aborted (`settled` without execute-start), running otherwise.
NextCalls(settledCall) ==
    LET after == [call EXCEPT ![settledCall[1]] = settledCall[2]]
    IN  IF queue = <<>> THEN after
        ELSE IF cancelRequested
             THEN [c \in Own |-> IF \E i \in DOMAIN queue : queue[i] = c THEN "over" ELSE after[c]]
             ELSE [after EXCEPT ![Head(queue)] = "running"]

NextQueue == IF queue = <<>> \/ cancelRequested THEN <<>> ELSE Tail(queue)

\* What the promoted calls' events do to the count n.
AfterPromotion(n) ==
    IF queue = <<>> THEN n
    ELSE IF cancelRequested THEN (IF Len(queue) >= n THEN 0 ELSE n - Len(queue))
    ELSE n + 1

\* stepToolbox.execute(): as many calls as the limit allows start in one turn.
BeginBatch ==
    /\ loop = "start"
    /\ loop' = "batch"
    /\ IF cancelRequested
       THEN /\ call' = [c \in Own |-> "over"]
            /\ inFlightTools' = IF listening THEN release(inFlightTools) ELSE inFlightTools
            /\ UNCHANGED queue
       ELSE /\ call' = [c \in Own |->
                           IF \E i \in 1 .. Limit : i <= Len(Calls) /\ Calls[i] = c
                           THEN "running" ELSE "queued"]
            /\ queue' = SubSeq(Calls, Limit + 1, Len(Calls))
            /\ inFlightTools' = IF ~listening THEN inFlightTools
                                ELSE inFlightTools + (IF Limit <= Len(Calls) THEN Limit ELSE Len(Calls))
    /\ UNCHANGED <<failed, listening, seen, detaching, cancelRequested, hook, child, other, closeVars>>

\* The callback returns or throws: `settled`, the count, and the next call.
Return(c, ok) ==
    /\ call[c] = "running"
    /\ call' = NextCalls(<<c, "over">>) /\ queue' = NextQueue
    /\ failed' = (failed \/ (FailFast /\ ~ok))
    /\ LET n == release(inFlightTools)
           goesOn == listening /\ ~(detaching /\ n = 0)
       IN  IF listening
           THEN Counted(IF goesOn THEN AfterPromotion(n) ELSE n,
                        n = 0 \/ (goesOn /\ AfterPromotion(n) = 0))
           ELSE UNCHANGED <<inFlightTools, drained, listening, detaching>>
    /\ UNCHANGED <<loop, seen, cancelRequested, hook, child, other, stage, watched, childrenDone, cached, answer>>

\* The call loses the race against the abort signal; its callback runs on.
Race(c) ==
    /\ call[c] = "running" /\ cancelRequested
    /\ call' = NextCalls(<<c, "raced">>) /\ queue' = NextQueue
    /\ failed' = (failed \/ FailFast)
    /\ IF queue = <<>> THEN onRaced(c)
       ELSE /\ seen' = (IF listening THEN seen \cup {c} ELSE seen)
            /\ IF listening
               THEN Counted(AfterPromotion(inFlightTools), AfterPromotion(inFlightTools) = 0)
               ELSE UNCHANGED <<inFlightTools, drained, listening, detaching>>
    /\ UNCHANGED <<loop, cancelRequested, hook, child, other, stage, watched, childrenDone, cached, answer>>

\* callbackCompletion: a callback that had lost the race comes to its end.
CallbackEnds(c) ==
    /\ call[c] = "raced"
    /\ call' = [call EXCEPT ![c] = "over"]
    /\ IF c \in seen
       THEN Counted(release(inFlightTools), release(inFlightTools) = 0)
       ELSE UNCHANGED <<inFlightTools, drained, listening, detaching>>
    /\ seen' = seen \ {c}
    /\ UNCHANGED <<loop, queue, failed, cancelRequested, hook, child, other,
                   stage, watched, childrenDone, cached, answer>>

\* A call of another run on the toolbox that both runs were given.
OtherCall ==
    /\ ~Swapped
    /\ \/ other = "idle" /\ other' = "running" /\ inFlightTools' = onExecuteStart(inFlightTools, FALSE)
       \/ other = "running" /\ other' = "over"
          /\ inFlightTools' = IF listening /\ isOwnEvent(FALSE) THEN release(inFlightTools)
                              ELSE inFlightTools
    /\ UNCHANGED <<loop, call, queue, failed, listening, seen, detaching, cancelRequested, hook, child, closeVars>>

-----------------------------------------------------------------------------
(* The run.                                                                 *)

abort ==
    /\ Aborts /\ ~cancelRequested
    /\ cancelRequested' = TRUE
    /\ UNCHANGED <<toolVars, hook, child, other, closeVars>>

\* The batch has returned, or was rejected; onStepToolbox() puts the base
\* toolbox back, and a swapped one is no longer listened to.
StepEnds ==
    /\ loop = "batch"
    /\ failed \/ \A c \in Own : call[c] \in {"raced", "over"}
    /\ loop' = "stepped"
    /\ listening' = (listening /\ ~Swapped)
    /\ UNCHANGED <<call, queue, failed, inFlightTools, seen, detaching, cancelRequested, hook, child, other, closeVars>>

\* complete() stops the forwarder: a swapped toolbox is left at once, the base
\* toolbox when no call is in flight any more.
stopForwarding ==
    /\ listening' = (listening /\ ~Swapped /\ inFlightTools # 0)
    /\ detaching' = (listening /\ ~Swapped /\ inFlightTools # 0)

\* [Symbol.dispose](): abort() and complete().
dispose ==
    /\ Aborts /\ ~cancelRequested
    /\ cancelRequested' = TRUE
    /\ stopForwarding
    /\ UNCHANGED <<loop, call, queue, failed, inFlightTools, seen, hook, child, other, closeVars>>

\* The run ends, with or without a batch: its hook is fired, its result settles.
Settle ==
    /\ loop = "stepped" \/ (loop = "start" /\ cancelRequested)
    /\ loop' = "settled"
    /\ hook' = IF Hooked THEN "running" ELSE "none"
    /\ stopForwarding
    /\ UNCHANGED <<call, queue, failed, inFlightTools, seen, cancelRequested, child, other, closeVars>>

HookEnds ==
    /\ hook = "running" /\ hook' = "over"
    /\ UNCHANGED <<toolVars, cancelRequested, child, other, closeVars>>

\* A callback dispatches a child, which is registered with its closed().
DispatchChild(c, x) ==
    /\ call[c] \in {"running", "raced"}
    /\ LateChildren \/ (loop = "batch" /\ ~cancelRequested /\ ~failed)
    /\ child[x] = "none"
    /\ child' = [child EXCEPT ![x] = "open"]
    /\ UNCHANGED <<toolVars, cancelRequested, hook, other, closeVars>>

ChildCloses(x) ==
    /\ child[x] = "open"
    /\ child' = [child EXCEPT ![x] = "closed"]
    /\ UNCHANGED <<toolVars, cancelRequested, hook, other, closeVars>>

-----------------------------------------------------------------------------
(* The acknowledgement.                                                     *)

hasInFlightWork == inFlightTools > 0 \/ Registered # {}

evaluateNotRequired == loop = "settled" /\ ~hasInFlightWork /\ ~cancelRequested

\* closed(): the cached answer, the one of the fast path, or the pending promise.
closed(k) ==
    /\ answer[k] = "uncalled"
    /\ LET answered == IF cached # "none" THEN cached
                       ELSE IF stage = "none" /\ evaluateNotRequired THEN "not-required"
                       ELSE "none"
       IN  /\ cached' = answered
           /\ answer' = [answer EXCEPT ![k] = IF answered = "none" THEN "waiting" ELSE answered]
           /\ stage' = IF answered = "none" /\ stage = "none" THEN "result" ELSE stage
    /\ UNCHANGED <<toolVars, cancelRequested, hook, child, other, drained, watched, childrenDone>>

\* The result has settled: resolveOutcome() begins its three waits.
classifyOutcome ==
    /\ stage = "result" /\ loop = "settled"
    /\ stage' = "cleanup"
    /\ drained' = (inFlightTools = 0)
    /\ UNCHANGED <<toolVars, cancelRequested, hook, child, other, watched, childrenDone, cached, answer>>

\* Read the registry, await its children, until it has not grown.
awaitChildrenClosed ==
    /\ stage = "cleanup" /\ ~childrenDone
    /\ \A x \in watched \cap Children : child[x] = "closed"
    /\ IF watched = Registered THEN childrenDone' = TRUE /\ UNCHANGED watched
       ELSE watched' = Registered /\ UNCHANGED childrenDone
    /\ UNCHANGED <<toolVars, cancelRequested, hook, child, other, stage, drained, cached, answer>>

resolveOutcome ==
    /\ stage = "cleanup" /\ drained /\ childrenDone /\ hook # "running"
    /\ stage' = "done" /\ cached' = "completed"
    /\ UNCHANGED <<toolVars, cancelRequested, hook, child, other, drained, watched, childrenDone, answer>>

Deliver(k) ==
    /\ answer[k] = "waiting" /\ cached # "none"
    /\ answer' = [answer EXCEPT ![k] = cached]
    /\ UNCHANGED <<toolVars, cancelRequested, hook, child, other, stage, drained, watched, childrenDone, cached>>

\* The signal that bounds this caller's wait fires.
onAbort(k) ==
    /\ answer[k] = "waiting"
    /\ answer' = [answer EXCEPT ![k] = "timed-out"]
    /\ UNCHANGED <<toolVars, cancelRequested, hook, child, other, stage, drained, watched, childrenDone, cached>>

-----------------------------------------------------------------------------

Next ==
    \/ BeginBatch
    \/ \E c \in Own : \E ok \in BOOLEAN : Return(c, ok)
    \/ \E c \in Own : Race(c)
    \/ \E c \in Own : CallbackEnds(c)
    \/ OtherCall
    \/ abort
    \/ dispose
    \/ StepEnds
    \/ Settle
    \/ HookEnds
    \/ \E c \in Own : \E x \in Children : DispatchChild(c, x)
    \/ \E x \in Children : ChildCloses(x)
    \/ \E k \in Callers : closed(k)
    \/ classifyOutcome
    \/ awaitChildrenClosed
    \/ resolveOutcome
    \/ \E k \in Callers : Deliver(k)
    \/ \E k \in Callers : onAbort(k)

Spec == Init /\ [][Next]_vars

\* The steps the run, and its closing, take by themselves.
RunGoesOn == BeginBatch \/ StepEnds \/ Settle \/ HookEnds
ClosingGoesOn == classifyOutcome \/ awaitChildrenClosed \/ resolveOutcome

-----------------------------------------------------------------------------

TypeOK ==
    /\ loop \in {"start", "batch", "stepped", "settled"}
    /\ call \in [Own -> {"idle", "queued", "running", "raced", "over"}]
    /\ \A i \in DOMAIN queue : queue[i] \in Own /\ call[queue[i]] = "queued"
    /\ {failed, cancelRequested, listening, detaching, drained, childrenDone} \subseteq BOOLEAN
    /\ inFlightTools \in 0 .. Len(Calls) + 1
    /\ seen \subseteq {c \in Own : call[c] = "raced"}
    /\ hook \in {"none", "running", "over"}
    /\ child \in [Children -> {"none", "open", "closed"}]
    /\ other \in {"idle", "running", "over"}
    /\ stage \in {"none", "result", "cleanup", "done"}
    /\ watched = {Unasked} \/ watched \subseteq Registered
    /\ cached \in Answers \cup {"none"}
    /\ answer \in [Callers -> Answers \cup {"uncalled", "waiting", "timed-out"}]

Working == {c \in Own : call[c] \in {"running", "raced"}}
Quiet == Working = {} /\ hook # "running" /\ \A x \in Children : child[x] # "open"

\* The batches of which the count is exact: no abort finds a call waiting for
\* its turn.
Steady == Aborts => Len(Calls) <= Limit

\* The batches of which `completed` means quiet: they use the base toolbox,
\* children come in time, and all calls start at once, or the batch neither
\* fails fast nor is aborted.
Tame ==
    /\ Len(Calls) <= Limit \/ (~Aborts /\ ~FailFast)
    /\ ~Swapped /\ ~LateChildren

\* While the run listens, its count is the number of its own callbacks that
\* really run: it neither drops one that lost the abort race nor takes one of
\* another run on the same toolbox (onExecuteStart, onSettled, isOwnEvent).
CountsOwnCallbacks == listening => inFlightTools = Cardinality(Working)

\* When closed() has acknowledged `completed`, no callback, no hook and no child
\* of the run is at work (resolveOutcome).
CompletedIsQuiet == cached = "completed" => Quiet

\* When closed() has answered `not-required`, nothing was left that needed
\* cleanup (evaluateNotRequired, hasInFlightWork).
NotRequiredIsQuiet == cached = "not-required" => Quiet

\* All callers that were answered were told the same: one that gave up waiting
\* does not decide for the others (createClosedAcknowledgement).
SameAnswer ==
    \A j, k \in Callers :
        answer[j] \in Answers /\ answer[k] \in Answers => answer[j] = answer[k] /\ answer[k] = cached
=============================================================================
