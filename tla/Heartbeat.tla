----------------------------- MODULE Heartbeat ------------------------------
(***************************************************************************)
(* createHeartbeat(): a loop that sleeps and then submits a task to the    *)
(* scheduler, and that stops itself after a number of failures in a row.   *)
(* start(), stop() and tick() may be called at any time, from outside.     *)
(*                                                                         *)
(* The variables are those of the closure; `running` and `sleepResolver`   *)
(* are shared by every loop that start() ever spawned.  The scheduler is   *)
(* external: a submission ends with a result, null (preempted) or an       *)
(* error.                                                                  *)
(***************************************************************************)
EXTENDS Integers, FiniteSets

CONSTANTS
    runImmediately,
    maxConsecutiveFailures,
    Patient,      \* whether start() is only called when no loop is left
    MaxStarts,    \* bound: calls of start() that spawn a loop
    MaxTicks      \* bound: ticks of the loops

HeartbeatAssumption ==
    /\ runImmediately \in BOOLEAN /\ Patient \in BOOLEAN
    /\ maxConsecutiveFailures \in Nat \ {0} /\ MaxStarts \in Nat /\ MaxTicks \in Nat

Loops == 1 .. MaxStarts
\* The ticks in flight are named by who awaits them: a loop, or a caller of tick().
Manual == 0
Tickers == Loops \cup {Manual}

VARIABLES
    running,
    failures,
    resolver,     \* sleepResolver: the loop it would wake, or none
    loop,         \* loop[l]: where the loop stands
    tick,         \* tick[x]: "none", "submitted", "callback"
    starts,       \* loops spawned so far
    ticks,        \* tickCounter
    stopping,     \* stop(): "no", "waiting", "returned"
    awaited,      \* inFlightTicks, as stop() found it
    aborted       \* the signal

vars == <<running, failures, resolver, loop, tick, starts, ticks, stopping, awaited, aborted>>

None == -1

Init ==
    /\ running = FALSE
    /\ failures = 0
    /\ resolver = None
    /\ loop = [l \in Loops |-> "none"]
    /\ tick = [x \in Tickers |-> "none"]
    /\ starts = 0
    /\ ticks = 0
    /\ stopping = "no"
    /\ awaited = {}
    /\ aborted = FALSE

InFlight == {x \in Tickers : tick[x] # "none"}
LiveLoops == {l \in Loops : loop[l] \notin {"none", "ended"}}

Goes == running /\ ~aborted

-----------------------------------------------------------------------------
(* The loop.                                                               *)

\* start() of a heartbeat that is not running spawns a loop, which runs up to
\* its first await.
start ==
    /\ starts < MaxStarts
    /\ Patient => LiveLoops = {}
    /\ ~running
    /\ running' = TRUE
    /\ starts' = starts + 1
    /\ LET l == starts + 1
       IN  /\ loop' = [loop EXCEPT ![l] = IF runImmediately THEN "ticking"
                                          ELSE IF ~aborted THEN "sleeping" ELSE "ended"]
           /\ resolver' = IF ~runImmediately /\ ~aborted THEN l ELSE resolver
           /\ tick' = IF runImmediately THEN [tick EXCEPT ![l] = "submitted"] ELSE tick
    /\ ticks' = IF runImmediately THEN ticks + 1 ELSE ticks
    /\ stopping' = "no"
    /\ UNCHANGED <<failures, awaited, aborted>>

\* The interval has passed.
SleepOver(l) ==
    /\ loop[l] = "sleeping"
    /\ loop' = [loop EXCEPT ![l] = "woken"]
    /\ UNCHANGED <<running, failures, resolver, tick, starts, ticks, stopping, awaited, aborted>>

\* The loop goes on after its sleep: whichever resolver there is, it clears it.
Awake(l) ==
    /\ loop[l] = "woken"
    /\ resolver' = None
    /\ IF Goes
       THEN /\ ticks < MaxTicks
            /\ loop' = [loop EXCEPT ![l] = "ticking"]
            /\ tick' = [tick EXCEPT ![l] = "submitted"] /\ ticks' = ticks + 1
       ELSE loop' = [loop EXCEPT ![l] = "ended"] /\ UNCHANGED <<tick, ticks>>
    /\ UNCHANGED <<running, failures, starts, stopping, awaited, aborted>>

\* The loop goes on after a tick.
AfterTick(l) ==
    /\ loop[l] = "ticking" /\ tick[l] = "none"
    /\ loop' = [loop EXCEPT ![l] = IF Goes THEN "sleeping" ELSE "ended"]
    /\ resolver' = IF Goes THEN l ELSE resolver
    /\ UNCHANGED <<running, failures, tick, starts, ticks, stopping, awaited, aborted>>

-----------------------------------------------------------------------------
(* A tick.                                                                 *)

tickNow ==
    /\ tick[Manual] = "none" /\ ticks < MaxTicks
    /\ tick' = [tick EXCEPT ![Manual] = "submitted"]
    /\ ticks' = ticks + 1
    /\ UNCHANGED <<running, failures, resolver, loop, starts, stopping, awaited, aborted>>

Wake == IF resolver = None THEN loop ELSE [loop EXCEPT ![resolver] = "woken"]

\* The stop() that a tick calls when the failures have reached the limit.
Trip == running' = FALSE /\ loop' = Wake /\ resolver' = None

\* performTick() after the submission: a rejection skips the callback.
Settle(x, outcome) ==
    /\ tick[x] = "submitted"
    /\ tick' = [tick EXCEPT ![x] = IF outcome = "rejected" THEN "none" ELSE "callback"]
    /\ failures' = CASE outcome = "success" -> 0
                     [] outcome = "null" -> failures
                     [] outcome \in {"error", "rejected"} -> failures + 1
    /\ IF outcome \in {"error", "rejected"} /\ failures + 1 >= maxConsecutiveFailures
       THEN Trip ELSE UNCHANGED <<running, loop, resolver>>
    /\ UNCHANGED <<starts, ticks, stopping, awaited, aborted>>

\* onTick has returned, or thrown.
fireOnTick(x) ==
    /\ tick[x] = "callback"
    /\ tick' = [tick EXCEPT ![x] = "none"]
    /\ UNCHANGED <<running, failures, resolver, loop, starts, ticks, stopping, awaited, aborted>>

-----------------------------------------------------------------------------
(* The end.                                                                *)

\* A faulty variant: a heartbeat that has stopped itself is not awaited any more.
stop_early ==
    /\ stopping # "waiting"
    /\ running' = FALSE
    /\ IF ~running
       THEN UNCHANGED <<loop, resolver, awaited>> /\ stopping' = "returned"
       ELSE /\ loop' = Wake /\ resolver' = None
            /\ awaited' = InFlight /\ stopping' = "waiting"
    /\ UNCHANGED <<failures, tick, starts, ticks, aborted>>

stop ==
    /\ stopping # "waiting"
    /\ running' = FALSE
    /\ IF ~running /\ InFlight = {}
       THEN UNCHANGED <<loop, resolver, awaited>> /\ stopping' = "returned"
       ELSE /\ loop' = Wake /\ resolver' = None
            /\ awaited' = InFlight /\ stopping' = "waiting"
    /\ UNCHANGED <<failures, tick, starts, ticks, aborted>>

\* The ticks that stop() found have settled.
Stopped ==
    /\ stopping = "waiting"
    /\ awaited \cap InFlight = {}
    /\ stopping' = "returned"
    /\ UNCHANGED <<running, failures, resolver, loop, tick, starts, ticks, awaited, aborted>>

Abort ==
    /\ ~aborted
    /\ aborted' = TRUE
    /\ UNCHANGED <<running, failures, resolver, loop, tick, starts, ticks, stopping, awaited>>

Outcomes == {"success", "null", "error", "rejected"}

LoopGoesOn(l) == SleepOver(l) \/ Awake(l) \/ AfterTick(l)
TickGoesOn(x) == (\E o \in Outcomes : Settle(x, o)) \/ fireOnTick(x)

Step ==
    \/ \E l \in Loops : LoopGoesOn(l)
    \/ \E x \in Tickers : TickGoesOn(x)
    \/ Stopped

Next == start \/ tickNow \/ stop \/ Abort \/ Step

Spec == Init /\ [][Next]_vars

-----------------------------------------------------------------------------
(* Properties.                                                             *)

TypeOK ==
    /\ running \in BOOLEAN /\ aborted \in BOOLEAN
    /\ failures \in 0 .. MaxTicks + MaxStarts
    /\ resolver \in Loops \cup {None}
    /\ resolver # None => loop[resolver] \in {"sleeping", "woken"}
    /\ loop \in [Loops -> {"none", "sleeping", "woken", "ticking", "ended"}]
    /\ tick \in [Tickers -> {"none", "submitted", "callback"}]
    /\ starts \in 0 .. MaxStarts /\ ticks \in 0 .. MaxTicks + MaxStarts
    /\ stopping \in {"no", "waiting", "returned"} /\ awaited \subseteq Tickers

\* Once stop() has returned, no tick of a loop is in flight and none begins,
\* until start() is called: however the sleep, the tick, the breaker and a
\* second stop() interleave (the checks of `running` around each await).
StopIsABoundary ==
    stopping = "returned" /\ ~running => InFlight \subseteq {Manual}

\* The loop sleeps between two ticks instead of letting them pile up: there is
\* one loop at most, and with it one tick of a loop in flight.
NoTickStacking == Cardinality(LiveLoops) <= 1

\* No loop sleeps on in a heartbeat that is stopped: a stop() or the breaker, at
\* whichever point of the loop, finds the resolver of the sleep it must end.
StopWakes == ~running => \A l \in Loops : loop[l] # "sleeping"
=============================================================================
