---------------------------- MODULE FlowControl -----------------------------
(***************************************************************************)
(* The admission of runs: createFlowController() with its three policies   *)
(* (one run per singleton key, a sliding window of admissions, a number of *)
(* slots per key), and the two users the bureau connects to it: runs from  *)
(* createRun(), which park when they ask a human and are resumed by a      *)
(* signal, and tasks of the scheduler, which report through its events.    *)
(*                                                                         *)
(* Every operation of the controller is synchronous.  What surrounds it is *)
(* not: the events of a run and the calls of the bureau come in any order. *)
(***************************************************************************)
EXTENDS Integers, Sequences, FiniteSets

CONSTANTS
    Runs,         \* the runs of the API
    Tasks,        \* the tasks of the scheduler
    Keys,         \* the values of the key functions
    KeyOf,        \* the concurrency and rate key of a run
    SingletonOf,  \* the singleton key of a run
    Limit,        \* concurrency.limit
    RateLimit,    \* rateLimit.limit
    Window,       \* rateLimit.windowMilliseconds
    Faults,       \* whether the engine may fail to suspend, or abandon a run
    MaxNow        \* bound: the clock stops here

All == Runs \cup Tasks

FlowAssumption ==
    /\ Runs \cap Tasks = {}
    /\ IsFiniteSet(All)
    /\ KeyOf \in [All -> Keys] /\ SingletonOf \in [All -> Keys]
    /\ Limit \in Nat /\ RateLimit \in Nat /\ Window \in Nat \ {0} /\ MaxNow \in Nat
    /\ Faults \in BOOLEAN

VARIABLES
    now,
    counts,       \* counts[k]: concurrencyCounts
    slot,         \* slot[r]: the entry of concurrencyByRun: "none", "held", "free"
    holders,      \* holders[k]: singletonHolders, the run or none
    claims,       \* the runs with an entry in singletonKeyByRun
    stamps,       \* stamps[k]: the admissions the sliding window remembers
    life,         \* life[r]: what the run really does
    signalled     \* the runs for which signalSession() has yet to call markResumed

vars == <<now, counts, slot, holders, claims, stamps, life, signalled>>
controller == <<counts, slot, holders, claims, stamps>>

Init ==
    /\ now = 0
    /\ counts = [k \in Keys |-> 0]
    /\ slot = [r \in All |-> "none"]
    /\ holders = [k \in Keys |-> {}]
    /\ claims = {}
    /\ stamps = [k \in Keys |-> <<>>]
    /\ life = [r \in All |-> "new"]
    /\ signalled = {}

Become(r, l) == life' = [life EXCEPT ![r] = l]

-----------------------------------------------------------------------------
(* The controller.                                                         *)

\* pruneExpired(): the stamps are in order, so those that go are a prefix.
Expired(k) == {i \in DOMAIN stamps[k] : stamps[k][i] < now - Window}
Recent(k) == SubSeq(stamps[k], Cardinality(Expired(k)) + 1, Len(stamps[k]))

\* computeDelay() = 0.
hasCapacity(k) ==
    \/ Len(Recent(k)) < RateLimit
    \/ Recent(k) # <<>> /\ Head(Recent(k)) + Window <= now

Admissible(r) ==
    /\ holders[SingletonOf[r]] \subseteq {r}
    /\ hasCapacity(KeyOf[r])
    /\ counts[KeyOf[r]] < Limit

Acquire(k) == counts' = [counts EXCEPT ![k] = @ + 1]
Release(k) == counts' = [counts EXCEPT ![k] = IF @ <= 1 THEN 0 ELSE @ - 1]

admit(r) ==
    /\ Admissible(r)
    /\ holders' = [holders EXCEPT ![SingletonOf[r]] = {r}]
    /\ claims' = claims \cup {r}
    /\ stamps' = [stamps EXCEPT ![KeyOf[r]] = Append(Recent(KeyOf[r]), now)]
    /\ Acquire(KeyOf[r])
    /\ slot' = [slot EXCEPT ![r] = "held"]

markParked(r) ==
    /\ IF slot[r] = "held"
       THEN Release(KeyOf[r]) /\ slot' = [slot EXCEPT ![r] = "free"]
       ELSE UNCHANGED <<counts, slot>>
    /\ UNCHANGED <<holders, claims, stamps>>

markResumed(r) ==
    /\ IF slot[r] = "free"
       THEN Acquire(KeyOf[r]) /\ slot' = [slot EXCEPT ![r] = "held"]
       ELSE UNCHANGED <<counts, slot>>
    /\ UNCHANGED <<holders, claims, stamps>>

\* A faulty variant: a slot is given back whether it is held or not.
settle_unheld(r) ==
    /\ IF slot[r] # "none" THEN Release(KeyOf[r]) ELSE UNCHANGED counts
    /\ slot' = [slot EXCEPT ![r] = "none"]
    /\ holders' = IF r \in claims THEN [holders EXCEPT ![SingletonOf[r]] = @ \ {r}] ELSE holders
    /\ claims' = claims \ {r}
    /\ UNCHANGED stamps

settle(r) ==
    /\ IF slot[r] = "held" THEN Release(KeyOf[r]) ELSE UNCHANGED counts
    /\ slot' = [slot EXCEPT ![r] = "none"]
    /\ holders' = IF r \in claims THEN [holders EXCEPT ![SingletonOf[r]] = @ \ {r}] ELSE holders
    /\ claims' = claims \ {r}
    /\ UNCHANGED stamps

-----------------------------------------------------------------------------
(* Runs of the API.                                                        *)

createRun(r) ==
    /\ life[r] = "new"
    /\ IF Admissible(r) THEN admit(r) /\ Become(r, "starting")
       ELSE Become(r, "rejected") /\ UNCHANGED controller
    /\ UNCHANGED <<now, signalled>>

\* The session is loaded, the run is built and registered; or one of these
\* fails, and the admission is released.
Start(r) == life[r] = "starting" /\ Become(r, "running") /\ UNCHANGED <<now, controller, signalled>>

StartFails(r) ==
    life[r] = "starting" /\ Become(r, "over") /\ settle(r) /\ UNCHANGED <<now, signalled>>

\* HumanWaitParkedEvent.
AskHuman(r) ==
    /\ life[r] = "running"
    /\ Become(r, "waiting")
    /\ markParked(r)
    /\ UNCHANGED <<now, signalled>>

\* signalSession() for a run that has not ended: engine.signal, an await, and
\* then markResumed.
Signal(r) ==
    /\ life[r] \in {"running", "waiting", "asleep"} /\ r \notin signalled
    /\ life' = IF life[r] = "waiting" THEN [life EXCEPT ![r] = "running"] ELSE life
    /\ signalled' = signalled \cup {r}
    /\ UNCHANGED <<now, controller>>

SignalReturns(r) ==
    /\ r \in signalled
    /\ signalled' = signalled \ {r}
    /\ markResumed(r)
    /\ UNCHANGED <<now, life>>

\* A wake-up the run asked for: the workflow sleeps, and no event says so.
Sleep(r) == life[r] = "running" /\ Become(r, "asleep") /\ UNCHANGED <<now, controller, signalled>>
WakeUp(r) == life[r] = "asleep" /\ Become(r, "running") /\ UNCHANGED <<now, controller, signalled>>

\* run.completed, run.aborted or run.error.
End(r) ==
    /\ life[r] \in {"running", "waiting", "asleep"}
    /\ Become(r, "over")
    /\ settle(r)
    /\ UNCHANGED <<now, signalled>>

\* A durable run that lost its checkpoint ends without an event.
Abandon(r) ==
    /\ Faults
    /\ life[r] \in {"running", "waiting", "asleep"}
    /\ Become(r, "abandoned")
    /\ UNCHANGED <<now, controller, signalled>>

-----------------------------------------------------------------------------
(* Tasks of the scheduler, through wireFlowControlSchedulerEvents.         *)

submitSchedulerTask(t) ==
    /\ life[t] = "new"
    /\ IF Admissible(t) THEN admit(t) /\ Become(t, "queued")
       ELSE Become(t, "rejected") /\ UNCHANGED controller
    /\ UNCHANGED <<now, signalled>>

handleDispatchedTask(t) ==
    /\ life[t] \in {"queued", "suspended"}
    /\ Become(t, "running")
    /\ markResumed(t)
    /\ UNCHANGED <<now, signalled>>

handlePreemptedTask(t, requeued) ==
    /\ life[t] = "running"
    /\ IF requeued THEN Become(t, "suspended") /\ markParked(t)
       ELSE Become(t, "over") /\ settle(t)
    /\ UNCHANGED <<now, signalled>>

\* task.completed and task.failed; also of a run that was told to end.
settleScheduledTask(t) ==
    /\ life[t] \in {"running", "ending"}
    /\ Become(t, "over")
    /\ settle(t)
    /\ UNCHANGED <<now, signalled>>

\* task.cancelled: of a task that runs, it comes before the run has ended.
Cancel(t) ==
    /\ life[t] \in {"queued", "suspended", "running"}
    /\ Become(t, IF life[t] = "running" THEN "ending" ELSE "over")
    /\ settle(t)
    /\ UNCHANGED <<now, signalled>>

\* engine.suspend rejects: the scheduler reports task.failed, and the run goes on.
SuspendFails(t) ==
    /\ Faults
    /\ life[t] = "running"
    /\ settle(t)
    /\ UNCHANGED <<now, life, signalled>>

Tick ==
    /\ now < MaxNow
    /\ now' = now + 1
    /\ UNCHANGED <<controller, life, signalled>>

Next ==
    \/ \E r \in Runs :
        \/ createRun(r) \/ Start(r) \/ StartFails(r) \/ AskHuman(r) \/ Signal(r)
        \/ SignalReturns(r) \/ Sleep(r) \/ WakeUp(r) \/ End(r) \/ Abandon(r)
    \/ \E t \in Tasks :
        \/ submitSchedulerTask(t) \/ handleDispatchedTask(t)
        \/ \E requeued \in BOOLEAN : handlePreemptedTask(t, requeued)
        \/ settleScheduledTask(t) \/ Cancel(t) \/ SuspendFails(t)
    \/ Tick

Spec == Init /\ [][Next]_vars

-----------------------------------------------------------------------------
(* Properties.                                                             *)

Lives == {"new", "starting", "queued", "running", "waiting", "asleep", "suspended", "ending",
          "over", "abandoned", "rejected"}

TypeOK ==
    /\ now \in 0 .. MaxNow
    /\ counts \in [Keys -> 0 .. Cardinality(All)]
    /\ slot \in [All -> {"none", "held", "free"}]
    /\ holders \in [Keys -> SUBSET All]
    /\ claims \subseteq All
    /\ stamps \in [Keys -> Seq(0 .. MaxNow)]
    /\ life \in [All -> Lives]
    /\ signalled \subseteq Runs

Holding(k) == {r \in All : slot[r] = "held" /\ KeyOf[r] = k}

\* The counter of a key is the number of runs that hold a slot of it, after any
\* sequence of parks, resumes and settlements, doubled and late ones included
\* (the `held` flag that guards concurrencyRelease and concurrencyAcquire).
CountsMatch == \A k \in Keys : counts[k] = Cardinality(Holding(k))

\* The two maps of the singleton policy are inverse to each other: nobody
\* settles the claim of another run, and no claim is left without its holder.
ClaimsMatch ==
    \A k \in Keys : holders[k] = {r \in claims : SingletonOf[r] = k}

Live(r) == life[r] \in {"starting", "queued", "running", "waiting", "asleep", "suspended"}

\* Of two runs with the same singleton key, one is over: a parked, preempted or
\* resumed run keeps others out until it settles.
OneLivePerKey ==
    \A r, s \in All : r # s /\ Live(r) /\ Live(s) => SingletonOf[r] # SingletonOf[s]

\* A run that executes is counted, unless the call that resumed it has yet to
\* say so; and one that is over is not.
CountedWhileRunning ==
    \A r \in All :
        /\ life[r] = "running" /\ r \notin signalled => slot[r] = "held"
        /\ life[r] \in {"over", "rejected"} => slot[r] = "none" /\ r \notin claims
=============================================================================
