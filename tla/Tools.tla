-------------------------------- MODULE Tools --------------------------------
(***************************************************************************)
(* What a toolbox keeps of its calls across requests and restarts: the     *)
(* approvals that calls wait for, and the markers and results of calls     *)
(* with an idempotency key.  Different approvals, and different keys, do   *)
(* not meet; the initial state picks one of them with its configuration,   *)
(* and only that one moves.  What both components call now, pc and aborted *)
(* is shared; the variables of the component that is not picked stay       *)
(* Unused.                                                                 *)
(***************************************************************************)
EXTENDS Integers, FiniteSets

CONSTANTS
    Approvals, Keys,      \* the approvals and the keys, by name
    MaxNow,               \* MaxNow[i]: bound of the clock of each of them
    \* Of each approval: ApprovalResume explains the parameters.
    Resumers, ExpiresAt, Deadline, MaxFaults,
    \* Of each key: IdempotentCall explains them.
    Calls, Lease, MaxDuration, TTL, MaxCrashes,
    Unused

VARIABLES
    instance,   \* the approval or the key that is picked
    now, pc, aborted,
    \* One approval (ApprovalResume).
    store, next, kind, stopped, reported, spent, late, tries, restorer, revoked, faults,
    \* The calls with one key (IdempotentCall).
    entry, op, seen, asked, deadline, owned, answer, effects, settled, finished, crashes

approvalVars ==
    <<store, next, kind, stopped, reported, spent, late, tries, restorer, revoked, faults>>
callVars ==
    <<entry, op, seen, asked, deadline, owned, answer, effects, settled, finished, crashes>>
vars == <<instance, now, pc, aborted, approvalVars, callVars>>

A(i) == INSTANCE ApprovalResume WITH
    Resumers <- Resumers[i], ExpiresAt <- ExpiresAt[i], Deadline <- Deadline[i],
    MaxNow <- MaxNow[i], MaxFaults <- MaxFaults[i]

K(i) == INSTANCE IdempotentCall WITH
    Calls <- Calls[i], Lease <- Lease[i], MaxDuration <- MaxDuration[i], TTL <- TTL[i],
    MaxNow <- MaxNow[i], MaxCrashes <- MaxCrashes[i]

ASSUME Apart == Approvals \cap Keys = {}
ASSUME ApprovalInstances == \A i \in Approvals : A(i)!ApprovalAssumption
ASSUME KeyInstances == \A i \in Keys : K(i)!IdempotencyAssumption

NoApproval ==
    /\ store = Unused /\ next = Unused /\ kind = Unused /\ stopped = Unused
    /\ reported = Unused /\ spent = Unused /\ late = Unused /\ tries = Unused
    /\ restorer = Unused /\ revoked = Unused /\ faults = Unused

NoCall ==
    /\ entry = Unused /\ op = Unused /\ seen = Unused /\ asked = Unused
    /\ deadline = Unused /\ owned = Unused /\ answer = Unused /\ effects = Unused
    /\ settled = Unused /\ finished = Unused /\ crashes = Unused

Init ==
    \/ \E i \in Approvals : instance = i /\ A(i)!Init /\ NoCall
    \/ \E i \in Keys : instance = i /\ K(i)!Init /\ NoApproval

Next ==
    \/ \E i \in Approvals : instance = i /\ A(i)!Next /\ UNCHANGED <<instance, callVars>>
    \/ \E i \in Keys : instance = i /\ K(i)!Next /\ UNCHANGED <<instance, approvalVars>>

Spec == Init /\ [][Next]_vars

-----------------------------------------------------------------------------
(* Properties: those of the modules.                                       *)

\* At most one of the requests that resume an approval passes with it,
\* whatever their interruptions, a restoration and a revocation do.
SpentOnce ==
    \A i \in Approvals : instance = i => A(i)!TypeOK /\ A(i)!SpentOnce

\* A call that does not pass gives the approval back whole: nothing is left
\* reserved or consumed, no result offers again an approval that somebody has
\* passed with, and no second approval is left behind unless revoke() fails as
\* often as revokeLateIssuance tries it.
GivenBack ==
    \A i \in Approvals : instance = i =>
        /\ A(i)!GivenBack /\ A(i)!NotConsumedNotSpent
        /\ MaxFaults[i] < 3 => A(i)!ExchangedWhole

\* Of two attempts with one key whose callback has started, one has been
\* retired, as long as no recorded result runs out: crashes, interruptions and
\* lost leases do not free the key.  And a call that was interrupted before the
\* tool ran leaves no marker behind.
OneEffect ==
    \A i \in Keys : instance = i =>
        /\ K(i)!TypeOK /\ K(i)!InterruptedLeavesNothing
        /\ TTL[i] >= MaxNow[i] => K(i)!OneEffect

\* What is settled stays settled: nobody passes with an approval after its
\* revocation has succeeded, and an attempt that an operator has had retried
\* does not record a result any more, however late it ends.
SettledIsFinal ==
    [][/\ \A i \in Approvals : instance = i => A(i)!RevokedIsFinal
       /\ \A i \in Keys : instance = i => K(i)!SupersededIsSilent]_vars
=============================================================================
