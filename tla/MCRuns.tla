------------------------------- MODULE MCRuns --------------------------------
(***************************************************************************)
(* Small instances of Runs: three loops and four closings; and that they   *)
(* come to their ends.                                                     *)
(***************************************************************************)
EXTENDS Runs, TLC

CONSTANTS
    c1, c2, c3, x1, x2, k1, k2, k3,
    tools, billing, steered, batch, bare, queued, swapped

\* A run that calls two tools at once, with all retries, an output schema and
\* callbacks that throw anywhere; the same when nobody aborts and nothing throws
\* outside of a try or once the provider has answered; and a run that is paused,
\* resumed and reconfigured.
LoopNames == {tools, billing, steered}
OfLoops(t, u, s) == tools :> t @@ billing :> u @@ steered :> s
AllLoops(v) == OfLoops(v, v, v)

MCmaximumSteps == AllLoops(2)
MCmaxErrorRetries == AllLoops(1)
MCRetryAttempts == AllLoops(2)
MCRetryDelays == AllLoops(TRUE)
MCWithOutput == OfLoops(TRUE, TRUE, FALSE)
MCschemaRetries == OfLoops(1, 1, 0)
MCMaxCommands == OfLoops(0, 0, 4)
MCAppliedFloor == OfLoops(0, 0, 2)
MCStepAborts == OfLoops(TRUE, FALSE, TRUE)
MCMayReject == OfLoops(TRUE, FALSE, TRUE)
MCAfterThrows == OfLoops(TRUE, FALSE, FALSE)

\* A batch of two calls, a hook and two children, closed by two callers; one
\* without a hook at the end and three callers; three calls of which two may run
\* at once, whose errors are collected and which nobody aborts; and a step with a
\* toolbox of its own, whose errors are collected, whose calls wait for each
\* other, and whose callback dispatches a child late.
ClosingNames == {batch, bare, queued, swapped}
OfClosings(b, e, q, s) == batch :> b @@ bare :> e @@ queued :> q @@ swapped :> s

MCLimit == OfClosings(2, 2, 2, 1)
MCFailFast == OfClosings(TRUE, TRUE, FALSE, FALSE)
MCSwapped == OfClosings(FALSE, FALSE, FALSE, TRUE)
MCHooked == OfClosings(TRUE, FALSE, TRUE, TRUE)
MCLateChildren == OfClosings(FALSE, FALSE, FALSE, TRUE)
MCChildren == OfClosings({x1, x2}, {x1}, {x1}, {x1})
MCCallers == OfClosings({k1, k2}, {k1, k2, k3}, {k1, k2}, {k1, k2})

MCCalls ==
    OfLoops({c1, c2}, {c1, c2}, {c1})
        @@ OfClosings(<<c1, c2>>, <<c1, c2>>, <<c1, c2, c3>>, <<c1, c2>>)
MCAborts == OfLoops(TRUE, FALSE, TRUE) @@ OfClosings(TRUE, TRUE, FALSE, TRUE)

-----------------------------------------------------------------------------

\* What the closing awaits comes to its end; nobody need abort, close or give up,
\* and the other run may hang.
ClosingIsFair ==
    /\ \A c \in {c1, c2} :
         /\ WF_vars(ClosingDoes(batch, C(batch)!Return(c, TRUE)))
         /\ WF_vars(ClosingDoes(batch, C(batch)!CallbackEnds(c)))
    /\ \A x \in {x1, x2} : WF_vars(ClosingDoes(batch, C(batch)!ChildCloses(x)))
    /\ \A k \in {k1, k2} : WF_vars(ClosingDoes(batch, C(batch)!Deliver(k)))
    /\ WF_vars(ClosingDoes(batch, C(batch)!RunGoesOn))
    /\ WF_vars(ClosingDoes(batch, C(batch)!ClosingGoesOn))

\* What the run awaits settles; nobody need resume a paused run.
LoopIsFair == WF_vars(LoopDoes(steered, L(steered)!Loop))

FairSpec == Spec /\ ClosingIsFair /\ LoopIsFair

\* A run comes to its end when it is told to: one that is aborted ends, paused
\* or not, and every call of closed() is answered, whatever else the toolbox is
\* used for.
EndsWhenTold ==
    /\ (instance = steered /\ aborted) ~> (pc = "ended")
    /\ \A k \in {k1, k2} :
         (instance = batch /\ answer[k] = "waiting") ~>
             ~(instance = batch /\ answer[k] = "waiting")
=============================================================================
