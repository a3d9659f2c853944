------------------------------ MODULE MCGoalRun ------------------------------
(***************************************************************************)
(* Small instances of a goal.  The slots of startAttempt calls are         *)
(* interchangeable.                                                        *)
(***************************************************************************)
EXTENDS GoalRun, TLC

CONSTANTS s1, s2

\* Nobody calls, one caller cancels, or a recovery races it.
NoCalls == {}
CallsOne == {<<"a", "cancel">>}
CallsCancelAndRecover == {<<"a", "cancel">>, <<"b", "recover">>}

SlotSymmetry == Permutations(Starts)

\* A goal goes on by itself: its controller finishes as long as its process lives,
\* and a goal that was waiting for an attempt when the process died is told of the
\* end of that attempt by the next one.
GoalGoesOn == FinishesUnlessCrashed /\ WaitingGoalIsResumed
=============================================================================
