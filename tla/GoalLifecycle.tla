---------------------------- MODULE GoalLifecycle ----------------------------
(***************************************************************************)
(* What a goal promises its owner, whoever writes its record: it opens one *)
(* attempt after another within its bounds, a cancellation that was asked  *)
(* for in time is the only way it then ends, and an ending is final.       *)
(***************************************************************************)
EXTENDS Naturals

CONSTANTS MaximumAttempts, StepBudget

VARIABLES
    phase,      \* "idle" between attempts, "attempt", "verdict", or the ending
    marked,     \* a cancellation was requested
    opened,     \* attempts opened so far
    spent       \* usage accounted so far

lifecycle == <<phase, marked, opened, spent>>

Endings == {"succeeded", "exhausted", "failed", "canceled"}

LInit == phase = "idle" /\ marked = FALSE /\ opened = 0 /\ spent = 0

\* An attempt is opened only within both bounds.
Open ==
    /\ phase = "idle" /\ ~ marked
    /\ opened < MaximumAttempts /\ spent < StepBudget
    /\ phase' = "attempt" /\ opened' = opened + 1
    /\ UNCHANGED <<marked, spent>>

\* Its run is accounted once, and judged or failed.
Account ==
    /\ phase = "attempt" /\ ~ marked
    /\ phase' \in {"verdict", "failed"}
    /\ spent' = spent + 1
    /\ UNCHANGED <<marked, opened>>

\* Only a verdict succeeds, and only with room left does one retry.
Judge ==
    /\ phase = "verdict" /\ ~ marked
    /\ \/ phase' \in {"succeeded", "failed"}
       \/ phase' = "idle" /\ opened < MaximumAttempts /\ spent < StepBudget
    /\ UNCHANGED <<marked, opened, spent>>

Mark ==
    /\ phase \notin Endings
    /\ marked' = TRUE
    /\ UNCHANGED <<phase, opened, spent>>

\* A bound ends it anywhere, the deadline too; a start that fails, between
\* attempts.
GiveUp ==
    /\ phase \notin Endings /\ ~ marked
    /\ phase' = "exhausted" \/ (phase = "idle" /\ phase' = "failed")
    /\ UNCHANGED <<marked, opened, spent>>

Cancel ==
    /\ phase \notin Endings /\ marked
    /\ phase' = "canceled"
    /\ UNCHANGED <<marked, opened, spent>>

LNext == Open \/ Account \/ Judge \/ Mark \/ GiveUp \/ Cancel

LSpec == LInit /\ [][LNext]_lifecycle
=============================================================================
