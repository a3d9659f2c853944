----------------------------- MODULE GoalRecord -----------------------------
(***************************************************************************)
(* The durable record of one goal and the two pure layers around it: the   *)
(* store that evaluates a write against the stored record                  *)
(* (bureau/src/goal-store.ts), and the builders and decisions that turn a  *)
(* record somebody read into the write it asks for                         *)
(* (operative/src/goal-decision.ts, durable/goal-workflow-transitions.ts). *)
(*                                                                         *)
(* Attempts are numbered from 1; the code's attemptIndex is one less.      *)
(* A run reports one unit of usage.  The store's read, evaluate and        *)
(* compare-and-swap loop takes effect at one instant: an evaluation is a   *)
(* function of the text it read, and the write succeeds only against that  *)
(* text.                                                                   *)
(***************************************************************************)
EXTENDS Naturals, Sequences, FiniteSets

CONSTANTS
    MaximumAttempts,    \* bounds.maximumAttempts
    StepBudget,         \* bounds.maximumTotalSteps, in units of usage
    RetryOn,            \* retryPolicy.retryOn, as the verdicts it retries
    AuditLogMaximum     \* GOAL_AUDIT_LOG_MAXIMUM_ENTRIES

ASSUME BoundsAssumption ==
    /\ MaximumAttempts \in Nat \ {0}
    /\ StepBudget \in Nat \ {0}
    /\ RetryOn \subseteq {"failRetryable", "unavailable", "canceled"}
    /\ AuditLogMaximum \in Nat
    /\ AuditLogMaximum >= 4 * MaximumAttempts + 8

None == "none"

GOAL_RUN_TRANSITIONS ==
    [pending    |-> {"running", "exhausted", "failed", "canceled"},
     running    |-> {"evaluating", "retrying", "exhausted", "failed", "canceled"},
     evaluating |-> {"succeeded", "retrying", "exhausted", "failed", "canceled"},
     retrying   |-> {"running", "exhausted", "failed", "canceled"},
     succeeded  |-> {}, exhausted |-> {}, failed |-> {}, canceled |-> {}]

Status == DOMAIN GOAL_RUN_TRANSITIONS

canTransitionGoalRun(from, to) == to \in GOAL_RUN_TRANSITIONS[from]

isTerminal(status) == status \in {"succeeded", "exhausted", "failed", "canceled"}

\* startFailed and runFailed are the two details of 'attempt-run-failed'.
TERMINAL_STATUS_BY_REASON ==
    [validatorPassed |-> "succeeded", attemptLimit |-> "exhausted",
     budget |-> "exhausted", nonRetryable |-> "failed",
     infrastructure |-> "failed", startFailed |-> "failed",
     runFailed |-> "failed", goalCanceled |-> "canceled"]

Reasons == DOMAIN TERMINAL_STATUS_BY_REASON
\* "error" stands for 'indeterminate' too: no policy retries either.
Verdicts == {"pass", "fail", "failRetryable", "error", "unavailable", "canceled"}
AttemptStatus == {"running", "evaluating", "passed", "failed", "aborted"}
Attempt == [status : AttemptStatus, validation : Verdicts \cup {None}, usage : {0, 1}]
ActiveWork == [kind : {"attempt", "validation"}, attempt : 1 .. MaximumAttempts]
NoWork == [kind |-> None, attempt |-> 0]

createGoalState ==
    [status |-> "pending", seq |-> 0, reason |-> None, attempts |-> <<>>,
     usage |-> 0, active |-> NoWork, cancellation |-> FALSE, restarts |-> 0]

-----------------------------------------------------------------------------
(* What a record must be to decode: isGoalState.                           *)

isInFlight(attempt) == attempt.status \in {"running", "evaluating"}

Last(r) == r.attempts[Len(r.attempts)]

isStatusRelationConsistent(r) ==
    LET n == Len(r.attempts)
    IN  /\ \A i \in 1 .. n - 1 : ~ isInFlight(r.attempts[i])
        /\ r.status = "pending" => n = 0 /\ r.active = NoWork
        /\ r.status = "running" =>
              /\ n > 0 /\ Last(r).status = "running"
              /\ r.active = [kind |-> "attempt", attempt |-> n]
        /\ r.status = "evaluating" =>
              /\ n > 0 /\ Last(r).status = "evaluating"
              /\ r.active = [kind |-> "validation", attempt |-> n]
        /\ r.status = "retrying" =>
              /\ n > 0 /\ Last(r).status \in {"failed", "aborted"}
              /\ r.active = NoWork /\ n < MaximumAttempts
        /\ isTerminal(r.status) =>
              r.active = NoWork /\ (n > 0 => ~ isInFlight(Last(r)))

isUsageConsistent(r) ==
    r.usage = Cardinality({i \in 1 .. Len(r.attempts) : r.attempts[i].usage = 1})

isTerminalPairing(r) ==
    IF isTerminal(r.status)
    THEN r.reason # None /\ TERMINAL_STATUS_BY_REASON[r.reason] = r.status
    ELSE r.reason = None

attemptStatusForOutcome(verdict) ==
    CASE verdict = "pass" -> "passed"
      [] verdict = "canceled" -> "aborted"
      [] OTHER -> "failed"

areAttemptOutcomesConsistent(r) ==
    \A i \in 1 .. Len(r.attempts) :
        LET a == r.attempts[i]
        IN  IF a.validation = None THEN a.status # "passed"
            ELSE a.status = attemptStatusForOutcome(a.validation)

isTerminalOutcomeConsistent(r) ==
    LET n == Len(r.attempts)
        verdict == IF n = 0 THEN None ELSE Last(r).validation
    IN  isTerminal(r.status) =>
            IF r.status = "succeeded" THEN verdict = "pass"
            ELSE /\ \A i \in 1 .. n : r.attempts[i].status # "passed"
                 /\ r.reason = "nonRetryable" => verdict \in {"fail", "failRetryable"}
                 /\ r.reason = "infrastructure" => verdict \in {"error", "unavailable", "canceled"}
                 /\ r.reason = "attemptLimit" => n >= MaximumAttempts

isCancellationConsistent(r) ==
    isTerminal(r.status) => ((r.status = "canceled") <=> r.cancellation)

isGoalState(r) ==
    /\ isUsageConsistent(r)
    /\ isStatusRelationConsistent(r)
    /\ isTerminalPairing(r)
    /\ areAttemptOutcomesConsistent(r)
    /\ isTerminalOutcomeConsistent(r)
    /\ isCancellationConsistent(r)

-----------------------------------------------------------------------------
(* Writes.  A request's patch is the attempt it inserts or replaces, 0 for *)
(* none.  transitionId is a function of the goal and seq, so two requests  *)
(* have the same id exactly when they have the same seq.                   *)

\* One entry per transition and one per counted restart.
AuditLogFull(r) == r.seq + r.restarts >= AuditLogMaximum

\* The recorded decisionId is the attempt's own, so it can only be missing.
DecisionLost(r, q) ==
    /\ q.patch \in 1 .. Len(r.attempts)
    /\ r.attempts[q.patch].validation # None
    /\ q.attempt.validation = None

applyAttempt(r, q) ==
    IF q.patch = 0 THEN r.attempts
    ELSE IF q.patch > Len(r.attempts) THEN Append(r.attempts, q.attempt)
    ELSE [r.attempts EXCEPT ![q.patch] = q.attempt]

buildNext(r, q) ==
    [r EXCEPT !.seq = q.seq, !.status = q.to, !.reason = q.reason,
              !.attempts = applyAttempt(r, q), !.usage = q.usage,
              !.active = q.active]

\* A faulty variant: the marker only refuses endings.
evaluateUnmarked(q, r) ==
    IF q.seq = r.seq THEN IF q.to = r.status THEN "duplicate" ELSE "stale"
    ELSE IF r.seq # q.seq - 1 THEN "stale"
    ELSE IF isTerminal(r.status) THEN "terminal"
    ELSE IF r.cancellation /\ isTerminal(q.to) /\ q.to # "canceled" THEN "cancellation-requested"
    ELSE IF ~ canTransitionGoalRun(r.status, q.to) THEN "illegal-transition"
    ELSE IF ~ isGoalState(buildNext(r, q)) THEN "invalid-record"
    ELSE "applied"

\* Which answer the store gives to q, first match first.
evaluateTransition(q, r) ==
    IF q.seq = r.seq THEN IF q.to = r.status THEN "duplicate" ELSE "stale"
    ELSE IF r.seq # q.seq - 1 THEN "stale"
    ELSE IF isTerminal(r.status) THEN "terminal"
    ELSE IF AuditLogFull(r) THEN "oversized"
    ELSE IF r.cancellation /\ q.to # "canceled" THEN "cancellation-requested"
    ELSE IF ~ canTransitionGoalRun(r.status, q.to) THEN "illegal-transition"
    ELSE IF q.patch > Len(r.attempts) + 1 THEN "invalid-attempt"
    ELSE IF DecisionLost(r, q) THEN "decision-already-recorded"
    ELSE IF ~ isGoalState(buildNext(r, q)) THEN "invalid-record"
    ELSE "applied"

applyTransition(q, r) ==
    IF evaluateTransition(q, r) = "applied" THEN buildNext(r, q) ELSE r

requestCancellation(r) ==
    IF isTerminal(r.status) THEN r ELSE [r EXCEPT !.cancellation = TRUE]

MayCountRestart(r, expectedCount) ==
    /\ ~ isTerminal(r.status)
    /\ ~ r.cancellation
    /\ r.restarts = expectedCount
    /\ ~ AuditLogFull(r)

-----------------------------------------------------------------------------
(* Decisions and the writes built from a record somebody read.             *)

\* A decision is a terminal reason, or None for a retry.
decideRetryOrExhaust(v) ==
    IF v.usage >= StepBudget THEN "budget"
    ELSE IF Len(v.attempts) >= MaximumAttempts THEN "attemptLimit"
    ELSE None

decideOutcome(v, verdict) ==
    IF verdict = "pass" THEN "validatorPassed"
    ELSE IF verdict \in RetryOn THEN decideRetryOrExhaust(v)
    ELSE IF verdict \in {"fail", "failRetryable"} THEN "nonRetryable"
    ELSE "infrastructure"

DecisionTo(reason) ==
    IF reason = None THEN "retrying" ELSE TERMINAL_STATUS_BY_REASON[reason]

baseTransition(v, to, reason) ==
    [seq |-> v.seq + 1, to |-> to, reason |-> reason, patch |-> 0,
     attempt |-> None, usage |-> v.usage, active |-> NoWork]

withAttempt(q, i, attempt) == [q EXCEPT !.patch = i, !.attempt = attempt]

buildOpenAttempt(v) ==
    LET n == Len(v.attempts) + 1
    IN  withAttempt([baseTransition(v, "running", None) EXCEPT
                        !.active = [kind |-> "attempt", attempt |-> n]],
                    n, [status |-> "running", validation |-> None, usage |-> 0])

accountAttemptUsage(v) == v.usage + 1

buildEvaluationStarted(v) ==
    LET n == Len(v.attempts)
    IN  withAttempt([baseTransition(v, "evaluating", None) EXCEPT
                        !.usage = accountAttemptUsage(v),
                        !.active = [kind |-> "validation", attempt |-> n]],
                    n, [Last(v) EXCEPT !.status = "evaluating", !.usage = 1])

buildRunFinishDecision(v, finish) ==
    withAttempt([baseTransition(v, "failed", "runFailed") EXCEPT
                    !.usage = accountAttemptUsage(v)],
                Len(v.attempts),
                [Last(v) EXCEPT !.status = IF finish = "aborted" THEN "aborted" ELSE "failed",
                                !.usage = 1])

buildValidationDecision(v, verdict) ==
    LET reason == decideOutcome(v, verdict)
    IN  withAttempt(baseTransition(v, DecisionTo(reason), reason),
                    Len(v.attempts),
                    [Last(v) EXCEPT
                        !.status = attemptStatusForOutcome(verdict),
                        !.validation = verdict])

buildGoalForcedFinish(v, reason) ==
    LET q == baseTransition(v, TERMINAL_STATUS_BY_REASON[reason], reason)
    IN  IF Len(v.attempts) > 0 /\ isInFlight(Last(v))
        THEN withAttempt(q, Len(v.attempts), [Last(v) EXCEPT !.status = "aborted"])
        ELSE q

buildStartFailure(v) == baseTransition(v, "failed", "startFailed")

-----------------------------------------------------------------------------
(* Which attempts' runs an ending has to stop.                             *)

attemptToStop(v) ==
    IF Len(v.attempts) > 0 /\ isInFlight(Last(v))
    THEN Len(v.attempts) ELSE Len(v.attempts) + 1

attemptIndexesToStop(v) ==
    {attemptToStop(v), Len(v.attempts)} \cap (1 .. MaximumAttempts)

\* The endings that may have overtaken the start of a run.
mayHaveOvertakenAStart(v) ==
    v.status \in {"canceled", "exhausted"} \/ v.reason = "startFailed"
=============================================================================
