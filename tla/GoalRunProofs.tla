---------------------------- MODULE GoalRunProofs ----------------------------
(***************************************************************************)
(* Proofs about GoalRun, for any bounds of the goal, any retry policy, any *)
(* number of start slots, callers, timeouts, crashes and faults.           *)
(*                                                                         *)
(* Nobody writes the record without having read it, and a write is applied *)
(* only to the record that was read, but for the cancellation marker and   *)
(* the count of restarts.  So the invariants say what a reader still knows *)
(* of the record (Agrees), which write it may ask for (Fits), and which    *)
(* runs are over by then (RunInv): attempt j is started only when every    *)
(* run before it is over, and "over" is for good.                          *)
(***************************************************************************)
EXTENDS GoalRun, FiniteSetTheorems, TLAPS

Finishes == {"stop", "aborted", "broken"}
Pcs == {"load", "abort", "abortRun", "commit", "committed", "start", "wait", "validate", "reread"}
StartPcs == {"idle", "check", "adopt", "adopting", "seat", "claim", "create", "created",
             "undo", "undoRun"}
RunStatus == {None, "live", "ended", "cancelled"}

GoalRecords ==
    [status : Status, seq : Nat, reason : Reasons \cup {None}, attempts : Seq(Attempt),
     usage : Nat, active : ActiveWork \cup {NoWork}, cancellation : BOOLEAN, restarts : Nat]

Requests ==
    [seq : Nat, to : Status, reason : Reasons \cup {None}, patch : Nat,
     attempt : Attempt \cup {None}, usage : Nat, active : ActiveWork \cup {NoWork}]

Controllers ==
    [status : {None, "running"} \cup ControllerTerminal, pc : Pcs, view : GoalRecords,
     pending : Finishes \cup Verdicts \cup {"startFailed", None},
     request : Requests \cup {None}, answer : Answers, slot : Starts \cup {None},
     tries : Nat, idles : Nat, refusals : Nat, staged : Nat, prior : Nat, gen : Nat]

Runs ==
    [status : RunStatus, gate : {"closed", "run", "await-open", "open"}, steps : 0 .. MaxSteps,
     finish : Finishes \cup {None}]

StartCalls == [pc : StartPcs, attempt : Nat, timedOut : BOOLEAN]

HostPcs == {"idle", "read", "mark", "get", "stand", "count", "start", "attempt", "signal", "end",
            "settle", "fence", "stop", "commit", "readBack"}
HostCalls ==
    [pc : HostPcs, op : {None, "cancel", "recover"}, rec : GoalRecords,
     why : {None, "start", "count", "restart", "overtaken", "orphan", "settle"},
     targets : SUBSET Attempts, fenced : BOOLEAN]

\* A record that decodes, within the bound on attempts.
RecordOK(r) ==
    /\ r \in GoalRecords
    /\ isGoalState(r)
    /\ Len(r.attempts) <= MaximumAttempts
    /\ r.seq = 0 => r.status = "pending"
    /\ r.status = "pending" => r.usage = 0
    /\ r.status = "retrying" => r.usage < StepBudget

\* What a reader of v still knows when the record is r.
Agrees(v, r) ==
    /\ RecordOK(v)
    /\ v.seq <= r.seq
    /\ Len(v.attempts) <= Len(r.attempts)
    /\ v.seq = r.seq => v.status = r.status /\ v.attempts = r.attempts /\ v.usage = r.usage

\* The writes that a reader of v asks for.
Fits(v, q) ==
    \/ \E reason \in {"goalCanceled", "budget", "attemptLimit"} :
          q = buildGoalForcedFinish(v, reason)
    \/ /\ v.status \in {"pending", "retrying"} /\ Len(v.attempts) < MaximumAttempts
       /\ q = buildOpenAttempt(v)
    \/ v.status \in {"pending", "retrying"} /\ q = buildStartFailure(v)
    \/ v.status = "running" /\ q = buildEvaluationStarted(v)
    \/ v.status = "running" /\ \E f \in {"aborted", "broken"} : q = buildRunFinishDecision(v, f)
    \/ v.status = "evaluating" /\ \E x \in Verdicts : q = buildValidationDecision(v, x)

\* Where the controller stands, and the record it stands on.
ControllerInv(c, r) ==
    /\ Agrees(c.view, r)
    /\ c.pc = "start" =>
          c.view.status \in {"pending", "retrying"} /\ Len(c.view.attempts) < MaximumAttempts
    /\ c.pc = "wait" => c.view.status = "running"
    /\ c.pc = "validate" => c.view.status = "evaluating"
    /\ c.pc = "reread" =>
          \/ c.pending \in Finishes /\ c.view.status = "running"
          \/ c.pending \in Verdicts /\ c.view.status = "evaluating"
          \/ c.pending = "startFailed" /\ c.view.status \in {"pending", "retrying"}
    /\ c.pc \in {"abort", "abortRun"} =>
          \E reason \in {"goalCanceled", "budget", "attemptLimit"} :
             c.request = buildGoalForcedFinish(c.view, reason)
    /\ c.pc \in {"commit", "committed"} => Fits(c.view, c.request)

TypeInv ==
    /\ RecordOK(record)
    /\ elapsed \in BOOLEAN /\ settled \in BOOLEAN
    /\ claim \in [Attempts -> {None, "claimed", "tombstoned"}]
    /\ run \in [Attempts -> Runs]
    /\ ctl \in Controllers
    /\ start \in [Starts -> StartCalls]
    /\ host \in [Hosts -> HostCalls]
    /\ watch \subseteq Attempts
    /\ inbox \in [Attempts -> {"empty", "full", "taken"}]
    /\ cancelSig \in {"empty", "full", "taken"}

ReaderInv ==
    /\ ControllerInv(ctl, record)
    /\ \A h \in Hosts : Agrees(host[h].rec, record)

\* The run of attempt i is over in u.
DeadIn(u, i) == u[i].status \in {"ended", "cancelled"}
Dead(i) == DeadIn(run, i)

\* What is known of the runs: those of the opened attempts exist, all but the
\* newest are over, and only the acknowledged one is let through.
RunInv ==
    /\ \A i \in Attempts :
          /\ run[i].status = None => run[i].gate = "closed"
          /\ run[i].status \in {None, "live"} => run[i].steps < MaxSteps
          /\ Dead(i) => run[i].finish \in Finishes
    /\ \A i \in Attempts : i <= Len(record.attempts) => run[i].status # None
    /\ record.status \in {"evaluating", "retrying"} => Dead(Len(record.attempts))
    /\ \A i, j \in Attempts : i < j /\ run[j].status # None => Dead(i)
    /\ \A i \in Attempts : inbox[i] = "full" => Dead(i)
    /\ \A i \in Attempts :
          run[i].status = "live" /\ run[i].gate \in {"run", "open"} =>
             /\ i = Len(record.attempts)
             /\ record.attempts[i].status = "running" \/ record.status = "canceled"

\* A start that is under way is for an attempt whose predecessors are over.
StartInv ==
    \A s \in Starts :
       start[s].pc # "idle" =>
          /\ start[s].attempt \in Attempts
          /\ \A i \in Attempts : i < start[s].attempt => Dead(i)
          /\ start[s].pc \in {"adopting", "created", "undo", "undoRun"} =>
                run[start[s].attempt].status # None

\* What the controller's next write rests on, when the runs are u.
Grounded(c, u) ==
    /\ c.view.status \in {"evaluating", "retrying"} => DeadIn(u, Len(c.view.attempts))
    /\ c.pc = "reread" /\ c.pending \in Finishes => DeadIn(u, Len(c.view.attempts))
    /\ c.pc \in {"commit", "committed"} =>
          /\ c.request.to = "running" => u[Len(c.view.attempts) + 1].status # None
          /\ /\ \/ c.request.to = "evaluating"
                \/ c.request.reason \in {"runFailed", "budget", "attemptLimit"}
             /\ c.view.status \in {"running", "evaluating"}
             => DeadIn(u, Len(c.view.attempts))

\* The try that the controller waits for is still under way.
Awaited(c, t) ==
    c.status = "running" /\ c.pc = "start" /\ c.slot # None =>
       t[c.slot].pc # "idle" /\ t[c.slot].attempt = Len(c.view.attempts) + 1

IInv ==
    /\ TypeInv /\ ReaderInv /\ RunInv /\ StartInv
    /\ Grounded(ctl, run) /\ Awaited(ctl, start)

-----------------------------------------------------------------------------
(* The tables of GoalRecord.                                               *)

LEMMA StatusTable ==
    /\ Status = {"pending", "running", "evaluating", "retrying", "succeeded", "exhausted",
                 "failed", "canceled"}
    /\ \A s \in Status :
          /\ canTransitionGoalRun(s, "running") <=> s \in {"pending", "retrying"}
          /\ canTransitionGoalRun(s, "evaluating") <=> s = "running"
          /\ canTransitionGoalRun(s, "retrying") <=> s \in {"running", "evaluating"}
          /\ ~canTransitionGoalRun(s, "pending")
  BY DEF Status, GOAL_RUN_TRANSITIONS, canTransitionGoalRun

LEMMA ReasonTable ==
    /\ Reasons = {"validatorPassed", "attemptLimit", "budget", "nonRetryable", "infrastructure",
                  "startFailed", "runFailed", "goalCanceled"}
    /\ TERMINAL_STATUS_BY_REASON["validatorPassed"] = "succeeded"
    /\ TERMINAL_STATUS_BY_REASON["attemptLimit"] = "exhausted"
    /\ TERMINAL_STATUS_BY_REASON["budget"] = "exhausted"
    /\ TERMINAL_STATUS_BY_REASON["nonRetryable"] = "failed"
    /\ TERMINAL_STATUS_BY_REASON["infrastructure"] = "failed"
    /\ TERMINAL_STATUS_BY_REASON["startFailed"] = "failed"
    /\ TERMINAL_STATUS_BY_REASON["runFailed"] = "failed"
    /\ TERMINAL_STATUS_BY_REASON["goalCanceled"] = "canceled"
  BY DEF Reasons, TERMINAL_STATUS_BY_REASON

LEMMA NewRecordOK == RecordOK(createGoalState)
<1>1. createGoalState \in GoalRecords
  BY StatusTable DEF createGoalState, GoalRecords, None
<1>2. {i \in 1 .. Len(createGoalState.attempts) : createGoalState.attempts[i].usage = 1} = {}
  BY DEF createGoalState
<1>3. isUsageConsistent(createGoalState)
  BY <1>2, FS_EmptySet DEF isUsageConsistent, createGoalState
<1>4. /\ isStatusRelationConsistent(createGoalState) /\ isTerminalPairing(createGoalState)
      /\ areAttemptOutcomesConsistent(createGoalState)
      /\ isTerminalOutcomeConsistent(createGoalState)
      /\ isCancellationConsistent(createGoalState)
  BY DEF createGoalState, isStatusRelationConsistent, isTerminalPairing, isTerminal,
     areAttemptOutcomesConsistent, isTerminalOutcomeConsistent, isCancellationConsistent, None
<1>5. QED BY <1>1, <1>3, <1>4, BoundsAssumption DEF RecordOK, isGoalState, createGoalState

\* What isGoalState says of a record's last attempt.
LEMMA LastAttempt ==
    ASSUME NEW r, RecordOK(r)
    PROVE  /\ Len(r.attempts) \in 0 .. MaximumAttempts
           /\ Len(r.attempts) > 0 => Last(r) \in Attempt
           /\ r.status = "pending" => Len(r.attempts) = 0
           /\ r.status = "running" => Len(r.attempts) > 0 /\ Last(r).status = "running"
           /\ r.status = "evaluating" => Len(r.attempts) > 0 /\ Last(r).status = "evaluating"
           /\ r.status = "retrying" =>
                 /\ Len(r.attempts) > 0 /\ Last(r).status \in {"failed", "aborted"}
                 /\ Len(r.attempts) < MaximumAttempts
  BY BoundsAssumption DEF RecordOK, isGoalState, isStatusRelationConsistent, GoalRecords, Last

-----------------------------------------------------------------------------
(* The writes, by their effect on the lifecycle of the goal.               *)

Idle == {"pending", "retrying"}

Ends(v, q) ==
    /\ \/ q.to = "canceled" /\ q.reason = "goalCanceled"
       \/ q.to = "exhausted" /\ q.reason \in {"budget", "attemptLimit"}
    /\ q.usage = v.usage

Opens(v, q) ==
    /\ q.to = "running" /\ q.reason = None
    /\ v.status \in Idle /\ Len(v.attempts) < MaximumAttempts
    /\ q.usage = v.usage

StartFails(v, q) ==
    q.to = "failed" /\ q.reason = "startFailed" /\ v.status \in Idle /\ q.usage = v.usage

Accounts(v, q) ==
    /\ v.status = "running" /\ q.usage = v.usage + 1
    /\ \/ q.to = "evaluating" /\ q.reason = None
       \/ q.to = "failed" /\ q.reason = "runFailed"

Judges(v, q) ==
    /\ v.status = "evaluating" /\ q.usage = v.usage
    /\ \/ q.to \in {"succeeded", "failed"}
          /\ q.reason \in {"validatorPassed", "nonRetryable", "infrastructure"}
       \/ /\ q.to = "retrying" /\ q.reason = None
          /\ v.usage < StepBudget /\ Len(v.attempts) < MaximumAttempts

Patches(v, q) ==
    \/ q.patch = 0
    \/ q.patch \in 1 .. Len(v.attempts) /\ q.attempt \in Attempt
    \/ q.patch = Len(v.attempts) + 1 /\ q.attempt \in Attempt /\ q.to = "running"

LEMMA FitsCases ==
    ASSUME NEW v, RecordOK(v), NEW q, Fits(v, q)
    PROVE  /\ q \in Requests /\ q.seq = v.seq + 1 /\ Patches(v, q)
           /\ q.to = "running" <=> q.patch = Len(v.attempts) + 1
           /\ \/ Ends(v, q) \/ Opens(v, q) \/ StartFails(v, q) \/ Accounts(v, q)
              \/ Judges(v, q)
<1> USE StatusTable, ReasonTable, BoundsAssumption
<1> DEFINE n == Len(v.attempts)
<1>0. /\ v.seq \in Nat /\ v.usage \in Nat /\ n \in Nat /\ n <= MaximumAttempts
      /\ n > 0 => Last(v) \in Attempt
  BY LastAttempt DEF RecordOK, GoalRecords
<1> DEFINE Goal == /\ q \in Requests /\ q.seq = v.seq + 1 /\ Patches(v, q)
                   /\ q.to = "running" <=> q.patch = Len(v.attempts) + 1
                   /\ \/ Ends(v, q) \/ Opens(v, q) \/ StartFails(v, q) \/ Accounts(v, q)
                      \/ Judges(v, q)
<1>1. ASSUME NEW reason \in {"goalCanceled", "budget", "attemptLimit"},
             q = buildGoalForcedFinish(v, reason)
      PROVE  Goal
  <2>1. CASE n > 0 /\ isInFlight(Last(v))
    <3> DEFINE a == [Last(v) EXCEPT !.status = "aborted"]
    <3>1. a \in Attempt BY <1>0, <2>1 DEF Attempt, AttemptStatus
    <3>2. q = [seq |-> v.seq + 1, to |-> TERMINAL_STATUS_BY_REASON[reason], reason |-> reason,
               patch |-> n, attempt |-> a, usage |-> v.usage, active |-> NoWork]
      BY <1>1, <2>1 DEF buildGoalForcedFinish, baseTransition, withAttempt
    <3> HIDE DEF a
    <3>3. QED BY <1>0, <2>1, <3>1, <3>2 DEF Requests, Patches, Ends
  <2>2. CASE ~(n > 0 /\ isInFlight(Last(v)))
    <3>1. q = [seq |-> v.seq + 1, to |-> TERMINAL_STATUS_BY_REASON[reason], reason |-> reason,
               patch |-> 0, attempt |-> None, usage |-> v.usage, active |-> NoWork]
      BY <1>1, <2>2 DEF buildGoalForcedFinish, baseTransition
    <3>2. QED BY <1>0, <3>1 DEF Requests, Patches, Ends
  <2>3. QED BY <2>1, <2>2
<1>2. ASSUME v.status \in Idle, n < MaximumAttempts, q = buildOpenAttempt(v) PROVE Goal
  <2>1. q = [seq |-> v.seq + 1, to |-> "running", reason |-> None, patch |-> n + 1,
             attempt |-> [status |-> "running", validation |-> None, usage |-> 0],
             usage |-> v.usage, active |-> [kind |-> "attempt", attempt |-> n + 1]]
    BY <1>2 DEF buildOpenAttempt, baseTransition, withAttempt
  <2>2. /\ [status |-> "running", validation |-> None, usage |-> 0] \in Attempt
        /\ [kind |-> "attempt", attempt |-> n + 1] \in ActiveWork
    BY <1>0, <1>2 DEF Attempt, AttemptStatus, ActiveWork
  <2>3. QED BY <1>0, <1>2, <2>1, <2>2 DEF Requests, Patches, Opens
<1>3. ASSUME v.status \in Idle, q = buildStartFailure(v) PROVE Goal
  BY <1>0, <1>3 DEF buildStartFailure, baseTransition, Requests, Patches, StartFails
<1>4. ASSUME v.status = "running", q = buildEvaluationStarted(v) PROVE Goal
  <2>1. n > 0 BY <1>4, LastAttempt
  <2> DEFINE a == [Last(v) EXCEPT !.status = "evaluating", !.usage = 1]
             w == [kind |-> "validation", attempt |-> n]
  <2>2. q = [seq |-> v.seq + 1, to |-> "evaluating", reason |-> None, patch |-> n, attempt |-> a,
             usage |-> v.usage + 1, active |-> w]
    BY <1>4 DEF buildEvaluationStarted, baseTransition, withAttempt, accountAttemptUsage
  <2>3. a \in Attempt BY <1>0, <2>1 DEF Attempt, AttemptStatus
  <2>4. w \in ActiveWork BY <1>0, <2>1 DEF ActiveWork
  <2> HIDE DEF a, w
  <2>5. QED BY <1>0, <1>4, <2>1, <2>2, <2>3, <2>4 DEF Requests, Patches, Accounts
<1>5. ASSUME v.status = "running", NEW f \in {"aborted", "broken"}, q = buildRunFinishDecision(v, f)
      PROVE  Goal
  <2>1. n > 0 BY <1>5, LastAttempt
  <2> DEFINE a == [Last(v) EXCEPT !.status = IF f = "aborted" THEN "aborted" ELSE "failed",
                                  !.usage = 1]
  <2>2. q = [seq |-> v.seq + 1, to |-> "failed", reason |-> "runFailed", patch |-> n,
             attempt |-> a, usage |-> v.usage + 1, active |-> NoWork]
    BY <1>5 DEF buildRunFinishDecision, baseTransition, withAttempt, accountAttemptUsage
  <2>3. a \in Attempt BY <1>0, <2>1 DEF Attempt, AttemptStatus
  <2> HIDE DEF a
  <2>4. QED BY <1>0, <1>5, <2>1, <2>2, <2>3 DEF Requests, Patches, Accounts
<1>6. ASSUME v.status = "evaluating", NEW x \in Verdicts, q = buildValidationDecision(v, x)
      PROVE  Goal
  <2>1. n > 0 BY <1>6, LastAttempt
  <2> DEFINE a == [Last(v) EXCEPT !.status = attemptStatusForOutcome(x), !.validation = x]
             reason == decideOutcome(v, x)
  <2>2. q = [seq |-> v.seq + 1, to |-> DecisionTo(reason), reason |-> reason, patch |-> n,
             attempt |-> a, usage |-> v.usage, active |-> NoWork]
    BY <1>6 DEF buildValidationDecision, baseTransition, withAttempt
  <2>3. attemptStatusForOutcome(x) \in AttemptStatus
    BY DEF attemptStatusForOutcome, AttemptStatus
  <2>4. a \in Attempt BY <1>0, <2>1, <2>3 DEF Attempt
  <2>5. /\ reason \in {"validatorPassed", "nonRetryable", "infrastructure", "budget",
                       "attemptLimit", None}
        /\ reason = None => v.usage < StepBudget /\ n < MaximumAttempts
    BY <1>0 DEF decideOutcome, decideRetryOrExhaust, None, Verdicts
  <2> HIDE DEF a, reason
  <2>6. DecisionTo(reason) = IF reason = None THEN "retrying"
                             ELSE TERMINAL_STATUS_BY_REASON[reason]
    BY DEF DecisionTo
  <2>7. QED BY <1>0, <1>6, <2>1, <2>2, <2>4, <2>5, <2>6 DEF Requests, Patches, Judges, Ends, None
<1>7. QED BY <1>1, <1>2, <1>3, <1>4, <1>5, <1>6 DEF Fits, Idle

\* What the store has checked when it applies a write.
LEMMA AppliedChecks ==
    ASSUME NEW q, NEW r, evaluateTransition(q, r) = "applied"
    PROVE  /\ q.seq # r.seq /\ r.seq = q.seq - 1
           /\ ~isTerminal(r.status) /\ canTransitionGoalRun(r.status, q.to)
           /\ r.cancellation => q.to = "canceled"
           /\ isGoalState(buildNext(r, q))
  BY DEF evaluateTransition

LEMMA AnswerType ==
    ASSUME NEW q, NEW r PROVE evaluateTransition(q, r) \in Answers
  BY DEF evaluateTransition, Answers

\* A write that is applied is applied to the record its author read.
LEMMA CommitEffect ==
    ASSUME RecordOK(record), NEW v, Agrees(v, record), NEW q, Fits(v, q),
           evaluateTransition(q, record) = "applied", NEW r, r = buildNext(record, q)
    PROVE  /\ RecordOK(r)
           /\ v.seq = record.seq /\ v.status = record.status
           /\ v.attempts = record.attempts /\ v.usage = record.usage
           /\ r.seq = record.seq + 1 /\ r.status = q.to /\ r.reason = q.reason
           /\ r.usage = q.usage /\ r.cancellation = record.cancellation
           /\ Len(r.attempts) = IF q.to = "running" THEN Len(record.attempts) + 1
                                ELSE Len(record.attempts)
           /\ q.to = "canceled" => record.cancellation
<1>1. /\ record.seq = q.seq - 1 /\ canTransitionGoalRun(record.status, q.to)
      /\ isGoalState(r)
  BY AppliedChecks
<1>2. /\ q \in Requests /\ q.seq = v.seq + 1 /\ Patches(v, q)
      /\ q.to = "running" <=> q.patch = Len(v.attempts) + 1
      /\ Ends(v, q) \/ Opens(v, q) \/ StartFails(v, q) \/ Accounts(v, q) \/ Judges(v, q)
  BY FitsCases DEF Agrees
<1>3. v.seq = record.seq
  BY <1>1, <1>2 DEF Agrees, RecordOK, GoalRecords
<1>4. v.status = record.status /\ v.attempts = record.attempts /\ v.usage = record.usage
  BY <1>3 DEF Agrees
<1>5. /\ record.attempts \in Seq(Attempt) /\ Len(record.attempts) \in Nat
      /\ Len(record.attempts) <= MaximumAttempts /\ record.status \in Status
      /\ record.seq \in Nat
  BY DEF RecordOK, GoalRecords
<1>6. /\ applyAttempt(record, q) \in Seq(Attempt)
      /\ Len(applyAttempt(record, q)) = IF q.to = "running" THEN Len(record.attempts) + 1
                                        ELSE Len(record.attempts)
  <2>1. CASE q.patch = 0
    BY <1>2, <1>4, <1>5, <2>1 DEF applyAttempt
  <2>2. CASE q.patch \in 1 .. Len(v.attempts) /\ q.attempt \in Attempt
    BY <1>2, <1>4, <1>5, <2>2 DEF applyAttempt
  <2>3. CASE q.patch = Len(v.attempts) + 1 /\ q.attempt \in Attempt /\ q.to = "running"
    BY <1>2, <1>4, <1>5, <2>3 DEF applyAttempt
  <2>4. QED BY <1>2, <2>1, <2>2, <2>3 DEF Patches
<1>7. /\ r.seq = q.seq /\ r.status = q.to /\ r.reason = q.reason /\ r.usage = q.usage
      /\ r.attempts = applyAttempt(record, q) /\ r.active = q.active
      /\ r.cancellation = record.cancellation /\ r.restarts = record.restarts
      /\ r \in GoalRecords
  BY <1>2, <1>6 DEF RecordOK, GoalRecords, Requests, buildNext
<1>8. /\ Len(r.attempts) <= MaximumAttempts
      /\ r.status # "pending"
      /\ r.status = "retrying" => r.usage < StepBudget
  <2>1. Len(r.attempts) <= MaximumAttempts
    BY <1>2, <1>4, <1>5, <1>6, <1>7, BoundsAssumption DEF Ends, Opens, StartFails, Accounts, Judges
  <2>2. r.status # "pending" BY <1>1, <1>5, <1>7, StatusTable
  <2>3. r.status = "retrying" => r.usage < StepBudget
    BY <1>2, <1>4, <1>7 DEF Ends, Opens, StartFails, Accounts, Judges
  <2>4. QED BY <2>1, <2>2, <2>3
<1>9. q.to = "canceled" => record.cancellation
  BY <1>1, <1>7, Zenon DEF isGoalState, isCancellationConsistent, isTerminal
<1>10. r.seq = record.seq + 1 /\ r.seq # 0 BY <1>2, <1>3, <1>5, <1>7
<1>11. QED BY <1>1, <1>3, <1>4, <1>6, <1>7, <1>8, <1>9, <1>10 DEF RecordOK

\* The marker and the count of restarts leave the record what it was.
LEMMA MarkEffect ==
    ASSUME RecordOK(record), NEW r,
           \/ r = requestCancellation(record)
           \/ MayCountRestart(record, record.restarts) /\ r = [record EXCEPT !.restarts = @ + 1]
    PROVE  /\ RecordOK(r)
           /\ r.seq = record.seq /\ r.status = record.status /\ r.attempts = record.attempts
           /\ r.usage = record.usage /\ r.reason = record.reason
<1>1. CASE r = record BY <1>1
<1>2. CASE ~isTerminal(record.status) /\ (r = [record EXCEPT !.cancellation = TRUE]
                                          \/ r = [record EXCEPT !.restarts = @ + 1])
  <2>1. /\ r.seq = record.seq /\ r.status = record.status /\ r.attempts = record.attempts
        /\ r.usage = record.usage /\ r.reason = record.reason /\ r.active = record.active
        /\ r \in GoalRecords
    <3>1. CASE r = [record EXCEPT !.cancellation = TRUE] BY <3>1 DEF RecordOK, GoalRecords
    <3>2. CASE r = [record EXCEPT !.restarts = @ + 1] BY <3>2 DEF RecordOK, GoalRecords
    <3>3. QED BY <1>2, <3>1, <3>2
  <2>2. isGoalState(r)
    BY <1>2, <2>1 DEF RecordOK, isGoalState, isUsageConsistent, isStatusRelationConsistent,
       isTerminalPairing, areAttemptOutcomesConsistent, isTerminalOutcomeConsistent,
       isCancellationConsistent, Last
  <2>3. QED BY <2>1, <2>2 DEF RecordOK
<1>3. QED BY <1>1, <1>2 DEF requestCancellation, MayCountRestart

-----------------------------------------------------------------------------
(* How a step may change the record.                                       *)

Commits(v, q) ==
    /\ Agrees(v, record) /\ Fits(v, q)
    /\ evaluateTransition(q, record) = "applied"
    /\ record' = buildNext(record, q)

Marks ==
    \/ record' = requestCancellation(record)
    \/ MayCountRestart(record, record.restarts) /\ record' = [record EXCEPT !.restarts = @ + 1]

RecordMoves == record' = record \/ Marks \/ \E v, q : Commits(v, q)

\* The actions that leave the record alone.
LEMMA RecordAlone ==
    ASSUME [Next]_vars, record' # record
    PROVE  \/ commitTransition
           \/ \E h \in Hosts : recordControllerRestart(h) \/ requestCancellationOf(h)
                               \/ commitCancellation(h)
  BY DEF Next, vars, Controller, loadGoalState, ControllerFences, ControllerStops, CommitRecorded,
     TryStart, AttemptWins, CancelOrDeadlineWins, runValidator, Reread, TryTimesOut, StartPort,
     StartChecks, StartAdopts, StartAdopted, StartSeats, StartClaims, StartCreates, StartConfirms,
     StartFences, StartStops, AttemptRun, FenceReadsRecord, FenceReadsClaim, Step,
     GivesUpWaiting, forward, HostCall, HostGets, standDownIfOvertaken, startController,
     recoverAttempt, HostSignals, HostEnds, HostFences, HostStops, readBack, CallBegins,
     BootReads, Finalizer, FinalizerFences, FinalizerStops, FinalizerReads, DeadlinePasses, Crash

LEMMA StepMovesRecord ==
    ASSUME TypeInv, ReaderInv, [Next]_vars PROVE RecordMoves
<1> SUFFICES ASSUME record' # record PROVE RecordMoves
  BY DEF RecordMoves
<1>1. CASE commitTransition
  <2>1. Agrees(ctl.view, record) /\ Fits(ctl.view, ctl.request)
    BY <1>1 DEF commitTransition, Running, ReaderInv, ControllerInv
  <2>2. Commits(ctl.view, ctl.request)
    BY <1>1, <2>1 DEF commitTransition, applyTransition, Commits
  <2>3. QED BY <2>2 DEF RecordMoves
<1>2. ASSUME NEW h \in Hosts, recordControllerRestart(h) PROVE RecordMoves
  BY <1>2 DEF recordControllerRestart, RecordMoves, Marks, MayCountRestart
<1>3. ASSUME NEW h \in Hosts, requestCancellationOf(h) PROVE RecordMoves
  BY <1>3 DEF requestCancellationOf, RecordMoves, Marks
<1>4. ASSUME NEW h \in Hosts, commitCancellation(h) PROVE RecordMoves
  <2> DEFINE v == host[h].rec
             q == buildGoalForcedFinish(v, "goalCanceled")
  <2>1. Agrees(v, record) BY DEF ReaderInv
  <2>2. Fits(v, q) BY DEF Fits
  <2>3. record' = applyTransition(q, record)
    BY <1>4 DEF commitCancellation
  <2>4. Commits(v, q) BY <2>1, <2>2, <2>3 DEF applyTransition, Commits
  <2>5. QED BY <2>4 DEF RecordMoves
<1>5. QED BY <1>1, <1>2, <1>3, <1>4, RecordAlone

\* The record goes forward, and is the same as long as its seq is.
LEMMA RecordGoesForward ==
    ASSUME RecordOK(record), RecordMoves
    PROVE  /\ RecordOK(record')
           /\ record'.seq >= record.seq
           /\ Len(record'.attempts) >= Len(record.attempts)
           /\ record'.seq = record.seq =>
                 /\ record'.status = record.status /\ record'.attempts = record.attempts
                 /\ record'.usage = record.usage
<1>1. record.seq \in Nat /\ Len(record.attempts) \in Nat BY DEF RecordOK, GoalRecords
<1>2. CASE record' = record BY <1>1, <1>2
<1>3. CASE Marks BY <1>1, <1>3, MarkEffect DEF Marks
<1>4. ASSUME NEW v, NEW q, Commits(v, q)
      PROVE  /\ RecordOK(record') /\ record'.seq = record.seq + 1
             /\ Len(record'.attempts) >= Len(record.attempts)
  BY <1>1, <1>4, CommitEffect DEF Commits
<1>5. QED BY <1>1, <1>2, <1>3, <1>4 DEF RecordMoves

LEMMA AgreementLasts ==
    ASSUME RecordOK(record), RecordMoves, NEW v, Agrees(v, record) PROVE Agrees(v, record')
<1>1. /\ record.seq \in Nat /\ v.seq \in Nat /\ record'.seq \in Nat
      /\ Len(record.attempts) \in Nat /\ Len(v.attempts) \in Nat /\ Len(record'.attempts) \in Nat
  BY RecordGoesForward DEF RecordOK, GoalRecords, Agrees
<1>2. QED BY <1>1, RecordGoesForward DEF Agrees

\* Who has just read the record agrees with it, and so does who read nothing.
LEMMA ReaderAgrees ==
    ASSUME NEW r, RecordOK(r) PROVE Agrees(r, r) /\ Agrees(createGoalState, r)
<1>1. r.seq \in Nat /\ r.attempts \in Seq(Attempt) /\ Len(r.attempts) \in Nat
  BY DEF RecordOK, GoalRecords
<1>2. Agrees(r, r) BY <1>1 DEF Agrees
<1>3. r.seq = 0 => r.status = "pending" /\ r.attempts = <<>> /\ r.usage = 0
  BY <1>1, LastAttempt DEF RecordOK
<1>4. Agrees(createGoalState, r)
  BY <1>1, <1>3, NewRecordOK DEF Agrees, createGoalState
<1>5. QED BY <1>2, <1>4

-----------------------------------------------------------------------------
(* The controller's own steps.                                             *)

\* An instance that holds nothing.
Fresh(c) ==
    c \in Controllers /\ c.pc = "load" /\ c.view = createGoalState /\ c.slot = None

LEMMA FreshInv ==
    ASSUME NEW c, Fresh(c), NEW r, RecordOK(r) PROVE ControllerInv(c, r)
  BY ReaderAgrees DEF Fresh, ControllerInv

LEMMA NewIsFresh ==
    /\ Fresh(NewController) /\ Fresh(NoController)
    /\ \A n \in Nat : Fresh([NewController EXCEPT !.gen = n])
<1>1. NewController \in Controllers
  BY NewRecordOK DEF NewController, Controllers, Pcs, Finishes, Answers, RecordOK
<1>2. QED BY <1>1 DEF Fresh, NewController, NoController, Controllers

LEMMA OverIsFresh ==
    ASSUME NEW c \in Controllers, NEW st \in ControllerTerminal
    PROVE  Fresh(Over(c, st)) /\ Over(c, st).status = st
<1>1. c.gen \in Nat BY DEF Controllers
<1>2. QED BY <1>1, NewIsFresh DEF Over, Fresh, Controllers

LEMMA ToLoadIsFresh ==
    ASSUME NEW c \in Controllers, NEW m \in Nat, NEW n \in Nat
    PROVE  Fresh(ToLoad(c, m, n))
<1>1. c.gen \in Nat /\ c.staged \in Nat BY DEF Controllers
<1>2. QED BY <1>1, NewIsFresh DEF ToLoad, Fresh, Controllers

LEMMA IdleWakeIsFresh ==
    ASSUME NEW c \in Controllers PROVE Fresh(IdleWake(c))
<1>1. c.idles + 1 \in Nat /\ c.refusals \in Nat BY DEF Controllers
<1>2. QED BY <1>1, OverIsFresh, ToLoadIsFresh DEF IdleWake, ControllerTerminal

LEMMA AfterCommitIsFresh ==
    ASSUME NEW c \in Controllers PROVE Fresh(AfterCommit(c))
<1>1. c.refusals + 1 \in Nat BY DEF Controllers
<1>2. QED BY <1>1, OverIsFresh, ToLoadIsFresh DEF AfterCommit, ControllerTerminal

\* advance(): what it is about to do fits the record it has read.
LEMMA AdvanceInv ==
    ASSUME NEW c \in Controllers, NEW r, c.view = r, RecordOK(r), ~isTerminal(r.status)
    PROVE  /\ advance(c, r) \in Controllers
           /\ ControllerInv(advance(c, r), r)
           /\ advance(c, r).view = r
           /\ advance(c, r).pc \in {"abort", "wait", "validate", "start"}
           /\ advance(c, r).pc = "start" => advance(c, r).slot = None
<1>0. Agrees(r, r) /\ r \in GoalRecords BY ReaderAgrees DEF RecordOK
<1>1. ASSUME NEW reason \in {"goalCanceled", "budget", "attemptLimit"}
      PROVE  LET d == ToForced(c, r, reason)
             IN  d \in Controllers /\ ControllerInv(d, r) /\ d.view = r /\ d.pc = "abort"
  <2>1. buildGoalForcedFinish(r, reason) \in Requests
    BY FitsCases DEF Fits
  <2>2. QED BY <1>0, <2>1 DEF ToForced, Controllers, ControllerInv, Pcs
<1>2. r.status \in Status BY <1>0 DEF GoalRecords
<1>3. Len(r.attempts) \in Nat /\ MaximumAttempts \in Nat BY BoundsAssumption DEF RecordOK, GoalRecords
<1>4. CASE r.cancellation BY <1>1, <1>4 DEF advance
<1>5. CASE ~r.cancellation /\ elapsed BY <1>1, <1>5 DEF advance
<1>6. CASE ~r.cancellation /\ ~elapsed /\ r.status = "running"
  <2>1. advance(c, r) = [c EXCEPT !.pc = "wait"] BY <1>6 DEF advance
  <2>2. QED BY <1>0, <1>6, <2>1 DEF Controllers, ControllerInv, Pcs
<1>7. CASE ~r.cancellation /\ ~elapsed /\ r.status = "evaluating"
  <2>1. advance(c, r) = [c EXCEPT !.pc = "validate"] BY <1>7 DEF advance
  <2>2. QED BY <1>0, <1>7, <2>1 DEF Controllers, ControllerInv, Pcs
<1>8. CASE ~r.cancellation /\ ~elapsed /\ r.status \in Idle
  <2>1. CASE Len(r.attempts) >= MaximumAttempts BY <1>1, <1>8, <2>1 DEF advance, Idle
  <2>2. CASE Len(r.attempts) < MaximumAttempts
    <3> DEFINE d == [c EXCEPT !.pc = "start", !.slot = None, !.tries = 0]
    <3>1. advance(c, r) = d BY <1>3, <1>8, <2>2 DEF advance, Idle
    <3>2. d \in Controllers BY DEF Controllers, Pcs
    <3>3. d.pc = "start" /\ d.view = r /\ d.slot = None BY DEF Controllers
    <3> HIDE DEF d
    <3>4. ControllerInv(d, r) BY <1>0, <1>8, <2>2, <3>2, <3>3 DEF ControllerInv, Idle
    <3>5. QED BY <3>1, <3>2, <3>3, <3>4
  <2>3. QED BY <1>3, <2>1, <2>2
<1>9. QED BY <1>2, <1>4, <1>5, <1>6, <1>7, <1>8, StatusTable DEF isTerminal, Idle

\* Recording an answer, and asking for a write.
Recorded(c, x) == [Checkpointed(c, "reread") EXCEPT !.pending = x]

LEMMA RereadInv ==
    ASSUME NEW c \in Controllers, NEW r, ControllerInv(c, r),
           NEW x \in Finishes \cup Verdicts \cup {"startFailed"},
           x \in Finishes => c.view.status = "running",
           x \in Verdicts => c.view.status = "evaluating",
           x = "startFailed" => c.view.status \in Idle,
           NEW d, d = Recorded(c, x)
    PROVE  /\ d \in Controllers /\ ControllerInv(d, r)
           /\ d.view = c.view /\ d.pc = "reread" /\ d.pending = x /\ d.status = c.status
<1>1. d \in Controllers BY DEF Recorded, Checkpointed, Controllers, Pcs
<1>2. d.view = c.view /\ d.pc = "reread" /\ d.pending = x /\ d.status = c.status
  BY DEF Recorded, Checkpointed, Controllers
<1>3. ControllerInv(d, r) BY <1>2 DEF ControllerInv, Idle
<1>4. QED BY <1>1, <1>2, <1>3

LEMMA ToCommitInv ==
    ASSUME NEW c \in Controllers, NEW r, ControllerInv(c, r), NEW q, Fits(c.view, q),
           NEW d, d = ToCommit(c, q)
    PROVE  /\ d \in Controllers /\ ControllerInv(d, r)
           /\ d.view = c.view /\ d.pc = "commit" /\ d.request = q /\ d.status = c.status
<1>0. q \in Requests BY FitsCases DEF ControllerInv, Agrees
<1>1. d \in Controllers BY <1>0 DEF ToCommit, Checkpointed, Controllers, Pcs
<1>2. d.view = c.view /\ d.pc = "commit" /\ d.request = q /\ d.status = c.status
  BY DEF ToCommit, Checkpointed, Controllers
<1>3. ControllerInv(d, r) BY <1>2 DEF ControllerInv
<1>4. QED BY <1>1, <1>2, <1>3

LEMMA ToForcedInv ==
    ASSUME NEW c \in Controllers, NEW r, RecordOK(r),
           NEW reason \in {"goalCanceled", "budget", "attemptLimit"},
           NEW d, d = ToForced(c, r, reason)
    PROVE  /\ d \in Controllers /\ ControllerInv(d, r)
           /\ d.view = r /\ d.pc = "abort" /\ d.status = c.status
<1>0. buildGoalForcedFinish(r, reason) \in Requests /\ r \in GoalRecords
  BY FitsCases DEF Fits, RecordOK
<1>1. d \in Controllers BY <1>0 DEF ToForced, Controllers, Pcs
<1>2. /\ d.view = r /\ d.pc = "abort" /\ d.status = c.status
      /\ d.request = buildGoalForcedFinish(r, reason)
  BY DEF ToForced, Controllers
<1>3. ControllerInv(d, r) BY <1>2, ReaderAgrees DEF ControllerInv
<1>4. QED BY <1>1, <1>2, <1>3

\* A write is built from the seq, the attempts and the usage alone.
LEMMA SameAnswerCommit ==
    ASSUME NEW v, NEW r, v.seq = r.seq, v.attempts = r.attempts, v.usage = r.usage, NEW a
    PROVE  AnswerCommit(v, a) = AnswerCommit(r, a)
<1>1. \A to, reason : baseTransition(v, to, reason) = baseTransition(r, to, reason)
  BY DEF baseTransition
<1>2. Last(v) = Last(r) BY DEF Last
<1>3. decideOutcome(v, a) = decideOutcome(r, a) BY DEF decideOutcome, decideRetryOrExhaust
<1>4. QED
  BY <1>1, <1>2, <1>3 DEF AnswerCommit, buildStartFailure, buildEvaluationStarted,
     buildRunFinishDecision, buildValidationDecision, accountAttemptUsage

LEMMA AnswerCommitFits ==
    ASSUME NEW c \in Controllers, NEW r, ControllerInv(c, r), c.pc = "reread",
           r.seq = c.view.seq
    PROVE  Fits(c.view, AnswerCommit(r, c.pending))
<1>1. AnswerCommit(r, c.pending) = AnswerCommit(c.view, c.pending)
  BY SameAnswerCommit DEF ControllerInv, Agrees
<1>2. \/ c.pending \in Finishes /\ c.view.status = "running"
      \/ c.pending \in Verdicts /\ c.view.status = "evaluating"
      \/ c.pending = "startFailed" /\ c.view.status \in Idle
  BY DEF ControllerInv, Idle
<1>3. QED BY <1>1, <1>2 DEF AnswerCommit, Fits, Finishes, Verdicts, Idle

-----------------------------------------------------------------------------
(* The record a host has in its hands.                                     *)

LEMMA HostTypes ==
    /\ NoCall \in HostCalls /\ BootCall \in HostCalls
    /\ NoCall.rec = createGoalState /\ BootCall.rec = createGoalState
    /\ NoCall.pc = "idle"
<1>1. createGoalState \in GoalRecords BY NewRecordOK DEF RecordOK
<1>2. NoCall \in HostCalls BY <1>1 DEF NoCall, HostCalls, HostPcs
<1>3. QED BY <1>2 DEF NoCall, BootCall, HostCalls, HostPcs

LEMMA ToFenceType ==
    ASSUME NEW c \in HostCalls, NEW v \in GoalRecords
    PROVE  ToFence(c, v) \in HostCalls /\ ToFence(c, v).rec = v
<1>1. attemptIndexesToStop(v) \in SUBSET Attempts BY DEF attemptIndexesToStop, Attempts
<1>2. QED BY <1>1 DEF ToFence, HostCalls, HostPcs

LEMMA FirstReadType ==
    ASSUME NEW c \in HostCalls, NEW v \in GoalRecords
    PROVE  /\ FirstRead(c, v) \in HostCalls
           /\ FirstRead(c, v).rec \in {v, createGoalState}
<1>1. [ToFence(c, v) EXCEPT !.why = "overtaken"] \in HostCalls
      /\ [ToFence(c, v) EXCEPT !.why = "overtaken"].rec = v
  BY ToFenceType DEF HostCalls
<1>2. [c EXCEPT !.pc = "settle", !.rec = v] \in HostCalls
      /\ [c EXCEPT !.pc = "settle", !.rec = v].rec = v
  BY DEF HostCalls, HostPcs
<1>3. \A p \in {"mark", "get"} :
         /\ [c EXCEPT !.pc = p, !.rec = v] \in HostCalls
         /\ [c EXCEPT !.pc = p, !.rec = v].rec = v
  BY DEF HostCalls, HostPcs
<1>4. QED BY <1>1, <1>2, <1>3, HostTypes DEF FirstRead

\* How a call may change what a host holds.
HostMoves ==
    /\ host' \in [Hosts -> HostCalls]
    /\ \A h \in Hosts : host'[h].rec \in {host[h].rec, record, record', createGoalState}

LEMMA HostGoesMoves ==
    ASSUME TypeInv, NEW h \in Hosts, NEW c \in HostCalls, HostGoes(h, c),
           c.rec \in {host[h].rec, record, record', createGoalState}
    PROVE  HostMoves
  BY DEF TypeInv, HostGoes, HostMoves

LEMMA HostAlone ==
    ASSUME [Next]_vars, host' # host
    PROVE  \/ \E h \in Hosts : HostCall(h)
           \/ \E call \in Calls : CallBegins(call[1], call[2])
           \/ BootReads \/ Crash
  BY DEF Next, vars, Controller, loadGoalState, ControllerFences, ControllerStops,
     commitTransition, CommitRecorded,
     TryStart, AttemptWins, CancelOrDeadlineWins, runValidator, Reread, TryTimesOut, StartPort,
     StartChecks, StartAdopts, StartAdopted, StartSeats, StartClaims, StartCreates, StartConfirms,
     StartFences, StartStops, AttemptRun, FenceReadsRecord, FenceReadsClaim, Step,
     GivesUpWaiting, forward, Finalizer, FinalizerFences, FinalizerStops, FinalizerReads,
     DeadlinePasses

LEMMA StepMovesHosts ==
    ASSUME TypeInv, RecordOK(record'), [Next]_vars PROVE HostMoves
<1>0. /\ record \in GoalRecords /\ record' \in GoalRecords
      /\ host \in [Hosts -> HostCalls]
  BY DEF TypeInv, RecordOK
<1>1. CASE host' = host BY <1>0, <1>1 DEF HostMoves
<1>2. ASSUME NEW h \in Hosts, HostCall(h) PROVE HostMoves
  <2> DEFINE c == host[h]
  <2>0. c \in HostCalls BY <1>0
  <2>1. HostDone(h) => HostMoves
    BY HostGoesMoves, HostTypes DEF HostDone
  <2>2. ASSUME NEW p \in HostPcs, HostGoes(h, [c EXCEPT !.pc = p]) PROVE HostMoves
    <3>1. [c EXCEPT !.pc = p] \in HostCalls /\ [c EXCEPT !.pc = p].rec = c.rec
      BY <2>0 DEF HostCalls
    <3>2. QED BY <2>2, <3>1, HostGoesMoves
  <2>3. ASSUME NEW p \in HostPcs, NEW v \in {record, record'},
               HostGoes(h, [c EXCEPT !.pc = p, !.rec = v])
        PROVE  HostMoves
    <3>1. [c EXCEPT !.pc = p, !.rec = v] \in HostCalls /\ [c EXCEPT !.pc = p, !.rec = v].rec = v
      BY <1>0, <2>0 DEF HostCalls
    <3>2. QED BY <2>3, <3>1, HostGoesMoves
  <2>4. ASSUME NEW p \in HostPcs, NEW w \in {"start", "count", "restart"},
               HostGoes(h, [c EXCEPT !.pc = p, !.why = w])
        PROVE  HostMoves
    <3>1. [c EXCEPT !.pc = p, !.why = w] \in HostCalls /\ [c EXCEPT !.pc = p, !.why = w].rec = c.rec
      BY <2>0 DEF HostCalls
    <3>2. QED BY <2>4, <3>1, HostGoesMoves
  <2>5. ASSUME NEW v \in {c.rec, record, record'},
               HostGoes(h, ToFence(c, v))
               \/ HostGoes(h, [ToFence(c, v) EXCEPT !.why = "orphan"])
               \/ HostGoes(h, [ToFence(c, v) EXCEPT !.why = "settle"])
               \/ HostGoes(h, [ToFence(c, v) EXCEPT !.why = @])
        PROVE  HostMoves
    <3>0. v \in GoalRecords BY <1>0, <2>0 DEF HostCalls
    <3>1. ToFence(c, v) \in HostCalls /\ ToFence(c, v).rec = v BY <2>0, <3>0, ToFenceType
    <3>2. \A w \in {"orphan", "settle", ToFence(c, v).why} :
             /\ [ToFence(c, v) EXCEPT !.why = w] \in HostCalls
             /\ [ToFence(c, v) EXCEPT !.why = w].rec = v
      BY <3>1 DEF HostCalls
    <3>3. QED BY <2>5, <3>1, <3>2, HostGoesMoves
  <2>6. CASE HostGets(h) BY <2>6, <2>1, <2>2, <2>4, <2>5 DEF HostGets, HostPcs
  <2>7. CASE standDownIfOvertaken(h)
    BY <2>7, <2>1, <2>2, <2>3 DEF standDownIfOvertaken, HostPcs, HostDone
  <2>8. CASE recordControllerRestart(h)
    BY <2>8, <2>1, <2>2, <2>3, <2>4, <2>5 DEF recordControllerRestart, HostPcs, HostDone
  <2>9. CASE startController(h) BY <2>9, <2>1, <2>2 DEF startController, HostPcs, HostDone
  <2>10. CASE recoverAttempt(h) BY <2>10, <2>1 DEF recoverAttempt
  <2>11. CASE requestCancellationOf(h)
    BY <2>11, <2>1, <2>3, <2>5 DEF requestCancellationOf, HostPcs, HostDone
  <2>12. CASE HostSignals(h) BY <2>12, <2>2 DEF HostSignals, HostPcs
  <2>13. CASE HostEnds(h) BY <2>13, <2>5 DEF HostEnds
  <2>14. CASE HostFences(h)
    <3>1. [c EXCEPT !.pc = "stop", !.fenced = FALSE] \in HostCalls
          /\ [c EXCEPT !.pc = "stop", !.fenced = FALSE].rec = c.rec
      BY <2>0 DEF HostCalls, HostPcs
    <3>2. QED BY <2>14, <2>2, <3>1, HostGoesMoves DEF HostFences, HostPcs
  <2>15. CASE HostStops(h)
    <3>1. /\ [c EXCEPT !.pc = "commit", !.rec = record] \in HostCalls
          /\ [c EXCEPT !.pc = "commit", !.rec = record].rec = record
          /\ [c EXCEPT !.pc = "commit", !.rec = c.rec] \in HostCalls
          /\ [c EXCEPT !.pc = "commit", !.rec = c.rec].rec = c.rec
      BY <1>0, <2>0 DEF HostCalls, HostPcs
    <3>2. QED BY <2>15, <2>1, <2>2, <3>1, HostGoesMoves DEF HostStops, HostPcs, HostDone
  <2>16. CASE commitCancellation(h)
    <3>1. [c EXCEPT !.rec = record] \in HostCalls /\ [c EXCEPT !.rec = record].rec = record
      BY <1>0, <2>0 DEF HostCalls
    <3>2. QED BY <2>16, <2>1, <2>2, <3>1, HostGoesMoves DEF commitCancellation, HostPcs, HostDone
  <2>17. CASE readBack(h) BY <2>17, <2>1 DEF readBack
  <2>18. QED
    BY <1>2, <2>6, <2>7, <2>8, <2>9, <2>10, <2>11, <2>12, <2>13, <2>14, <2>15, <2>16, <2>17
       DEF HostCall
<1>3. ASSUME NEW call \in Calls, CallBegins(call[1], call[2]) PROVE HostMoves
  <2>1. call[1] \in Hosts /\ call[2] \in {"cancel", "recover"} BY GoalRunAssumption
  <2>2. [NoCall EXCEPT !.op = call[2]] \in HostCalls BY <2>1, HostTypes DEF HostCalls
  <2>3. QED BY <1>0, <1>3, <2>1, <2>2, FirstReadType, HostGoesMoves DEF CallBegins
<1>4. CASE BootReads
  <2>1. "boot" \in Hosts BY GoalRunAssumption
  <2>2. QED BY <1>0, <1>4, <2>1, FirstReadType, HostGoesMoves DEF BootReads
<1>5. CASE Crash BY <1>5, HostTypes DEF Crash, HostMoves
<1>6. QED BY <1>1, <1>2, <1>3, <1>4, <1>5, HostAlone

-----------------------------------------------------------------------------
(* How a step may change the runs.                                         *)

\* What RunInv says of the runs u, beside the record as it stands.
RunsOK(u) ==
    /\ u \in [Attempts -> Runs]
    /\ \A i \in Attempts :
          /\ u[i].status = None => u[i].gate = "closed"
          /\ u[i].status \in {None, "live"} => u[i].steps < MaxSteps
          /\ DeadIn(u, i) => u[i].finish \in Finishes
          /\ u[i].status = "live" /\ u[i].gate \in {"run", "open"} =>
                /\ i = Len(record.attempts)
                /\ record.attempts[i].status = "running" \/ record.status = "canceled"
    /\ \A i, j \in Attempts : i < j /\ u[j].status # None => DeadIn(u, i)

\* A run that exists goes on to exist, and one that is over stays over.
Lasts(u, w) ==
    \A i \in Attempts :
       /\ u[i].status # None => w[i].status # None
       /\ DeadIn(u, i) => DeadIn(w, i)

LEMMA RunsNow ==
    ASSUME TypeInv, RunInv PROVE RunsOK(run) /\ Lasts(run, run)
  BY DEF TypeInv, RunInv, RunsOK, Lasts, Dead

\* One run changes.
LEMMA OneRunMoves ==
    ASSUME TypeInv, RunInv, NEW i \in Attempts, NEW x \in Runs, run' = [run EXCEPT ![i] = x],
           run[i].status # None => x.status # None,
           Dead(i) => x.status \in {"ended", "cancelled"},
           x.status # None,
           run[i].status = None => \A j \in Attempts : j < i => Dead(j),
           x.status = "live" => x.steps < MaxSteps,
           x.status \in {"ended", "cancelled"} => x.finish \in Finishes,
           x.status = "live" /\ x.gate \in {"run", "open"} =>
              /\ i = Len(record.attempts)
              /\ record.attempts[i].status = "running" \/ record.status = "canceled"
    PROVE  RunsOK(run') /\ Lasts(run, run')
<1>0. RunsOK(run) BY RunsNow
<1>1. /\ run' \in [Attempts -> Runs] /\ run'[i] = x
      /\ \A j \in Attempts : j # i => run'[j] = run[j]
  BY DEF TypeInv
<1>2. Lasts(run, run') BY <1>1 DEF Lasts, Dead, DeadIn
<1>3. ASSUME NEW j \in Attempts, NEW k \in Attempts, j < k, run'[k].status # None
      PROVE  DeadIn(run', j)
  <2>1. Dead(j) BY <1>0, <1>1, <1>3 DEF RunsOK, Dead
  <2>2. QED BY <1>2, <2>1 DEF Lasts, Dead
<1>4. QED BY <1>0, <1>1, <1>2, <1>3 DEF RunsOK, DeadIn, None

LEMMA CancelMoves ==
    ASSUME TypeInv, RunInv, NEW set, cancelRuns(set)
    PROVE  /\ RunsOK(run') /\ Lasts(run, run')
           /\ \A i \in set \cap Attempts : run[i].status # None => DeadIn(run', i)
<1>0. RunsOK(run) BY RunsNow
<1>1. ASSUME NEW i \in Attempts
      PROVE  \/ run'[i] = run[i] /\ ~(i \in set /\ run[i].status = "live")
             \/ /\ run'[i] \in Runs /\ run[i].status = "live"
                /\ run'[i].status = "cancelled" /\ run'[i].finish = "aborted"
  BY DEF TypeInv, cancelRuns, Runs, RunStatus, Finishes
<1>2. run' \in [Attempts -> Runs] BY <1>1 DEF TypeInv, cancelRuns
<1>3. Lasts(run, run') BY <1>1 DEF Lasts, DeadIn, None
<1>4. ASSUME NEW j \in Attempts, NEW k \in Attempts, j < k, run'[k].status # None
      PROVE  DeadIn(run', j)
  <2>1. Dead(j) BY <1>0, <1>1, <1>4 DEF RunsOK, Dead, None
  <2>2. QED BY <1>3, <2>1 DEF Lasts, Dead
<1>5. ASSUME NEW i \in set \cap Attempts, run[i].status # None PROVE DeadIn(run', i)
  BY <1>1, <1>5 DEF DeadIn, TypeInv, Runs, RunStatus
<1>6. QED BY <1>0, <1>1, <1>2, <1>3, <1>4, <1>5 DEF RunsOK, DeadIn, Finishes, None

\* The actions that leave the runs alone.
LEMMA RunAlone ==
    ASSUME [Next]_vars, run' # run
    PROVE  /\ record' = record /\ inbox' = inbox
           /\ \/ ControllerStops \/ FinalizerStops \/ Crash
              \/ \E s \in Starts : StartCreates(s) \/ StartStops(s)
              \/ \E i \in Attempts :
                    FenceReadsRecord(i) \/ FenceReadsClaim(i) \/ Step(i) \/ GivesUpWaiting(i)
              \/ \E h \in Hosts : HostStops(h)
  BY DEF Next, vars, Controller, loadGoalState, ControllerFences, commitTransition, CommitRecorded,
     TryStart, AttemptWins, CancelOrDeadlineWins, runValidator, Reread, TryTimesOut, StartPort,
     StartChecks, StartAdopts, StartAdopted, StartSeats, StartClaims, StartConfirms,
     StartFences, AttemptRun, forward, HostCall, HostGets, standDownIfOvertaken,
     recordControllerRestart, startController, recoverAttempt, requestCancellationOf, HostSignals,
     HostEnds, HostFences, commitCancellation, readBack, CallBegins, BootReads, Finalizer,
     FinalizerFences, FinalizerReads, DeadlinePasses,
     ControllerStops, FinalizerStops, Crash, StartCreates, StartStops, FenceReadsRecord,
     FenceReadsClaim, Step, GivesUpWaiting, HostStops

LEMMA StepMovesRuns ==
    ASSUME TypeInv, RunInv, StartInv, [Next]_vars PROVE RunsOK(run') /\ Lasts(run, run')
<1> DEFINE Goal == RunsOK(run') /\ Lasts(run, run')
<1>0. RunsOK(run) BY RunsNow
<1>1. CASE run' = run BY <1>1, RunsNow
<1>2. ASSUME ControllerStops \/ FinalizerStops \/ (\E s \in Starts : StartStops(s)) PROVE Goal
  BY <1>2, CancelMoves DEF ControllerStops, FinalizerStops, StartStops
<1>3. ASSUME NEW h \in Hosts, HostStops(h), run' # run PROVE Goal
  BY <1>3, CancelMoves DEF HostStops
<1>4. ASSUME NEW s \in Starts, StartCreates(s), run' # run PROVE Goal
  <2> DEFINE i == start[s].attempt
             x == [run[i] EXCEPT !.status = "live"]
  <2>1. /\ run[i].status = None /\ run' = [run EXCEPT ![i].status = "live"]
        /\ i \in Attempts /\ \A j \in Attempts : j < i => Dead(j)
    BY <1>4 DEF StartCreates, StartInv
  <2>2. run[i] \in Runs BY <2>1 DEF TypeInv
  <2>3. /\ x \in Runs /\ x.status = "live" /\ x.gate = "closed" /\ x.steps < MaxSteps
        /\ run' = [run EXCEPT ![i] = x]
    BY <1>0, <2>1, <2>2 DEF Runs, RunStatus, RunsOK
  <2>4. ~Dead(i) BY <2>1 DEF Dead, DeadIn, None
  <2> HIDE DEF x, i
  <2>5. QED BY <2>1, <2>3, <2>4, OneRunMoves DEF None
<1>5. ASSUME NEW i \in Attempts, run[i].status = "live", NEW f \in Finishes,
             NEW x \in Runs, x.status = "ended", x.finish = f, run' = [run EXCEPT ![i] = x]
      PROVE  Goal
  BY <1>5, OneRunMoves DEF None, Dead, DeadIn
<1>6. ASSUME NEW i \in Attempts, run[i].status = "live", NEW g \in {"closed", "await-open"},
             run' = [run EXCEPT ![i].gate = g]
      PROVE  Goal
  <2> DEFINE x == [run[i] EXCEPT !.gate = g]
  <2>1. /\ x \in Runs /\ x.status = "live" /\ x.gate = g /\ x.steps < MaxSteps
        /\ run' = [run EXCEPT ![i] = x]
    <3>1. run[i] \in Runs /\ run[i].steps < MaxSteps BY <1>0, <1>6 DEF RunsOK
    <3>2. g \in {"closed", "run", "await-open", "open"} OBVIOUS
    <3>3. QED BY <1>6, <3>1, <3>2 DEF TypeInv, Runs
  <2> HIDE DEF x
  <2>2. QED BY <1>6, <2>1, OneRunMoves DEF None, Dead, DeadIn
<1>7. ASSUME NEW i \in Attempts, run[i].status = "live", NEW g \in {"run", "open"},
             run' = [run EXCEPT ![i].gate = g],
             i = Len(record.attempts),
             record.attempts[i].status = "running" \/ record.status = "canceled"
      PROVE  Goal
  <2> DEFINE x == [run[i] EXCEPT !.gate = g]
  <2>1. /\ x \in Runs /\ x.status = "live" /\ x.gate = g /\ x.steps < MaxSteps
        /\ run' = [run EXCEPT ![i] = x]
    BY <1>0, <1>7 DEF TypeInv, Runs, RunsOK
  <2> HIDE DEF x
  <2>2. QED BY <1>7, <2>1, OneRunMoves DEF None, Dead, DeadIn
<1>8. ASSUME NEW i \in Attempts, FenceReadsRecord(i) PROVE Goal
  <2>1. CASE RecordVerdict(i) = "refuse"
    <3> DEFINE x == [run[i] EXCEPT !.status = "ended", !.finish = "broken"]
    <3>1. x \in Runs /\ x.status = "ended" /\ x.finish = "broken"
          /\ run' = [run EXCEPT ![i] = x] /\ run[i].status = "live"
      BY <1>8, <2>1 DEF FenceReadsRecord, TypeInv, Runs, RunStatus, Finishes
    <3> HIDE DEF x
    <3>2. QED BY <3>1, <1>5 DEF Finishes
  <2>2. CASE RecordVerdict(i) # "refuse"
    BY <1>6, <1>7, <1>8, <2>2 DEF FenceReadsRecord, RecordVerdict
  <2>3. QED BY <2>1, <2>2
<1>9. ASSUME NEW i \in Attempts, NEW x,
             x = [run[i] EXCEPT !.status = "ended", !.gate = "closed", !.finish = "broken"],
             run' = [run EXCEPT ![i] = x], run[i].status = "live"
      PROVE  Goal
  <2>1. x \in Runs /\ x.status = "ended" /\ x.finish = "broken"
    BY <1>9 DEF TypeInv, Runs, RunStatus, Finishes
  <2>2. QED BY <1>5, <1>9, <2>1 DEF Finishes
<1>10. ASSUME NEW i \in Attempts, FenceReadsClaim(i) PROVE Goal
  <2>1. CASE claim[i] # "claimed" BY <1>9, <1>10, <2>1 DEF FenceReadsClaim
  <2>2. CASE claim[i] = "claimed" /\ run[i].gate = "run"
    <3>1. /\ i = Len(record.attempts)
          /\ record.attempts[i].status = "running" \/ record.status = "canceled"
      BY <1>0, <1>10, <2>2 DEF RunsOK, FenceReadsClaim
    <3>2. QED BY <1>7, <1>10, <2>2, <3>1 DEF FenceReadsClaim
  <2>3. CASE claim[i] = "claimed" /\ run[i].gate # "run"
    BY <1>6, <1>10, <2>3 DEF FenceReadsClaim
  <2>4. QED BY <2>1, <2>2, <2>3
<1>11. ASSUME NEW i \in Attempts, GivesUpWaiting(i) PROVE Goal
  BY <1>9, <1>11 DEF GivesUpWaiting
<1>12. ASSUME NEW i \in Attempts, Step(i) PROVE Goal
  <2>0. run[i] \in Runs /\ run[i].status = "live" /\ run[i].steps < MaxSteps
        /\ run[i].steps \in Nat /\ MaxSteps \in Nat
    BY <1>0, <1>12, GoalRunAssumption DEF TypeInv, Step, RunsOK, Runs
  <2>1. CASE run[i].steps + 1 < MaxSteps
             /\ run' = [run EXCEPT ![i].gate = "closed", ![i].steps = @ + 1]
    <3> DEFINE x == [run[i] EXCEPT !.gate = "closed", !.steps = @ + 1]
    <3>1. /\ x \in Runs /\ x.status = "live" /\ x.gate = "closed" /\ x.steps < MaxSteps
          /\ run' = [run EXCEPT ![i] = x]
      BY <2>0, <2>1 DEF TypeInv, Runs
    <3> HIDE DEF x
    <3>2. QED BY <2>0, <3>1, OneRunMoves DEF None, Dead, DeadIn
  <2>2. ASSUME NEW f \in {"stop", "broken"},
               run' = [run EXCEPT ![i].status = "ended", ![i].gate = "closed",
                                  ![i].steps = @ + 1, ![i].finish = f]
        PROVE  Goal
    <3> DEFINE x == [run[i] EXCEPT !.status = "ended", !.gate = "closed", !.steps = @ + 1,
                                   !.finish = f]
    <3>1. /\ x \in Runs /\ x.status = "ended" /\ x.finish = f
          /\ run' = [run EXCEPT ![i] = x]
      BY <2>0, <2>2 DEF TypeInv, Runs, RunStatus, Finishes
    <3> HIDE DEF x
    <3>2. QED BY <1>5, <2>0, <3>1 DEF Finishes
  <2>3. QED BY <1>12, <2>1, <2>2 DEF Step
<1>13. CASE Crash
  <2>1. ASSUME NEW i \in Attempts
        PROVE  /\ run'[i] \in Runs /\ run'[i].status = run[i].status /\ run'[i].gate = "closed"
               /\ run'[i].steps = run[i].steps /\ run'[i].finish = run[i].finish
    BY <1>13 DEF Crash, TypeInv, Runs
  <2>2. run' \in [Attempts -> Runs] BY <1>13, <2>1 DEF Crash
  <2>3. QED BY <1>0, <2>1, <2>2 DEF RunsOK, Lasts, DeadIn
<1>14. QED
  BY <1>1, <1>2, <1>3, <1>4, <1>8, <1>10, <1>11, <1>12, <1>13, RunAlone

-----------------------------------------------------------------------------
(* The controller's next state.                                            *)

\* What IInv says of an instance c, beside the starts t.
Sound(c, t) ==
    c \in Controllers /\ ControllerInv(c, record) /\ Grounded(c, run) /\ Awaited(c, t)

LEMMA ControllerInvLasts ==
    ASSUME RecordOK(record), RecordMoves, NEW c, ControllerInv(c, record)
    PROVE  ControllerInv(c, record')
<1>1. Agrees(c.view, record') BY AgreementLasts DEF ControllerInv
<1>2. QED BY <1>1 DEF ControllerInv

LEMMA GroundedLasts ==
    ASSUME NEW c, NEW r, ControllerInv(c, r), NEW u, NEW w, Lasts(u, w), Grounded(c, u)
    PROVE  Grounded(c, w)
<1> DEFINE n == Len(c.view.attempts)
<1>1. RecordOK(c.view) BY DEF ControllerInv, Agrees
<1>2. n \in 0 .. MaximumAttempts /\ MaximumAttempts \in Nat
  BY <1>1, LastAttempt, BoundsAssumption
<1>3. c.view.status \in {"running", "evaluating", "retrying"} => n \in Attempts
  BY <1>1, <1>2, LastAttempt DEF Attempts
<1>4. c.pc = "reread" /\ c.pending \in Finishes => n \in Attempts
  BY <1>3 DEF ControllerInv, Finishes, Verdicts
<1>5. c.pc \in {"commit", "committed"} /\ c.request.to = "running" => n + 1 \in Attempts
  <2>1. ASSUME c.pc \in {"commit", "committed"}, c.request.to = "running"
        PROVE  n + 1 \in Attempts
    <3>1. Fits(c.view, c.request) BY <2>1 DEF ControllerInv
    <3>2. Opens(c.view, c.request)
      BY <1>1, <2>1, <3>1, FitsCases DEF Ends, StartFails, Accounts, Judges
    <3>3. QED BY <1>2, <3>2 DEF Opens, Attempts
  <2>2. QED BY <2>1
<1> HIDE DEF n
<1>6. QED BY <1>3, <1>4, <1>5 DEF Grounded, Lasts, n

LEMMA FreshIsSound ==
    ASSUME RecordOK(record), NEW c, Fresh(c), NEW t PROVE Sound(c, t)
<1>1. c \in Controllers /\ c.pc = "load" /\ c.view.status = "pending"
  BY DEF Fresh, createGoalState
<1>2. Grounded(c, run) /\ Awaited(c, t) BY <1>1 DEF Grounded, Awaited
<1>3. QED BY <1>1, <1>2, FreshInv DEF Sound

\* The record just read is grounded.
LEMMA ReadIsGrounded ==
    ASSUME RunInv, NEW c, c.view = record, c.pc \in {"abort", "wait", "validate", "start"}
    PROVE  Grounded(c, run)
  BY DEF RunInv, Grounded, Dead

LEMMA AnswerIsSound ==
    ASSUME IInv, NEW s \in Starts, NEW a, Answer(s, a), start[s].pc # "idle",
           a \in {"started", "adopted"} => run[start[s].attempt].status # None,
           a \in {"started", "adopted", "stood-down", "failed"}
    PROVE  Sound(ctl', start')
<1>0. /\ RecordOK(record) /\ ctl \in Controllers /\ ControllerInv(ctl, record)
      /\ Grounded(ctl, run) /\ Awaited(ctl, start) /\ start \in [Starts -> StartCalls]
  BY DEF IInv, TypeInv, ReaderInv
<1>1. CASE ~(Running("start") /\ ctl.slot = s)
  <2>1. ctl' = ctl BY <1>1 DEF Answer
  <2>2. Awaited(ctl, start')
    BY <1>0, <1>1 DEF Awaited, Answer, Running, Controllers
  <2>3. QED BY <1>0, <2>1, <2>2 DEF Sound
<1>2. CASE Running("start") /\ ctl.slot = s
  <2>0. /\ ctl.view.status \in Idle /\ Len(ctl.view.attempts) < MaximumAttempts
        /\ start[s].attempt = Len(ctl.view.attempts) + 1 /\ ctl.slot # None
    BY <1>0, <1>2, GoalRunAssumption DEF Running, ControllerInv, Idle, Awaited
  <2>1. CASE a = "stood-down"
    BY <1>0, <1>2, <2>1, IdleWakeIsFresh, FreshIsSound DEF Answer
  <2>2. CASE a = "failed"
    <3>1. ctl' = [Checkpointed(ctl, "reread") EXCEPT !.pending = "startFailed"]
      BY <1>2, <2>2 DEF Answer
    <3>2. /\ ctl' \in Controllers /\ ControllerInv(ctl', record) /\ ctl'.view = ctl.view
          /\ ctl'.pc = "reread" /\ ctl'.pending = "startFailed"
      <4>1. "startFailed" \notin Finishes \cup Verdicts BY DEF Finishes, Verdicts
      <4>2. "startFailed" \in Finishes \cup Verdicts \cup {"startFailed"} OBVIOUS
      <4>3. ctl' = Recorded(ctl, "startFailed") BY <3>1 DEF Recorded
      <4>4. QED BY <1>0, <2>0, <4>1, <4>2, <4>3, RereadInv
    <3>3. QED BY <1>0, <3>2 DEF Sound, Grounded, Awaited, Finishes
  <2>3. CASE a \in {"started", "adopted"}
    <3> DEFINE q == buildOpenAttempt(ctl.view)
    <3>1. ctl' = ToCommit(ctl, q) BY <1>2, <2>3 DEF Answer
    <3>2. Fits(ctl.view, q) BY <2>0 DEF Fits, Idle
    <3>3. q.to = "running" /\ q.reason = None
      BY DEF buildOpenAttempt, baseTransition, withAttempt
    <3> HIDE DEF q
    <3>4. /\ ctl' \in Controllers /\ ControllerInv(ctl', record) /\ ctl'.view = ctl.view
          /\ ctl'.pc = "commit" /\ ctl'.request = q
      BY <1>0, <3>1, <3>2, ToCommitInv
    <3>5. run[Len(ctl.view.attempts) + 1].status # None BY <2>0, <2>3
    <3>6. QED BY <1>0, <2>0, <3>3, <3>4, <3>5 DEF Sound, Grounded, Awaited, None, Idle
  <2>4. QED BY <2>1, <2>2, <2>3
<1>3. QED BY <1>1, <1>2

LEMMA StartGoesIsSound ==
    ASSUME IInv, NEW s \in Starts, NEW p \in StartPcs, p # "idle", StartGoes(s, p),
           start[s].pc # "idle"
    PROVE  Sound(ctl', start')
<1>1. /\ ctl' = ctl /\ ctl \in Controllers /\ ControllerInv(ctl, record)
      /\ Grounded(ctl, run) /\ Awaited(ctl, start) /\ start \in [Starts -> StartCalls]
  BY DEF IInv, TypeInv, ReaderInv, StartGoes
<1>2. /\ \A t \in Starts : t # s => start'[t] = start[t]
      /\ start'[s].pc = p /\ start'[s].attempt = start[s].attempt
  BY <1>1 DEF StartGoes, StartCalls
<1>3. ctl.slot \in Starts \cup {None} BY <1>1 DEF Controllers
<1>4. Awaited(ctl, start') BY <1>1, <1>2, <1>3 DEF Awaited
<1>5. QED BY <1>1, <1>4 DEF Sound

\* The actions that leave the controller and the starts alone.
LEMMA ControllerAlone ==
    ASSUME [Next]_vars, ctl' # ctl \/ start' # start
    PROVE  \/ Controller \/ TryTimesOut \/ Crash
           \/ \E s \in Starts : StartPort(s)
           \/ \E h \in Hosts : startController(h) \/ HostEnds(h)
  BY DEF Next, vars, AttemptRun, FenceReadsRecord, FenceReadsClaim, Step, GivesUpWaiting, forward,
     HostCall, HostGets, standDownIfOvertaken, recordControllerRestart, recoverAttempt,
     requestCancellationOf, HostSignals, HostFences, HostStops, commitCancellation, readBack,
     CallBegins, BootReads, Finalizer, FinalizerFences, FinalizerStops, FinalizerReads,
     DeadlinePasses

LEMMA StartPortIsSound ==
    ASSUME IInv, NEW s \in Starts, StartPort(s) PROVE Sound(ctl', start')
<1>0. start[s].pc \in {"adopting", "created"} => run[start[s].attempt].status # None
  BY DEF IInv, StartInv
<1>1. ASSUME NEW a \in {"stood-down", "failed"}, Answer(s, a), start[s].pc # "idle"
      PROVE  Sound(ctl', start')
  BY <1>1, AnswerIsSound
<1>2. ASSUME NEW a \in {"started", "adopted"}, Answer(s, a),
             start[s].pc \in {"adopting", "created"}
      PROVE  Sound(ctl', start')
  BY <1>0, <1>2, AnswerIsSound
<1>3. CASE StartChecks(s) BY <1>1, <1>3, StartGoesIsSound DEF StartChecks, StartPcs
<1>4. CASE StartAdopts(s) BY <1>4, StartGoesIsSound DEF StartAdopts, StartPcs
<1>5. CASE StartAdopted(s) BY <1>1, <1>2, <1>5 DEF StartAdopted
<1>6. CASE StartSeats(s) BY <1>1, <1>6, StartGoesIsSound DEF StartSeats, StartPcs
<1>7. CASE StartClaims(s) BY <1>1, <1>7, StartGoesIsSound DEF StartClaims, StartPcs
<1>8. CASE StartCreates(s) BY <1>8, StartGoesIsSound DEF StartCreates, StartPcs
<1>9. CASE StartConfirms(s) BY <1>1, <1>2, <1>9, StartGoesIsSound DEF StartConfirms, StartPcs
<1>10. CASE StartFences(s) BY <1>10, StartGoesIsSound DEF StartFences, StartPcs
<1>11. CASE StartStops(s) BY <1>1, <1>11 DEF StartStops
<1>12. QED
  BY <1>3, <1>4, <1>5, <1>6, <1>7, <1>8, <1>9, <1>10, <1>11 DEF StartPort

\* An answer recorded by an instance that waits.
LEMMA RecordedIsSound ==
    ASSUME IInv, NEW x \in Finishes \cup Verdicts,
           x \in Finishes => ctl.view.status = "running" /\ Dead(Len(ctl.view.attempts)),
           x \in Verdicts => ctl.view.status = "evaluating",
           ctl' = Recorded(ctl, x)
    PROVE  Sound(ctl', start')
<1>0. /\ ctl \in Controllers /\ ControllerInv(ctl, record) /\ Grounded(ctl, run)
  BY DEF IInv, TypeInv, ReaderInv
<1>1. x # "startFailed" BY DEF Finishes, Verdicts
<1>2. /\ ctl' \in Controllers /\ ControllerInv(ctl', record) /\ ctl'.view = ctl.view
      /\ ctl'.pc = "reread" /\ ctl'.pending = x
  BY <1>0, <1>1, RereadInv
<1>3. QED BY <1>0, <1>2 DEF Sound, Grounded, Awaited, Dead

LEMMA RereadIsSound ==
    ASSUME IInv, Reread PROVE Sound(ctl', start')
<1>0. /\ RecordOK(record) /\ ctl \in Controllers /\ ControllerInv(ctl, record)
      /\ Grounded(ctl, run) /\ ctl.pc = "reread" /\ RunInv
  BY DEF IInv, TypeInv, ReaderInv, Reread, Running
<1>1. CASE ctl' = IdleWake(ctl) BY <1>0, <1>1, IdleWakeIsFresh, FreshIsSound
<1>2. CASE ctl' = ToForced(ctl, record, "budget")
  <2>1. ctl' \in Controllers /\ ControllerInv(ctl', record) /\ ctl'.view = record /\ ctl'.pc = "abort"
    BY <1>0, <1>2, ToForcedInv
  <2>2. QED BY <1>0, <2>1, ReadIsGrounded DEF Sound, Awaited
<1>3. CASE ~Overtaken(record) /\ ctl' = ToCommit(ctl, AnswerCommit(record, ctl.pending))
  <2> DEFINE q == AnswerCommit(record, ctl.pending)
             v == ctl.view
             n == Len(ctl.view.attempts)
  <2>1. v.seq = record.seq BY <1>3 DEF Overtaken
  <2>2. Fits(v, q) BY <1>0, <2>1, AnswerCommitFits
  <2>3. q = AnswerCommit(v, ctl.pending)
    BY <1>0, <2>1, SameAnswerCommit DEF ControllerInv, Agrees
  <2>4. q.to # "running"
    <3>1. \/ ctl.pending \in Finishes /\ v.status = "running"
          \/ ctl.pending \in Verdicts /\ v.status = "evaluating"
          \/ ctl.pending = "startFailed"
      BY <1>0 DEF ControllerInv
    <3>2. CASE v.status \in {"running", "evaluating"}
      BY <1>0, <2>2, <3>2, FitsCases
         DEF Ends, Opens, StartFails, Accounts, Judges, Idle, ControllerInv, Agrees
    <3>3. CASE ctl.pending = "startFailed"
      BY <2>3, <3>3 DEF AnswerCommit, buildStartFailure, baseTransition
    <3>4. QED BY <3>1, <3>2, <3>3
  <2>5. v.status \in {"running", "evaluating"} => DeadIn(run, n)
    BY <1>0 DEF ControllerInv, Grounded, Finishes, Verdicts
  <2> HIDE DEF q
  <2>6. /\ ctl' \in Controllers /\ ControllerInv(ctl', record) /\ ctl'.view = v
        /\ ctl'.pc = "commit" /\ ctl'.request = q
    BY <1>0, <1>3, <2>2, ToCommitInv DEF q
  <2>7. QED BY <1>0, <2>4, <2>5, <2>6 DEF Sound, Grounded, Awaited
<1>4. QED BY <1>1, <1>2, <1>3 DEF Reread

\* A step within an iteration that keeps the view and the request.
LEMMA SameRequestIsSound ==
    ASSUME IInv, NEW p \in {"abort", "abortRun", "committed", "commit"}, ctl' \in Controllers,
           ctl'.pc = p, ctl'.view = ctl.view, ctl'.request = ctl.request,
           \/ p \in {"abort", "abortRun"} /\ ctl.pc \in {"abort", "abortRun"}
           \/ p \in {"commit", "committed"} /\ ctl.pc \in {"commit", "committed"}
    PROVE  Sound(ctl', start')
<1>0. ControllerInv(ctl, record) /\ Grounded(ctl, run) BY DEF IInv, ReaderInv
<1>1. ControllerInv(ctl', record) BY <1>0 DEF ControllerInv
<1>2. Grounded(ctl', run) BY <1>0 DEF Grounded
<1>3. QED BY <1>1, <1>2 DEF Sound, Awaited

LEMMA ReplayIsSound ==
    ASSUME IInv, Crash PROVE Sound(ctl', start')
<1>0. /\ RecordOK(record) /\ ctl \in Controllers /\ ControllerInv(ctl, record)
      /\ Grounded(ctl, run)
  BY DEF IInv, TypeInv, ReaderInv
<1>1. CASE ctl.status # "running"
  BY <1>0, <1>1 DEF Crash, Replayed, Sound, Awaited
<1>2. CASE ctl.status = "running"
  <2> DEFINE p == IF ctl.pc = "abortRun" THEN "abort"
                  ELSE IF ctl.pc = "committed" THEN "commit" ELSE ctl.pc
             k == IF ctl.prior = 0 THEN 0 ELSE 1
  <2>1. p \in Pcs /\ k \in Nat BY <1>0 DEF Controllers, Pcs
  <2>2. ctl' = [ctl EXCEPT !.pc = p, !.slot = None, !.tries = 0, !.prior = k]
    BY <1>2 DEF Crash, Replayed
  <2> HIDE DEF p, k
  <2>3. /\ ctl' \in Controllers /\ ctl'.pc = p /\ ctl'.view = ctl.view
        /\ ctl'.request = ctl.request /\ ctl'.pending = ctl.pending /\ ctl'.slot = None
    BY <1>0, <2>1, <2>2 DEF Controllers
  <2>4. CASE ctl.pc \in {"abort", "abortRun", "commit", "committed"}
    BY <2>3, <2>4, SameRequestIsSound DEF p
  <2>5. CASE ctl.pc \notin {"abort", "abortRun", "commit", "committed"}
    <3>1. ctl'.pc = ctl.pc BY <2>3, <2>5 DEF p
    <3>2. ControllerInv(ctl', record) BY <1>0, <2>3, <3>1 DEF ControllerInv
    <3>3. Grounded(ctl', run) BY <1>0, <2>3, <3>1 DEF Grounded
    <3>4. QED BY <2>3, <3>2, <3>3 DEF Sound, Awaited
  <2>6. QED BY <2>4, <2>5
<1>3. QED BY <1>1, <1>2

LEMMA ControllerIsSound ==
    ASSUME IInv, Controller \/ TryTimesOut, ~ControllerStops PROVE Sound(ctl', start')
<1>0. /\ RecordOK(record) /\ ctl \in Controllers /\ ControllerInv(ctl, record) /\ RunInv
      /\ Grounded(ctl, run) /\ Awaited(ctl, start) /\ start \in [Starts -> StartCalls]
  BY DEF IInv, TypeInv, ReaderInv
<1>1. CASE loadGoalState
  <2>1. CASE isTerminal(record.status)
    BY <1>0, <1>1, <2>1, OverIsFresh, FreshIsSound DEF loadGoalState, ControllerTerminal
  <2>2. CASE ~isTerminal(record.status)
    <3> DEFINE c == [ctl EXCEPT !.view = record, !.staged = attemptToStop(record)]
    <3>1. ctl' = advance(c, record) BY <1>1, <2>2 DEF loadGoalState
    <3>2. attemptToStop(record) \in Nat BY <1>0, LastAttempt DEF attemptToStop
    <3>3. c \in Controllers /\ c.view = record
      BY <1>0, <3>2 DEF Controllers, RecordOK
    <3> HIDE DEF c
    <3>4. /\ ctl' \in Controllers /\ ControllerInv(ctl', record) /\ ctl'.view = record
          /\ ctl'.pc \in {"abort", "wait", "validate", "start"}
          /\ ctl'.pc = "start" => ctl'.slot = None
      BY <1>0, <2>2, <3>1, <3>3, AdvanceInv
    <3>5. QED BY <1>0, <3>4, ReadIsGrounded DEF Sound, Awaited
  <2>3. QED BY <2>1, <2>2
<1>2. CASE ControllerFences
  <2>1. /\ ctl.pc = "abort" /\ ctl' \in Controllers /\ ctl'.pc = "abortRun"
        /\ ctl'.view = ctl.view /\ ctl'.request = ctl.request
    BY <1>0, <1>2 DEF ControllerFences, Running, Controllers, Pcs
  <2>2. QED BY <2>1, SameRequestIsSound
<1>3. CASE commitTransition
  <2>1. /\ ctl.pc = "commit" /\ ctl' \in Controllers /\ ctl'.pc = "committed"
        /\ ctl'.view = ctl.view /\ ctl'.request = ctl.request
    BY <1>0, <1>3, AnswerType DEF commitTransition, Running, Controllers, Pcs
  <2>2. QED BY <2>1, SameRequestIsSound
<1>4. CASE CommitRecorded
  BY <1>0, <1>4, AfterCommitIsFresh, FreshIsSound DEF CommitRecorded
<1>5. ASSUME NEW s \in Starts, TryStart(s) PROVE Sound(ctl', start')
  <2>1. /\ ctl.pc = "start" /\ ctl' \in Controllers /\ ctl'.pc = "start" /\ ctl'.slot = s
        /\ ctl'.view = ctl.view
    <3>1. ctl.tries + 1 \in Nat BY <1>0 DEF Controllers
    <3>2. ctl' = [ctl EXCEPT !.slot = s, !.tries = ctl.tries + 1] /\ ctl.pc = "start"
      BY <1>5 DEF TryStart, Running
    <3>3. QED BY <1>0, <3>1, <3>2 DEF Controllers
  <2>2. start'[s].pc = "check" /\ start'[s].attempt = Len(ctl.view.attempts) + 1
    BY <1>0, <1>5 DEF TryStart
  <2>3. ControllerInv(ctl', record) BY <1>0, <2>1 DEF ControllerInv
  <2>4. Grounded(ctl', run) BY <1>0, <2>1 DEF Grounded
  <2>5. QED BY <2>1, <2>2, <2>3, <2>4 DEF Sound, Awaited
<1>6. CASE AttemptWins
  <2> DEFINE i == Len(ctl.view.attempts)
  <2>1. ctl.view.status = "running" /\ inbox[i] = "full" /\ ctl' = Recorded(ctl, run[i].finish)
    BY <1>0, <1>6 DEF AttemptWins, Running, ControllerInv, Recorded
  <2>2. i \in Attempts
    <3>1. i \in 0 .. MaximumAttempts /\ i > 0
      BY <1>0, <2>1, LastAttempt DEF ControllerInv, Agrees
    <3>2. QED BY <3>1, BoundsAssumption DEF Attempts
  <2>3. Dead(i) /\ run[i].finish \in Finishes
    BY <1>0, <2>1, <2>2 DEF RunInv
  <2>4. run[i].finish \notin Verdicts BY <2>3 DEF Finishes, Verdicts
  <2>5. QED BY <2>1, <2>3, <2>4, RecordedIsSound
<1>7. CASE CancelOrDeadlineWins
  BY <1>0, <1>7, IdleWakeIsFresh, FreshIsSound DEF CancelOrDeadlineWins
<1>8. CASE runValidator
  <2>1. CASE ctl' = IdleWake(ctl) BY <1>0, <2>1, IdleWakeIsFresh, FreshIsSound
  <2>2. ASSUME NEW verdict \in Verdicts,
               ctl' = [Checkpointed(ctl, "reread") EXCEPT !.pending = verdict]
        PROVE  Sound(ctl', start')
    <3>1. ctl' = Recorded(ctl, verdict) BY <2>2 DEF Recorded
    <3>2. ctl.view.status = "evaluating" BY <1>0, <1>8 DEF runValidator, Running, ControllerInv
    <3>3. verdict \notin Finishes BY DEF Finishes, Verdicts
    <3>4. QED BY <3>1, <3>2, <3>3, RecordedIsSound
  <2>3. QED BY <1>8, <2>1, <2>2 DEF runValidator
<1>9. CASE Reread BY <1>9, RereadIsSound
<1>10. CASE TryTimesOut
  <2>1. CASE ctl' = Over(ctl, "failed")
    BY <1>0, <2>1, OverIsFresh, FreshIsSound DEF ControllerTerminal
  <2>2. CASE ctl' = [ctl EXCEPT !.slot = None]
    <3>1. /\ ctl' \in Controllers /\ ctl'.pc = ctl.pc /\ ctl'.slot = None
          /\ ctl'.view = ctl.view /\ ctl'.request = ctl.request /\ ctl'.pending = ctl.pending
      BY <1>0, <2>2 DEF Controllers
    <3>2. ControllerInv(ctl', record) BY <1>0, <3>1 DEF ControllerInv
    <3>3. Grounded(ctl', run) BY <1>0, <3>1 DEF Grounded
    <3>4. QED BY <3>1, <3>2, <3>3 DEF Sound, Awaited
  <2>3. QED BY <1>10, <2>1, <2>2 DEF TryTimesOut
<1>11. QED
  BY <1>1, <1>2, <1>3, <1>4, <1>5, <1>6, <1>7, <1>8, <1>9, <1>10 DEF Controller

LEMMA StepMovesController ==
    ASSUME IInv, RecordMoves, Lasts(run, run'), [Next]_vars
    PROVE  /\ ctl' \in Controllers /\ ControllerInv(ctl', record')
           /\ Grounded(ctl', run') /\ Awaited(ctl', start')
<1>0. /\ RecordOK(record) /\ ctl \in Controllers /\ ControllerInv(ctl, record)
      /\ Grounded(ctl, run) /\ Awaited(ctl, start) /\ TypeInv /\ RunInv
  BY DEF IInv, TypeInv, ReaderInv
<1> DEFINE Goal == /\ ctl' \in Controllers /\ ControllerInv(ctl', record')
                   /\ Grounded(ctl', run') /\ Awaited(ctl', start')
<1>1. ASSUME Sound(ctl', start') PROVE Goal
  BY <1>0, <1>1, ControllerInvLasts, GroundedLasts DEF Sound
<1>2. CASE ctl' = ctl /\ start' = start BY <1>0, <1>1, <1>2 DEF Sound
<1>3. CASE ControllerStops
  <2> DEFINE n == Len(ctl.view.attempts)
  <2>1. /\ ctl.pc = "abortRun" /\ ctl' \in Controllers /\ ctl'.pc = "commit"
        /\ ctl'.view = ctl.view /\ ctl'.request = ctl.request
    BY <1>0, <1>3 DEF ControllerStops, Running, Checkpointed, Controllers, Pcs
  <2>2. PICK reason \in {"goalCanceled", "budget", "attemptLimit"} :
                ctl.request = buildGoalForcedFinish(ctl.view, reason)
    BY <1>0, <2>1 DEF ControllerInv
  <2>3. Fits(ctl.view, ctl.request) BY <2>2 DEF Fits
  <2>4. ControllerInv(ctl', record) BY <1>0, <2>1, <2>3 DEF ControllerInv
  <2>5. ControllerInv(ctl', record') BY <1>0, <2>4, ControllerInvLasts
  <2>6. RecordOK(ctl.view) /\ Len(ctl.view.attempts) <= Len(record.attempts)
    BY <1>0 DEF ControllerInv, Agrees
  <2>7. ctl.request.to \notin {"running", "evaluating"} /\ ctl.request.reason # "runFailed"
    <3>1. ctl.request.to = TERMINAL_STATUS_BY_REASON[reason] /\ ctl.request.reason = reason
      BY <2>2 DEF buildGoalForcedFinish, baseTransition, withAttempt
    <3>2. QED BY <3>1, ReasonTable
  <2>8. ctl.view.status \in {"running", "evaluating"} => DeadIn(run', n)
    <3> SUFFICES ASSUME ctl.view.status \in {"running", "evaluating"} PROVE DeadIn(run', n)
      OBVIOUS
    <3>1. n \in Attempts /\ attemptToStop(ctl.view) = n
      <4>1. n \in 0 .. MaximumAttempts /\ n > 0 /\ isInFlight(Last(ctl.view))
        BY <2>6, LastAttempt DEF isInFlight
      <4>2. QED BY <4>1, BoundsAssumption DEF Attempts, attemptToStop
    <3>2. run[n].status # None BY <1>0, <2>6, <3>1 DEF RunInv
    <3>3. QED BY <1>0, <1>3, <3>1, <3>2, CancelMoves DEF ControllerStops
  <2>9. ctl.view.status \in {"evaluating", "retrying"} => DeadIn(run', n)
    <3>1. ctl.view.status = "retrying" => n \in Attempts
      <4>1. ctl.view.status = "retrying" => n \in 0 .. MaximumAttempts /\ n > 0
        BY <2>6, LastAttempt
      <4>2. QED BY <4>1, BoundsAssumption DEF Attempts
    <3>2. QED BY <1>0, <2>8, <3>1 DEF Grounded, Lasts
  <2>10. Grounded(ctl', run') BY <2>1, <2>7, <2>8, <2>9 DEF Grounded
  <2>11. QED BY <2>1, <2>5, <2>10 DEF Awaited
<1>4. CASE (Controller \/ TryTimesOut) /\ ~ControllerStops BY <1>1, <1>4, ControllerIsSound
<1>5. CASE Crash BY <1>1, <1>5, ReplayIsSound
<1>6. ASSUME NEW s \in Starts, StartPort(s) PROVE Goal BY <1>1, <1>6, StartPortIsSound
<1>7. ASSUME NEW h \in Hosts, startController(h) PROVE Goal
  <2>1. CASE ctl' = [NewController EXCEPT !.gen = record.restarts]
    <3>1. record.restarts \in Nat BY <1>0 DEF RecordOK, GoalRecords
    <3>2. Fresh(ctl') BY <2>1, <3>1, NewIsFresh
    <3>3. QED BY <1>0, <1>1, <3>2, FreshIsSound
  <2>2. QED BY <1>2, <1>7, <2>1 DEF startController
<1>8. ASSUME NEW h \in Hosts, HostEnds(h) PROVE Goal
  <2>1. CASE ctl' = Over(ctl, "cancelled")
    BY <1>0, <1>1, <2>1, OverIsFresh, FreshIsSound DEF ControllerTerminal
  <2>2. QED BY <1>2, <1>8, <2>1 DEF HostEnds, cancelController
<1>9. QED
  BY <1>2, <1>3, <1>4, <1>5, <1>6, <1>7, <1>8, ControllerAlone

-----------------------------------------------------------------------------
(* The starts under way.                                                   *)

\* What StartInv says of a call x, when the runs are u.
StartOK(x, u) ==
    /\ x \in StartCalls
    /\ x.pc # "idle" =>
          /\ x.attempt \in Attempts
          /\ \A i \in Attempts : i < x.attempt => DeadIn(u, i)
          /\ x.pc \in {"adopting", "created", "undo", "undoRun"} => u[x.attempt].status # None

LEMMA StartLasts ==
    ASSUME NEW x, NEW u, NEW w, StartOK(x, u), Lasts(u, w) PROVE StartOK(x, w)
  BY DEF StartOK, Lasts

LEMMA NoStartOK == ASSUME NEW u PROVE StartOK(NoStart, u)
  BY DEF NoStart, StartOK, StartCalls, StartPcs

\* One call changes.
LEMMA OneStartMoves ==
    ASSUME IInv, Lasts(run, run'), NEW s \in Starts, NEW x, StartOK(x, run'),
           start' = [start EXCEPT ![s] = x]
    PROVE  start' \in [Starts -> StartCalls] /\ \A t \in Starts : StartOK(start'[t], run')
<1>1. ASSUME NEW t \in Starts PROVE StartOK(start[t], run')
  <2>1. StartOK(start[t], run) BY DEF IInv, TypeInv, StartInv, StartOK, Dead
  <2>2. QED BY <2>1, StartLasts
<1>2. start \in [Starts -> StartCalls] /\ x \in StartCalls BY DEF IInv, TypeInv, StartOK
<1>3. QED BY <1>1, <1>2

LEMMA StartGoesMoves ==
    ASSUME IInv, Lasts(run, run'), NEW s \in Starts, NEW p \in StartPcs \ {"idle"},
           StartGoes(s, p), start[s].pc # "idle",
           p \in {"adopting", "created", "undo", "undoRun"} => run'[start[s].attempt].status # None
    PROVE  start' \in [Starts -> StartCalls] /\ \A t \in Starts : StartOK(start'[t], run')
<1> DEFINE x == [start[s] EXCEPT !.pc = p]
<1>1. start[s] \in StartCalls /\ start \in [Starts -> StartCalls] BY DEF IInv, TypeInv
<1>2. /\ x \in StartCalls /\ x.pc = p /\ x.attempt = start[s].attempt
      /\ start' = [start EXCEPT ![s] = x]
  BY <1>1 DEF StartGoes, StartCalls
<1>3. /\ start[s].attempt \in Attempts
      /\ \A i \in Attempts : i < start[s].attempt => DeadIn(run', i)
  BY DEF IInv, StartInv, Lasts, Dead
<1> HIDE DEF x
<1>4. StartOK(x, run') BY <1>2, <1>3 DEF StartOK
<1>5. QED BY <1>2, <1>4, OneStartMoves

LEMMA StepMovesStarts ==
    ASSUME IInv, Lasts(run, run'), RunsOK(run'), [Next]_vars
    PROVE  start' \in [Starts -> StartCalls] /\ \A t \in Starts : StartOK(start'[t], run')
<1> DEFINE Goal == start' \in [Starts -> StartCalls] /\ \A t \in Starts : StartOK(start'[t], run')
<1>0. /\ start \in [Starts -> StartCalls]
      /\ \A t \in Starts : StartOK(start[t], run) /\ StartOK(start[t], run')
  <2>1. start \in [Starts -> StartCalls] BY DEF IInv, TypeInv
  <2>2. ASSUME NEW t \in Starts PROVE StartOK(start[t], run)
    BY DEF IInv, TypeInv, StartInv, StartOK, Dead
  <2>3. QED BY <2>1, <2>2, StartLasts
<1>1. CASE start' = start BY <1>0, <1>1
<1>2. ASSUME NEW s \in Starts, NEW a, Answer(s, a) PROVE Goal
  BY <1>2, NoStartOK, OneStartMoves DEF Answer
<1>3. ASSUME NEW s \in Starts, start' = [start EXCEPT ![s].timedOut = TRUE] PROVE Goal
  <2> DEFINE x == [start[s] EXCEPT !.timedOut = TRUE]
  <2>1. x \in StartCalls /\ x.pc = start[s].pc /\ x.attempt = start[s].attempt
        /\ start' = [start EXCEPT ![s] = x]
    BY <1>0, <1>3 DEF StartCalls
  <2> HIDE DEF x
  <2>2. StartOK(x, run') BY <1>0, <2>1 DEF StartOK
  <2>3. QED BY <2>1, <2>2, OneStartMoves
<1>4. ASSUME NEW s \in Starts, TryStart(s) PROVE Goal
  <2> DEFINE n == Len(ctl.view.attempts)
             x == [pc |-> "check", attempt |-> n + 1, timedOut |-> FALSE]
  <2>1. /\ ctl.view.status \in Idle /\ n < MaximumAttempts /\ RecordOK(ctl.view)
        /\ n <= Len(record.attempts)
    BY <1>4 DEF TryStart, Running, IInv, ReaderInv, ControllerInv, Agrees, Idle
  <2>2. n \in Nat /\ n + 1 \in Attempts
    BY <2>1, LastAttempt, BoundsAssumption DEF Attempts
  <2>3. ASSUME NEW i \in Attempts, i < n + 1 PROVE DeadIn(run', i)
    <3>1. n > 0 /\ n \in Attempts BY <2>2, <2>3, BoundsAssumption DEF Attempts
    <3>2. ctl.view.status = "retrying"
      BY <2>1, <3>1, LastAttempt DEF Idle
    <3>3. DeadIn(run, n) BY <3>2 DEF IInv, Grounded
    <3>4. CASE i = n BY <3>1, <3>3, <3>4 DEF Lasts
    <3>5. CASE i < n
      <4>1. DeadIn(run, i)
        BY <3>1, <3>3, <3>5 DEF IInv, RunInv, Dead, DeadIn, None
      <4>2. QED BY <4>1 DEF Lasts
    <3>6. QED BY <2>2, <2>3, <3>4, <3>5 DEF Attempts
  <2>4. x \in StartCalls BY <2>2 DEF StartCalls, StartPcs
  <2>5. StartOK(x, run') BY <2>2, <2>3, <2>4 DEF StartOK
  <2>6. start' = [start EXCEPT ![s] = x] BY <1>4 DEF TryStart
  <2> HIDE DEF x
  <2>7. QED BY <2>5, <2>6, OneStartMoves
<1>5. ASSUME NEW s \in Starts, StartPort(s) PROVE Goal
  <2>0. /\ start[s].pc # "idle" => start[s].attempt \in Attempts
        /\ \A i \in Attempts : run[i].status # None => run'[i].status # None
        /\ start[s].pc \in {"adopting", "created", "undo", "undoRun"} =>
              run'[start[s].attempt].status # None
    <3>1. start[s].pc # "idle" => start[s].attempt \in Attempts BY <1>0 DEF StartOK
    <3>2. \A i \in Attempts : run[i].status # None => run'[i].status # None BY DEF Lasts
    <3>3. QED BY <1>0, <3>1, <3>2 DEF StartOK
  <2>1. CASE StartChecks(s) BY <1>2, <2>1, StartGoesMoves DEF StartChecks, StartPcs
  <2>2. CASE StartAdopts(s)
    <3>1. CASE run[start[s].attempt].status # None
      BY <2>0, <2>2, <3>1, StartGoesMoves DEF StartAdopts, StartPcs
    <3>2. CASE run[start[s].attempt].status = None
      BY <2>2, <3>2, StartGoesMoves DEF StartAdopts, StartPcs
    <3>3. QED BY <3>1, <3>2
  <2>3. CASE StartAdopted(s) BY <1>2, <2>3 DEF StartAdopted
  <2>4. CASE StartSeats(s) BY <1>2, <2>4, StartGoesMoves DEF StartSeats, StartPcs
  <2>5. CASE StartClaims(s) BY <1>2, <2>0, <2>5, StartGoesMoves DEF StartClaims, StartPcs
  <2>6. CASE StartCreates(s)
    <3> DEFINE i == start[s].attempt
    <3>1. i \in Attempts /\ start[s].pc # "idle" BY <2>0, <2>6 DEF StartCreates
    <3>2. run'[i].status # None
      <4>1. run \in [Attempts -> Runs] BY DEF IInv, TypeInv
      <4>2. CASE run[i].status = None
        BY <2>6, <3>1, <4>1, <4>2 DEF StartCreates, Runs, None
      <4>3. CASE run[i].status # None BY <2>0, <3>1, <4>3
      <4>4. QED BY <4>2, <4>3
    <3>3. StartGoes(s, "created") \/ StartGoes(s, "adopting") BY <2>6 DEF StartCreates
    <3>4. QED BY <3>1, <3>2, <3>3, StartGoesMoves DEF StartPcs
  <2>7. CASE StartConfirms(s) BY <1>2, <2>0, <2>7, StartGoesMoves DEF StartConfirms, StartPcs
  <2>8. CASE StartFences(s) BY <2>0, <2>8, StartGoesMoves DEF StartFences, StartPcs
  <2>9. CASE StartStops(s) BY <1>2, <2>9 DEF StartStops
  <2>10. QED
    BY <1>5, <2>1, <2>2, <2>3, <2>4, <2>5, <2>6, <2>7, <2>8, <2>9 DEF StartPort
<1>6. CASE Crash
  <2>1. start' = [s \in Starts |-> NoStart] BY <1>6 DEF Crash
  <2>2. QED BY <2>1, NoStartOK DEF StartOK
<1>7. ASSUME TryTimesOut \/ \E h \in Hosts : HostEnds(h), start' # start PROVE Goal
  <2>1. ctl.slot # None /\ start' = [start EXCEPT ![ctl.slot].timedOut = TRUE]
    BY <1>7 DEF TryTimesOut, HostEnds, cancelController
  <2>2. ctl.slot \in Starts BY <2>1 DEF IInv, TypeInv, Controllers
  <2>3. QED BY <1>3, <2>1, <2>2
<1>8. ASSUME start' # start
      PROVE  \/ TryTimesOut \/ Crash
             \/ \E s \in Starts : StartPort(s) \/ TryStart(s)
             \/ \E h \in Hosts : HostEnds(h)
  BY <1>8, ControllerAlone DEF Controller, loadGoalState, ControllerFences, ControllerStops,
     commitTransition, CommitRecorded, AttemptWins, CancelOrDeadlineWins, runValidator, Reread,
     startController
<1>9. QED BY <1>1, <1>4, <1>5, <1>6, <1>7, <1>8

-----------------------------------------------------------------------------
(* The other variables, and the invariant.                                 *)

\* The actions that leave each of the other variables alone.
LEMMA OthersAlone ==
    ASSUME [Next]_vars
    PROVE  /\ elapsed' = elapsed \/ elapsed' = TRUE
           /\ settled' = settled \/ \E h \in Hosts : readBack(h)
           /\ claim' = claim \/ (\E set : fenceAttempts(set)) \/ \E s \in Starts : StartClaims(s)
           /\ \/ watch' \subseteq watch
              \/ \E s \in Starts : StartAdopted(s) \/ StartConfirms(s)
              \/ \E h \in Hosts : recoverAttempt(h)
           /\ cancelSig' = cancelSig \/ cancelSig' \in {"empty", "full", "taken"}
           /\ \/ inbox' = inbox \/ AttemptWins
              \/ \E i \in Attempts : forward(i)
              \/ \E h \in Hosts : startController(h) \/ recoverAttempt(h)
<1> USE DEF Next, vars, Controller, loadGoalState, ControllerFences, ControllerStops,
     commitTransition, CommitRecorded, TryStart, CancelOrDeadlineWins, runValidator, Reread,
     TryTimesOut, StartPort, StartChecks, StartAdopts, StartSeats, StartCreates,
     StartFences, StartStops, AttemptRun, FenceReadsRecord, FenceReadsClaim, Step,
     GivesUpWaiting, HostCall, HostGets, standDownIfOvertaken, recordControllerRestart,
     requestCancellationOf, HostSignals, HostEnds, HostFences, HostStops, commitCancellation,
     CallBegins, BootReads, Finalizer, FinalizerFences, FinalizerStops, FinalizerReads,
     DeadlinePasses, Crash
<1>1. elapsed' = elapsed \/ elapsed' = TRUE
  BY DEF readBack, StartClaims, StartAdopted, StartConfirms, recoverAttempt, AttemptWins, forward,
     startController
<1>2. settled' = settled \/ \E h \in Hosts : readBack(h)
  BY DEF StartClaims, StartAdopted, StartConfirms, recoverAttempt, AttemptWins, forward,
     startController
<1>3. claim' = claim \/ (\E set : fenceAttempts(set)) \/ \E s \in Starts : StartClaims(s)
  BY DEF readBack, StartAdopted, StartConfirms, recoverAttempt, AttemptWins, forward,
     startController
<1>4. \/ watch' \subseteq watch
      \/ \E s \in Starts : StartAdopted(s) \/ StartConfirms(s)
      \/ \E h \in Hosts : recoverAttempt(h)
  BY DEF readBack, StartClaims, AttemptWins, forward, startController
<1>5. cancelSig' = cancelSig \/ cancelSig' \in {"empty", "full", "taken"}
  BY DEF readBack, StartClaims, StartAdopted, StartConfirms, recoverAttempt, AttemptWins, forward,
     startController
<1>6. \/ inbox' = inbox \/ AttemptWins
      \/ \E i \in Attempts : forward(i)
      \/ \E h \in Hosts : startController(h) \/ recoverAttempt(h)
  BY DEF readBack, StartClaims, StartAdopted, StartConfirms
<1>7. QED BY <1>1, <1>2, <1>3, <1>4, <1>5, <1>6

LEMMA StepKeepsTypes ==
    ASSUME IInv, [Next]_vars
    PROVE  /\ elapsed' \in BOOLEAN /\ settled' \in BOOLEAN
           /\ claim' \in [Attempts -> {None, "claimed", "tombstoned"}]
           /\ watch' \subseteq Attempts
           /\ cancelSig' \in {"empty", "full", "taken"}
<1>0. /\ elapsed \in BOOLEAN /\ settled \in BOOLEAN
      /\ claim \in [Attempts -> {None, "claimed", "tombstoned"}]
      /\ watch \subseteq Attempts
      /\ cancelSig \in {"empty", "full", "taken"}
      /\ \A s \in Starts : start[s].pc # "idle" => start[s].attempt \in Attempts
  BY DEF IInv, TypeInv, StartInv
<1>1. \A set : fenceAttempts(set) => claim' \in [Attempts -> {None, "claimed", "tombstoned"}]
  BY <1>0 DEF fenceAttempts
<1>2. elapsed' \in BOOLEAN
  <2>1. elapsed' = elapsed \/ elapsed' = TRUE
    BY OthersAlone
  <2>2. QED BY <1>0, <2>1
<1>3. settled' \in BOOLEAN
  <2>1. settled' = settled \/ \E h \in Hosts : readBack(h)
    BY OthersAlone
  <2>2. ASSUME NEW h \in Hosts, readBack(h) PROVE settled' \in BOOLEAN
    BY <2>2 DEF readBack
  <2>3. QED BY <1>0, <2>1, <2>2
<1>4. claim' \in [Attempts -> {None, "claimed", "tombstoned"}]
  <2>1. \/ claim' = claim \/ (\E set : fenceAttempts(set)) \/ \E s \in Starts : StartClaims(s)
    BY OthersAlone
  <2>2. ASSUME NEW s \in Starts, StartClaims(s)
        PROVE  claim' \in [Attempts -> {None, "claimed", "tombstoned"}]
    BY <1>0, <2>2 DEF StartClaims
  <2>3. QED BY <1>0, <1>1, <2>1, <2>2
<1>5. watch' \subseteq Attempts
  <2>1. \/ watch' \subseteq watch
        \/ \E s \in Starts : StartAdopted(s) \/ StartConfirms(s)
        \/ \E h \in Hosts : recoverAttempt(h)
    BY OthersAlone
  <2>2. ASSUME NEW s \in Starts, StartAdopted(s) \/ StartConfirms(s) PROVE watch' \subseteq Attempts
    BY <1>0, <2>2 DEF StartAdopted, StartConfirms
  <2>3. ASSUME NEW h \in Hosts, recoverAttempt(h) PROVE watch' \subseteq Attempts
    <3>1. record.status = "running" => Len(record.attempts) \in Attempts
      <4>1. record.status = "running" =>
               Len(record.attempts) \in 0 .. MaximumAttempts /\ Len(record.attempts) > 0
        BY LastAttempt DEF IInv, TypeInv
      <4>2. QED BY <4>1, BoundsAssumption DEF Attempts
    <3>2. QED BY <1>0, <2>3, <3>1 DEF recoverAttempt
  <2>4. QED BY <1>0, <2>1, <2>2, <2>3
<1>6. cancelSig' \in {"empty", "full", "taken"}
  <2>1. cancelSig' = cancelSig \/ cancelSig' \in {"empty", "full", "taken"}
    BY OthersAlone
  <2>2. QED BY <1>0, <2>1
<1>7. QED BY <1>2, <1>3, <1>4, <1>5, <1>6

\* A terminal signal is sent only for a run that is over.
LEMMA StepMovesInbox ==
    ASSUME IInv, Lasts(run, run'), [Next]_vars
    PROVE  /\ inbox' \in [Attempts -> {"empty", "full", "taken"}]
           /\ \A i \in Attempts : inbox'[i] = "full" => DeadIn(run', i)
<1>0. /\ inbox \in [Attempts -> {"empty", "full", "taken"}]
      /\ \A i \in Attempts : inbox[i] = "full" => DeadIn(run, i)
      /\ \A i \in Attempts : DeadIn(run, i) => DeadIn(run', i)
  BY DEF IInv, TypeInv, RunInv, Lasts, Dead
<1> DEFINE Goal == /\ inbox' \in [Attempts -> {"empty", "full", "taken"}]
                   /\ \A i \in Attempts : inbox'[i] = "full" => DeadIn(run', i)
<1>1. CASE inbox' = inbox BY <1>0, <1>1
<1>2. ASSUME NEW i \in Attempts, DeadIn(run, i), inbox' = Delivered(i) PROVE Goal
  BY <1>0, <1>2 DEF Delivered
<1>3. CASE AttemptWins BY <1>0, <1>3 DEF AttemptWins
<1>4. ASSUME NEW i \in Attempts, forward(i) PROVE Goal
  BY <1>1, <1>2, <1>4 DEF forward, DeadIn
<1>5. ASSUME NEW h \in Hosts, startController(h) PROVE Goal
  BY <1>0, <1>1, <1>5 DEF startController
<1>6. ASSUME NEW h \in Hosts, recoverAttempt(h), inbox' # inbox PROVE Goal
  <2> DEFINE i == Len(record.attempts)
  <2>1. record.status = "running" /\ run[i].status # "live" /\ inbox' = Delivered(i)
    BY <1>6 DEF recoverAttempt
  <2>2. i \in Attempts
    <3>1. i \in 0 .. MaximumAttempts /\ i > 0 BY <2>1, LastAttempt DEF IInv, TypeInv
    <3>2. QED BY <3>1, BoundsAssumption DEF Attempts
  <2>3. run[i].status # None /\ run[i].status \in RunStatus
    BY <2>2 DEF IInv, RunInv, TypeInv, Runs, Attempts
  <2>4. DeadIn(run, i) BY <2>1, <2>3 DEF RunStatus, DeadIn
  <2>5. QED BY <1>2, <2>1, <2>2, <2>4
<1>7. \/ inbox' = inbox \/ AttemptWins
      \/ \E i \in Attempts : forward(i)
      \/ \E h \in Hosts : startController(h) \/ recoverAttempt(h)
  BY OthersAlone
<1>8. QED BY <1>1, <1>3, <1>4, <1>5, <1>6, <1>7

\* A write that is applied rests on runs that are over.
LEMMA CommitKeepsRuns ==
    ASSUME RecordOK(record), RunInv, NEW v, NEW q, Commits(v, q), run' = run,
           q.to = "running" => run[Len(v.attempts) + 1].status # None,
           /\ q.to = "evaluating" \/ q.reason \in {"runFailed", "budget", "attemptLimit"}
           /\ v.status \in {"running", "evaluating"}
           => Dead(Len(v.attempts))
    PROVE  /\ \A i \in Attempts : i <= Len(record'.attempts) => run[i].status # None
           /\ record'.status \in {"evaluating", "retrying"} => Dead(Len(record'.attempts))
           /\ \A i \in Attempts :
                 run[i].status = "live" /\ run[i].gate \in {"run", "open"} =>
                    i = Len(record'.attempts) /\ record'.status = "canceled"
<1> DEFINE n == Len(record.attempts)
<1>1. /\ v.status = record.status /\ v.attempts = record.attempts /\ record'.status = q.to
      /\ Len(record'.attempts) = IF q.to = "running" THEN n + 1 ELSE n
  BY CommitEffect DEF Commits
<1>2. Ends(v, q) \/ Opens(v, q) \/ StartFails(v, q) \/ Accounts(v, q) \/ Judges(v, q)
  BY FitsCases DEF Commits, Agrees
<1>3. ~isTerminal(record.status) /\ record.status \in Status
  BY AppliedChecks DEF Commits, RecordOK, GoalRecords
<1>4. n \in Nat BY DEF RecordOK, GoalRecords
<1>5. ASSUME NEW i \in Attempts, i <= Len(record'.attempts) PROVE run[i].status # None
  <2>1. CASE i <= n BY <2>1 DEF RunInv
  <2>2. CASE ~(i <= n)
    <3>1. q.to = "running" /\ i = n + 1 BY <1>1, <1>4, <1>5, <2>2 DEF Attempts
    <3>2. QED BY <1>1, <3>1
  <2>3. QED BY <2>1, <2>2
<1>6. ASSUME record'.status \in {"evaluating", "retrying"} PROVE Dead(Len(record'.attempts))
  <2>1. Len(record'.attempts) = n BY <1>1, <1>6
  <2>2. CASE Accounts(v, q) BY <1>1, <1>6, <2>1, <2>2 DEF Accounts
  <2>3. CASE Judges(v, q) BY <1>1, <2>1, <2>3 DEF Judges, RunInv
  <2>4. QED BY <1>1, <1>2, <1>6, <2>2, <2>3 DEF Ends, Opens, StartFails
<1>7. ASSUME NEW i \in Attempts, run[i].status = "live", run[i].gate \in {"run", "open"}
      PROVE  i = Len(record'.attempts) /\ record'.status = "canceled"
  <2>1. i = n /\ record.attempts[i].status = "running"
    BY <1>3, <1>7 DEF RunInv, isTerminal
  <2>2. n > 0 /\ Last(record).status = "running" BY <2>1 DEF Attempts, Last
  <2>3. record.status = "running"
    BY <1>3, <2>2, LastAttempt, StatusTable DEF isTerminal
  <2>4. ~Dead(n) BY <1>7, <2>1 DEF Dead, DeadIn
  <2>5. QED
    BY <1>1, <1>2, <2>1, <2>3, <2>4 DEF Ends, Opens, StartFails, Accounts, Judges, Idle
<1>8. QED BY <1>5, <1>6, <1>7

LEMMA StepKeepsRunInv ==
    ASSUME IInv, [Next]_vars, RunsOK(run'), Lasts(run, run'),
           \A i \in Attempts : inbox'[i] = "full" => DeadIn(run', i)
    PROVE  RunInv'
<1> DEFINE Beside ==
      /\ \A i \in Attempts : i <= Len(record'.attempts) => run'[i].status # None
      /\ record'.status \in {"evaluating", "retrying"} => DeadIn(run', Len(record'.attempts))
      /\ \A i \in Attempts :
            run'[i].status = "live" /\ run'[i].gate \in {"run", "open"} =>
               /\ i = Len(record'.attempts)
               /\ record'.attempts[i].status = "running" \/ record'.status = "canceled"
<1>0. RecordOK(record) /\ TypeInv /\ RunInv /\ ReaderInv BY DEF IInv, TypeInv
<1>1. record.status \in {"evaluating", "retrying"} => Len(record.attempts) \in Attempts
  <2>1. record.status \in {"evaluating", "retrying"} =>
           Len(record.attempts) \in 0 .. MaximumAttempts /\ Len(record.attempts) > 0
    BY <1>0, LastAttempt
  <2>2. QED BY <2>1, BoundsAssumption DEF Attempts
<1>2. /\ \A i \in Attempts : i <= Len(record.attempts) => run'[i].status # None
      /\ record.status \in {"evaluating", "retrying"} => DeadIn(run', Len(record.attempts))
  BY <1>0, <1>1 DEF RunInv, Lasts, Dead
<1>3. ASSUME record'.attempts = record.attempts, record'.status = record.status PROVE Beside
  BY <1>2, <1>3 DEF RunsOK
<1>4. ASSUME record' # record PROVE run' = run BY <1>4, RunAlone
<1>5. ASSUME NEW v, NEW q, Commits(v, q), record' # record,
             q.to = "running" => run[Len(v.attempts) + 1].status # None,
             /\ q.to = "evaluating" \/ q.reason \in {"runFailed", "budget", "attemptLimit"}
             /\ v.status \in {"running", "evaluating"}
             => Dead(Len(v.attempts))
      PROVE  Beside
  <2>1. run' = run BY <1>4, <1>5
  <2>2. /\ \A i \in Attempts : i <= Len(record'.attempts) => run[i].status # None
        /\ record'.status \in {"evaluating", "retrying"} => Dead(Len(record'.attempts))
        /\ \A i \in Attempts :
              run[i].status = "live" /\ run[i].gate \in {"run", "open"} =>
                 i = Len(record'.attempts) /\ record'.status = "canceled"
    BY <1>0, <1>5, <2>1, CommitKeepsRuns
  <2>3. QED BY <2>1, <2>2 DEF Dead
<1>6. ASSUME commitTransition, record' # record PROVE Beside
  <2>1. Agrees(ctl.view, record) /\ Fits(ctl.view, ctl.request) /\ Grounded(ctl, run)
        /\ ctl.pc = "commit"
    BY <1>0, <1>6 DEF commitTransition, Running, ReaderInv, ControllerInv, IInv
  <2>2. Commits(ctl.view, ctl.request)
    BY <1>6, <2>1 DEF commitTransition, applyTransition, Commits
  <2>3. QED BY <1>5, <1>6, <2>1, <2>2 DEF Grounded, Dead
<1>7. ASSUME NEW h \in Hosts, recordControllerRestart(h) \/ requestCancellationOf(h) PROVE Beside
  <2>1. Marks \/ record' = record
    BY <1>7 DEF recordControllerRestart, requestCancellationOf, Marks, MayCountRestart
  <2>2. record'.attempts = record.attempts /\ record'.status = record.status
    BY <1>0, <2>1, MarkEffect DEF Marks
  <2>3. QED BY <1>3, <2>2
<1>8. ASSUME NEW h \in Hosts, commitCancellation(h), record' # record PROVE Beside
  <2> DEFINE v == host[h].rec
             q == buildGoalForcedFinish(v, "goalCanceled")
  <2>1. Agrees(v, record) BY <1>0 DEF ReaderInv
  <2>2. Fits(v, q) BY DEF Fits
  <2>3. record' = applyTransition(q, record) BY <1>8 DEF commitCancellation
  <2>4. Commits(v, q) BY <1>8, <2>1, <2>2, <2>3 DEF applyTransition, Commits
  <2>5. q.to = "canceled" /\ q.reason = "goalCanceled"
    BY ReasonTable DEF buildGoalForcedFinish, baseTransition, withAttempt
  <2> HIDE DEF q, v
  <2>6. QED BY <1>5, <1>8, <2>4, <2>5
<1>9. Beside
  <2>1. CASE record' = record BY <1>3, <2>1
  <2>2. CASE record' # record BY <1>6, <1>7, <1>8, <2>2, RecordAlone
  <2>3. QED BY <2>1, <2>2
<1>10. QED BY <1>9 DEF RunInv, RunsOK, Dead, DeadIn

LEMMA InitInv ==
    ASSUME Init PROVE IInv
<1>1. /\ record = createGoalState /\ ctl \in {NewController, NoController}
      /\ \A h \in Hosts : host[h] \in {NoCall, BootCall}
      /\ host = [h \in Hosts |-> host[h]]
  BY DEF Init
<1>2. RecordOK(record) BY <1>1, NewRecordOK
<1>3. Fresh(ctl) BY <1>1, NewIsFresh
<1>4. NoRun \in Runs /\ NoRun.status = None /\ NoRun.gate = "closed" /\ NoRun.steps < MaxSteps
  BY GoalRunAssumption DEF NoRun, Runs, RunStatus, Finishes
<1>5. run \in [Attempts -> Runs] /\ \A i \in Attempts : run[i] = NoRun
  BY <1>4 DEF Init
<1>6. start \in [Starts -> StartCalls] /\ \A s \in Starts : start[s].pc = "idle"
  BY DEF Init, NoStart, StartCalls, StartPcs
<1>7. host \in [Hosts -> HostCalls] /\ \A h \in Hosts : Agrees(host[h].rec, record)
  BY <1>1, <1>2, HostTypes, ReaderAgrees
<1>8. TypeInv
  BY <1>2, <1>3, <1>5, <1>6, <1>7 DEF Init, TypeInv, Fresh
<1>9. Sound(ctl, start) BY <1>2, <1>3, FreshIsSound
<1>10. RunInv
  BY <1>1, <1>4, <1>5 DEF Init, RunInv, Dead, DeadIn, createGoalState, None, Attempts
<1>11. QED BY <1>6, <1>7, <1>8, <1>9, <1>10 DEF IInv, ReaderInv, StartInv, Sound

LEMMA NextInv ==
    ASSUME IInv, [Next]_vars PROVE IInv'
<1>1. RecordMoves BY StepMovesRecord DEF IInv
<1>2. RecordOK(record') BY <1>1, RecordGoesForward DEF IInv, TypeInv
<1>3. RunsOK(run') /\ Lasts(run, run') BY StepMovesRuns DEF IInv
<1>4. /\ ctl' \in Controllers /\ ControllerInv(ctl', record')
      /\ Grounded(ctl', run') /\ Awaited(ctl', start')
  BY <1>1, <1>3, StepMovesController
<1>5. start' \in [Starts -> StartCalls] /\ \A t \in Starts : StartOK(start'[t], run')
  BY <1>3, StepMovesStarts
<1>6. HostMoves BY <1>2, StepMovesHosts DEF IInv
<1>7. ASSUME NEW h \in Hosts PROVE Agrees(host'[h].rec, record')
  <2>1. Agrees(host[h].rec, record') /\ Agrees(record, record')
    BY <1>1, AgreementLasts, ReaderAgrees DEF IInv, ReaderInv, TypeInv
  <2>2. Agrees(record', record') /\ Agrees(createGoalState, record') BY <1>2, ReaderAgrees
  <2>3. host'[h].rec \in {host[h].rec, record, record', createGoalState} BY <1>6 DEF HostMoves
  <2>4. QED BY <2>1, <2>2, <2>3
<1>8. /\ inbox' \in [Attempts -> {"empty", "full", "taken"}]
      /\ \A i \in Attempts : inbox'[i] = "full" => DeadIn(run', i)
  BY <1>3, StepMovesInbox
<1>9. RunInv' BY <1>3, <1>8, StepKeepsRunInv
<1>10. TypeInv'
  BY <1>2, <1>3, <1>4, <1>5, <1>6, <1>8, StepKeepsTypes DEF TypeInv, HostMoves, RunsOK
<1>11. ReaderInv' BY <1>4, <1>7 DEF ReaderInv
<1>12. StartInv' BY <1>5 DEF StartInv, StartOK, Dead
<1>13. QED BY <1>4, <1>9, <1>10, <1>11, <1>12 DEF IInv

LEMMA Invariance == Spec => []IInv
  BY InitInv, NextInv, PTL DEF Spec

-----------------------------------------------------------------------------
(* Theorems.                                                               *)

\* Every variable keeps its shape and the stored record always decodes
\* (goal-state.ts isGoalState), whoever writes it and in whatever order.
THEOREM TypeCorrect == Spec => []TypeOK
<1>1. ASSUME IInv PROVE TypeOK
  <2>1. /\ record \in GoalRecords /\ isGoalState(record) /\ ctl \in Controllers
        /\ run \in [Attempts -> Runs]
    BY <1>1 DEF IInv, TypeInv, RecordOK
  <2>2. /\ record.status \in Status /\ record.seq \in Nat /\ record.restarts \in Nat
        /\ \A i \in DOMAIN record.attempts : record.attempts[i] \in Attempt
    BY <2>1 DEF GoalRecords
  <2>3. /\ ctl.status \in {None, "running"} \cup ControllerTerminal /\ ctl.answer \in Answers
    BY <2>1 DEF Controllers
  <2>4. run \in [Attempts -> [status : {None, "live", "ended", "cancelled"},
                              gate : {"closed", "run", "await-open", "open"},
                              steps : 0 .. MaxSteps, finish : {None, "stop", "aborted", "broken"}]]
    BY <2>1, Zenon DEF Runs, RunStatus, Finishes
  <2>5. QED BY <1>1, <2>1, <2>2, <2>3, <2>4 DEF TypeOK, IInv, TypeInv
<1>2. QED BY <1>1, Invariance, PTL

\* A run is let through to a step only while it is the last attempt the record
\* opened and still running there, or the goal has just been canceled over it
\* (goal-attempt-fence.ts mayRun), for any number of starts, calls and crashes.
THEOREM StepsAreAcknowledged == Spec => []StepsOnlyAcknowledged
<1>1. ASSUME IInv PROVE StepsOnlyAcknowledged
  BY <1>1 DEF IInv, RunInv, StepsOnlyAcknowledged
<1>2. QED BY <1>1, Invariance, PTL

\* Attempts never overlap: at most one run of a goal is alive, whatever timed-out
\* starts, recoveries, cancellations and crashes did (goal-ports.ts startAttempt).
THEOREM AttemptsNeverOverlap == Spec => []AtMostOneLiveRun
<1>1. ASSUME IInv PROVE AtMostOneLiveRun
  <2> SUFFICES ASSUME NEW i \in Attempts, NEW j \in Attempts,
                      run[i].status = "live", run[j].status = "live"
               PROVE  i = j
    BY DEF AtMostOneLiveRun
  <2>1. ~Dead(i) /\ ~Dead(j) BY DEF Dead, DeadIn
  <2>2. ~(i < j) /\ ~(j < i) BY <1>1, <2>1 DEF IInv, RunInv, None
  <2>3. QED BY <2>2 DEF Attempts
<1>2. QED BY <1>1, Invariance, PTL

\* The phases the writes go through.
LEMMA CommitIsLifecycleStep ==
    ASSUME RecordOK(record), NEW v, NEW q, Commits(v, q) PROVE Lifecycle!LNext
<1> DEFINE n == Len(record.attempts)
<1>1. /\ v.status = record.status /\ v.attempts = record.attempts /\ v.usage = record.usage
      /\ record'.status = q.to /\ record'.usage = q.usage
      /\ record'.cancellation = record.cancellation
      /\ Len(record'.attempts) = IF q.to = "running" THEN n + 1 ELSE n
      /\ q.to = "canceled" => record.cancellation
  BY CommitEffect DEF Commits
<1>2. Ends(v, q) \/ Opens(v, q) \/ StartFails(v, q) \/ Accounts(v, q) \/ Judges(v, q)
  BY FitsCases DEF Commits, Agrees
<1>3. /\ ~isTerminal(record.status) /\ record.status \in Status
      /\ record.cancellation => q.to = "canceled"
  BY AppliedChecks DEF Commits, RecordOK, GoalRecords
<1>4. n \in Nat /\ record.usage \in Nat /\ record.cancellation \in BOOLEAN
  BY DEF RecordOK, GoalRecords
<1>5. Phase(record.status) \notin Lifecycle!Endings
  BY <1>3, StatusTable DEF Phase, Lifecycle!Endings, isTerminal
<1>6. CASE Ends(v, q)
  <2>1. CASE q.to = "canceled"
    <3>1. Lifecycle!Cancel
      BY <1>1, <1>3, <1>5, <1>6, <2>1 DEF Lifecycle!Cancel, Phase, Ends
    <3>2. QED BY <3>1 DEF Lifecycle!LNext
  <2>2. CASE q.to = "exhausted"
    <3>1. Lifecycle!GiveUp
      BY <1>1, <1>3, <1>5, <1>6, <2>2 DEF Lifecycle!GiveUp, Phase, Ends
    <3>2. QED BY <3>1 DEF Lifecycle!LNext
  <2>3. QED BY <1>6, <2>1, <2>2 DEF Ends
<1>7. CASE Opens(v, q)
  <2>1. record.usage < StepBudget
    BY <1>1, <1>7, BoundsAssumption DEF Opens, RecordOK, Idle
  <2>2. Lifecycle!Open
    BY <1>1, <1>3, <1>7, <2>1 DEF Lifecycle!Open, Phase, Opens, Idle
  <2>3. QED BY <2>2 DEF Lifecycle!LNext
<1>8. CASE StartFails(v, q)
  <2>1. Lifecycle!GiveUp
    BY <1>1, <1>3, <1>5, <1>8 DEF Lifecycle!GiveUp, Phase, StartFails, Idle
  <2>2. QED BY <2>1 DEF Lifecycle!LNext
<1>9. CASE Accounts(v, q)
  <2>1. Lifecycle!Account
    BY <1>1, <1>3, <1>9 DEF Lifecycle!Account, Phase, Accounts
  <2>2. QED BY <2>1 DEF Lifecycle!LNext
<1>10. CASE Judges(v, q)
  <2>1. Lifecycle!Judge
    BY <1>1, <1>3, <1>10 DEF Lifecycle!Judge, Phase, Judges
  <2>2. QED BY <2>1 DEF Lifecycle!LNext
<1>11. QED BY <1>2, <1>6, <1>7, <1>8, <1>9, <1>10

LEMMA MarkIsLifecycleStep ==
    ASSUME RecordOK(record), Marks
    PROVE  Lifecycle!LNext \/ UNCHANGED Lifecycle!lifecycle
<1>1. /\ record'.status = record.status /\ record'.attempts = record.attempts
      /\ record'.usage = record.usage
  BY MarkEffect DEF Marks
<1>2. record.status \in Status /\ record \in GoalRecords BY DEF RecordOK, GoalRecords
<1>3. CASE record'.cancellation = record.cancellation
  BY <1>1, <1>3 DEF Lifecycle!lifecycle
<1>4. CASE record'.cancellation # record.cancellation
  <2>1. ~isTerminal(record.status) /\ record'.cancellation = TRUE
    BY <1>2, <1>4 DEF Marks, requestCancellation, GoalRecords
  <2>2. Phase(record.status) \notin Lifecycle!Endings
    BY <1>2, <2>1, StatusTable DEF Phase, Lifecycle!Endings, isTerminal
  <2>3. Lifecycle!Mark BY <1>1, <2>1, <2>2 DEF Lifecycle!Mark
  <2>4. QED BY <2>3 DEF Lifecycle!LNext
<1>5. QED BY <1>3, <1>4

\* Every write of the record, by the controller, cancel() or recover(), is a step
\* the abstract lifecycle of GoalLifecycle allows: both bounds are kept, a
\* cancellation marked in time is the only ending left, and an ending is final
\* (goal-store.ts evaluateTransition).
THEOREM GoalImplementsLifecycle == Spec => ImplementsLifecycle
<1>1. ASSUME Init PROVE Lifecycle!LInit
  BY <1>1 DEF Init, createGoalState, Lifecycle!LInit, Phase
<1>2. ASSUME IInv, [Next]_vars PROVE [Lifecycle!LNext]_(Lifecycle!lifecycle)
  <2>1. RecordMoves /\ RecordOK(record) BY <1>2, StepMovesRecord DEF IInv, TypeInv
  <2>2. CASE record' = record BY <2>2 DEF Lifecycle!lifecycle
  <2>3. CASE Marks BY <2>1, <2>3, MarkIsLifecycleStep
  <2>4. ASSUME NEW v, NEW q, Commits(v, q) PROVE Lifecycle!LNext
    BY <2>1, <2>4, CommitIsLifecycleStep
  <2>5. QED BY <2>1, <2>2, <2>3, <2>4 DEF RecordMoves
<1>3. QED
  BY <1>1, <1>2, Invariance, PTL DEF Spec, ImplementsLifecycle, Lifecycle!LSpec

-----------------------------------------------------------------------------
(* What 'canceled' promises.  Once the marker is on the record no attempt  *)
(* is opened any more, so the attempts a call set out to stop are still    *)
(* the ones that matter when it reads back.                                *)

\* What a call c knows of the record r and has to stop.
CancelInv(c, r) ==
    /\ c.rec.cancellation => r.cancellation /\ Len(c.rec.attempts) = Len(r.attempts)
    /\ c.pc \in {"signal", "end", "settle"} => c.rec.cancellation
    /\ \/ c.pc \in {"fence", "stop"} /\ c.why \notin {"overtaken", "orphan"}
       \/ c.pc \in {"commit", "readBack"}
       => r.cancellation /\ (Len(r.attempts) = 0 \/ Len(r.attempts) \in c.targets)

PassedIn(u, i) == u[i].status = "live" /\ u[i].gate \in {"run", "open"}

QuietInv ==
    /\ \A h \in Hosts : CancelInv(host[h], record)
    /\ settled => record.status = "canceled" /\ \A i \in Attempts : ~PassedIn(run, i)

LEMMA MarkerStays ==
    ASSUME RecordOK(record), RecordMoves
    PROVE  /\ record.cancellation =>
                 record'.cancellation /\ Len(record'.attempts) = Len(record.attempts)
           /\ record.status = "canceled" => record'.status = "canceled"
<1>1. CASE record' = record BY <1>1
<1>2. CASE Marks
  <2>1. record'.attempts = record.attempts /\ record'.status = record.status
    BY <1>2, MarkEffect DEF Marks
  <2>2. record.cancellation => record'.cancellation
    BY <1>2 DEF Marks, requestCancellation, MayCountRestart, RecordOK, GoalRecords
  <2>3. QED BY <2>1, <2>2
<1>3. ASSUME NEW v, NEW q, Commits(v, q)
      PROVE  /\ record.cancellation =>
                   record'.cancellation /\ Len(record'.attempts) = Len(record.attempts)
             /\ record.status # "canceled"
  BY <1>3, CommitEffect, AppliedChecks DEF Commits, isTerminal
<1>4. QED BY <1>1, <1>2, <1>3 DEF RecordMoves

LEMMA CancelInvLasts ==
    ASSUME RecordOK(record), RecordMoves, NEW c, CancelInv(c, record)
    PROVE  CancelInv(c, record')
  BY MarkerStays DEF CancelInv

\* Who reads a record that carries the marker.
LEMMA ToFenceCancels ==
    ASSUME NEW c \in HostCalls, NEW v, RecordOK(v), v.cancellation
    PROVE  CancelInv(ToFence(c, v), v)
<1>1. v \in GoalRecords /\ Len(v.attempts) \in 0 .. MaximumAttempts BY LastAttempt DEF RecordOK
<1>2. /\ ToFence(c, v).rec = v /\ ToFence(c, v).pc = "fence"
      /\ ToFence(c, v).targets = attemptIndexesToStop(v)
  BY <1>1 DEF ToFence, HostCalls
<1>3. Len(v.attempts) = 0 \/ Len(v.attempts) \in attemptIndexesToStop(v)
  BY <1>1, BoundsAssumption DEF attemptIndexesToStop
<1>4. QED BY <1>2, <1>3 DEF CancelInv

LEMMA NoCallCancels ==
    ASSUME NEW r PROVE CancelInv(NoCall, r) /\ CancelInv(BootCall, r)
<1>1. NoCall.pc = "idle" /\ BootCall.pc = "read" /\ ~NoCall.rec.cancellation
      /\ ~BootCall.rec.cancellation
  BY DEF NoCall, BootCall, createGoalState
<1>2. QED BY <1>1 DEF CancelInv

LEMMA FirstReadCancels ==
    ASSUME NEW c \in HostCalls, NEW v, RecordOK(v) PROVE CancelInv(FirstRead(c, v), v)
<1>0. v \in GoalRecords /\ (v.status = "canceled" => v.cancellation)
  BY DEF RecordOK, isGoalState, isCancellationConsistent, isTerminal
<1>1. CASE v.status = "canceled"
  <2> DEFINE d == [c EXCEPT !.pc = "settle", !.rec = v]
  <2>1. FirstRead(c, v) = d BY <1>1 DEF FirstRead
  <2>2. d.pc = "settle" /\ d.rec = v BY <1>0 DEF HostCalls
  <2>3. QED BY <1>0, <1>1, <2>1, <2>2 DEF CancelInv
<1>2. CASE v.status # "canceled" /\ isTerminal(v.status)
  <2> DEFINE d == [ToFence(c, v) EXCEPT !.why = "overtaken"]
  <2>1. FirstRead(c, v) = d \/ FirstRead(c, v) = NoCall BY <1>2 DEF FirstRead
  <2>2. d.pc = "fence" /\ d.rec = v /\ d.why = "overtaken"
    BY <1>0 DEF HostCalls, ToFence
  <2> HIDE DEF d
  <2>3. CancelInv(d, v) BY <2>2 DEF CancelInv
  <2>4. QED BY <2>1, <2>3, NoCallCancels
<1>3. CASE ~isTerminal(v.status)
  <2> DEFINE p == IF c.op = "cancel" THEN "mark" ELSE "get"
             d == [c EXCEPT !.pc = p, !.rec = v]
  <2>1. FirstRead(c, v) = d BY <1>3 DEF FirstRead, isTerminal
  <2>2. d.pc \in {"mark", "get"} /\ d.rec = v BY <1>0 DEF HostCalls
  <2> HIDE DEF d
  <2>3. QED BY <2>1, <2>2 DEF CancelInv
<1>4. QED BY <1>1, <1>2, <1>3

LEMMA HostGoesCancels ==
    ASSUME TypeInv, RecordMoves, \A k \in Hosts : CancelInv(host[k], record),
           NEW h \in Hosts, NEW d, HostGoes(h, d), CancelInv(d, record')
    PROVE  \A k \in Hosts : CancelInv(host'[k], record')
<1>1. ASSUME NEW k \in Hosts, k # h PROVE CancelInv(host'[k], record')
  <2>1. host'[k] = host[k] BY <1>1 DEF TypeInv, HostGoes
  <2>2. QED BY <2>1, CancelInvLasts DEF TypeInv
<1>2. host'[h] = d BY DEF TypeInv, HostGoes
<1>3. QED BY <1>1, <1>2

LEMMA HostCallCancels ==
    ASSUME TypeInv, RecordMoves, \A k \in Hosts : CancelInv(host[k], record),
           NEW h \in Hosts, HostCall(h)
    PROVE  \A k \in Hosts : CancelInv(host'[k], record')
<1> DEFINE c == host[h]
           Goal == \A k \in Hosts : CancelInv(host'[k], record')
<1>0. /\ c \in HostCalls /\ CancelInv(c, record) /\ RecordOK(record) /\ RecordOK(record')
      /\ record \in GoalRecords /\ record' \in GoalRecords
  BY RecordGoesForward DEF TypeInv, RecordOK
<1>1. ASSUME NEW d, HostGoes(h, d), CancelInv(d, record) \/ CancelInv(d, record') PROVE Goal
  BY <1>0, <1>1, HostGoesCancels, CancelInvLasts
<1>2. HostDone(h) => Goal BY <1>1, NoCallCancels DEF HostDone
\* A stage that stops nothing and tells nobody.
<1>3. ASSUME NEW p \in {"get", "stand", "count", "start", "attempt", "mark"},
             NEW w, NEW d, d \in {[c EXCEPT !.pc = p], [c EXCEPT !.pc = p, !.why = w]},
             HostGoes(h, d)
      PROVE  Goal
  <2>1. d.pc = p /\ d.rec = c.rec BY <1>0, <1>3 DEF HostCalls
  <2>2. CancelInv(d, record) BY <1>0, <2>1 DEF CancelInv
  <2>3. QED BY <1>1, <1>3, <2>2
\* The marker has just been read, or just been set.
<1>4. ASSUME NEW p \in {"end", "settle", "signal"}, NEW v \in {record, record'}, v.cancellation,
             HostGoes(h, [c EXCEPT !.pc = p, !.rec = v])
      PROVE  Goal
  <2> DEFINE d == [c EXCEPT !.pc = p, !.rec = v]
  <2>1. d.pc = p /\ d.rec = v BY <1>0 DEF HostCalls
  <2> HIDE DEF d
  <2>2. CancelInv(d, v) BY <1>4, <2>1 DEF CancelInv
  <2>3. QED BY <1>1, <1>4, <2>2 DEF d
<1>5. ASSUME NEW v \in {c.rec, record'}, v.cancellation, HostGoes(h, ToFence(c, v)) PROVE Goal
  <2>1. CASE v = record' BY <1>0, <1>1, <1>5, <2>1, ToFenceCancels
  <2>2. CASE v = c.rec
    <3> DEFINE d == ToFence(c, c.rec)
    <3>1. /\ d.rec = c.rec /\ d.pc = "fence" /\ d.targets = attemptIndexesToStop(c.rec)
      BY <1>0 DEF ToFence, HostCalls
    <3>2. record.cancellation /\ Len(c.rec.attempts) = Len(record.attempts)
      BY <1>0, <1>5, <2>2 DEF CancelInv
    <3>3. Len(record.attempts) = 0 \/ Len(record.attempts) \in d.targets
      <4>1. Len(record.attempts) \in 0 .. MaximumAttempts BY <1>0, LastAttempt
      <4>2. QED BY <3>1, <3>2, <4>1, BoundsAssumption DEF attemptIndexesToStop
    <3> HIDE DEF d
    <3>4. CancelInv(d, record) BY <3>1, <3>2, <3>3 DEF CancelInv
    <3>5. QED BY <1>1, <1>5, <2>2, <3>4 DEF d
  <2>3. QED BY <1>5, <2>1, <2>2
<1>6. ASSUME HostGoes(h, [ToFence(c, c.rec) EXCEPT !.why = "orphan"]) PROVE Goal
  <2> DEFINE d == [ToFence(c, c.rec) EXCEPT !.why = "orphan"]
  <2>1. d.rec = c.rec /\ d.pc = "fence" /\ d.why = "orphan"
    BY <1>0 DEF ToFence, HostCalls
  <2> HIDE DEF d
  <2>2. CancelInv(d, record) BY <1>0, <2>1 DEF CancelInv
  <2>3. QED BY <1>1, <1>6, <2>2 DEF d
<1>7. CASE HostGets(h)
  <2>1. ASSUME HostGoes(h, [c EXCEPT !.pc = IF c.rec.cancellation THEN "end" ELSE "attempt"])
        PROVE  Goal
    <3>1. CASE ~c.rec.cancellation BY <1>3, <2>1, <3>1
    <3>2. CASE c.rec.cancellation
      <4>1. [c EXCEPT !.pc = "end"].rec = c.rec /\ [c EXCEPT !.pc = "end"].pc = "end"
        BY <1>0 DEF HostCalls
      <4>2. CancelInv([c EXCEPT !.pc = "end"], record) BY <1>0, <3>2, <4>1 DEF CancelInv
      <4>3. QED BY <1>1, <2>1, <3>2, <4>2
    <3>3. QED BY <3>1, <3>2
  <2>2. QED BY <1>2, <1>3, <1>5, <1>6, <1>7, <2>1 DEF HostGets
<1>8. CASE standDownIfOvertaken(h) BY <1>2, <1>3, <1>4, <1>8 DEF standDownIfOvertaken, HostDone
<1>9. CASE recordControllerRestart(h)
  BY <1>2, <1>3, <1>4, <1>6, <1>9 DEF recordControllerRestart, HostDone
<1>10. CASE startController(h) BY <1>2, <1>3, <1>10 DEF startController, HostDone
<1>11. CASE recoverAttempt(h) BY <1>2, <1>11 DEF recoverAttempt
<1>12. CASE requestCancellationOf(h)
  <2>1. record' = requestCancellation(record) BY <1>12 DEF requestCancellationOf
  <2>2. record'.cancellation \/ (isTerminal(record.status) /\ record.status # "canceled")
    <3>1. CASE ~isTerminal(record.status) BY <1>0, <2>1, <3>1 DEF requestCancellation, GoalRecords
    <3>2. CASE record.status = "canceled"
      BY <1>0, <2>1, <3>2
         DEF requestCancellation, RecordOK, isGoalState, isCancellationConsistent, isTerminal
    <3>3. QED BY <3>1, <3>2
  <2>3. isTerminal(record.status) => record' = record BY <2>1 DEF requestCancellation
  <2>4. QED BY <1>2, <1>4, <1>5, <1>12, <2>2, <2>3 DEF requestCancellationOf, HostDone
<1>13. CASE HostSignals(h)
  <2> DEFINE d == [c EXCEPT !.pc = "end"]
  <2>1. d.rec = c.rec /\ d.pc = "end" BY <1>0 DEF HostCalls
  <2>2. c.rec.cancellation BY <1>0, <1>13 DEF HostSignals, CancelInv
  <2> HIDE DEF d
  <2>3. CancelInv(d, record) BY <1>0, <2>1, <2>2 DEF CancelInv
  <2>4. QED BY <1>1, <1>13, <2>3 DEF HostSignals, d
<1>14. CASE HostEnds(h)
  <2> DEFINE f == ToFence(c, c.rec)
             w == IF c.pc = "settle" THEN "settle" ELSE f.why
             d == [f EXCEPT !.why = w]
  <2>1. c.rec.cancellation BY <1>0, <1>14 DEF HostEnds, CancelInv
  <2>2. f.rec = c.rec /\ f.pc = "fence" /\ f.targets = attemptIndexesToStop(c.rec)
        /\ f \in HostCalls
    BY <1>0, ToFenceType DEF ToFence, HostCalls
  <2>3. d.rec = c.rec /\ d.pc = "fence" /\ d.targets = attemptIndexesToStop(c.rec)
    BY <2>2 DEF HostCalls
  <2>4. HostGoes(h, d) BY <1>14 DEF HostEnds
  <2> HIDE DEF d
  <2>5. record.cancellation /\ Len(c.rec.attempts) = Len(record.attempts)
    BY <1>0, <2>1 DEF CancelInv
  <2>6. Len(record.attempts) = 0 \/ Len(record.attempts) \in d.targets
    <3>1. Len(record.attempts) \in 0 .. MaximumAttempts BY <1>0, LastAttempt
    <3>2. QED BY <2>3, <2>5, <3>1, BoundsAssumption DEF attemptIndexesToStop
  <2>7. CancelInv(d, record) BY <2>3, <2>5, <2>6 DEF CancelInv
  <2>8. QED BY <1>1, <2>4, <2>7
<1>15. CASE HostFences(h)
  <2>1. ASSUME NEW d \in {[c EXCEPT !.pc = "stop"], [c EXCEPT !.pc = "stop", !.fenced = FALSE]}
        PROVE  CancelInv(d, record)
    <3>1. d.pc = "stop" /\ d.rec = c.rec /\ d.why = c.why /\ d.targets = c.targets
      BY <1>0 DEF HostCalls
    <3>2. QED BY <1>0, <1>15, <3>1 DEF CancelInv, HostFences
  <2>2. QED BY <1>1, <1>15, <2>1 DEF HostFences
<1>16. CASE HostStops(h)
  <2>1. ASSUME c.why \notin {"overtaken", "orphan"}, NEW p \in {"readBack", "commit"},
               NEW v \in {c.rec, record},
               NEW d \in {[c EXCEPT !.pc = p], [c EXCEPT !.pc = p, !.rec = v]}
        PROVE  CancelInv(d, record)
    <3>1. d.pc = p /\ d.rec \in {c.rec, record} /\ d.targets = c.targets
      BY <1>0 DEF HostCalls
    <3>2. record.cancellation /\ (Len(record.attempts) = 0 \/ Len(record.attempts) \in c.targets)
      BY <1>0, <1>16, <2>1 DEF CancelInv, HostStops
    <3>3. d.rec.cancellation => Len(d.rec.attempts) = Len(record.attempts)
      BY <1>0, <3>1 DEF CancelInv
    <3>4. QED BY <3>1, <3>2, <3>3 DEF CancelInv
  <2>2. QED BY <1>1, <1>2, <1>16, <2>1 DEF HostStops, HostDone
<1>17. CASE commitCancellation(h)
  <2>1. ASSUME NEW d \in {[c EXCEPT !.pc = "readBack"], [c EXCEPT !.rec = record]}
        PROVE  CancelInv(d, record)
    <3>1. d.pc \in {"readBack", "commit"} /\ d.rec \in {c.rec, record} /\ d.targets = c.targets
      BY <1>0, <1>17 DEF HostCalls, commitCancellation
    <3>2. record.cancellation /\ (Len(record.attempts) = 0 \/ Len(record.attempts) \in c.targets)
      BY <1>0, <1>17 DEF CancelInv, commitCancellation
    <3>3. d.rec.cancellation => Len(d.rec.attempts) = Len(record.attempts)
      BY <1>0, <3>1 DEF CancelInv
    <3>4. QED BY <3>1, <3>2, <3>3 DEF CancelInv
  <2>2. QED BY <1>1, <1>2, <1>17, <2>1 DEF commitCancellation, HostDone
<1>18. CASE readBack(h) BY <1>2, <1>18 DEF readBack
<1>19. QED
  BY <1>7, <1>8, <1>9, <1>10, <1>11, <1>12, <1>13, <1>14, <1>15, <1>16, <1>17, <1>18
     DEF HostCall

\* The fence lets nobody through once the goal is over.
LEMMA OverMeansClosed ==
    ASSUME IInv, [Next]_vars, isTerminal(record.status), \A i \in Attempts : ~PassedIn(run, i)
    PROVE  \A i \in Attempts : ~PassedIn(run', i)
<1> SUFFICES ASSUME NEW i \in Attempts PROVE ~PassedIn(run', i)
  OBVIOUS
<1>0. run \in [Attempts -> Runs] /\ ~PassedIn(run, i) BY DEF IInv, TypeInv
<1>1. CASE run' = run BY <1>0, <1>1
<1>2. ASSUME NEW set, cancelRuns(set) PROVE ~PassedIn(run', i)
  BY <1>0, <1>2 DEF cancelRuns, PassedIn, Runs
<1>3. ASSUME NEW s \in Starts, StartCreates(s) PROVE ~PassedIn(run', i)
  <2>1. CASE run' = run BY <1>1, <2>1
  <2>2. CASE run' # run
    <3> DEFINE j == start[s].attempt
    <3>1. j \in Attempts BY <1>3 DEF IInv, StartInv, StartCreates
    <3>2. run[j].status = None /\ run' = [run EXCEPT ![j].status = "live"]
      BY <1>3, <2>2 DEF StartCreates
    <3>3. run[j].gate = "closed" BY <3>1, <3>2 DEF IInv, RunInv
    <3>4. CASE i = j BY <1>0, <3>1, <3>2, <3>3, <3>4 DEF PassedIn, Runs
    <3>5. CASE i # j BY <1>0, <3>1, <3>2, <3>5 DEF PassedIn
    <3>6. QED BY <3>4, <3>5
  <2>3. QED BY <2>1, <2>2
<1>4. ASSUME NEW j \in Attempts, FenceReadsRecord(j) PROVE ~PassedIn(run', i)
  <2>1. RecordVerdict(j) = "refuse" BY DEF RecordVerdict, goalIsOver
  <2>2. run' = [run EXCEPT ![j].status = "ended", ![j].finish = "broken"]
    BY <1>4, <2>1 DEF FenceReadsRecord
  <2>3. QED BY <1>0, <2>2 DEF PassedIn, Runs
<1>5. ASSUME NEW j \in Attempts, FenceReadsClaim(j) \/ GivesUpWaiting(j) \/ Step(j)
      PROVE  ~PassedIn(run', i)
  <2>1. ~PassedIn(run, j) OBVIOUS
  <2>2. CASE i # j
    BY <1>0, <1>5, <2>2 DEF PassedIn, FenceReadsClaim, GivesUpWaiting, Step
  <2>3. CASE i = j
    BY <1>0, <1>5, <2>1, <2>3 DEF PassedIn, FenceReadsClaim, GivesUpWaiting, Step, Runs
  <2>4. QED BY <2>2, <2>3
<1>6. CASE Crash BY <1>0, <1>6 DEF Crash, PassedIn, Runs
<1>7. QED
  BY <1>1, <1>2, <1>3, <1>4, <1>5, <1>6, RunAlone
     DEF ControllerStops, FinalizerStops, StartStops, HostStops

LEMMA NextQuiet ==
    ASSUME IInv, QuietInv, [Next]_vars PROVE QuietInv'
<1>0. /\ TypeInv /\ RunInv /\ RecordOK(record) /\ RecordMoves
      /\ \A h \in Hosts : CancelInv(host[h], record)
  BY StepMovesRecord DEF IInv, TypeInv, QuietInv
<1>1. \A h \in Hosts : CancelInv(host'[h], record')
  <2>1. CASE host' = host BY <1>0, <2>1, CancelInvLasts
  <2>2. ASSUME NEW h \in Hosts, HostCall(h) PROVE \A k \in Hosts : CancelInv(host'[k], record')
    BY <1>0, <2>2, HostCallCancels
  <2>3. ASSUME NEW call \in Calls, CallBegins(call[1], call[2])
        PROVE  \A k \in Hosts : CancelInv(host'[k], record')
    <3>1. call[1] \in Hosts /\ call[2] \in {"cancel", "recover"} BY GoalRunAssumption
    <3>2. [NoCall EXCEPT !.op = call[2]] \in HostCalls BY <3>1, HostTypes DEF HostCalls
    <3>3. QED BY <1>0, <2>3, <3>1, <3>2, FirstReadCancels, HostGoesCancels DEF CallBegins
  <2>4. CASE BootReads
    <3>1. "boot" \in Hosts /\ host["boot"] \in HostCalls BY <1>0, GoalRunAssumption DEF TypeInv
    <3>2. QED BY <1>0, <2>4, <3>1, FirstReadCancels, HostGoesCancels DEF BootReads
  <2>5. CASE Crash
    <3>1. \A h \in Hosts : host'[h] \in {NoCall, BootCall} BY <2>5 DEF Crash
    <3>2. QED BY <3>1, NoCallCancels
  <2>6. QED BY <2>1, <2>2, <2>3, <2>4, <2>5, HostAlone
<1>2. ASSUME settled'
      PROVE  record'.status = "canceled" /\ \A i \in Attempts : ~PassedIn(run', i)
  <2>1. record.status = "canceled" /\ \A i \in Attempts : ~PassedIn(run, i)
    <3>1. CASE settled BY <3>1 DEF QuietInv
    <3>2. CASE ~settled
      <4>1. PICK h \in Hosts : readBack(h) BY <1>2, <3>2, OthersAlone
      <4> DEFINE c == host[h]
      <4>2. c.pc = "readBack" /\ ~unfinished(c) BY <1>2, <3>2, <4>1 DEF readBack
      <4>3. Len(record.attempts) = 0 \/ Len(record.attempts) \in c.targets
        BY <1>0, <4>2 DEF CancelInv
      <4>4. record.status = "canceled" /\ \A i \in c.targets : run[i].status # "live"
        BY <4>2 DEF unfinished
      <4>5. ASSUME NEW i \in Attempts, PassedIn(run, i) PROVE FALSE
        <5>1. i = Len(record.attempts) BY <1>0, <4>5 DEF RunInv, PassedIn
        <5>2. i # 0 BY DEF Attempts
        <5>3. QED BY <4>3, <4>4, <4>5, <5>1, <5>2 DEF PassedIn
      <4>6. QED BY <4>4, <4>5
    <3>3. QED BY <3>1, <3>2
  <2>2. record'.status = "canceled" BY <1>0, <2>1, MarkerStays
  <2>3. QED BY <2>1, <2>2, OverMeansClosed DEF isTerminal
<1>3. QED BY <1>1, <1>2 DEF QuietInv

\* Once cancel() or recover() has answered 'canceled' (goal-cancellation.ts
\* readBack), no run of the goal is ever let through to a step again: not one that
\* a start in flight creates later, nor one resumed by a crash.
THEOREM CanceledGoalIsQuiet == Spec => []CanceledMeansQuiet
<1>1. ASSUME Init PROVE QuietInv
  <2>1. \A h \in Hosts : host[h] \in {NoCall, BootCall} BY <1>1 DEF Init
  <2>2. QED BY <1>1, <2>1, NoCallCancels DEF Init, QuietInv
<1>2. QuietInv => CanceledMeansQuiet
  BY DEF QuietInv, CanceledMeansQuiet, PassedIn
<1>3. QED BY <1>1, <1>2, Invariance, NextQuiet, PTL DEF Spec
=============================================================================
