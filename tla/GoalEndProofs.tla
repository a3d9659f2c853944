---------------------------- MODULE GoalEndProofs ----------------------------
(***************************************************************************)
(* How a goal and its controller end.                                      *)
(*                                                                         *)
(* What is left of a goal when it is over.  Its ending stops the attempt   *)
(* that was open, or about to be opened, in the record that was read; the  *)
(* proof shows that no other run can be alive by then, and that a run      *)
(* which a late start creates afterwards is stopped by that very start,    *)
(* which looks back at the goal and finds it over.                         *)
(*                                                                         *)
(* Why a controller ends failed.  A write of its is built from a record    *)
(* that only a cancellation can have changed since, so it is refused at    *)
(* most once before the goal is over, and an iteration that commits        *)
(* nothing has been told that it is about to be; what is left is a start   *)
(* that timed out as often as it may be tried.                             *)
(***************************************************************************)
EXTENDS GoalRunProofs, FiniteSetTheorems

\* Nothing crashed, and no call of a host failed.
Calm == used.crashes = 0 /\ used.faults = 0

UsedType ==
    used \in [calls : SUBSET Calls, timeouts : Nat, crashes : Nat, faults : Nat]

\* The start that created run i still has to look back at the goal, or has.
LooksBack(t, i) ==
    \E s \in Starts : t[s].attempt = i /\ t[s].pc \in {"created", "undo", "undoRun"}

\* Every live run is about to be looked at by its start.
TendedBy(u, t) == \A i \in Attempts : u[i].status = "live" => LooksBack(t, i)
Tended == TendedBy(run, start)

\* Attempt i is one of the record's, or the next one, which none but an idle record
\* opens.
Within(i, r) ==
    \/ i <= Len(r.attempts)
    \/ i = Len(r.attempts) + 1 /\ (r.status \in Idle \/ isTerminal(r.status))

Reach ==
    /\ \A i \in Attempts : run[i].status # None => Within(i, record)
    /\ \A s \in Starts : start[s].pc # "idle" => Within(start[s].attempt, record)

\* Nobody has written since v was read, but for a cancellation.
UpToDate(v, r) == r.seq = v.seq \/ r.status = "canceled"

\* What an instance c knows of the record r and the clock e, and that it has left
\* only tended runs where it is about to end the goal.
Drives(c, r, e, tended) ==
    /\ c.pc \notin {"load", "committed"} => UpToDate(c.view, r)
    /\ c.pc \in {"abort", "abortRun", "commit"} =>
          /\ ~isTerminal(c.view.status)
          /\ c.request.reason = "goalCanceled" => r.cancellation
          /\ c.request.reason = "budget" /\ c.view.status # "evaluating" => e
    /\ /\ c.pc = "commit" /\ c.request.reason \in {"goalCanceled", "budget"}
       /\ c.view.status # "evaluating"
       => tended

\* The same of a call of cancel() or recover().
Clears(c, r, tended) ==
    /\ c.rec.cancellation => UpToDate(c.rec, r)
    /\ c.pc \in {"fence", "stop"} /\ c.why \notin {"overtaken", "orphan", "settle"} =>
          c.rec.cancellation /\ c.targets = attemptIndexesToStop(c.rec)
    /\ c.pc = "commit" => tended

Orderly ==
    /\ Reach
    /\ Drives(ctl, record, elapsed, Tended)
    /\ \A h \in Hosts : Clears(host[h], record, Tended)
    /\ isTerminal(record.status) /\ record.reason # "startFailed" => Tended

-----------------------------------------------------------------------------
(* What a step leaves alone.                                               *)

LEMMA UsedMoves ==
    ASSUME [Next]_vars
    PROVE  \/ used' = used \/ Crash \/ Faulty
           \/ used' = [used EXCEPT !.timeouts = @ + 1]
           \/ \E call \in Calls : used' = [used EXCEPT !.calls = @ \cup {call}]
<1> USE DEF Next, vars, Controller, loadGoalState, ControllerFences, ControllerStops,
     commitTransition, CommitRecorded,
     TryStart, AttemptWins, CancelOrDeadlineWins, runValidator, Reread, StartPort,
     StartChecks, StartAdopts, StartAdopted, StartSeats, StartClaims, StartCreates, StartConfirms,
     StartFences, StartStops, AttemptRun, FenceReadsRecord, FenceReadsClaim, Step,
     GivesUpWaiting, forward, HostCall, HostGets, standDownIfOvertaken, recordControllerRestart,
     startController, recoverAttempt, requestCancellationOf, commitCancellation, readBack,
     BootReads, Finalizer, FinalizerFences, FinalizerStops, FinalizerReads, DeadlinePasses
<1>1. ASSUME NEW call \in Calls, CallBegins(call[1], call[2])
      PROVE  \E k \in Calls : used' = [used EXCEPT !.calls = @ \cup {k}]
  <2>1. /\ <<call[1], call[2]>> \in Calls
        /\ used' = [used EXCEPT !.calls = @ \cup {<<call[1], call[2]>>}]
    BY <1>1 DEF CallBegins
  <2>2. QED BY <2>1
<1>2. ASSUME NEW h \in Hosts, HostSignals(h) \/ HostEnds(h) \/ HostFences(h) \/ HostStops(h)
      PROVE  used' = used \/ Faulty
  BY <1>2 DEF HostSignals, HostEnds, HostFences, HostStops
<1>3. TryTimesOut => used' = [used EXCEPT !.timeouts = @ + 1]
  BY DEF TryTimesOut
<1>4. QED BY <1>1, <1>2, <1>3

\* Calm weather has been calm all along.
LEMMA CalmSteps ==
    ASSUME UsedType, [Next]_vars
    PROVE  UsedType' /\ (Calm' => Calm /\ ~Crash /\ ~Faulty)
<1>1. CASE used' = used BY <1>1, UsedMoves DEF UsedType, Calm, Crash, Faulty
<1>2. CASE Crash BY <1>2 DEF UsedType, Calm, Crash, Faulty
<1>3. CASE Faulty BY <1>3 DEF UsedType, Calm, Faulty, Crash
<1>4. CASE used' = [used EXCEPT !.timeouts = @ + 1]
  BY <1>4 DEF UsedType, Calm, Crash, Faulty
<1>5. ASSUME NEW call \in Calls, used' = [used EXCEPT !.calls = @ \cup {call}]
      PROVE  UsedType' /\ (Calm' => Calm /\ ~Crash /\ ~Faulty)
  BY <1>5 DEF UsedType, Calm, Crash, Faulty
<1>6. QED BY <1>1, <1>2, <1>3, <1>4, <1>5, UsedMoves

\* How a step may change one start.
LEMMA StartSteps ==
    ASSUME TypeInv, [Next]_vars, NEW s \in Starts
    PROVE  \/ start'[s].pc = start[s].pc /\ start'[s].attempt = start[s].attempt
           \/ start'[s].pc = "idle" /\ (StartPort(s) \/ Crash)
           \/ TryStart(s)
           \/ /\ start[s].pc # "idle" /\ start'[s].attempt = start[s].attempt
              /\ StartPort(s)
<1> DEFINE Goal == \/ start'[s].pc = start[s].pc /\ start'[s].attempt = start[s].attempt
                   \/ start'[s].pc = "idle" /\ (StartPort(s) \/ Crash)
                   \/ TryStart(s)
                   \/ /\ start[s].pc # "idle" /\ start'[s].attempt = start[s].attempt
                      /\ StartPort(s)
<1>0. start \in [Starts -> StartCalls] BY DEF TypeInv
<1>1. CASE start' = start BY <1>1
<1>2. ASSUME NEW t \in Starts, start' = [start EXCEPT ![t].timedOut = TRUE] PROVE Goal
  BY <1>0, <1>2 DEF StartCalls
<1>3. ASSUME NEW t \in Starts, TryStart(t) PROVE Goal
  <2>1. CASE t = s BY <1>3, <2>1
  <2>2. CASE t # s BY <1>0, <1>3, <2>2 DEF TryStart
  <2>3. QED BY <2>1, <2>2
<1>4. ASSUME NEW t \in Starts, StartPort(t) PROVE Goal
  <2>1. start[t].pc # "idle" /\ ((\E a : Answer(t, a)) \/ (\E p : StartGoes(t, p)))
    BY <1>4 DEF StartPort, StartChecks, StartAdopts, StartAdopted, StartSeats, StartClaims,
       StartCreates, StartConfirms, StartFences, StartStops
  <2>2. CASE t # s BY <1>0, <2>1, <2>2 DEF Answer, StartGoes
  <2>3. CASE t = s /\ \E a : Answer(t, a)
    BY <1>0, <1>4, <2>3 DEF Answer, NoStart
  <2>4. CASE t = s /\ \E p : StartGoes(t, p)
    BY <1>0, <1>4, <2>1, <2>4 DEF StartGoes, StartCalls
  <2>5. QED BY <2>1, <2>2, <2>3, <2>4
<1>5. CASE Crash BY <1>5 DEF Crash, NoStart
<1>6. ASSUME TryTimesOut \/ \E h \in Hosts : HostEnds(h), start' # start PROVE Goal
  <2>1. ctl.slot # None /\ start' = [start EXCEPT ![ctl.slot].timedOut = TRUE]
    BY <1>6 DEF TryTimesOut, HostEnds, cancelController
  <2>2. ctl.slot \in Starts BY <2>1 DEF TypeInv, Controllers
  <2>3. QED BY <1>2, <2>1, <2>2
<1>7. ASSUME start' # start
      PROVE  \/ TryTimesOut \/ Crash
             \/ \E t \in Starts : StartPort(t) \/ TryStart(t)
             \/ \E h \in Hosts : HostEnds(h)
  BY <1>7, ControllerAlone DEF Controller, loadGoalState, ControllerFences, ControllerStops,
     commitTransition, CommitRecorded, AttemptWins, CancelOrDeadlineWins, runValidator, Reread,
     startController
<1>8. QED BY <1>1, <1>3, <1>4, <1>5, <1>6, <1>7

\* A run comes to life only through the start that creates it.
LEMMA RunsComeFromStarts ==
    ASSUME IInv, [Next]_vars, NEW i \in Attempts
    PROVE  /\ run'[i].status # None => \/ run[i].status # None
                                       \/ \E s \in Starts : StartCreates(s) /\ start[s].attempt = i
           /\ run'[i].status = "live" =>
                 \/ run[i].status = "live"
                 \/ \E s \in Starts :
                       /\ StartCreates(s) /\ start[s].attempt = i
                       /\ start'[s].pc = "created" /\ start'[s].attempt = i
<1>0. /\ run \in [Attempts -> Runs] /\ start \in [Starts -> StartCalls]
  BY DEF IInv, TypeInv
<1> DEFINE Goal ==
           /\ run'[i].status # None => \/ run[i].status # None
                                       \/ \E s \in Starts : StartCreates(s) /\ start[s].attempt = i
           /\ run'[i].status = "live" =>
                 \/ run[i].status = "live"
                 \/ \E s \in Starts :
                       /\ StartCreates(s) /\ start[s].attempt = i
                       /\ start'[s].pc = "created" /\ start'[s].attempt = i
<1>1. CASE run' = run BY <1>1
<1>2. ASSUME NEW set, cancelRuns(set) PROVE Goal
  <2>1. run'[i] = run[i] \/ (run[i].status = "live" /\ run'[i].status = "cancelled")
    BY <1>0, <1>2 DEF cancelRuns, Runs
  <2>2. QED BY <2>1 DEF None
<1>3. ASSUME NEW j \in Attempts, FenceReadsRecord(j) \/ FenceReadsClaim(j) \/ Step(j) \/ GivesUpWaiting(j)
      PROVE Goal
  <2>1. run[j].status = "live" /\ (i # j => run'[i] = run[i])
    BY <1>0, <1>3 DEF FenceReadsRecord, FenceReadsClaim, Step, GivesUpWaiting
  <2>2. QED BY <2>1 DEF None
<1>4. ASSUME NEW s \in Starts, StartCreates(s), run' # run PROVE Goal
  <2>1. /\ run[start[s].attempt].status = None
        /\ run' = [run EXCEPT ![start[s].attempt].status = "live"]
        /\ StartGoes(s, "created")
    BY <1>4 DEF StartCreates
  <2>2. start'[s].pc = "created" /\ start'[s].attempt = start[s].attempt
    BY <1>0, <2>1 DEF StartGoes, StartCalls
  <2>3. i # start[s].attempt => run'[i] = run[i]
    BY <1>0, <2>1
  <2>4. QED BY <1>4, <2>2, <2>3
<1>5. CASE Crash
  BY <1>0, <1>5 DEF Crash, Runs
<1>6. QED
  BY <1>1, <1>2, <1>3, <1>4, <1>5, RunAlone DEF ControllerStops, FinalizerStops, StartStops, HostStops

\* What is over stays over, for the same reason.
LEMMA EndingStays ==
    ASSUME RecordOK(record), RecordMoves, isTerminal(record.status)
    PROVE  record'.status = record.status /\ record'.reason = record.reason
<1>1. CASE record' = record BY <1>1
<1>2. CASE Marks BY <1>2, MarkEffect DEF Marks
<1>3. ASSUME NEW v, NEW q, Commits(v, q) PROVE FALSE BY <1>3, AppliedChecks DEF Commits
<1>4. QED BY <1>1, <1>2, <1>3 DEF RecordMoves

LEMMA GoalStaysOver ==
    ASSUME IInv, [Next]_vars, goalIsOver(TRUE) PROVE goalIsOver(TRUE)'
<1>1. RecordOK(record) /\ RecordMoves BY StepMovesRecord DEF IInv, TypeInv
<1>2. record.cancellation => record'.cancellation BY <1>1, MarkerStays
<1>3. isTerminal(record.status) => isTerminal(record'.status) BY <1>1, EndingStays
<1>4. elapsed => elapsed' BY OthersAlone
<1>5. QED BY <1>2, <1>3, <1>4 DEF goalIsOver

\* Once the goal is over, no start turns its back on the run it has created.
LEMMA TendedLasts ==
    ASSUME IInv, [Next]_vars, ~Crash, goalIsOver(TRUE), Tended PROVE Tended'
<1> SUFFICES ASSUME NEW i \in Attempts, run'[i].status = "live" PROVE LooksBack(start', i)
  BY DEF Tended, TendedBy
<1>0. start \in [Starts -> StartCalls] /\ run \in [Attempts -> Runs] /\ TypeInv
  BY DEF IInv, TypeInv
<1>1. CASE run[i].status = "live"
  <2>1. PICK s \in Starts : start[s].attempt = i /\ start[s].pc \in {"created", "undo", "undoRun"}
    BY <1>1 DEF Tended, TendedBy, LooksBack
  <2>2. CASE start'[s].pc = start[s].pc /\ start'[s].attempt = start[s].attempt
    BY <2>1, <2>2 DEF LooksBack
  <2>3. CASE StartPort(s)
    <3>1. CASE StartConfirms(s)
      BY <1>0, <2>1, <3>1 DEF StartConfirms, StartGoes, StartCalls, LooksBack
    <3>2. CASE StartFences(s)
      BY <1>0, <2>1, <3>2 DEF StartFences, StartGoes, StartCalls, LooksBack
    <3>3. CASE StartStops(s)
      BY <1>0, <1>1, <2>1, <3>3 DEF StartStops, cancelRuns, Runs
    <3>4. QED
      BY <2>1, <2>3, <3>1, <3>2, <3>3 DEF StartPort, StartChecks, StartAdopts, StartAdopted,
         StartSeats, StartClaims, StartCreates
  <2>4. ~TryStart(s) BY <2>1 DEF TryStart
  <2>5. QED BY <1>0, <2>2, <2>3, <2>4, StartSteps
<1>2. CASE run[i].status # "live"
  BY <1>2, RunsComeFromStarts DEF LooksBack
<1>3. QED BY <1>1, <1>2

-----------------------------------------------------------------------------
(* Which attempts can still have a run.                                    *)

LEMMA WithinLasts ==
    ASSUME RecordOK(record), RecordMoves, NEW i \in Nat, Within(i, record)
    PROVE  Within(i, record')
<1>0. Len(record.attempts) \in Nat /\ Len(record'.attempts) \in Nat
  BY RecordGoesForward DEF RecordOK, GoalRecords
<1>1. CASE record' = record BY <1>1
<1>2. CASE Marks
  <2>1. record'.attempts = record.attempts /\ record'.status = record.status
    BY <1>2, MarkEffect DEF Marks
  <2>2. QED BY <2>1 DEF Within
<1>3. ASSUME NEW v, NEW q, Commits(v, q) PROVE Within(i, record')
  <2>1. /\ v.status = record.status /\ record'.status = q.to
        /\ Len(record'.attempts) = IF q.to = "running" THEN Len(record.attempts) + 1
                                   ELSE Len(record.attempts)
    BY <1>3, CommitEffect DEF Commits
  <2>2. Ends(v, q) \/ Opens(v, q) \/ StartFails(v, q) \/ Accounts(v, q) \/ Judges(v, q)
    BY <1>3, FitsCases DEF Commits, Agrees
  <2>3. ~isTerminal(record.status) BY <1>3, AppliedChecks DEF Commits
  <2>4. CASE i <= Len(record.attempts) BY <1>0, <2>1, <2>4 DEF Within
  <2>5. CASE i = Len(record.attempts) + 1 /\ record.status \in Idle
    BY <1>0, <2>1, <2>2, <2>5 DEF Within, Ends, Opens, StartFails, Accounts, Judges, Idle, isTerminal
  <2>6. QED BY <2>3, <2>4, <2>5 DEF Within
<1>4. QED BY <1>1, <1>2, <1>3 DEF RecordMoves

\* A run that is alive while the goal is not over is the one its ending stops.
LEMMA OnlyOneToStop ==
    ASSUME IInv, Reach, ~isTerminal(record.status), NEW i \in Attempts, run[i].status = "live"
    PROVE  i = attemptToStop(record) /\ record.status # "evaluating"
<1> DEFINE n == Len(record.attempts)
<1>0. /\ RecordOK(record) /\ RunInv /\ n \in 0 .. MaximumAttempts /\ i \in Nat /\ i > 0
      /\ record.status \in Status /\ ~Dead(i)
  <2>1. RecordOK(record) /\ RunInv BY DEF IInv, TypeInv
  <2>2. n \in 0 .. MaximumAttempts /\ record.status \in Status
    BY <2>1, LastAttempt DEF RecordOK, GoalRecords
  <2>3. i \in Nat /\ i > 0 BY BoundsAssumption DEF Attempts
  <2>4. QED BY <2>1, <2>2, <2>3 DEF Dead, DeadIn
<1>1. Within(i, record) BY DEF Reach, None
<1>2. ~(i < n)
  <2>1. ASSUME i < n PROVE FALSE
    <3>1. n \in Attempts BY <1>0, <2>1, BoundsAssumption DEF Attempts
    <3>2. run[n].status # None BY <1>0, <3>1 DEF RunInv
    <3>3. QED BY <1>0, <2>1, <3>1, <3>2 DEF RunInv
  <2>2. QED BY <2>1
<1>3. CASE record.status \in {"running", "evaluating"}
  <2>1. i = n BY <1>0, <1>1, <1>2, <1>3 DEF Within, Idle, isTerminal
  <2>2. n > 0 /\ isInFlight(Last(record)) BY <1>0, <1>3, LastAttempt DEF isInFlight
  <2>3. record.status # "evaluating" BY <1>0, <2>1 DEF RunInv
  <2>4. QED BY <2>1, <2>2, <2>3 DEF attemptToStop
<1>4. CASE record.status \in Idle
  <2>1. i # n
    <3>1. record.status = "pending" => n = 0 BY <1>0, LastAttempt
    <3>2. record.status = "retrying" => Dead(n) BY <1>0 DEF RunInv
    <3>3. QED BY <1>0, <1>4, <3>1, <3>2 DEF Idle
  <2>2. i = n + 1 BY <1>0, <1>1, <1>2, <2>1 DEF Within
  <2>3. ~(n > 0 /\ isInFlight(Last(record)))
    BY <1>0, <1>4, LastAttempt DEF isInFlight, Idle
  <2>4. QED BY <1>4, <2>2, <2>3 DEF attemptToStop, Idle
<1>5. QED BY <1>0, <1>3, <1>4, StatusTable DEF isTerminal, Idle

\* The attempts an ending stops are the same for whoever is up to date.
LEMMA SameToStop ==
    ASSUME RecordOK(record), NEW v, Agrees(v, record), v.seq = record.seq
    PROVE  /\ v.status = record.status /\ v.attempts = record.attempts
           /\ attemptToStop(v) = attemptToStop(record)
           /\ attemptIndexesToStop(v) = attemptIndexesToStop(record)
<1>1. v.status = record.status /\ v.attempts = record.attempts BY DEF Agrees
<1>2. attemptToStop(v) = attemptToStop(record) BY <1>1 DEF attemptToStop, Last
<1>3. QED BY <1>1, <1>2 DEF attemptIndexesToStop

\* Who is up to date and stops what the record tells it leaves no run alive.
LEMMA StopsAll ==
    ASSUME IInv, Reach, NEW set, cancelRuns(set),
           isTerminal(record.status) \/ attemptToStop(record) \in set,
           isTerminal(record.status) => Tended, start' = start
    PROVE  Tended'
<1> SUFFICES ASSUME NEW i \in Attempts, run'[i].status = "live" PROVE LooksBack(start', i)
  BY DEF Tended, TendedBy
<1>1. run[i].status = "live" /\ i \notin set
  BY DEF IInv, TypeInv, cancelRuns, Runs
<1>2. isTerminal(record.status) BY <1>1, OnlyOneToStop
<1>3. QED BY <1>1, <1>2 DEF Tended, TendedBy

LEMMA ReachLasts ==
    ASSUME IInv, Orderly, [Next]_vars PROVE Reach'
<1>0. /\ RecordOK(record) /\ RecordMoves /\ TypeInv /\ Reach
      /\ start \in [Starts -> StartCalls]
      /\ \A s \in Starts : start[s].attempt \in Nat
  BY StepMovesRecord DEF IInv, TypeInv, Orderly, StartCalls
<1>1. ASSUME NEW i \in Attempts, run'[i].status # None PROVE Within(i, record')
  <2>1. Within(i, record)
    <3>1. CASE run[i].status # None BY <1>0, <3>1 DEF Reach
    <3>2. CASE run[i].status = None
      <4>1. PICK s \in Starts : StartCreates(s) /\ start[s].attempt = i
        BY <1>1, <3>2, RunsComeFromStarts
      <4>2. QED BY <1>0, <4>1 DEF Reach, StartCreates
    <3>3. QED BY <3>1, <3>2
  <2>2. i \in Nat BY BoundsAssumption DEF Attempts
  <2>3. QED BY <1>0, <2>1, <2>2, WithinLasts
<1>2. ASSUME NEW s \in Starts, start'[s].pc # "idle" PROVE Within(start'[s].attempt, record')
  <2>1. CASE start[s].pc # "idle" /\ start'[s].attempt = start[s].attempt
    <3>1. Within(start[s].attempt, record) BY <1>0, <2>1 DEF Reach
    <3>2. QED BY <1>0, <2>1, <3>1, WithinLasts
  <2>2. CASE TryStart(s)
    <3> DEFINE v == ctl.view
    <3>1. /\ start'[s].attempt = Len(v.attempts) + 1 /\ ctl.pc = "start"
          /\ record' = record
      BY <1>0, <2>2 DEF TryStart, Running
    <3>2. /\ v.status \in Idle /\ Agrees(v, record) /\ Len(v.attempts) \in Nat
          /\ Len(v.attempts) <= Len(record.attempts) /\ Len(record.attempts) \in Nat
      BY <1>0, <3>1 DEF IInv, ReaderInv, ControllerInv, Idle, Agrees, RecordOK, GoalRecords
    <3>3. UpToDate(v, record) BY <3>1 DEF Orderly, Drives
    <3>4. CASE record.status = "canceled"
      BY <3>1, <3>2, <3>4 DEF Within, isTerminal
    <3>5. CASE record.seq = v.seq
      BY <1>0, <3>1, <3>2, <3>5, SameToStop DEF Within
    <3>6. QED BY <3>3, <3>4, <3>5 DEF UpToDate
  <2>3. QED BY <1>2, <2>1, <2>2, <1>0, StartSteps
<1>3. QED BY <1>1, <1>2 DEF Reach

-----------------------------------------------------------------------------
(* The controller.                                                         *)

LEMMA ForcedRequest ==
    ASSUME NEW v, NEW reason \in {"goalCanceled", "budget", "attemptLimit"}, NEW q,
           q = buildGoalForcedFinish(v, reason)
    PROVE  q.reason = reason /\ q.to = TERMINAL_STATUS_BY_REASON[reason]
  BY DEF buildGoalForcedFinish, baseTransition, withAttempt

\* Only a verdict's decision ends a goal for its budget without the clock.
LEMMA AnsweredRequest ==
    ASSUME NEW c \in Controllers, NEW r, ControllerInv(c, r), c.pc = "reread",
           r.seq = c.view.seq, NEW q, q = AnswerCommit(r, c.pending)
    PROVE  /\ q.reason # "goalCanceled"
           /\ q.reason = "budget" => c.view.status = "evaluating"
           /\ c.view.status \in {"running", "evaluating"} \cup Idle
<1>0. \/ c.pending \in Finishes /\ c.view.status = "running"
      \/ c.pending \in Verdicts /\ c.view.status = "evaluating"
      \/ c.pending = "startFailed" /\ c.view.status \in Idle
  BY DEF ControllerInv, Idle
<1>1. CASE c.pending = "startFailed"
  BY <1>0, <1>1 DEF AnswerCommit, buildStartFailure, baseTransition, Finishes, Verdicts
<1>2. CASE c.pending \in Finishes
  BY <1>0, <1>2 DEF AnswerCommit, buildEvaluationStarted, buildRunFinishDecision, baseTransition,
     withAttempt, Finishes, Verdicts, None
<1>3. CASE c.pending \in Verdicts
  <2>1. q.reason = decideOutcome(r, c.pending)
    BY <1>3 DEF AnswerCommit, Verdicts, buildValidationDecision, baseTransition, withAttempt
  <2>2. q.reason # "goalCanceled"
    BY <2>1 DEF decideOutcome, decideRetryOrExhaust, None
  <2>3. QED BY <1>0, <1>3, <2>2 DEF Finishes, Verdicts
<1>4. QED BY <1>0, <1>1, <1>2, <1>3

\* An instance that does not write.
LEMMA IdleDrives ==
    ASSUME NEW c, NEW r, NEW e, NEW t,
           \/ c.pc \in {"load", "committed"}
           \/ c.pc \in {"start", "wait", "validate", "reread"} /\ UpToDate(c.view, r)
    PROVE  Drives(c, r, e, t)
  BY DEF Drives

LEMMA FreshDrives ==
    ASSUME NEW c, Fresh(c), NEW r, NEW e, NEW t PROVE Drives(c, r, e, t)
  BY DEF Drives, Fresh

\* What an instance knows of the goal stays true while others write.
LEMMA DrivesLasts ==
    ASSUME IInv, [Next]_vars, ~Crash, NEW c, Drives(c, record, elapsed, Tended),
           record'.seq = record.seq \/ record'.status = "canceled"
    PROVE  Drives(c, record', elapsed', Tended')
<1>1. RecordOK(record) /\ RecordMoves BY StepMovesRecord DEF IInv, TypeInv
<1>2. /\ record.cancellation => record'.cancellation
      /\ record.status = "canceled" => record'.status = "canceled"
  BY <1>1, MarkerStays
<1>3. elapsed => elapsed' BY OthersAlone
<1>4. UpToDate(c.view, record) => UpToDate(c.view, record')
  BY <1>2 DEF UpToDate
<1>5. (record.cancellation \/ elapsed) /\ Tended => Tended'
  BY TendedLasts DEF goalIsOver
<1>6. QED BY <1>2, <1>3, <1>4, <1>5 DEF Drives

\* The next state of an instance that neither ends the attempt nor writes.
LEMMA ControllerDrives ==
    ASSUME IInv, Orderly, Controller \/ TryTimesOut, ~ControllerStops
    PROVE  Drives(ctl', record, elapsed, Tended)
<1>0. /\ RecordOK(record) /\ ctl \in Controllers /\ ControllerInv(ctl, record)
      /\ Drives(ctl, record, elapsed, Tended)
  BY DEF IInv, TypeInv, ReaderInv, Orderly
<1>1. ASSUME NEW v, NEW reason \in {"goalCanceled", "budget"}, v.seq = record.seq,
             v \in GoalRecords, ~isTerminal(v.status), NEW c, c \in Controllers,
             reason = "goalCanceled" => record.cancellation, reason = "budget" => elapsed,
             ctl' = ToForced(c, v, reason)
      PROVE  Drives(ctl', record, elapsed, Tended)
  <2>1. ctl'.pc = "abort" /\ ctl'.view = v /\ ctl'.request = buildGoalForcedFinish(v, reason)
    BY <1>1 DEF ToForced, Controllers
  <2>2. ctl'.request.reason = reason BY <2>1, ForcedRequest
  <2>3. QED BY <1>1, <2>1, <2>2 DEF Drives, UpToDate
<1>2. CASE loadGoalState
  <2>1. CASE isTerminal(record.status)
    BY <1>0, <1>2, <2>1, OverIsFresh, FreshDrives DEF loadGoalState, ControllerTerminal
  <2>2. CASE ~isTerminal(record.status)
    <3> DEFINE c == [ctl EXCEPT !.view = record, !.staged = attemptToStop(record)]
    <3>1. ctl' = advance(c, record) BY <1>2, <2>2 DEF loadGoalState
    <3>2. attemptToStop(record) \in Nat BY <1>0, LastAttempt DEF attemptToStop
    <3>3. c \in Controllers /\ c.view = record /\ record \in GoalRecords
      BY <1>0, <3>2 DEF Controllers, RecordOK
    <3> HIDE DEF c
    <3>4. /\ ctl'.view = record
          /\ ctl'.pc \in {"abort", "wait", "validate", "start"}
      BY <1>0, <2>2, <3>1, <3>3, AdvanceInv
    <3>5. CASE ctl'.pc # "abort" BY <3>4, <3>5, IdleDrives DEF UpToDate
    <3>6. CASE ctl'.pc = "abort"
      <4>1. CASE record.cancellation
        BY <1>1, <2>2, <3>1, <3>3, <4>1 DEF advance
      <4>2. CASE ~record.cancellation /\ elapsed
        BY <1>1, <2>2, <3>1, <3>3, <4>2 DEF advance
      <4>3. CASE ~record.cancellation /\ ~elapsed
        <5>1. ctl' = ToForced(c, record, "attemptLimit")
          BY <3>1, <3>3, <3>6, <4>3 DEF advance, Controllers
        <5>2. /\ ctl'.view = record
              /\ ctl'.request = buildGoalForcedFinish(record, "attemptLimit")
          BY <3>3, <5>1 DEF ToForced, Controllers
        <5>3. ctl'.request.reason = "attemptLimit" BY <5>2, ForcedRequest
        <5>4. QED BY <2>2, <3>6, <5>2, <5>3 DEF Drives, UpToDate
      <4>4. QED BY <4>1, <4>2, <4>3
    <3>7. QED BY <3>5, <3>6
  <2>3. QED BY <2>1, <2>2
<1>3. CASE ControllerFences
  <2>1. /\ ctl.pc = "abort" /\ ctl'.pc = "abortRun"
        /\ ctl'.view = ctl.view /\ ctl'.request = ctl.request
    BY <1>0, <1>3 DEF ControllerFences, Running, Controllers, Pcs
  <2>2. QED BY <1>0, <2>1 DEF Drives
<1>4. CASE commitTransition
  <2>1. ctl'.pc = "committed" BY <1>0, <1>4 DEF commitTransition, Controllers
  <2>2. QED BY <2>1, IdleDrives
<1>5. CASE CommitRecorded
  BY <1>0, <1>5, AfterCommitIsFresh, FreshDrives DEF CommitRecorded
<1>6. ASSUME NEW c \in Controllers, c.pc \in {"start", "wait", "validate", "reread"},
             c.view = ctl.view, ctl.pc \notin {"load", "committed"}, ctl' = c
      PROVE  Drives(ctl', record, elapsed, Tended)
  BY <1>0, <1>6, IdleDrives DEF Drives
<1>7. ASSUME NEW s \in Starts, TryStart(s) PROVE Drives(ctl', record, elapsed, Tended)
  <2>1. ctl'.pc = "start" /\ ctl'.view = ctl.view /\ ctl.pc = "start"
    BY <1>0, <1>7 DEF TryStart, Running, Controllers
  <2>2. UpToDate(ctl.view, record) BY <1>0, <2>1 DEF Drives
  <2>3. QED BY <2>1, <2>2, IdleDrives
<1>8. CASE AttemptWins
  <2>1. ctl'.pc = "reread" /\ ctl'.view = ctl.view /\ ctl.pc = "wait"
    BY <1>0, <1>8 DEF AttemptWins, Running, Checkpointed, Controllers
  <2>2. UpToDate(ctl.view, record) BY <1>0, <2>1 DEF Drives
  <2>3. QED BY <2>1, <2>2, IdleDrives
<1>9. CASE CancelOrDeadlineWins
  BY <1>0, <1>9, IdleWakeIsFresh, FreshDrives DEF CancelOrDeadlineWins
<1>10. CASE runValidator
  <2>1. CASE ctl' = IdleWake(ctl) BY <1>0, <2>1, IdleWakeIsFresh, FreshDrives
  <2>2. ASSUME NEW verdict \in Verdicts,
               ctl' = [Checkpointed(ctl, "reread") EXCEPT !.pending = verdict]
        PROVE  Drives(ctl', record, elapsed, Tended)
    <3>1. ctl'.pc = "reread" /\ ctl'.view = ctl.view /\ ctl.pc = "validate"
      BY <1>0, <1>10, <2>2 DEF runValidator, Running, Checkpointed, Controllers
    <3>2. UpToDate(ctl.view, record) BY <1>0, <3>1 DEF Drives
    <3>3. QED BY <3>1, <3>2, IdleDrives
  <2>3. QED BY <1>10, <2>1, <2>2 DEF runValidator
<1>11. CASE Reread
  <2>0. ctl.pc = "reread" BY <1>11 DEF Reread, Running
  <2>1. CASE ctl' = IdleWake(ctl) BY <1>0, <2>1, IdleWakeIsFresh, FreshDrives
  <2>2. CASE ~Overtaken(record) /\ elapsed /\ ctl' = ToForced(ctl, record, "budget")
    <3>1. ~isTerminal(record.status)
      BY <1>0, <2>0, <2>2 DEF Overtaken, ControllerInv, isTerminal
    <3>2. record \in GoalRecords BY <1>0 DEF RecordOK
    <3>3. QED BY <1>0, <1>1, <2>2, <3>1, <3>2
  <2>3. CASE ~Overtaken(record) /\ ctl' = ToCommit(ctl, AnswerCommit(record, ctl.pending))
    <3> DEFINE q == AnswerCommit(record, ctl.pending)
    <3>1. record.seq = ctl.view.seq BY <2>3 DEF Overtaken
    <3>2. /\ q.reason # "goalCanceled"
          /\ q.reason = "budget" => ctl.view.status = "evaluating"
          /\ ctl.view.status \in {"running", "evaluating"} \cup Idle
      BY <1>0, <2>0, <3>1, AnsweredRequest
    <3>3. ctl'.pc = "commit" /\ ctl'.view = ctl.view /\ ctl'.request = q
      BY <1>0, <2>3 DEF ToCommit, Checkpointed, Controllers
    <3> HIDE DEF q
    <3>4. QED BY <3>1, <3>2, <3>3 DEF Drives, UpToDate, isTerminal, Idle
  <2>4. QED BY <1>11, <2>1, <2>2, <2>3 DEF Reread
<1>12. CASE TryTimesOut
  <2>1. CASE ctl' = Over(ctl, "failed")
    BY <1>0, <2>1, OverIsFresh, FreshDrives DEF ControllerTerminal
  <2>2. CASE ctl' = [ctl EXCEPT !.slot = None]
    <3>1. ctl'.pc = "start" /\ ctl'.view = ctl.view /\ ctl.pc = "start"
      BY <1>0, <1>12, <2>2 DEF TryTimesOut, Running, Controllers
    <3>2. UpToDate(ctl.view, record) BY <1>0, <3>1 DEF Drives
    <3>3. QED BY <3>1, <3>2, IdleDrives
  <2>3. QED BY <1>12, <2>1, <2>2 DEF TryTimesOut
<1>13. QED
  BY <1>2, <1>3, <1>4, <1>5, <1>7, <1>8, <1>9, <1>10, <1>11, <1>12 DEF Controller

LEMMA AnswerDrives ==
    ASSUME IInv, Orderly, NEW s \in Starts, StartPort(s)
    PROVE  Drives(ctl', record, elapsed, Tended)
<1>0. /\ RecordOK(record) /\ ctl \in Controllers /\ ControllerInv(ctl, record)
      /\ Drives(ctl, record, elapsed, Tended)
  BY DEF IInv, TypeInv, ReaderInv, Orderly
<1>1. ctl' = ctl \/ \E a : Answer(s, a)
  BY DEF StartPort, StartChecks, StartAdopts, StartAdopted, StartSeats, StartClaims,
     StartCreates, StartConfirms, StartFences, StartStops, StartGoes
<1>2. ASSUME NEW a, Answer(s, a) PROVE Drives(ctl', record, elapsed, Tended)
  <2>1. CASE ctl' = ctl BY <1>0, <2>1
  <2>2. CASE ctl' # ctl
    <3>0. /\ ctl.pc = "start" /\ ctl.view.status \in Idle /\ UpToDate(ctl.view, record)
      BY <1>0, <1>2, <2>2 DEF Answer, Running, ControllerInv, Idle, Drives
    <3>1. CASE ctl' = IdleWake(ctl) BY <1>0, <3>1, IdleWakeIsFresh, FreshDrives
    <3>2. CASE ctl' = [Checkpointed(ctl, "reread") EXCEPT !.pending = "startFailed"]
      <4>1. ctl'.pc = "reread" /\ ctl'.view = ctl.view
        BY <1>0, <3>2 DEF Checkpointed, Controllers
      <4>2. QED BY <3>0, <4>1, IdleDrives
    <3>3. CASE ctl' = ToCommit(ctl, buildOpenAttempt(ctl.view))
      <4>1. /\ ctl'.pc = "commit" /\ ctl'.view = ctl.view
            /\ ctl'.request = buildOpenAttempt(ctl.view)
        BY <1>0, <3>3 DEF ToCommit, Checkpointed, Controllers
      <4>2. ctl'.request.reason = None
        BY <4>1 DEF buildOpenAttempt, baseTransition, withAttempt
      <4>3. QED BY <3>0, <4>1, <4>2 DEF Drives, Idle, isTerminal, None
    <3>4. QED BY <1>2, <2>2, <3>1, <3>2, <3>3 DEF Answer
  <2>3. QED BY <2>1, <2>2
<1>3. QED BY <1>0, <1>1, <1>2

LEMMA DrivesNext ==
    ASSUME IInv, Orderly, [Next]_vars, ~Crash
    PROVE  Drives(ctl', record', elapsed', Tended')
<1>0. /\ RecordOK(record) /\ ctl \in Controllers /\ ControllerInv(ctl, record)
      /\ Drives(ctl, record, elapsed, Tended) /\ RecordMoves
  BY StepMovesRecord DEF IInv, TypeInv, ReaderInv, Orderly
<1> DEFINE Goal == Drives(ctl', record', elapsed', Tended')
<1>1. ASSUME Drives(ctl', record, elapsed, Tended), record' = record PROVE Goal
  BY <1>1, DrivesLasts
<1>2. CASE ControllerStops
  <2> DEFINE v == ctl.view
  <2>1. /\ ctl.pc = "abortRun" /\ ctl'.pc = "commit" /\ ctl'.view = v
        /\ ctl'.request = ctl.request /\ record' = record /\ elapsed' = elapsed
        /\ start' = start /\ cancelRuns({attemptToStop(v)})
    BY <1>0, <1>2 DEF ControllerStops, Running, Checkpointed, Controllers, Pcs
  <2>2. UpToDate(v, record) /\ Agrees(v, record)
    BY <1>0, <2>1 DEF Drives, ControllerInv
  <2>3. isTerminal(record.status) \/ attemptToStop(record) \in {attemptToStop(v)}
    BY <1>0, <2>2, SameToStop DEF UpToDate, isTerminal
  <2>4. CASE isTerminal(record.status) => Tended
    <3>1. Tended' BY <2>1, <2>3, <2>4, StopsAll DEF Orderly
    <3>2. QED BY <1>0, <2>1, <3>1 DEF Drives
  <2>5. CASE isTerminal(record.status) /\ ~Tended
    <3>1. record.reason = "startFailed" BY <2>5 DEF Orderly
    <3>2. record.status = "failed"
      BY <1>0, <2>5, <3>1, ReasonTable DEF RecordOK, isGoalState, isTerminalPairing
    <3>3. v.status = record.status BY <1>0, <2>2, <3>2, SameToStop DEF UpToDate
    <3>4. ~isTerminal(v.status) BY <1>0, <2>1 DEF Drives
    <3>5. QED BY <2>5, <3>3, <3>4
  <2>6. QED BY <2>4, <2>5
<1>3. CASE commitTransition
  <2>1. ctl'.pc = "committed" BY <1>0, <1>3 DEF commitTransition, Controllers
  <2>2. QED BY <2>1, IdleDrives
<1>4. CASE (Controller \/ TryTimesOut) /\ ~ControllerStops /\ ~commitTransition
  <2>1. record' = record
    BY <1>4 DEF Controller, loadGoalState, ControllerFences, CommitRecorded,
       TryStart, AttemptWins, CancelOrDeadlineWins, runValidator, Reread, TryTimesOut
  <2>2. QED BY <1>1, <1>4, <2>1, ControllerDrives
<1>5. ASSUME NEW s \in Starts, StartPort(s) PROVE Goal
  <2>1. record' = record
    BY <1>5 DEF StartPort, StartChecks, StartAdopts, StartAdopted, StartSeats, StartClaims,
       StartCreates, StartConfirms, StartFences, StartStops
  <2>2. QED BY <1>1, <1>5, <2>1, AnswerDrives
<1>6. ASSUME NEW h \in Hosts, startController(h), ctl' # ctl PROVE Goal
  <2>1. ctl' = [NewController EXCEPT !.gen = record.restarts]
    BY <1>6 DEF startController
  <2>2. record.restarts \in Nat BY <1>0 DEF RecordOK, GoalRecords
  <2>3. QED BY <2>1, <2>2, NewIsFresh, FreshDrives
<1>7. ASSUME NEW h \in Hosts, HostEnds(h), ctl' # ctl PROVE Goal
  BY <1>0, <1>7, OverIsFresh, FreshDrives DEF HostEnds, cancelController, ControllerTerminal
<1>8. CASE ctl' = ctl
  <2>1. CASE record'.seq = record.seq \/ record'.status = "canceled"
    BY <1>0, <1>8, <2>1, DrivesLasts
  <2>2. CASE record'.seq # record.seq /\ record'.status # "canceled"
    <3>1. ASSUME NEW h \in Hosts, recordControllerRestart(h) \/ requestCancellationOf(h)
          PROVE  FALSE
      <4>1. Marks \/ record' = record
        BY <3>1 DEF recordControllerRestart, requestCancellationOf, Marks, MayCountRestart
      <4>2. record'.seq = record.seq BY <1>0, <4>1, MarkEffect DEF Marks
      <4>3. QED BY <2>2, <4>2
    <3>2. ASSUME NEW h \in Hosts, commitCancellation(h) PROVE FALSE
      <4> DEFINE w == host[h].rec
                 q == buildGoalForcedFinish(w, "goalCanceled")
      <4>1. Agrees(w, record) BY DEF IInv, ReaderInv
      <4>2. Fits(w, q) BY DEF Fits
      <4>3. record' = applyTransition(q, record)
        BY <2>2, <3>2 DEF commitCancellation
      <4>4. evaluateTransition(q, record) = "applied" /\ record' = buildNext(record, q)
        BY <2>2, <4>3 DEF applyTransition
      <4>5. q.to = "canceled" BY ForcedRequest, ReasonTable
      <4> HIDE DEF q
      <4>6. record'.status = q.to BY <1>0, <4>1, <4>2, <4>4, CommitEffect
      <4>7. QED BY <2>2, <4>5, <4>6
    <3>3. record' # record BY <2>2
    <3>4. QED BY <1>3, <3>1, <3>2, <3>3, RecordAlone
  <2>3. QED BY <2>1, <2>2
<1>9. QED BY <1>2, <1>3, <1>4, <1>5, <1>6, <1>7, <1>8, ControllerAlone

-----------------------------------------------------------------------------
(* cancel() and recover().                                                 *)

LEMMA NoCallClears ==
    ASSUME NEW r, NEW t PROVE Clears(NoCall, r, t) /\ Clears(BootCall, r, t)
<1>1. NoCall.pc = "idle" /\ BootCall.pc = "read" /\ ~NoCall.rec.cancellation
      /\ ~BootCall.rec.cancellation
  BY DEF NoCall, BootCall, createGoalState
<1>2. QED BY <1>1 DEF Clears

\* A call that holds the marker holds the record as it is, or as it was canceled.
LEMMA ClearsLasts ==
    ASSUME IInv, [Next]_vars, ~Crash, NEW c, Clears(c, record, Tended),
           CancelInv(c, record)
    PROVE  Clears(c, record', Tended')
<1>1. RecordOK(record) /\ RecordMoves BY StepMovesRecord DEF IInv, TypeInv
<1>2. c.rec.cancellation => record.cancellation BY DEF CancelInv
<1>3. c.pc = "commit" => record.cancellation BY DEF CancelInv
<1>4. record.cancellation => record'.seq = record.seq \/ record'.status = "canceled"
  <2>1. CASE record' = record BY <2>1
  <2>2. CASE Marks BY <1>1, <2>2, MarkEffect DEF Marks
  <2>3. ASSUME NEW v, NEW q, Commits(v, q), record.cancellation
        PROVE  record'.status = "canceled"
    <3>1. q.to = "canceled" BY <2>3, AppliedChecks DEF Commits
    <3>2. record'.status = q.to BY <1>1, <2>3, CommitEffect DEF Commits
    <3>3. QED BY <3>1, <3>2
  <2>4. QED BY <1>1, <2>1, <2>2, <2>3 DEF RecordMoves
<1>5. record.status = "canceled" => record'.status = "canceled" BY <1>1, MarkerStays
<1>6. c.rec.cancellation /\ UpToDate(c.rec, record) => UpToDate(c.rec, record')
  BY <1>2, <1>4, <1>5 DEF UpToDate
<1>7. record.cancellation /\ Tended => Tended' BY TendedLasts DEF goalIsOver
<1>8. QED BY <1>3, <1>6, <1>7 DEF Clears

LEMMA FirstReadClears ==
    ASSUME NEW c \in HostCalls, NEW v, RecordOK(v), NEW t
    PROVE  Clears(FirstRead(c, v), v, t)
<1>0. v \in GoalRecords BY DEF RecordOK
<1>1. CASE v.status = "canceled"
  <2> DEFINE d == [c EXCEPT !.pc = "settle", !.rec = v]
  <2>1. FirstRead(c, v) = d BY <1>1 DEF FirstRead
  <2>2. d.pc = "settle" /\ d.rec = v BY <1>0 DEF HostCalls
  <2> HIDE DEF d
  <2>3. QED BY <2>1, <2>2 DEF Clears, UpToDate
<1>2. CASE v.status # "canceled" /\ isTerminal(v.status)
  <2> DEFINE d == [ToFence(c, v) EXCEPT !.why = "overtaken"]
  <2>1. FirstRead(c, v) = d \/ FirstRead(c, v) = NoCall BY <1>2 DEF FirstRead
  <2>2. d.pc = "fence" /\ d.rec = v /\ d.why = "overtaken"
    BY <1>0 DEF HostCalls, ToFence
  <2> HIDE DEF d
  <2>3. Clears(d, v, t) BY <2>2 DEF Clears, UpToDate
  <2>4. QED BY <2>1, <2>3, NoCallClears
<1>3. CASE ~isTerminal(v.status)
  <2> DEFINE p == IF c.op = "cancel" THEN "mark" ELSE "get"
             d == [c EXCEPT !.pc = p, !.rec = v]
  <2>1. FirstRead(c, v) = d BY <1>3 DEF FirstRead, isTerminal
  <2>2. d.pc \in {"mark", "get"} /\ d.rec = v BY <1>0 DEF HostCalls
  <2> HIDE DEF d
  <2>3. QED BY <2>1, <2>2 DEF Clears, UpToDate
<1>4. QED BY <1>1, <1>2, <1>3

LEMMA HostGoesClears ==
    ASSUME IInv, QuietInv, Orderly, [Next]_vars, ~Crash,
           NEW h \in Hosts, NEW d, HostGoes(h, d), Clears(d, record', Tended')
    PROVE  \A k \in Hosts : Clears(host'[k], record', Tended')
<1>0. host \in [Hosts -> HostCalls] BY DEF IInv, TypeInv
<1>1. ASSUME NEW k \in Hosts, k # h PROVE Clears(host'[k], record', Tended')
  <2>1. host'[k] = host[k] BY <1>0, <1>1 DEF HostGoes
  <2>2. Clears(host[k], record, Tended) /\ CancelInv(host[k], record)
    BY DEF Orderly, QuietInv
  <2>3. Clears(host[k], record', Tended') BY <2>2, ClearsLasts
  <2>4. QED BY <2>1, <2>3
<1>2. host'[h] = d BY <1>0 DEF HostGoes
<1>3. QED BY <1>1, <1>2

\* A call about to stop what the record it holds tells.
LEMMA ToFenceClears ==
    ASSUME NEW c \in HostCalls, NEW v \in GoalRecords, v.cancellation, NEW r, UpToDate(v, r),
           NEW w, NEW t, NEW d,
           d = ToFence(c, v) \/ d = [ToFence(c, v) EXCEPT !.why = w]
    PROVE  Clears(d, r, t)
<1>1. d.rec = v /\ d.pc = "fence" /\ d.targets = attemptIndexesToStop(v)
  <2> DEFINE f == ToFence(c, v)
  <2>1. f \in HostCalls /\ f.rec = v BY ToFenceType
  <2>2. f.pc = "fence" /\ f.targets = attemptIndexesToStop(v) BY DEF ToFence, HostCalls
  <2> HIDE DEF f
  <2>3. CASE d = f BY <2>1, <2>2, <2>3
  <2>4. CASE d = [f EXCEPT !.why = w] BY <2>1, <2>2, <2>4 DEF HostCalls
  <2>5. QED BY <2>3, <2>4 DEF f
<1>2. QED BY <1>1 DEF Clears

LEMMA HostCallClears ==
    ASSUME IInv, QuietInv, Orderly, [Next]_vars, ~Crash, ~Faulty, NEW h \in Hosts, HostCall(h)
    PROVE  \A k \in Hosts : Clears(host'[k], record', Tended')
<1> DEFINE c == host[h]
           Goal == \A k \in Hosts : Clears(host'[k], record', Tended')
<1>0. /\ c \in HostCalls /\ CancelInv(c, record) /\ Clears(c, record, Tended)
      /\ RecordOK(record) /\ RecordMoves /\ record \in GoalRecords /\ record' \in GoalRecords
      /\ Agrees(c.rec, record) /\ c.rec \in GoalRecords
  <2>1. RecordOK(record) /\ RecordMoves BY StepMovesRecord DEF IInv, TypeInv
  <2>2. RecordOK(record') BY <2>1, RecordGoesForward
  <2>3. Agrees(c.rec, record) BY DEF IInv, ReaderInv
  <2>4. QED BY <2>1, <2>2, <2>3 DEF IInv, TypeInv, QuietInv, Orderly, RecordOK, Agrees
<1>1. Clears(c, record', Tended') BY <1>0, ClearsLasts
<1>2. ASSUME NEW d, HostGoes(h, d), Clears(d, record', Tended') PROVE Goal
  BY <1>2, HostGoesClears
<1>3. HostDone(h) => Goal BY <1>2, NoCallClears DEF HostDone
\* A stage that stops nothing.
<1>4. ASSUME NEW p \in {"get", "stand", "count", "start", "attempt", "mark", "readBack", "end"},
             NEW w, NEW d, d \in {[c EXCEPT !.pc = p], [c EXCEPT !.pc = p, !.why = w]},
             HostGoes(h, d)
      PROVE  Goal
  <2>1. d.pc = p /\ d.rec = c.rec BY <1>0, <1>4 DEF HostCalls
  <2>2. Clears(d, record', Tended') BY <1>1, <2>1 DEF Clears
  <2>3. QED BY <1>2, <1>4, <2>2
<1>5. ASSUME NEW p \in {"end", "settle", "signal"}, NEW v \in {record, record'},
             HostGoes(h, [c EXCEPT !.pc = p, !.rec = v]), record' = record \/ v = record'
      PROVE  Goal
  <2> DEFINE d == [c EXCEPT !.pc = p, !.rec = v]
  <2>1. d.pc = p /\ d.rec = record' BY <1>0, <1>5 DEF HostCalls
  <2> HIDE DEF d
  <2>2. Clears(d, record', Tended') BY <2>1 DEF Clears, UpToDate
  <2>3. QED BY <1>2, <1>5, <2>2 DEF d
<1>6. ASSUME NEW v \in {c.rec, record'}, v.cancellation, NEW w, NEW d,
             d = ToFence(c, v) \/ d = [ToFence(c, v) EXCEPT !.why = w], HostGoes(h, d)
      PROVE  Goal
  <2>1. UpToDate(v, record') /\ v \in GoalRecords
    BY <1>0, <1>1, <1>6 DEF Clears, UpToDate
  <2>2. Clears(d, record', Tended') BY <1>0, <1>6, <2>1, ToFenceClears
  <2>3. QED BY <1>2, <1>6, <2>2
<1>7. ASSUME HostGoes(h, [ToFence(c, c.rec) EXCEPT !.why = "orphan"]) PROVE Goal
  <2> DEFINE d == [ToFence(c, c.rec) EXCEPT !.why = "orphan"]
  <2>1. d.rec = c.rec /\ d.pc = "fence" /\ d.why = "orphan"
    BY <1>0 DEF ToFence, HostCalls
  <2> HIDE DEF d
  <2>2. Clears(d, record', Tended') BY <1>1, <2>1 DEF Clears
  <2>3. QED BY <1>2, <1>7, <2>2 DEF d
<1>8. CASE HostGets(h)
  <2>1. CASE c.rec.cancellation
    BY <1>3, <1>4, <1>6, <1>7, <1>8, <2>1 DEF HostGets
  <2>2. CASE ~c.rec.cancellation
    BY <1>3, <1>4, <1>7, <1>8, <2>2 DEF HostGets
  <2>3. QED BY <2>1, <2>2
<1>9. CASE standDownIfOvertaken(h)
  BY <1>3, <1>4, <1>5, <1>9 DEF standDownIfOvertaken, HostDone
<1>10. CASE recordControllerRestart(h)
  <2>1. ASSUME ~MayCountRestart(record, c.rec.restarts) PROVE Goal
    <3>1. record' = record BY <1>10, <2>1 DEF recordControllerRestart
    <3>2. QED BY <1>3, <1>4, <1>5, <1>7, <1>10, <2>1, <3>1 DEF recordControllerRestart, HostDone
  <2>2. ASSUME MayCountRestart(record, c.rec.restarts) PROVE Goal
    BY <1>4, <1>10, <2>2 DEF recordControllerRestart
  <2>3. QED BY <2>1, <2>2
<1>11. CASE startController(h) BY <1>3, <1>4, <1>11 DEF startController, HostDone
<1>12. CASE recoverAttempt(h) BY <1>3, <1>12 DEF recoverAttempt
<1>13. CASE requestCancellationOf(h)
  <2>1. record' = requestCancellation(record) BY <1>13 DEF requestCancellationOf
  <2>2. record'.cancellation \/ (isTerminal(record.status) /\ record.status # "canceled")
    <3>1. CASE ~isTerminal(record.status) BY <1>0, <2>1, <3>1 DEF requestCancellation, GoalRecords
    <3>2. CASE record.status = "canceled"
      BY <1>0, <2>1, <3>2
         DEF requestCancellation, RecordOK, isGoalState, isCancellationConsistent, isTerminal
    <3>3. QED BY <3>1, <3>2
  <2>3. isTerminal(record.status) => record' = record BY <2>1 DEF requestCancellation
  <2>4. QED BY <1>3, <1>5, <1>6, <1>13, <2>2, <2>3 DEF requestCancellationOf, HostDone
<1>14. CASE HostSignals(h)
  <2>1. HostGoes(h, [c EXCEPT !.pc = "end"]) BY <1>14 DEF HostSignals
  <2>2. QED BY <1>4, <2>1
<1>15. CASE HostEnds(h)
  <2> DEFINE w == IF c.pc = "settle" THEN "settle" ELSE ToFence(c, c.rec).why
  <2>1. c.rec.cancellation BY <1>0, <1>15 DEF HostEnds, CancelInv
  <2>2. HostGoes(h, [ToFence(c, c.rec) EXCEPT !.why = w]) BY <1>15 DEF HostEnds
  <2> HIDE DEF w
  <2>3. QED BY <1>6, <2>1, <2>2
<1>16. CASE HostFences(h)
  <2> DEFINE d == [c EXCEPT !.pc = "stop"]
  <2>1. HostGoes(h, d) /\ c.pc = "fence" BY <1>16 DEF HostFences
  <2>2. d.pc = "stop" /\ d.rec = c.rec /\ d.why = c.why /\ d.targets = c.targets
    BY <1>0 DEF HostCalls
  <2> HIDE DEF d
  <2>3. Clears(d, record', Tended') BY <1>1, <2>1, <2>2 DEF Clears
  <2>4. QED BY <1>2, <2>1, <2>3
<1>17. CASE HostStops(h)
  <2>0. c.pc = "stop" /\ cancelRuns(c.targets) /\ record' = record /\ start' = start
    BY <1>17 DEF HostStops
  <2>1. CASE c.why \in {"overtaken", "orphan"}
    BY <1>3, <1>17, <2>1 DEF HostStops, HostDone
  <2>2. CASE c.why = "settle"
    <3>1. HostGoes(h, [c EXCEPT !.pc = "readBack"]) BY <1>17, <2>2 DEF HostStops
    <3>2. QED BY <1>4, <3>1
  <2>3. CASE c.why \notin {"overtaken", "orphan", "settle"}
    <3> DEFINE v == IF c.op = "cancel" THEN record ELSE c.rec
               d == [c EXCEPT !.pc = "commit", !.rec = v]
    <3>1. HostGoes(h, d) BY <1>17, <2>3 DEF HostStops
    <3>2. c.rec.cancellation /\ c.targets = attemptIndexesToStop(c.rec)
      BY <1>0, <2>0, <2>3 DEF Clears
    <3>3. UpToDate(c.rec, record) BY <1>0, <3>2 DEF Clears
    <3>4. Tended'
      <4>1. isTerminal(record.status) => Tended
        <5>1. isTerminal(record.status) => record.status = "canceled"
          BY <1>0, <3>2 DEF CancelInv, RecordOK, isGoalState, isCancellationConsistent
        <5>2. record.status = "canceled" => record.reason # "startFailed"
          BY <1>0, ReasonTable DEF RecordOK, isGoalState, isTerminalPairing, isTerminal
        <5>3. QED BY <5>1, <5>2 DEF Orderly
      <4>2. CASE isTerminal(record.status)
        BY <2>0, <4>1, <4>2, StopsAll DEF Orderly
      <4>3. CASE ~isTerminal(record.status)
        <5>1. c.targets = attemptIndexesToStop(record)
          BY <1>0, <3>2, <3>3, <4>3, SameToStop DEF UpToDate, isTerminal
        <5>2. ASSUME NEW i \in Attempts, run'[i].status = "live" PROVE FALSE
          <6>1. run[i].status = "live" /\ i \notin c.targets
            BY <2>0, <5>2 DEF IInv, TypeInv, cancelRuns, Runs
          <6>2. i = attemptToStop(record) BY <4>3, <6>1, OnlyOneToStop DEF Orderly
          <6>3. QED BY <5>1, <6>1, <6>2 DEF attemptIndexesToStop, Attempts
        <5>3. QED BY <5>2 DEF Tended, TendedBy
      <4>4. QED BY <4>2, <4>3
    <3>5. d.pc = "commit" /\ d.rec \in {c.rec, record}
      BY <1>0 DEF HostCalls
    <3>6. UpToDate(d.rec, record') BY <2>0, <3>3, <3>5 DEF UpToDate
    <3> HIDE DEF d
    <3>7. Clears(d, record', Tended') BY <3>4, <3>5, <3>6 DEF Clears
    <3>8. QED BY <1>2, <3>1, <3>7
  <2>4. QED BY <2>1, <2>2, <2>3
<1>18. CASE commitCancellation(h)
  <2>1. ASSUME HostGoes(h, [c EXCEPT !.rec = record]), ~isTerminal(record'.status) PROVE Goal
    <3> DEFINE d == [c EXCEPT !.rec = record]
    <3>1. d.pc = c.pc /\ d.rec = record /\ c.pc = "commit"
      BY <1>0, <1>18 DEF HostCalls, commitCancellation
    <3>2. record'.seq = record.seq
      <4>1. record' = record
        <5> DEFINE q == buildGoalForcedFinish(c.rec, "goalCanceled")
        <5>1. Fits(c.rec, q) BY DEF Fits
        <5>2. q.to = "canceled" BY ForcedRequest, ReasonTable
        <5>3. record' = record \/ record' = applyTransition(q, record)
          BY <1>18 DEF commitCancellation
        <5> HIDE DEF q
        <5>4. ASSUME record' # record PROVE FALSE
          <6>1. evaluateTransition(q, record) = "applied" /\ record' = buildNext(record, q)
            BY <5>3, <5>4 DEF applyTransition
          <6>2. record'.status = "canceled"
            BY <1>0, <5>1, <5>2, <6>1, CommitEffect
          <6>3. QED BY <2>1, <6>2 DEF isTerminal
        <5>5. QED BY <5>4
      <4>2. QED BY <4>1
    <3>3. UpToDate(d.rec, record') BY <3>1, <3>2 DEF UpToDate
    <3> HIDE DEF d
    <3>4. Clears(d, record', Tended') BY <1>1, <3>1, <3>3 DEF Clears
    <3>5. QED BY <1>2, <2>1, <3>4 DEF d
  <2>2. \/ HostGoes(h, [c EXCEPT !.pc = "readBack"]) \/ HostGoes(h, NoCall)
        \/ HostGoes(h, [c EXCEPT !.rec = record]) /\ ~isTerminal(record'.status)
    BY <1>18 DEF commitCancellation
  <2>3. QED BY <1>3, <1>4, <2>1, <2>2 DEF HostDone
<1>19. CASE readBack(h) BY <1>3, <1>19 DEF readBack
<1>20. QED
  BY <1>8, <1>9, <1>10, <1>11, <1>12, <1>13, <1>14, <1>15, <1>16, <1>17, <1>18, <1>19
     DEF HostCall

LEMMA ClearsNext ==
    ASSUME IInv, QuietInv, Orderly, [Next]_vars, ~Crash, ~Faulty
    PROVE  \A h \in Hosts : Clears(host'[h], record', Tended')
<1>0. /\ TypeInv /\ RecordOK(record)
      /\ \A h \in Hosts : Clears(host[h], record, Tended) /\ CancelInv(host[h], record)
  BY DEF IInv, TypeInv, Orderly, QuietInv
<1>1. CASE host' = host BY <1>0, <1>1, ClearsLasts
<1>2. ASSUME NEW h \in Hosts, HostCall(h)
      PROVE  \A k \in Hosts : Clears(host'[k], record', Tended')
  BY <1>2, HostCallClears
<1>3. ASSUME NEW call \in Calls, CallBegins(call[1], call[2])
      PROVE  \A k \in Hosts : Clears(host'[k], record', Tended')
  <2>1. call[1] \in Hosts /\ call[2] \in {"cancel", "recover"} BY GoalRunAssumption
  <2>2. [NoCall EXCEPT !.op = call[2]] \in HostCalls BY <2>1, HostTypes DEF HostCalls
  <2>3. record' = record BY <1>3 DEF CallBegins
  <2>4. QED BY <1>0, <1>3, <2>1, <2>2, <2>3, FirstReadClears, HostGoesClears DEF CallBegins
<1>4. CASE BootReads
  <2>1. "boot" \in Hosts /\ host["boot"] \in HostCalls /\ record' = record
    BY <1>0, <1>4, GoalRunAssumption DEF TypeInv, BootReads
  <2>2. QED BY <1>0, <1>4, <2>1, FirstReadClears, HostGoesClears DEF BootReads
<1>5. QED BY <1>1, <1>2, <1>3, <1>4, HostAlone

-----------------------------------------------------------------------------
(* The ending.                                                             *)

\* Whoever ends the goal, other than for a failed start, leaves no run untended.
LEMMA EndingsAreTended ==
    ASSUME IInv, QuietInv, Orderly, [Next]_vars, ~Crash,
           isTerminal(record'.status), record'.reason # "startFailed"
    PROVE  Tended'
<1>0. RecordOK(record) /\ RecordMoves /\ Reach
  BY StepMovesRecord DEF IInv, TypeInv, Orderly
<1>1. CASE isTerminal(record.status)
  <2>1. record.reason # "startFailed" BY <1>0, <1>1, EndingStays
  <2>2. QED BY <1>1, <2>1, TendedLasts DEF Orderly, goalIsOver
<1>2. CASE ~isTerminal(record.status)
  <2>0. record' # record BY <1>2
  <2>1. run' = run BY <2>0, RunAlone
  <2>2. ASSUME NEW h \in Hosts, recordControllerRestart(h) \/ requestCancellationOf(h)
        PROVE  FALSE
    <3>1. Marks \/ record' = record
      BY <2>2 DEF recordControllerRestart, requestCancellationOf, Marks, MayCountRestart
    <3>2. record'.status = record.status BY <1>0, <3>1, MarkEffect DEF Marks
    <3>3. QED BY <1>2, <3>2
  <2>3. ASSUME NEW h \in Hosts, commitCancellation(h) PROVE Tended'
    <3>1. Tended /\ start' = start
      BY <2>3 DEF Orderly, Clears, commitCancellation
    <3>2. QED BY <2>1, <3>1 DEF Tended
  <2>4. CASE commitTransition
    <3> DEFINE v == ctl.view
               q == ctl.request
               n == Len(record.attempts)
    <3>1. /\ ctl.pc = "commit" /\ Agrees(v, record) /\ Fits(v, q) /\ start' = start
          /\ evaluateTransition(q, record) = "applied" /\ record' = buildNext(record, q)
      BY <2>0, <2>4
         DEF commitTransition, Running, IInv, ReaderInv, ControllerInv, applyTransition
    <3>2. /\ v.seq = record.seq /\ v.status = record.status /\ v.attempts = record.attempts
          /\ record'.status = q.to /\ record'.reason = q.reason /\ RecordOK(record')
          /\ Len(record'.attempts) = IF q.to = "running" THEN n + 1 ELSE n
      BY <1>0, <3>1, CommitEffect
    <3>3. Ends(v, q) \/ Opens(v, q) \/ StartFails(v, q) \/ Accounts(v, q) \/ Judges(v, q)
      BY <3>1, FitsCases DEF Agrees
    <3>4. Tended
      <4>1. SUFFICES ASSUME NEW i \in Attempts, run[i].status = "live" PROVE LooksBack(start, i)
        BY DEF Tended, TendedBy
      <4>2. i = attemptToStop(record) /\ record.status # "evaluating"
        BY <1>0, <1>2, <4>1, OnlyOneToStop
      <4>3. ~DeadIn(run, i) BY <4>1 DEF DeadIn
      <4>4. record.status = "running" => i = n
        BY <1>0, <4>2, LastAttempt DEF attemptToStop, isInFlight
      <4>5. CASE q.reason \in {"goalCanceled", "budget"}
        <5>1. Tended BY <3>1, <3>2, <4>2, <4>5 DEF Orderly, Drives
        <5>2. QED BY <4>1, <5>1 DEF Tended, TendedBy
      <4>6. CASE q.reason = "attemptLimit"
        <5>1. record.status # "running" BY <3>1, <3>2, <4>3, <4>4, <4>6 DEF IInv, Grounded
        <5>2. record.status \in Idle
          BY <1>0, <1>2, <4>2, <5>1, StatusTable DEF isTerminal, Idle, RecordOK, GoalRecords
        <5>3. Len(record'.attempts) >= MaximumAttempts
          <6>1. record'.reason = "attemptLimit" BY <3>2, <4>6
          <6>2. isTerminalPairing(record') /\ isTerminalOutcomeConsistent(record')
            BY <3>2 DEF RecordOK, isGoalState
          <6>3. record'.status = "exhausted"
            BY <1>2, <6>1, <6>2, ReasonTable DEF isTerminalPairing
          <6>4. QED BY <6>1, <6>2, <6>3 DEF isTerminalOutcomeConsistent, isTerminal
        <5>4. q.to # "running" BY <3>3, <4>6 DEF Ends, Opens, StartFails, Accounts, Judges, None
        <5>5. n >= MaximumAttempts BY <3>2, <5>3, <5>4
        <5>6. n < MaximumAttempts
          BY <1>0, <5>2, LastAttempt, BoundsAssumption DEF Idle
        <5>7. QED BY <1>0, <5>5, <5>6, BoundsAssumption DEF RecordOK, GoalRecords
      <4>7. CASE q.reason = "runFailed"
        <5>1. record.status = "running"
          BY <3>2, <3>3, <4>7 DEF Ends, Opens, StartFails, Accounts, Judges, None
        <5>2. DeadIn(run, n) BY <3>1, <3>2, <4>7, <5>1 DEF IInv, Grounded
        <5>3. QED BY <4>3, <4>4, <5>1, <5>2
      <4>8. CASE q.reason \notin {"goalCanceled", "budget", "attemptLimit", "runFailed"}
        <5>1. q.to # "running" /\ q.reason # "startFailed" /\ q.to # "evaluating"
          BY <3>2 DEF isTerminal
        <5>2. QED
          BY <3>2, <3>3, <4>2, <4>8, <5>1 DEF Ends, Opens, StartFails, Accounts, Judges
      <4>9. QED BY <4>5, <4>6, <4>7, <4>8
    <3>5. QED BY <2>1, <3>1, <3>4 DEF Tended
  <2>5. QED BY <2>0, <2>2, <2>3, <2>4, RecordAlone
<1>3. QED BY <1>1, <1>2

-----------------------------------------------------------------------------
(* Nothing is left behind.                                                 *)

\* The order is kept while nothing crashes and no call of a host fails.
CalmInv == UsedType /\ (Calm => Orderly)

LEMMA InitOrderly ==
    ASSUME Init PROVE CalmInv
<1>1. /\ record = createGoalState /\ ctl \in {NewController, NoController}
      /\ \A h \in Hosts : host[h] \in {NoCall, BootCall}
      /\ \A i \in Attempts : run[i] = NoRun
      /\ \A s \in Starts : start[s] = NoStart
  BY DEF Init
<1>2. UsedType BY DEF Init, UsedType
<1>3. Reach BY <1>1 DEF Reach, NoRun, NoStart
<1>4. Drives(ctl, record, elapsed, Tended) BY <1>1, NewIsFresh, FreshDrives
<1>5. \A h \in Hosts : Clears(host[h], record, Tended) BY <1>1, NoCallClears
<1>6. ~isTerminal(record.status) BY <1>1 DEF createGoalState, isTerminal
<1>7. QED BY <1>2, <1>3, <1>4, <1>5, <1>6 DEF CalmInv, Orderly

LEMMA NextOrderly ==
    ASSUME IInv, QuietInv, CalmInv, [Next]_vars PROVE CalmInv'
<1>1. UsedType' /\ (Calm' => Calm /\ ~Crash /\ ~Faulty) BY CalmSteps DEF CalmInv
<1>2. ASSUME Calm' PROVE Orderly'
  <2>1. Orderly /\ ~Crash /\ ~Faulty BY <1>1, <1>2 DEF CalmInv
  <2>2. Reach' BY <2>1, ReachLasts
  <2>3. Drives(ctl', record', elapsed', Tended') BY <2>1, DrivesNext
  <2>4. \A h \in Hosts : Clears(host'[h], record', Tended') BY <2>1, ClearsNext
  <2>5. isTerminal(record'.status) /\ record'.reason # "startFailed" => Tended'
    BY <2>1, EndingsAreTended
  <2>6. QED BY <2>2, <2>3, <2>4, <2>5 DEF Orderly, Tended
<1>3. QED BY <1>1, <1>2 DEF CalmInv

LEMMA QuietInvariance == Spec => []QuietInv
<1>1. ASSUME Init PROVE QuietInv
  <2>1. \A h \in Hosts : host[h] \in {NoCall, BootCall} BY <1>1 DEF Init
  <2>2. QED BY <1>1, <2>1, NoCallCancels DEF Init, QuietInv
<1>2. QED BY <1>1, Invariance, NextQuiet, PTL DEF Spec

\* Nothing is left behind: when a goal is over and nobody works on it any more, no
\* run of it is alive, not even one that a start which had been given up created
\* later (goal-ports.ts startAttempt, goal-workflow.ts abortAttempt), unless the
\* process died or a call of a host failed.
THEOREM NothingIsLeftBehind == Spec => []NothingLeftBehind
<1>1. ASSUME CalmInv PROVE NothingLeftBehind
  BY <1>1 DEF CalmInv, Calm, Orderly, Tended, TendedBy, LooksBack, NothingLeftBehind
<1>2. CalmInv /\ IInv /\ QuietInv /\ [Next]_vars => CalmInv' BY NextOrderly
<1>3. QED BY <1>1, <1>2, InitOrderly, Invariance, QuietInvariance, PTL DEF Spec

-----------------------------------------------------------------------------
(* A goal on its way.                                                      *)

\* A goal on its way: no attempt has passed, the running one has reported nothing, and
\* three writes have been applied for each attempt that is over.
Growing(r) ==
    ~isTerminal(r.status) =>
       /\ \A i \in 1 .. Len(r.attempts) : r.attempts[i].status # "passed"
       /\ r.status = "running" => Last(r).usage = 0 /\ r.seq + 2 = 3 * Len(r.attempts)
       /\ r.status = "evaluating" => r.seq + 1 = 3 * Len(r.attempts)
       /\ r.status \in Idle => r.seq = 3 * Len(r.attempts)

\* A write is built from the seq, the attempts and the usage alone.
LEMMA SameFits ==
    ASSUME NEW v, NEW r, v.seq = r.seq, v.status = r.status, v.attempts = r.attempts,
           v.usage = r.usage, NEW q, Fits(v, q)
    PROVE  Fits(r, q)
<1>1. \A to, reason : baseTransition(v, to, reason) = baseTransition(r, to, reason)
  BY DEF baseTransition
<1>2. Last(v) = Last(r) BY DEF Last
<1>3. \A x : decideOutcome(v, x) = decideOutcome(r, x) BY DEF decideOutcome, decideRetryOrExhaust
<1>4. /\ \A reason : buildGoalForcedFinish(v, reason) = buildGoalForcedFinish(r, reason)
      /\ buildStartFailure(v) = buildStartFailure(r)
      /\ buildOpenAttempt(v) = buildOpenAttempt(r)
      /\ buildEvaluationStarted(v) = buildEvaluationStarted(r)
      /\ \A f : buildRunFinishDecision(v, f) = buildRunFinishDecision(r, f)
      /\ \A x : buildValidationDecision(v, x) = buildValidationDecision(r, x)
  BY <1>1, <1>2, <1>3 DEF buildGoalForcedFinish, buildStartFailure, buildOpenAttempt,
     buildEvaluationStarted, buildRunFinishDecision, buildValidationDecision, accountAttemptUsage
<1>5. QED BY <1>4 DEF Fits

\* The attempt in flight of a goal on its way, which has no verdict.
LEMMA InFlight ==
    ASSUME NEW r, RecordOK(r), ~isTerminal(r.status), NEW n, n = Len(r.attempts)
    PROVE  /\ n \in Nat /\ n <= MaximumAttempts /\ r.attempts \in Seq(Attempt)
           /\ r.usage \in Nat /\ r.seq \in Nat /\ r.cancellation \in BOOLEAN
           /\ \A i \in 1 .. n - 1 : ~isInFlight(r.attempts[i])
           /\ n > 0 => Last(r) = r.attempts[n] /\ Last(r) \in Attempt
           /\ n > 0 /\ isInFlight(Last(r)) => Last(r).validation = None
           /\ (n > 0 /\ isInFlight(Last(r))) <=> r.status \in {"running", "evaluating"}
           /\ r.status \in Idle \cup {"running", "evaluating"}
           /\ r.usage = Cardinality({i \in 1 .. n : r.attempts[i].usage = 1})
<1>1. r \in GoalRecords /\ isGoalState(r) /\ n <= MaximumAttempts BY DEF RecordOK
<1>2. n \in Nat /\ r.attempts \in Seq(Attempt) /\ r.usage \in Nat /\ r.seq \in Nat
      /\ r.cancellation \in BOOLEAN /\ r.status \in Status
  BY <1>1 DEF GoalRecords
<1>3. r.status \in Idle \cup {"running", "evaluating"}
  BY <1>2, StatusTable DEF isTerminal, Idle
<1>4. n > 0 => Last(r) = r.attempts[n] /\ Last(r) \in Attempt BY <1>2 DEF Last
<1>5. n > 0 /\ isInFlight(Last(r)) => Last(r).validation = None
  <2>1. SUFFICES ASSUME n > 0, isInFlight(r.attempts[n]), r.attempts[n].validation # None
        PROVE  FALSE
    BY <1>4
  <2>2. n \in 1 .. Len(r.attempts) BY <1>2, <2>1
  <2>3. r.attempts[n].status = attemptStatusForOutcome(r.attempts[n].validation)
    BY <1>1, <2>1, <2>2 DEF isGoalState, areAttemptOutcomesConsistent
  <2>4. QED BY <2>1, <2>3 DEF attemptStatusForOutcome, isInFlight
<1>6. (n > 0 /\ isInFlight(Last(r))) <=> r.status \in {"running", "evaluating"}
  BY <1>2, <1>3, LastAttempt DEF isInFlight, Idle
<1>7. \A i \in 1 .. n - 1 : ~isInFlight(r.attempts[i])
  BY <1>1 DEF isGoalState, isStatusRelationConsistent
<1>8. r.usage = Cardinality({i \in 1 .. n : r.attempts[i].usage = 1})
  BY <1>1 DEF isGoalState, isUsageConsistent
<1>9. QED BY <1>1, <1>2, <1>3, <1>4, <1>5, <1>6, <1>7, <1>8

\* What is left to check of a record whose attempts and usage add up.
Sums(s, m) ==
    /\ isUsageConsistent(s) /\ areAttemptOutcomesConsistent(s)
    /\ Len(s.attempts) = m
    /\ \A i \in 1 .. m - 1 : ~isInFlight(s.attempts[i]) /\ s.attempts[i].status # "passed"

LEMMA SameSums ==
    ASSUME NEW r, RecordOK(r), Growing(r), ~isTerminal(r.status), NEW s,
           s.attempts = r.attempts, s.usage = r.usage
    PROVE  Sums(s, Len(r.attempts))
<1>1. isUsageConsistent(s) /\ areAttemptOutcomesConsistent(s)
  BY DEF RecordOK, isGoalState, isUsageConsistent, areAttemptOutcomesConsistent
<1>2. /\ Len(r.attempts) \in Nat
      /\ \A i \in 1 .. Len(r.attempts) - 1 : ~isInFlight(r.attempts[i])
  BY InFlight
<1>3. \A i \in 1 .. Len(r.attempts) : r.attempts[i].status # "passed" BY DEF Growing
<1>4. QED BY <1>1, <1>2, <1>3 DEF Sums

LEMMA ReplacedSums ==
    ASSUME NEW r, RecordOK(r), Growing(r), ~isTerminal(r.status),
           NEW n, n = Len(r.attempts), r.status \in {"running", "evaluating"},
           NEW a \in Attempt,
           IF a.validation = None THEN a.status # "passed"
           ELSE a.status = attemptStatusForOutcome(a.validation),
           NEW s, s.attempts = [r.attempts EXCEPT ![n] = a],
           \/ a.usage = Last(r).usage /\ s.usage = r.usage
           \/ a.usage = 1 /\ Last(r).usage = 0 /\ s.usage = r.usage + 1
    PROVE  Sums(s, n) /\ Last(s) = a
<1>0. /\ n \in Nat /\ n > 0 /\ r.attempts \in Seq(Attempt) /\ Last(r) = r.attempts[n]
      /\ \A i \in 1 .. n - 1 : ~isInFlight(r.attempts[i]) /\ r.attempts[i].status # "passed"
      /\ r.usage = Cardinality({i \in 1 .. n : r.attempts[i].usage = 1})
  <2>1. \A i \in 1 .. n : r.attempts[i].status # "passed" BY DEF Growing
  <2>2. /\ n \in Nat /\ r.attempts \in Seq(Attempt)
        /\ n > 0 => Last(r) = r.attempts[n] /\ Last(r) \in Attempt
        /\ (n > 0 /\ isInFlight(Last(r))) <=> r.status \in {"running", "evaluating"}
        /\ \A i \in 1 .. n - 1 : ~isInFlight(r.attempts[i])
    BY InFlight
  <2>5. r.usage = Cardinality({i \in 1 .. n : r.attempts[i].usage = 1}) BY InFlight
  <2>3. n > 0 BY <2>2
  <2>4. QED BY <2>1, <2>2, <2>3, <2>5
<1>1. /\ Len(s.attempts) = n /\ s.attempts[n] = a
      /\ \A i \in 1 .. n - 1 : s.attempts[i] = r.attempts[i]
  BY <1>0
<1>2. Last(s) = a BY <1>1 DEF Last
<1>3. areAttemptOutcomesConsistent(s)
  <2>1. SUFFICES ASSUME NEW i \in 1 .. n
                 PROVE  IF s.attempts[i].validation = None THEN s.attempts[i].status # "passed"
                        ELSE s.attempts[i].status = attemptStatusForOutcome(s.attempts[i].validation)
    BY <1>1 DEF areAttemptOutcomesConsistent
  <2>2. CASE i = n BY <1>1, <2>2
  <2>3. CASE i # n
    <3>1. i \in 1 .. n - 1 /\ i \in 1 .. Len(r.attempts) BY <1>0, <2>3
    <3>2. QED
      BY <1>1, <3>1 DEF RecordOK, isGoalState, areAttemptOutcomesConsistent
  <2>4. QED BY <2>2, <2>3
<1>4. isUsageConsistent(s)
  <2> DEFINE A == {i \in 1 .. n : r.attempts[i].usage = 1}
             B == {i \in 1 .. n : s.attempts[i].usage = 1}
  <2>1. CASE a.usage = Last(r).usage /\ s.usage = r.usage
    <3>1. \A i \in 1 .. n : s.attempts[i].usage = r.attempts[i].usage
      BY <1>0, <1>1, <2>1
    <3>2. A = B BY <3>1
    <3>3. QED BY <1>0, <1>1, <2>1, <3>2 DEF isUsageConsistent
  <2>2. CASE a.usage = 1 /\ Last(r).usage = 0 /\ s.usage = r.usage + 1
    <3>1. n \notin A /\ B = A \cup {n} BY <1>0, <1>1, <2>2
    <3>2. IsFiniteSet(A)
      <4>1. IsFiniteSet(1 .. n) BY <1>0, FS_Interval
      <4>2. A \subseteq 1 .. n OBVIOUS
      <4> HIDE DEF A
      <4>3. QED BY <4>1, <4>2, FS_Subset
    <3> HIDE DEF A
    <3>3. Cardinality(B) = Cardinality(A) + 1 BY <3>1, <3>2, FS_AddElement
    <3>4. QED BY <1>0, <1>1, <2>2, <3>3 DEF isUsageConsistent, A
  <2>3. QED BY <2>1, <2>2
<1>5. QED BY <1>0, <1>1, <1>2, <1>3, <1>4 DEF Sums

LEMMA AppendedSums ==
    ASSUME NEW r, RecordOK(r), Growing(r), r.status \in Idle,
           NEW n, n = Len(r.attempts), NEW a \in Attempt,
           a.validation = None, a.status = "running", a.usage = 0,
           NEW s, s.attempts = Append(r.attempts, a), s.usage = r.usage
    PROVE  Sums(s, n + 1) /\ Last(s) = a
<1>a. ~isTerminal(r.status) BY DEF isTerminal, Idle
<1>0. /\ n \in Nat /\ r.attempts \in Seq(Attempt)
      /\ \A i \in 1 .. n : ~isInFlight(r.attempts[i]) /\ r.attempts[i].status # "passed"
      /\ r.usage = Cardinality({i \in 1 .. n : r.attempts[i].usage = 1})
  <2>1. \A i \in 1 .. n : r.attempts[i].status # "passed" BY <1>a DEF Growing
  <2>2. /\ n \in Nat /\ r.attempts \in Seq(Attempt)
        /\ n > 0 => Last(r) = r.attempts[n] /\ Last(r) \in Attempt
        /\ (n > 0 /\ isInFlight(Last(r))) <=> r.status \in {"running", "evaluating"}
        /\ \A i \in 1 .. n - 1 : ~isInFlight(r.attempts[i])
    BY <1>a, InFlight
  <2>5. r.usage = Cardinality({i \in 1 .. n : r.attempts[i].usage = 1}) BY <1>a, InFlight
  <2>3. n > 0 => ~isInFlight(r.attempts[n]) BY <2>2 DEF Idle
  <2>4. QED BY <2>1, <2>2, <2>3, <2>5
<1>1. /\ Len(s.attempts) = n + 1 /\ s.attempts[n + 1] = a
      /\ \A i \in 1 .. n : s.attempts[i] = r.attempts[i]
  BY <1>0
<1>2. Last(s) = a BY <1>1 DEF Last
<1>3. areAttemptOutcomesConsistent(s)
  <2>1. SUFFICES ASSUME NEW i \in 1 .. n + 1
                 PROVE  IF s.attempts[i].validation = None THEN s.attempts[i].status # "passed"
                        ELSE s.attempts[i].status = attemptStatusForOutcome(s.attempts[i].validation)
    BY <1>1 DEF areAttemptOutcomesConsistent
  <2>2. CASE i = n + 1 BY <1>1, <2>2
  <2>3. CASE i # n + 1
    <3>1. i \in 1 .. n BY <1>0, <2>3
    <3>2. QED
      BY <1>1, <3>1 DEF RecordOK, isGoalState, areAttemptOutcomesConsistent
  <2>4. QED BY <2>2, <2>3
<1>4. isUsageConsistent(s)
  <2>1. {i \in 1 .. n : r.attempts[i].usage = 1} = {i \in 1 .. n + 1 : s.attempts[i].usage = 1}
    BY <1>0, <1>1
  <2>2. QED BY <1>0, <1>1, <2>1 DEF isUsageConsistent
<1>5. n + 1 - 1 = n BY <1>0
<1>6. QED BY <1>0, <1>1, <1>2, <1>3, <1>4, <1>5 DEF Sums

LEMMA NextFields ==
    ASSUME NEW r \in GoalRecords, NEW q, NEW s, s = buildNext(r, q)
    PROVE  /\ s.seq = q.seq /\ s.status = q.to /\ s.reason = q.reason
           /\ s.attempts = applyAttempt(r, q) /\ s.usage = q.usage /\ s.active = q.active
           /\ s.cancellation = r.cancellation /\ s.restarts = r.restarts
  BY DEF buildNext, GoalRecords

\* An ending that decodes.
LEMMA EndDecodes ==
    ASSUME NEW s, NEW n \in Nat, Sums(s, n), s.active = NoWork, isTerminal(s.status),
           s.reason \in Reasons, TERMINAL_STATUS_BY_REASON[s.reason] = s.status,
           n > 0 => ~isInFlight(Last(s)),
           n > 0 /\ s.status # "succeeded" => Last(s).status # "passed",
           s.status = "succeeded" => n > 0 /\ Last(s).validation = "pass",
           s.reason = "nonRetryable" => n > 0 /\ Last(s).validation \in {"fail", "failRetryable"},
           s.reason = "infrastructure" =>
              n > 0 /\ Last(s).validation \in {"error", "unavailable", "canceled"},
           s.reason = "attemptLimit" => n >= MaximumAttempts,
           s.status = "canceled" <=> s.cancellation
    PROVE  isGoalState(s)
<1>1. /\ Len(s.attempts) = n /\ isUsageConsistent(s) /\ areAttemptOutcomesConsistent(s)
      /\ \A i \in 1 .. n - 1 : ~isInFlight(s.attempts[i]) /\ s.attempts[i].status # "passed"
  BY DEF Sums
<1>2. s.reason # None BY ReasonTable DEF None
<1>3. isStatusRelationConsistent(s) BY <1>1 DEF isStatusRelationConsistent, isTerminal
<1>4. isTerminalPairing(s) BY <1>2 DEF isTerminalPairing
<1>5. s.status # "succeeded" => \A i \in 1 .. n : s.attempts[i].status # "passed"
  BY <1>1 DEF Last
<1>6. isTerminalOutcomeConsistent(s)
  BY <1>1, <1>5 DEF isTerminalOutcomeConsistent, None
<1>7. isCancellationConsistent(s) BY DEF isCancellationConsistent
<1>8. QED BY <1>1, <1>3, <1>4, <1>6, <1>7 DEF isGoalState

\* A record on its way that decodes.
LEMMA OnDecodes ==
    ASSUME NEW s, NEW n \in Nat, Sums(s, n), n > 0, s.reason = None,
           \/ /\ s.status = "running" /\ Last(s).status = "running"
              /\ s.active = [kind |-> "attempt", attempt |-> n]
           \/ /\ s.status = "evaluating" /\ Last(s).status = "evaluating"
              /\ s.active = [kind |-> "validation", attempt |-> n]
           \/ /\ s.status = "retrying" /\ Last(s).status \in {"failed", "aborted"}
              /\ s.active = NoWork /\ n < MaximumAttempts
    PROVE  isGoalState(s) /\ \A i \in 1 .. n : s.attempts[i].status # "passed"
<1>1. /\ Len(s.attempts) = n /\ isUsageConsistent(s) /\ areAttemptOutcomesConsistent(s)
      /\ \A i \in 1 .. n - 1 : ~isInFlight(s.attempts[i]) /\ s.attempts[i].status # "passed"
  BY DEF Sums
<1>2. ~isTerminal(s.status) /\ s.status # "pending" BY DEF isTerminal
<1>3. isStatusRelationConsistent(s) BY <1>1, <1>2 DEF isStatusRelationConsistent
<1>4. isTerminalPairing(s) /\ isTerminalOutcomeConsistent(s) /\ isCancellationConsistent(s)
  BY <1>2 DEF isTerminalPairing, isTerminalOutcomeConsistent, isCancellationConsistent
<1>5. QED BY <1>1, <1>3, <1>4 DEF isGoalState, Last

\* What a write from a record on its way makes of it.
Makes(r, q) ==
    /\ Growing(buildNext(r, q)) /\ canTransitionGoalRun(r.status, q.to)
    /\ q.patch <= Len(r.attempts) + 1 /\ ~DecisionLost(r, q)
    /\ /\ q.to = "canceled" <=> r.cancellation
       /\ q.reason = "attemptLimit" => Len(r.attempts) >= MaximumAttempts
       => isGoalState(buildNext(r, q))

LEMMA MakesEnd ==
    ASSUME NEW r, RecordOK(r), Growing(r), ~isTerminal(r.status), NEW q, q \in Requests,
           NEW n, n = Len(r.attempts), q.active = NoWork, isTerminal(q.to),
           canTransitionGoalRun(r.status, q.to),
           q.reason \in Reasons, TERMINAL_STATUS_BY_REASON[q.reason] = q.to,
           \/ q.patch = 0 /\ q.usage = r.usage /\ r.status \in Idle
           \/ /\ q.patch = n /\ r.status \in {"running", "evaluating"} /\ q.attempt \in Attempt
              /\ IF q.attempt.validation = None THEN q.attempt.status # "passed"
                 ELSE q.attempt.status = attemptStatusForOutcome(q.attempt.validation)
              /\ \/ q.attempt.usage = Last(r).usage /\ q.usage = r.usage
                 \/ q.attempt.usage = 1 /\ Last(r).usage = 0 /\ q.usage = r.usage + 1
              /\ ~isInFlight(q.attempt)
              /\ q.to # "succeeded" => q.attempt.status # "passed",
           q.to = "succeeded" => q.patch # 0 /\ q.attempt.validation = "pass",
           q.reason = "nonRetryable" =>
              q.patch # 0 /\ q.attempt.validation \in {"fail", "failRetryable"},
           q.reason = "infrastructure" =>
              q.patch # 0 /\ q.attempt.validation \in {"error", "unavailable", "canceled"}
    PROVE  Makes(r, q)
<1> DEFINE s == buildNext(r, q)
<1>0. /\ n \in Nat /\ r.attempts \in Seq(Attempt) /\ r \in GoalRecords
      /\ n > 0 => Last(r) = r.attempts[n] /\ Last(r) \in Attempt
      /\ n > 0 /\ isInFlight(Last(r)) => Last(r).validation = None
      /\ (n > 0 /\ isInFlight(Last(r))) <=> r.status \in {"running", "evaluating"}
  BY InFlight DEF RecordOK
<1>1. /\ s.seq = q.seq /\ s.status = q.to /\ s.reason = q.reason
      /\ s.attempts = applyAttempt(r, q) /\ s.usage = q.usage /\ s.active = q.active
      /\ s.cancellation = r.cancellation
  BY <1>0, NextFields
<1> HIDE DEF s
<1>2. CASE q.patch = 0 /\ q.usage = r.usage /\ r.status \in Idle
  <2>1. s.attempts = r.attempts BY <1>1, <1>2 DEF applyAttempt
  <2>2. Sums(s, n) BY <1>1, <1>2, <2>1, SameSums
  <2>3. Last(s) = Last(r) BY <2>1 DEF Last
  <2>4. n > 0 => ~isInFlight(Last(s)) /\ Last(s).status # "passed"
    <3>1. n > 0 => ~isInFlight(Last(r)) BY <1>0, <1>2 DEF Idle
    <3>2. n > 0 => r.attempts[n].status # "passed" BY <1>0 DEF Growing
    <3>3. QED BY <1>0, <2>3, <3>1, <3>2
  <2>5. (q.to = "canceled" <=> r.cancellation) /\ (q.reason = "attemptLimit" => n >= MaximumAttempts)
        => isGoalState(s)
    BY <1>0, <1>1, <1>2, <2>2, <2>4, EndDecodes
  <2>6. Growing(s) BY <1>1 DEF Growing
  <2>7. q.patch <= n + 1 /\ ~DecisionLost(r, q) BY <1>0, <1>2 DEF DecisionLost
  <2>8. QED BY <2>5, <2>6, <2>7 DEF Makes, s
<1>3. CASE q.patch = n /\ r.status \in {"running", "evaluating"}
  <2>0. n > 0 /\ q.patch # 0 BY <1>0, <1>3
  <2>1. s.attempts = [r.attempts EXCEPT ![n] = q.attempt]
    BY <1>0, <1>1, <1>3, <2>0 DEF applyAttempt
  <2>2. Sums(s, n) /\ Last(s) = q.attempt
    BY <1>1, <1>3, <2>0, <2>1, ReplacedSums DEF Idle
  <2>3. ~isInFlight(Last(s)) /\ (s.status # "succeeded" => Last(s).status # "passed")
    BY <1>1, <1>3, <2>0, <2>2 DEF Idle
  <2>5. (q.to = "canceled" <=> r.cancellation) /\ (q.reason = "attemptLimit" => n >= MaximumAttempts)
        => isGoalState(s)
    BY <1>0, <1>1, <2>0, <2>2, <2>3, EndDecodes
  <2>6. Growing(s) BY <1>1 DEF Growing
  <2>7. q.patch <= n + 1 /\ ~DecisionLost(r, q)
    BY <1>0, <1>3, <2>0 DEF DecisionLost
  <2>8. QED BY <2>5, <2>6, <2>7 DEF Makes, s
<1>4. QED BY <1>2, <1>3

LEMMA WriteMakes ==
    ASSUME NEW r, RecordOK(r), Growing(r), ~isTerminal(r.status), NEW q, Fits(r, q)
    PROVE  Makes(r, q)
<1> USE StatusTable, ReasonTable
<1> DEFINE n == Len(r.attempts)
<1>0. /\ n \in Nat /\ n <= MaximumAttempts /\ r.attempts \in Seq(Attempt) /\ r \in GoalRecords
      /\ r.usage \in Nat /\ r.seq \in Nat
      /\ n > 0 => Last(r) = r.attempts[n] /\ Last(r) \in Attempt
      /\ n > 0 /\ isInFlight(Last(r)) => Last(r).validation = None
      /\ (n > 0 /\ isInFlight(Last(r))) <=> r.status \in {"running", "evaluating"}
      /\ r.status \in Idle \cup {"running", "evaluating"}
  BY InFlight DEF RecordOK
<1>1. q \in Requests BY FitsCases
<1>2. /\ r.status = "running" => Last(r).usage = 0 /\ r.seq + 2 = 3 * n
      /\ r.status = "evaluating" => r.seq + 1 = 3 * n
      /\ r.status \in Idle => r.seq = 3 * n
  BY DEF Growing
\* What a non-terminal write has to show, besides the shape of its record.
<1>3. ASSUME NEW m \in Nat, NEW s, s = buildNext(r, q), Sums(s, m), m > 0, s.reason = None,
             \/ /\ s.status = "running" /\ Last(s).status = "running" /\ Last(s).usage = 0
                /\ s.active = [kind |-> "attempt", attempt |-> m] /\ s.seq + 2 = 3 * m
             \/ /\ s.status = "evaluating" /\ Last(s).status = "evaluating"
                /\ s.active = [kind |-> "validation", attempt |-> m] /\ s.seq + 1 = 3 * m
             \/ /\ s.status = "retrying" /\ Last(s).status \in {"failed", "aborted"}
                /\ s.active = NoWork /\ m < MaximumAttempts /\ s.seq = 3 * m
      PROVE  Growing(s) /\ isGoalState(s)
  <2>1. isGoalState(s) /\ \A i \in 1 .. m : s.attempts[i].status # "passed"
    BY <1>3, OnDecodes
  <2>2. Len(s.attempts) = m BY <1>3 DEF Sums
  <2>3. QED BY <1>3, <2>1, <2>2 DEF Growing, Idle
<1>4. ASSUME NEW reason \in {"goalCanceled", "budget", "attemptLimit"},
             q = buildGoalForcedFinish(r, reason)
      PROVE  Makes(r, q)
  <2>1. CASE r.status \in {"running", "evaluating"}
    <3> DEFINE a == [Last(r) EXCEPT !.status = "aborted"]
    <3>0. n > 0 /\ isInFlight(Last(r)) /\ Last(r) \in Attempt /\ Last(r).validation = None
      BY <1>0, <2>1
    <3>1. /\ a \in Attempt /\ a.validation = None /\ a.status = "aborted"
          /\ a.usage = Last(r).usage
      BY <3>0 DEF Attempt, AttemptStatus
    <3>2. /\ q.to = TERMINAL_STATUS_BY_REASON[reason] /\ q.reason = reason /\ q.patch = n
          /\ q.attempt = a /\ q.usage = r.usage /\ q.active = NoWork
      BY <1>4, <3>0 DEF buildGoalForcedFinish, baseTransition, withAttempt
    <3> HIDE DEF a
    <3>3. isTerminal(q.to) /\ q.to # "succeeded" BY <3>2 DEF isTerminal
    <3>4. canTransitionGoalRun(r.status, q.to)
      BY <2>1, <3>2 DEF canTransitionGoalRun, GOAL_RUN_TRANSITIONS
    <3>5. QED
      BY <1>1, <2>1, <3>1, <3>2, <3>3, <3>4, MakesEnd DEF isInFlight
  <2>2. CASE r.status \in Idle
    <3>0. ~(n > 0 /\ isInFlight(Last(r))) BY <1>0, <2>2 DEF Idle
    <3>2. /\ q.to = TERMINAL_STATUS_BY_REASON[reason] /\ q.reason = reason /\ q.patch = 0
          /\ q.usage = r.usage /\ q.active = NoWork
      BY <1>4, <3>0 DEF buildGoalForcedFinish, baseTransition
    <3>3. isTerminal(q.to) /\ q.to # "succeeded" BY <3>2 DEF isTerminal
    <3>4. canTransitionGoalRun(r.status, q.to)
      BY <2>2, <3>2 DEF canTransitionGoalRun, GOAL_RUN_TRANSITIONS, Idle
    <3>5. QED
      BY <1>1, <2>2, <3>2, <3>3, <3>4, MakesEnd
  <2>3. QED BY <1>0, <2>1, <2>2
<1>5. ASSUME r.status \in Idle, n < MaximumAttempts, q = buildOpenAttempt(r)
      PROVE  Makes(r, q)
  <2> DEFINE s == buildNext(r, q)
             a == [status |-> "running", validation |-> None, usage |-> 0]
  <2>1. /\ q.to = "running" /\ q.reason = None /\ q.patch = n + 1 /\ q.attempt = a
        /\ q.usage = r.usage /\ q.active = [kind |-> "attempt", attempt |-> n + 1]
        /\ q.seq = r.seq + 1
    BY <1>5 DEF buildOpenAttempt, baseTransition, withAttempt
  <2>2. a \in Attempt /\ a.validation = None /\ a.status = "running" /\ a.usage = 0
    BY DEF Attempt, AttemptStatus
  <2>3. /\ s.seq = q.seq /\ s.status = q.to /\ s.reason = q.reason
        /\ s.attempts = applyAttempt(r, q) /\ s.usage = q.usage /\ s.active = q.active
    BY <1>0, NextFields
  <2> HIDE DEF a
  <2>4. s.attempts = Append(r.attempts, a)
    BY <1>0, <2>1, <2>3 DEF applyAttempt
  <2>5. Sums(s, n + 1) /\ Last(s) = a
    <3> HIDE DEF s
    <3>1. QED BY <1>5, <2>1, <2>2, <2>3, <2>4, AppendedSums
  <2>6. Growing(s) /\ isGoalState(s)
    <3>1. s.seq + 2 = 3 * (n + 1) BY <1>0, <1>2, <1>5, <2>1, <2>3
    <3>2. n + 1 \in Nat /\ n + 1 > 0 BY <1>0
    <3> HIDE DEF n
    <3>3. QED BY <1>3, <2>1, <2>2, <2>3, <2>5, <3>1, <3>2
  <2>7. canTransitionGoalRun(r.status, q.to) BY <1>0, <1>5, <2>1 DEF GoalRecords, Idle
  <2>8. q.patch <= n + 1 /\ ~DecisionLost(r, q) BY <1>0, <2>1 DEF DecisionLost
  <2>9. QED BY <2>6, <2>7, <2>8 DEF Makes
<1>6. ASSUME r.status \in Idle, q = buildStartFailure(r) PROVE Makes(r, q)
  <2>1. /\ q.to = "failed" /\ q.reason = "startFailed" /\ q.patch = 0 /\ q.usage = r.usage
        /\ q.active = NoWork
    BY <1>6 DEF buildStartFailure, baseTransition
  <2>2. isTerminal(q.to) /\ canTransitionGoalRun(r.status, q.to)
    BY <1>6, <2>1 DEF canTransitionGoalRun, GOAL_RUN_TRANSITIONS, Idle, isTerminal
  <2>3. QED BY <1>1, <1>6, <2>1, <2>2, MakesEnd
<1>7. ASSUME r.status = "running", q = buildEvaluationStarted(r) PROVE Makes(r, q)
  <2> DEFINE s == buildNext(r, q)
             a == [Last(r) EXCEPT !.status = "evaluating", !.usage = 1]
  <2>0. n > 0 /\ Last(r) \in Attempt /\ Last(r).validation = None BY <1>0, <1>7
  <2>1. /\ q.to = "evaluating" /\ q.reason = None /\ q.patch = n /\ q.attempt = a
        /\ q.usage = r.usage + 1 /\ q.active = [kind |-> "validation", attempt |-> n]
        /\ q.seq = r.seq + 1
    BY <1>7 DEF buildEvaluationStarted, baseTransition, withAttempt, accountAttemptUsage
  <2>2. a \in Attempt /\ a.validation = None /\ a.status = "evaluating" /\ a.usage = 1
    BY <2>0 DEF Attempt, AttemptStatus
  <2>3. /\ s.seq = q.seq /\ s.status = q.to /\ s.reason = q.reason
        /\ s.attempts = applyAttempt(r, q) /\ s.usage = q.usage /\ s.active = q.active
    BY <1>0, NextFields
  <2> HIDE DEF a
  <2>4. s.attempts = [r.attempts EXCEPT ![n] = a]
    BY <1>0, <2>0, <2>1, <2>3 DEF applyAttempt
  <2>5. Sums(s, n) /\ Last(s) = a
    <3> HIDE DEF s
    <3>1. QED BY <1>2, <1>7, <2>1, <2>2, <2>3, <2>4, ReplacedSums
  <2>6. Growing(s) /\ isGoalState(s)
    <3>1. s.seq + 1 = 3 * n BY <1>0, <1>2, <1>7, <2>1, <2>3
    <3>2. n \in Nat BY <1>0
    <3> HIDE DEF n
    <3>3. QED BY <1>3, <2>0, <2>1, <2>2, <2>3, <2>5, <3>1, <3>2
  <2>7. canTransitionGoalRun(r.status, q.to) BY <1>0, <1>7, <2>1 DEF GoalRecords
  <2>8. q.patch <= n + 1 /\ ~DecisionLost(r, q) BY <1>0, <2>0, <2>1 DEF DecisionLost
  <2>9. QED BY <2>6, <2>7, <2>8 DEF Makes
<1>8. ASSUME r.status = "running", NEW f \in {"aborted", "broken"},
             q = buildRunFinishDecision(r, f)
      PROVE  Makes(r, q)
  <2> DEFINE a == [Last(r) EXCEPT !.status = IF f = "aborted" THEN "aborted" ELSE "failed",
                                  !.usage = 1]
  <2>0. n > 0 /\ Last(r) \in Attempt /\ Last(r).validation = None BY <1>0, <1>8
  <2>1. /\ a \in Attempt /\ a.validation = None /\ a.status \in {"aborted", "failed"}
        /\ a.usage = 1
    BY <2>0 DEF Attempt, AttemptStatus
  <2>2. /\ q.to = "failed" /\ q.reason = "runFailed" /\ q.patch = n
        /\ q.attempt = a /\ q.usage = r.usage + 1 /\ q.active = NoWork
    BY <1>8 DEF buildRunFinishDecision, baseTransition, withAttempt, accountAttemptUsage
  <2> HIDE DEF a
  <2>3. isTerminal(q.to) /\ canTransitionGoalRun(r.status, q.to)
    BY <1>8, <2>2 DEF canTransitionGoalRun, GOAL_RUN_TRANSITIONS, isTerminal
  <2>4. QED BY <1>1, <1>2, <1>8, <2>1, <2>2, <2>3, MakesEnd DEF isInFlight
<1>9. ASSUME r.status = "evaluating", NEW x \in Verdicts, q = buildValidationDecision(r, x)
      PROVE  Makes(r, q)
  <2> DEFINE a == [Last(r) EXCEPT !.status = attemptStatusForOutcome(x), !.validation = x]
             reason == decideOutcome(r, x)
             s == buildNext(r, q)
  <2>0. n > 0 /\ Last(r) \in Attempt BY <1>0, <1>9
  <2>1. /\ attemptStatusForOutcome(x) \in {"passed", "aborted", "failed"}
        /\ x # "pass" => attemptStatusForOutcome(x) # "passed"
    BY DEF attemptStatusForOutcome
  <2>2. /\ a \in Attempt /\ a.validation = x /\ a.status = attemptStatusForOutcome(x)
        /\ a.usage = Last(r).usage
    BY <2>0, <2>1 DEF Attempt, AttemptStatus
  <2>3. /\ q.to = DecisionTo(reason) /\ q.reason = reason /\ q.patch = n
        /\ q.attempt = a /\ q.usage = r.usage /\ q.active = NoWork /\ q.seq = r.seq + 1
    BY <1>9 DEF buildValidationDecision, baseTransition, withAttempt
  <2>4. /\ reason \in {"validatorPassed", "nonRetryable", "infrastructure", "budget",
                       "attemptLimit", None}
        /\ reason = "validatorPassed" <=> x = "pass"
        /\ reason = "nonRetryable" => x \in {"fail", "failRetryable"}
        /\ reason = "infrastructure" => x \in {"error", "unavailable", "canceled"}
        /\ reason = None => n < MaximumAttempts
    BY <1>0, BoundsAssumption DEF decideOutcome, decideRetryOrExhaust, None, Verdicts
  <2>5. DecisionTo(reason) = IF reason = None THEN "retrying"
                             ELSE TERMINAL_STATUS_BY_REASON[reason]
    BY DEF DecisionTo
  <2> HIDE DEF a, reason
  <2>6. x # None BY DEF Verdicts, None
  <2>7. CASE reason # None
    <3>1. q.to \in {"succeeded", "failed", "exhausted"} /\ q.reason \in Reasons
          /\ TERMINAL_STATUS_BY_REASON[q.reason] = q.to
      BY <2>3, <2>4, <2>5, <2>7
    <3>2. isTerminal(q.to) /\ canTransitionGoalRun(r.status, q.to)
      BY <1>9, <3>1 DEF canTransitionGoalRun, GOAL_RUN_TRANSITIONS, isTerminal
    <3>3. q.to = "succeeded" <=> x = "pass" BY <2>3, <2>4, <2>5, <2>7
    <3>4. ~isInFlight(a) BY <2>1, <2>2 DEF isInFlight
    <3>5. n # 0 BY <2>0
    <3>6. QED
      BY <1>1, <1>9, <2>1, <2>2, <2>3, <2>4, <2>6, <3>1, <3>2, <3>3, <3>4, <3>5, MakesEnd
  <2>8. CASE reason = None
    <3>0. x # "pass" /\ n < MaximumAttempts /\ q.to = "retrying" /\ q.reason = None
      BY <2>3, <2>4, <2>5, <2>8 DEF None
    <3>1. /\ s.seq = q.seq /\ s.status = q.to /\ s.reason = q.reason
          /\ s.attempts = applyAttempt(r, q) /\ s.usage = q.usage /\ s.active = q.active
      BY <1>0, NextFields
    <3>2. s.attempts = [r.attempts EXCEPT ![n] = a]
      BY <1>0, <2>0, <2>3, <3>1 DEF applyAttempt
    <3>3. Sums(s, n) /\ Last(s) = a
      <4> HIDE DEF s
      <4>1. QED BY <1>9, <2>2, <2>3, <2>6, <3>1, <3>2, ReplacedSums
    <3>4. Growing(s) /\ isGoalState(s)
      <4>1. s.seq = 3 * n BY <1>0, <1>2, <1>9, <2>3, <3>1
      <4>2. n \in Nat BY <1>0
      <4>3. a.status \in {"failed", "aborted"} BY <2>1, <2>2, <3>0
      <4> HIDE DEF n
      <4>4. QED BY <1>3, <2>0, <2>3, <3>0, <3>1, <3>3, <4>1, <4>2, <4>3
    <3>5. canTransitionGoalRun(r.status, q.to) BY <1>0, <1>9, <3>0 DEF GoalRecords
    <3>6. q.patch <= n + 1 /\ ~DecisionLost(r, q)
      BY <1>0, <2>0, <2>2, <2>3, <2>6 DEF DecisionLost
    <3>7. QED BY <3>4, <3>5, <3>6 DEF Makes
  <2>9. QED BY <2>7, <2>8
<1>10. QED BY <1>4, <1>5, <1>6, <1>7, <1>8, <1>9 DEF Fits, Idle

LEMMA GrowingLasts ==
    ASSUME RecordOK(record), Growing(record), RecordMoves PROVE Growing(record')
<1>1. CASE record' = record BY <1>1
<1>2. CASE Marks
  <2>1. /\ record'.seq = record.seq /\ record'.status = record.status
        /\ record'.attempts = record.attempts
    BY <1>2, MarkEffect DEF Marks
  <2>2. Last(record') = Last(record) BY <2>1 DEF Last
  <2>3. QED BY <2>1, <2>2 DEF Growing
<1>3. ASSUME NEW v, NEW q, Commits(v, q) PROVE Growing(record')
  <2>1. /\ v.seq = record.seq /\ v.status = record.status
        /\ v.attempts = record.attempts /\ v.usage = record.usage
    BY <1>3, CommitEffect DEF Commits
  <2>2. Fits(record, q) BY <1>3, <2>1, SameFits DEF Commits
  <2>3. ~isTerminal(record.status) BY <1>3, AppliedChecks DEF Commits
  <2>4. Makes(record, q) BY <2>2, <2>3, WriteMakes
  <2>5. QED BY <1>3, <2>4 DEF Makes, Commits
<1>4. QED BY <1>1, <1>2, <1>3 DEF RecordMoves

\* What the store answers to a write that was built from what is stored.
LEMMA WriteAnswer ==
    ASSUME NEW r, RecordOK(r), Growing(r), ~isTerminal(r.status), r.restarts = 0,
           NEW q, Fits(r, q), q.to = "canceled" => r.cancellation,
           q.reason = "attemptLimit" => Len(r.attempts) >= MaximumAttempts
    PROVE  evaluateTransition(q, r) =
              IF r.cancellation /\ q.to # "canceled" THEN "cancellation-requested" ELSE "applied"
<1>1. /\ Len(r.attempts) \in Nat /\ Len(r.attempts) <= MaximumAttempts /\ r.seq \in Nat
      /\ r.status \in Idle \cup {"running", "evaluating"} /\ r.cancellation \in BOOLEAN
  BY InFlight
<1>2. r.seq <= 3 * Len(r.attempts) BY <1>1 DEF Growing
<1>3. ~AuditLogFull(r) BY <1>1, <1>2, BoundsAssumption DEF AuditLogFull
<1>4. q.seq = r.seq + 1 BY FitsCases
<1>5. q.seq # r.seq /\ r.seq = q.seq - 1 BY <1>1, <1>4
<1>6. Makes(r, q) BY WriteMakes
<1>7. q.patch \in Nat BY FitsCases DEF Requests
<1>8. ~(q.patch > Len(r.attempts) + 1) BY <1>1, <1>6, <1>7 DEF Makes
<1>9. CASE r.cancellation /\ q.to # "canceled"
  BY <1>3, <1>5, <1>9, Zenon DEF evaluateTransition
<1>10. CASE ~(r.cancellation /\ q.to # "canceled")
  <2>1. isGoalState(buildNext(r, q)) BY <1>6, <1>10 DEF Makes
  <2>2. canTransitionGoalRun(r.status, q.to) /\ ~DecisionLost(r, q) BY <1>6 DEF Makes
  <2>3. QED BY <1>3, <1>5, <1>8, <1>10, <2>1, <2>2, Zenon DEF evaluateTransition
<1>11. QED BY <1>9, <1>10

-----------------------------------------------------------------------------
(* What the controller knows when it writes, and when it may be refused.   *)

Finishing(r, e) == r.cancellation \/ isTerminal(r.status) \/ e

Writing == {"abort", "abortRun", "commit", "committed"}
Working == {"start", "wait", "validate", "reread"}

\* What instance c knows of the record r.  Nobody but a cancellation has written since
\* it read it, until its own write is in.
Knows(c, r) ==
    /\ c.view.cancellation =>
          /\ r.cancellation
          /\ r.seq = c.view.seq \/ (r.status = "canceled" /\ r.seq = c.view.seq + 1)
    /\ c.pc \notin {"load", "commit", "committed"} => UpToDate(c.view, r)
    /\ c.pc \in {"commit", "committed"} =>
          UpToDate(c.view, r) \/ (r.seq = c.request.seq /\ r.status = c.request.to)
    /\ c.pc \in Writing =>
          /\ ~isTerminal(c.view.status)
          /\ c.request.reason = "goalCanceled" => c.view.cancellation
          /\ c.request.reason = "attemptLimit" => Len(c.view.attempts) >= MaximumAttempts

\* An iteration commits nothing, and a write is refused, at most once in a row: then
\* the goal is about to be over, and the next iteration ends it.
Steers(c, r, e) ==
    /\ c.status # "failed"
    /\ c.status = "completed" => isTerminal(r.status)
    /\ c.idles <= 1 /\ c.refusals <= 1
    /\ c.pc \in {"abort", "abortRun"} => Finishing(r, e)
    /\ c.idles = 1 => Finishing(r, e) /\ c.pc \in Writing \cup {"load"}
    /\ c.refusals = 1 =>
          \/ c.pc = "load" /\ (r.cancellation \/ isTerminal(r.status))
          \/ c.pc \in Writing /\ c.request.reason = "goalCanceled"
    /\ c.pc = "committed" =>
          \/ c.answer \in {"applied", "duplicate"}
          \/ /\ c.answer \in {"cancellation-requested", "stale"} /\ c.refusals = 0
             /\ r.cancellation \/ isTerminal(r.status)

\* Every try but the one under way has timed out, of n timeouts; that one has not.
Tries(c, n, t) ==
    c.pc = "start" =>
       /\ c.tries <= n + (IF c.slot = None THEN 0 ELSE 1)
       /\ c.slot # None => ~t[c.slot].timedOut

Guides(c, r, e, n, t) == Knows(c, r) /\ Steers(c, r, e) /\ Tries(c, n, t)

\* No host restarts an instance, nor takes it for one that ended early, unless the
\* goal is over.
HostWaits(c, r) ==
    c.why \in {"overtaken", "orphan", "count"} \/ c.pc = "count" => isTerminal(r.status)

Patience ==
    /\ record.restarts = 0
    /\ Guides(ctl, record, elapsed, used.timeouts, start)
    /\ \A h \in Hosts : HostWaits(host[h], record)
    /\ \A i \in Attempts : claim[i] = "tombstoned" => goalIsOver(TRUE)
    /\ \A s \in Starts : start[s].pc \in {"undo", "undoRun"} => goalIsOver(TRUE)
    /\ finalizer.pc # None => record.cancellation
    /\ cancelSig = "full" => record.cancellation

-----------------------------------------------------------------------------
(* What an instance knows stays true while others write.                   *)

\* Only an instance writes anything but a cancellation.
LEMMA OthersCancel ==
    ASSUME IInv, [Next]_vars, ~commitTransition
    PROVE  record'.seq = record.seq \/ record'.status = "canceled"
<1> SUFFICES ASSUME record'.seq # record.seq, record'.status # "canceled" PROVE FALSE
  OBVIOUS
<1>0. RecordOK(record) BY DEF IInv, TypeInv
<1>1. ASSUME NEW h \in Hosts, recordControllerRestart(h) \/ requestCancellationOf(h)
      PROVE  FALSE
  <2>1. Marks \/ record' = record
    BY <1>1 DEF recordControllerRestart, requestCancellationOf, Marks, MayCountRestart
  <2>2. record'.seq = record.seq BY <1>0, <2>1, MarkEffect DEF Marks
  <2>3. QED BY <2>2
<1>2. ASSUME NEW h \in Hosts, commitCancellation(h) PROVE FALSE
  <2> DEFINE w == host[h].rec
             q == buildGoalForcedFinish(w, "goalCanceled")
  <2>1. Agrees(w, record) BY DEF IInv, ReaderInv
  <2>2. Fits(w, q) BY DEF Fits
  <2>3. record' = applyTransition(q, record)
    BY <1>2 DEF commitCancellation
  <2>4. evaluateTransition(q, record) = "applied" /\ record' = buildNext(record, q)
    BY <2>3 DEF applyTransition
  <2>5. q.to = "canceled" BY ForcedRequest, ReasonTable
  <2> HIDE DEF q
  <2>6. record'.status = q.to BY <1>0, <2>1, <2>2, <2>4, CommitEffect
  <2>7. QED BY <2>5, <2>6
<1>3. record' # record OBVIOUS
<1>4. QED BY <1>1, <1>2, <1>3, RecordAlone

LEMMA OverStays ==
    ASSUME RecordOK(record), RecordMoves
    PROVE  /\ isTerminal(record.status) => record' = record
           /\ record.cancellation => record'.cancellation
           /\ record'.seq \in {record.seq, record.seq + 1}
<1>1. CASE record' = record BY <1>1
<1>2. CASE Marks
  <2>1. isTerminal(record.status) => record' = record
    BY <1>2 DEF Marks, MayCountRestart, requestCancellation
  <2>2. record'.seq = record.seq BY <1>2, MarkEffect DEF Marks
  <2>3. QED BY <2>1, <2>2, MarkerStays
<1>3. ASSUME NEW v, NEW q, Commits(v, q)
      PROVE  ~isTerminal(record.status) /\ record'.seq = record.seq + 1
  BY <1>3, AppliedChecks, CommitEffect DEF Commits
<1>4. QED BY <1>1, <1>2, <1>3, MarkerStays DEF RecordMoves

LEMMA GuidesLasts ==
    ASSUME RecordOK(record), RecordMoves, elapsed => elapsed',
           record'.seq = record.seq \/ record'.status = "canceled",
           NEW c, NEW n \in Nat, NEW m \in Nat, NEW t, Guides(c, record, elapsed, n, t),
           m >= n, c.tries \in Nat
    PROVE  Guides(c, record', elapsed', m, t)
<1>1. /\ isTerminal(record.status) => record' = record
      /\ record.cancellation => record'.cancellation
      /\ record'.seq \in {record.seq, record.seq + 1}
      /\ record'.seq = record.seq => record'.status = record.status
      /\ record.status = "canceled" => record' = record
  BY OverStays, RecordGoesForward DEF isTerminal
<1>2. UpToDate(c.view, record) => UpToDate(c.view, record') BY <1>1 DEF UpToDate
<1>3. Knows(c, record')
  <2>1. c.view.cancellation =>
           /\ record'.cancellation
           /\ record'.seq = c.view.seq
              \/ (record'.status = "canceled" /\ record'.seq = c.view.seq + 1)
    BY <1>1 DEF Guides, Knows
  <2>2. c.pc \in {"commit", "committed"} =>
           \/ UpToDate(c.view, record')
           \/ record'.seq = c.request.seq /\ record'.status = c.request.to
    BY <1>1, <1>2 DEF Guides, Knows, UpToDate
  <2>3. QED BY <1>2, <2>1, <2>2 DEF Guides, Knows
<1>4. Finishing(record, elapsed) => Finishing(record', elapsed') BY <1>1 DEF Finishing
<1>5. Steers(c, record', elapsed')
  BY <1>1, <1>4 DEF Guides, Steers
<1>6. Tries(c, m, t) BY DEF Guides, Tries
<1>7. QED BY <1>3, <1>5, <1>6 DEF Guides

-----------------------------------------------------------------------------
(* The next state of an instance.                                          *)

\* The controller may commit nothing once, and be refused once, without failing.
SecondChance == MaxIdleWakes >= 2 /\ MaxRefusals >= 2

\* An instance at the head of its loop, or one that is over.
LEMMA FreshGuides ==
    ASSUME NEW c, Fresh(c), NEW r, NEW e, NEW n, NEW t,
           c.status # "failed", c.status = "completed" => isTerminal(r.status),
           c.idles <= 1, c.refusals <= 1, c.idles = 1 => Finishing(r, e),
           c.refusals = 1 => r.cancellation \/ isTerminal(r.status)
    PROVE  Guides(c, r, e, n, t)
<1>1. c.pc = "load" /\ ~c.view.cancellation BY DEF Fresh, createGoalState
<1>2. QED BY <1>1 DEF Guides, Knows, Steers, Tries, Writing

LEMMA OverGuides ==
    ASSUME NEW c \in Controllers, NEW r, NEW e, NEW n, NEW t,
           NEW st \in {"completed", "cancelled"}, st = "completed" => isTerminal(r.status)
    PROVE  Guides(Over(c, st), r, e, n, t)
<1>1. Fresh(Over(c, st)) /\ Over(c, st).status = st
  BY OverIsFresh DEF ControllerTerminal
<1>2. Over(c, st).idles = 0 /\ Over(c, st).refusals = 0 BY DEF Over, NewController
<1>3. QED BY <1>1, <1>2, FreshGuides

LEMMA ToLoadGuides ==
    ASSUME NEW c \in Controllers, NEW r, NEW e, NEW n, NEW t,
           NEW i \in {0, 1}, NEW k \in {0, 1}, i = 1 => Finishing(r, e),
           k = 1 => r.cancellation \/ isTerminal(r.status)
    PROVE  Guides(ToLoad(c, i, k), r, e, n, t)
<1>1. Fresh(ToLoad(c, i, k)) BY ToLoadIsFresh
<1>2. /\ ToLoad(c, i, k).idles = i /\ ToLoad(c, i, k).refusals = k
      /\ ToLoad(c, i, k).status = "running"
  BY DEF ToLoad, NewController
<1>3. QED BY <1>1, <1>2, FreshGuides

\* An instance at work has not idled, nor been refused, in this iteration or the last.
LEMMA AtWork ==
    ASSUME NEW c \in Controllers, NEW r, NEW e, Steers(c, r, e), c.pc \in Working
    PROVE  c.idles = 0 /\ c.refusals = 0 /\ c.status # "failed"
           /\ (c.status = "completed" => isTerminal(r.status))
<1>1. c.idles \in Nat /\ c.refusals \in Nat BY DEF Controllers
<1>2. c.idles # 1 /\ c.refusals # 1 BY DEF Steers, Working, Writing
<1>3. QED BY <1>1, <1>2 DEF Steers

LEMMA WorkOn ==
    ASSUME NEW c \in Controllers, NEW r, NEW e, NEW n, NEW t, Guides(c, r, e, n, t),
           c.pc \in Working, NEW d, d.pc \in Working \ {"start"}, d.view = c.view,
           d.status = c.status, d.idles = c.idles, d.refusals = c.refusals, NEW m, NEW u
    PROVE  Guides(d, r, e, m, u)
<1>1. d.idles = 0 /\ d.refusals = 0 /\ d.status # "failed"
      /\ (d.status = "completed" => isTerminal(r.status))
  BY AtWork DEF Guides
<1>2. UpToDate(c.view, r) BY DEF Guides, Knows, Working
<1>3. Knows(d, r) BY <1>2 DEF Guides, Knows, Working, Writing
<1>4. Steers(d, r, e) BY <1>1 DEF Steers, Working
<1>5. Tries(d, m, u) BY DEF Tries
<1>6. QED BY <1>3, <1>4, <1>5 DEF Guides

LEMMA WakeIdle ==
    ASSUME SecondChance, NEW c \in Controllers, NEW r, NEW e, NEW n, NEW t, Guides(c, r, e, n, t),
           c.pc \in Working, Finishing(r, e), NEW m, NEW u
    PROVE  Guides(IdleWake(c), r, e, m, u)
<1>1. c.idles = 0 /\ c.refusals = 0 BY AtWork DEF Guides
<1>2. IdleWake(c) = ToLoad(c, 1, 0)
  BY <1>1, GoalRunAssumption DEF IdleWake, SecondChance
<1>3. QED BY <1>2, ToLoadGuides

LEMMA AskWrite ==
    ASSUME NEW c \in Controllers, NEW r, NEW e, NEW n, NEW t, Guides(c, r, e, n, t),
           c.pc \in Working, ~isTerminal(c.view.status), NEW q, q.reason # "goalCanceled",
           q.reason = "attemptLimit" => Len(c.view.attempts) >= MaximumAttempts,
           NEW d, d.pc = "commit", d.view = c.view, d.request = q, d.status = c.status,
           d.idles = c.idles, d.refusals = c.refusals, NEW m, NEW u
    PROVE  Guides(d, r, e, m, u)
<1>1. d.idles = 0 /\ d.refusals = 0 /\ d.status # "failed"
      /\ (d.status = "completed" => isTerminal(r.status))
  BY AtWork DEF Guides
<1>2. UpToDate(c.view, r) BY DEF Guides, Knows, Working
<1>3. Knows(d, r) BY <1>2 DEF Guides, Knows, Working, Writing
<1>4. Steers(d, r, e) BY <1>1 DEF Steers, Working
<1>5. Tries(d, m, u) BY DEF Tries
<1>6. QED BY <1>3, <1>4, <1>5 DEF Guides

LEMMA ForceWrite ==
    ASSUME NEW c \in Controllers, NEW r, RecordOK(r), ~isTerminal(r.status), NEW e,
           c.pc = "load" \/ c.pc \in Working, Steers(c, r, e),
           NEW reason \in {"goalCanceled", "budget"}, Finishing(r, e),
           reason = "goalCanceled" <=> r.cancellation,
           NEW c2 \in Controllers, c2.status = c.status, c2.idles = c.idles,
           c2.refusals = c.refusals, NEW d, d = ToForced(c2, r, reason), NEW m, NEW u
    PROVE  Guides(d, r, e, m, u)
<1>0. r \in GoalRecords BY DEF RecordOK
<1>1. /\ d.pc = "abort" /\ d.view = r /\ d.request = buildGoalForcedFinish(r, reason)
      /\ d.status = c.status /\ d.idles = c.idles /\ d.refusals = c.refusals
  BY <1>0 DEF ToForced, Controllers
<1>2. d.request.reason = reason BY <1>1, ForcedRequest
<1>3. Knows(d, r) BY <1>1, <1>2 DEF Knows, UpToDate, Writing
<1>4. d.refusals = 1 => reason = "goalCanceled"
  <2>1. c.pc \in Working => c.refusals = 0 BY AtWork
  <2>2. c.pc = "load" /\ c.refusals = 1 => r.cancellation BY DEF Steers, Writing
  <2>3. QED BY <1>1, <2>1, <2>2
<1>5. Steers(d, r, e) BY <1>1, <1>2, <1>4 DEF Steers, Writing
<1>6. Tries(d, m, u) BY <1>1 DEF Tries
<1>7. QED BY <1>3, <1>5, <1>6 DEF Guides

LEMMA LoadGuides ==
    ASSUME RecordOK(record), ctl \in Controllers, NEW n \in Nat,
           Guides(ctl, record, elapsed, n, start), loadGoalState
    PROVE  Guides(ctl', record, elapsed, n, start')
<1>0. Steers(ctl, record, elapsed) /\ ctl.pc = "load" /\ record \in GoalRecords
  BY DEF Guides, loadGoalState, Running, RecordOK
<1>1. CASE isTerminal(record.status)
  BY <1>1, OverGuides DEF loadGoalState
<1>2. CASE ~isTerminal(record.status)
  <2> DEFINE c == [ctl EXCEPT !.view = record, !.staged = attemptToStop(record)]
  <2>1. ctl' = advance(c, record) BY <1>2 DEF loadGoalState
  <2>2. attemptToStop(record) \in Nat BY LastAttempt DEF attemptToStop
  <2>3. /\ c \in Controllers /\ c.view = record /\ c.status = ctl.status
        /\ c.idles = ctl.idles /\ c.refusals = ctl.refusals
    BY <1>0, <2>2 DEF Controllers
  <2>4. /\ Len(record.attempts) \in Nat /\ MaximumAttempts \in Nat \ {0}
        /\ record.status \in Idle => Len(record.attempts) < MaximumAttempts
        /\ record.status \in Idle \cup {"running", "evaluating"}
    <3>1. record.status \in Idle \cup {"running", "evaluating"} BY <1>2, InFlight
    <3>2. /\ Len(record.attempts) \in Nat /\ MaximumAttempts \in Nat \ {0}
          /\ record.status = "pending" => Len(record.attempts) = 0
          /\ record.status = "retrying" => Len(record.attempts) < MaximumAttempts
      BY LastAttempt, BoundsAssumption
    <3>3. QED BY <3>1, <3>2 DEF Idle
  <2> HIDE DEF c
  <2>5. CASE record.cancellation
    <3>1. ctl' = ToForced(c, record, "goalCanceled") BY <2>1, <2>5 DEF advance
    <3>2. QED BY <1>0, <1>2, <2>3, <2>5, <3>1, ForceWrite DEF Finishing
  <2>6. CASE ~record.cancellation /\ elapsed
    <3>1. ctl' = ToForced(c, record, "budget") BY <2>1, <2>6 DEF advance
    <3>2. QED BY <1>0, <1>2, <2>3, <2>6, <3>1, ForceWrite DEF Finishing
  <2>7. CASE ~record.cancellation /\ ~elapsed
    <3>0. ctl.idles = 0 /\ ctl.refusals = 0
      <4>1. ctl.idles # 1 /\ ctl.refusals # 1
        BY <1>0, <1>2, <2>7 DEF Steers, Finishing, Writing
      <4>2. ctl.idles \in Nat /\ ctl.refusals \in Nat BY DEF Controllers
      <4>3. QED BY <1>0, <4>1, <4>2 DEF Steers
    <3>1. /\ ctl'.pc \in {"wait", "validate", "start"} /\ ctl'.view = record
          /\ ctl'.status = ctl.status /\ ctl'.idles = 0 /\ ctl'.refusals = 0
          /\ ctl'.pc = "start" => ctl'.slot = None /\ ctl'.tries = 0
      <4>1. CASE record.status = "running"
        <5>1. ctl' = [c EXCEPT !.pc = "wait"] BY <2>1, <2>7, <4>1 DEF advance
        <5>2. QED BY <2>3, <3>0, <5>1 DEF Controllers
      <4>2. CASE record.status = "evaluating"
        <5>1. ctl' = [c EXCEPT !.pc = "validate"] BY <2>1, <2>7, <4>2 DEF advance
        <5>2. QED BY <2>3, <3>0, <5>1 DEF Controllers
      <4>3. CASE record.status \in Idle
        <5>1. ~(Len(record.attempts) >= MaximumAttempts) BY <2>4, <4>3
        <5>2. ctl' = [c EXCEPT !.pc = "start", !.slot = None, !.tries = 0]
          BY <2>1, <2>7, <4>3, <5>1 DEF advance, Idle
        <5>3. QED BY <2>3, <3>0, <5>2 DEF Controllers
      <4>4. QED BY <2>4, <4>1, <4>2, <4>3
    <3>2. Knows(ctl', record) BY <2>7, <3>1 DEF Knows, UpToDate, Writing
    <3>3. Steers(ctl', record, elapsed) BY <1>0, <3>1 DEF Steers, Writing
    <3>4. Tries(ctl', n, start') BY <3>1 DEF Tries
    <3>5. QED BY <3>2, <3>3, <3>4 DEF Guides
  <2>8. QED BY <2>5, <2>6, <2>7
<1>3. QED BY <1>1, <1>2

\* The answers that lead to a write of an ending by the bound on attempts.
LEMMA AnsweredLimit ==
    ASSUME NEW c \in Controllers, NEW r, ControllerInv(c, r), c.pc = "reread",
           r.seq = c.view.seq, NEW q, q = AnswerCommit(r, c.pending), q.reason = "attemptLimit"
    PROVE  Len(c.view.attempts) >= MaximumAttempts
<1>1. r.attempts = c.view.attempts BY DEF ControllerInv, Agrees
<1>2. c.pending \in Finishes \cup Verdicts \cup {"startFailed"} BY DEF ControllerInv
<1>3. c.pending \in Verdicts
  BY <1>2 DEF AnswerCommit, buildStartFailure, buildEvaluationStarted, buildRunFinishDecision,
     baseTransition, withAttempt, Finishes, None
<1>4. q.reason = decideOutcome(r, c.pending)
  BY <1>3 DEF AnswerCommit, Verdicts, buildValidationDecision, baseTransition, withAttempt
<1>5. QED BY <1>1, <1>4 DEF decideOutcome, decideRetryOrExhaust, None

LEMMA RereadGuides ==
    ASSUME SecondChance, RecordOK(record), ctl \in Controllers, ControllerInv(ctl, record),
           NEW n, Guides(ctl, record, elapsed, n, start), Reread
    PROVE  Guides(ctl', record, elapsed, n, start')
<1>0. /\ ctl.pc = "reread" /\ ctl.pc \in Working /\ UpToDate(ctl.view, record)
      /\ Knows(ctl, record) /\ Steers(ctl, record, elapsed)
  BY DEF Reread, Running, Guides, Knows, Working
<1>1. CASE Overtaken(record) /\ ctl' = IdleWake(ctl)
  <2>1. Finishing(record, elapsed)
    <3>1. record.status = "canceled" => Finishing(record, elapsed)
      BY DEF Finishing, isTerminal
    <3>2. record.seq = ctl.view.seq => record.status = ctl.view.status
      BY DEF ControllerInv, Agrees
    <3>3. QED BY <1>0, <1>1, <3>1, <3>2 DEF Overtaken, UpToDate, Finishing
  <2>2. QED BY <1>0, <1>1, <2>1, WakeIdle
<1>2. CASE ~Overtaken(record) /\ elapsed /\ ctl' = IdleWake(ctl)
  BY <1>0, <1>2, WakeIdle DEF Finishing
<1>3. CASE ~Overtaken(record) /\ elapsed /\ ctl' = ToForced(ctl, record, "budget")
  <2>1. ~isTerminal(record.status)
    BY <1>0, <1>3 DEF Overtaken, ControllerInv, isTerminal
  <2>2. QED BY <1>0, <1>3, <2>1, ForceWrite DEF Overtaken, Finishing
<1>4. CASE ~Overtaken(record) /\ ctl' = ToCommit(ctl, AnswerCommit(record, ctl.pending))
  <2> DEFINE q == AnswerCommit(record, ctl.pending)
  <2>1. record.seq = ctl.view.seq BY <1>4 DEF Overtaken
  <2>2. /\ q.reason # "goalCanceled"
        /\ ctl.view.status \in {"running", "evaluating"} \cup Idle
    BY <1>0, <2>1, AnsweredRequest
  <2>3. q.reason = "attemptLimit" => Len(ctl.view.attempts) >= MaximumAttempts
    BY <1>0, <2>1, AnsweredLimit
  <2>4. /\ ctl'.pc = "commit" /\ ctl'.view = ctl.view /\ ctl'.request = q
        /\ ctl'.status = ctl.status /\ ctl'.idles = ctl.idles /\ ctl'.refusals = ctl.refusals
    BY <1>4 DEF ToCommit, Checkpointed, Controllers
  <2>5. ~isTerminal(ctl.view.status) BY <2>2 DEF isTerminal, Idle
  <2> HIDE DEF q
  <2>6. QED BY <1>0, <2>2, <2>3, <2>4, <2>5, AskWrite
<1>5. QED BY <1>1, <1>2, <1>3, <1>4 DEF Reread

LEMMA TimeoutGuides ==
    ASSUME ctl \in Controllers, UsedType, TryTimesOut, used'.timeouts < MaxTries,
           Guides(ctl, record, elapsed, used.timeouts, start)
    PROVE  Guides(ctl', record, elapsed, used'.timeouts, start')
<1>1. /\ ctl.pc = "start" /\ ctl.slot # None
      /\ used' = [used EXCEPT !.timeouts = @ + 1]
  BY DEF TryTimesOut, Running
<1>2. used'.timeouts = used.timeouts + 1 /\ used.timeouts \in Nat
  BY <1>1 DEF UsedType
<1>3. ctl.tries <= used.timeouts + 1 BY <1>1 DEF Guides, Tries
<1>4. ctl.tries < MaxTries /\ ctl.tries <= used'.timeouts
  BY <1>2, <1>3, GoalRunAssumption DEF Controllers
<1>5. ctl' = [ctl EXCEPT !.slot = None] BY <1>4 DEF TryTimesOut
<1>6. /\ ctl'.pc = "start" /\ ctl'.view = ctl.view /\ ctl'.status = ctl.status
      /\ ctl'.idles = ctl.idles /\ ctl'.refusals = ctl.refusals
      /\ ctl'.slot = None /\ ctl'.tries = ctl.tries
  BY <1>1, <1>5 DEF Controllers
<1>7. Knows(ctl', record) BY <1>1, <1>6 DEF Guides, Knows, Writing
<1>8. Steers(ctl', record, elapsed) BY <1>1, <1>6 DEF Guides, Steers, Writing
<1>9. ctl.tries \in Nat /\ used.timeouts \in Nat BY <1>2 DEF Controllers
<1>10. Tries(ctl', used'.timeouts, start') BY <1>2, <1>4, <1>6, <1>9 DEF Tries
<1>11. QED BY <1>7, <1>8, <1>10 DEF Guides

\* Every step of the controller but the write itself.
LEMMA ControllerGuides ==
    ASSUME SecondChance, IInv, UsedType, Patience, Controller, ~commitTransition
    PROVE  Guides(ctl', record, elapsed, used.timeouts, start')
<1>0. /\ RecordOK(record) /\ ctl \in Controllers /\ ControllerInv(ctl, record)
      /\ Guides(ctl, record, elapsed, used.timeouts, start) /\ used.timeouts \in Nat
      /\ Knows(ctl, record) /\ Steers(ctl, record, elapsed)
      /\ start \in [Starts -> StartCalls]
  BY DEF IInv, TypeInv, ReaderInv, Patience, UsedType, Guides
<1> DEFINE Goal == Guides(ctl', record, elapsed, used.timeouts, start')
<1>1. CASE loadGoalState BY <1>0, <1>1, LoadGuides
<1>2. ASSUME ctl.pc \in Writing, ctl'.pc \in Writing, ctl'.view = ctl.view,
             ctl'.request = ctl.request, ctl'.status = ctl.status, ctl'.idles = ctl.idles,
             ctl'.refusals = ctl.refusals,
             \/ ctl.pc = "abort" /\ ctl'.pc = "abortRun"
             \/ ctl.pc = "abortRun" /\ ctl'.pc = "commit"
      PROVE  Goal
  <2>1. Knows(ctl', record) BY <1>0, <1>2 DEF Knows
  <2>2. Steers(ctl', record, elapsed) BY <1>0, <1>2 DEF Steers, Writing
  <2>3. Tries(ctl', used.timeouts, start') BY <1>2 DEF Tries, Writing
  <2>4. QED BY <2>1, <2>2, <2>3 DEF Guides
<1>3. CASE ControllerFences
  <2>1. /\ ctl.pc = "abort" /\ ctl'.pc = "abortRun" /\ ctl'.view = ctl.view
        /\ ctl'.request = ctl.request /\ ctl'.status = ctl.status /\ ctl'.idles = ctl.idles
        /\ ctl'.refusals = ctl.refusals
    BY <1>0, <1>3 DEF ControllerFences, Running, Controllers
  <2>2. QED BY <1>2, <2>1 DEF Writing
<1>4. CASE ControllerStops
  <2>1. /\ ctl.pc = "abortRun" /\ ctl'.pc = "commit" /\ ctl'.view = ctl.view
        /\ ctl'.request = ctl.request /\ ctl'.status = ctl.status /\ ctl'.idles = ctl.idles
        /\ ctl'.refusals = ctl.refusals
    BY <1>0, <1>4 DEF ControllerStops, Running, Checkpointed, Controllers
  <2>2. QED BY <1>2, <2>1 DEF Writing
<1>5. CASE CommitRecorded
  <2>0. ctl.pc = "committed" /\ ctl' = AfterCommit(ctl) BY <1>5 DEF CommitRecorded, Running
  <2>1. CASE ctl.answer \in {"applied", "duplicate"}
    <3>1. ctl' = ToLoad(ctl, 0, 0) BY <2>0, <2>1 DEF AfterCommit
    <3>2. QED BY <1>0, <3>1, ToLoadGuides
  <2>2. CASE ctl.answer \notin {"applied", "duplicate"}
    <3>1. /\ ctl.answer \in {"cancellation-requested", "stale"} /\ ctl.refusals = 0
          /\ record.cancellation \/ isTerminal(record.status)
      BY <1>0, <2>0, <2>2 DEF Steers
    <3>2. ctl' = ToLoad(ctl, 0, 1)
      BY <2>0, <2>2, <3>1, GoalRunAssumption
         DEF AfterCommit, SecondChance, ADOPTABLE_REJECTIONS
    <3>3. QED BY <1>0, <3>1, <3>2, ToLoadGuides
  <2>3. QED BY <2>1, <2>2
<1>6. ASSUME NEW s \in Starts, TryStart(s) PROVE Goal
  <2>1. /\ ctl.pc = "start" /\ ctl.slot = None /\ ctl' = [ctl EXCEPT !.slot = s, !.tries = @ + 1]
    BY <1>6 DEF TryStart, Running
  <2>2. /\ ctl'.pc = "start" /\ ctl'.view = ctl.view /\ ctl'.status = ctl.status
        /\ ctl'.idles = ctl.idles /\ ctl'.refusals = ctl.refusals
        /\ ctl'.slot = s /\ ctl'.tries = ctl.tries + 1 /\ ctl.tries \in Nat
    BY <1>0, <2>1 DEF Controllers
  <2>3. ctl.tries <= used.timeouts BY <1>0, <2>1 DEF Guides, Tries
  <2>4. ~start'[s].timedOut BY <1>0, <1>6 DEF TryStart
  <2>5. Knows(ctl', record) BY <1>0, <2>1, <2>2 DEF Knows, Writing
  <2>6. Steers(ctl', record, elapsed) BY <1>0, <2>1, <2>2 DEF Steers, Writing
  <2>7. Tries(ctl', used.timeouts, start')
    BY <1>0, <2>2, <2>3, <2>4, GoalRunAssumption DEF Tries
  <2>8. QED BY <2>5, <2>6, <2>7 DEF Guides
<1>7. ASSUME NEW x, ctl.pc \in Working, ctl' = [Checkpointed(ctl, "reread") EXCEPT !.pending = x]
      PROVE  Goal
  <2>1. /\ ctl'.pc = "reread" /\ ctl'.view = ctl.view /\ ctl'.status = ctl.status
        /\ ctl'.idles = ctl.idles /\ ctl'.refusals = ctl.refusals
    BY <1>0, <1>7 DEF Checkpointed, Controllers
  <2>2. QED BY <1>0, <1>7, <2>1, WorkOn DEF Working
<1>8. CASE AttemptWins
  BY <1>7, <1>8 DEF AttemptWins, Running, Working
<1>9. CASE CancelOrDeadlineWins
  <2>1. /\ ctl.pc = "wait" /\ ctl' = IdleWake(ctl) /\ (cancelSig = "full" \/ elapsed)
    BY <1>9 DEF CancelOrDeadlineWins, Running
  <2>2. Finishing(record, elapsed) BY <2>1 DEF Patience, Finishing
  <2>3. QED BY <1>0, <2>1, <2>2, WakeIdle DEF Working
<1>10. CASE runValidator
  <2>1. CASE elapsed /\ ctl' = IdleWake(ctl)
    BY <1>0, <1>10, <2>1, WakeIdle DEF Working, runValidator, Running, Finishing
  <2>2. QED BY <1>7, <1>10, <2>1 DEF runValidator, Running, Working
<1>11. CASE Reread BY <1>0, <1>11, RereadGuides
<1>12. QED
  BY <1>1, <1>3, <1>4, <1>5, <1>6, <1>8, <1>9, <1>10, <1>11 DEF Controller

\* The write: it is applied, or refused because the goal has been canceled.
LEMMA CommitGuides ==
    ASSUME IInv, Growing(record), Patience, commitTransition, NEW n,
           Guides(ctl, record, elapsed, n, start), RecordMoves
    PROVE  Guides(ctl', record', elapsed, n, start')
<1> DEFINE q == ctl.request
           v == ctl.view
           a == evaluateTransition(q, record)
<1>0. /\ RecordOK(record) /\ ctl \in Controllers /\ ControllerInv(ctl, record)
      /\ Knows(ctl, record) /\ Steers(ctl, record, elapsed) /\ record.restarts = 0
      /\ ctl.pc = "commit"
  BY DEF IInv, TypeInv, ReaderInv, Patience, Guides, commitTransition, Running
<1>1. /\ ctl' = [ctl EXCEPT !.pc = "committed", !.answer = a]
      /\ record' = applyTransition(q, record)
  BY DEF commitTransition
<1>2. /\ ctl'.pc = "committed" /\ ctl'.view = v /\ ctl'.request = q /\ ctl'.answer = a
      /\ ctl'.status = ctl.status /\ ctl'.idles = ctl.idles /\ ctl'.refusals = ctl.refusals
  BY <1>0, <1>1 DEF Controllers
<1>3. /\ RecordOK(v) /\ Agrees(v, record) /\ Fits(v, q) /\ ~isTerminal(v.status)
      /\ q.reason = "goalCanceled" => v.cancellation
      /\ q.reason = "attemptLimit" => Len(v.attempts) >= MaximumAttempts
  BY <1>0 DEF ControllerInv, Agrees, Knows, Writing
<1>4. q.seq = v.seq + 1 /\ (q.to = "canceled" <=> q.reason = "goalCanceled")
  <2>1. \/ Ends(v, q) \/ Opens(v, q) \/ StartFails(v, q) \/ Accounts(v, q) \/ Judges(v, q)
    BY <1>3, FitsCases
  <2>2. q.seq = v.seq + 1 BY <1>3, FitsCases
  <2>3. QED BY <2>1, <2>2 DEF Ends, Opens, StartFails, Accounts, Judges, None
<1>5. /\ isTerminal(record.status) => record' = record
      /\ record.cancellation => record'.cancellation
  BY <1>0, OverStays
<1>6. v.seq \in Nat /\ record.seq \in Nat BY <1>0, <1>3 DEF RecordOK, GoalRecords
<1> HIDE DEF q, v, a
\* What the answer can be.
<1>7. \/ a = "applied" /\ record' = buildNext(record, q)
      \/ a = "duplicate" /\ record' = record /\ record.seq = q.seq /\ record.status = q.to
      \/ /\ a \in {"cancellation-requested", "stale"} /\ record' = record
         /\ q.reason # "goalCanceled"
         /\ record.cancellation \/ isTerminal(record.status)
         /\ UpToDate(v, record)
  <2>1. CASE record.seq = q.seq /\ record.status = q.to
    BY <1>1, <2>1 DEF a, evaluateTransition, applyTransition
  <2>2. CASE record.seq = v.seq
    <3>1. v.status = record.status /\ v.attempts = record.attempts /\ v.usage = record.usage
      BY <1>3, <2>2 DEF Agrees
    <3>2. Fits(record, q) BY <1>3, <2>2, <3>1, SameFits
    <3>3. v.cancellation => record.cancellation BY <1>0 DEF Knows, v
    <3>4. /\ q.to = "canceled" => record.cancellation
          /\ q.reason = "attemptLimit" => Len(record.attempts) >= MaximumAttempts
      BY <1>3, <1>4, <3>1, <3>3
    <3>5. a = IF record.cancellation /\ q.to # "canceled" THEN "cancellation-requested"
              ELSE "applied"
      <4>1. ~isTerminal(record.status) BY <1>3, <3>1
      <4>2. QED BY <1>0, <3>2, <3>4, <4>1, WriteAnswer DEF a
    <3>6. record' = IF a = "applied" THEN buildNext(record, q) ELSE record
      BY <1>1 DEF applyTransition, a
    <3>7. UpToDate(v, record) BY <2>2 DEF UpToDate
    <3>8. QED BY <1>4, <3>5, <3>6, <3>7
  <2>3. CASE record.seq # v.seq /\ ~(record.seq = q.seq /\ record.status = q.to)
    <3>1. UpToDate(v, record) BY <1>0, <2>3 DEF Knows, q, v
    <3>2. record.status = "canceled" BY <2>3, <3>1 DEF UpToDate
    <3>3. q.reason # "goalCanceled"
      <4>1. v.cancellation => record.seq = v.seq + 1 BY <1>0, <2>3 DEF Knows, v
      <4>2. QED BY <1>3, <1>4, <2>3, <3>2, <4>1
    <3>4. a = "stale"
      <4>1. q.seq = record.seq => q.to # record.status BY <2>3
      <4>2. q.seq # record.seq => record.seq # q.seq - 1 BY <1>4, <1>6, <2>3
      <4>3. QED BY <4>1, <4>2 DEF a, evaluateTransition
    <3>5. record' = record BY <1>1, <3>4 DEF applyTransition, a
    <3>6. isTerminal(record.status) BY <3>2 DEF isTerminal
    <3>7. QED BY <3>1, <3>3, <3>4, <3>5, <3>6
  <2>4. QED BY <2>1, <2>2, <2>3
<1>8. a = "applied" => /\ record'.seq = q.seq /\ record'.status = q.to /\ record.seq = v.seq
                       /\ record.cancellation => q.to = "canceled"
  <2>1. ASSUME a = "applied" PROVE record'.seq = q.seq /\ record'.status = q.to
    BY <1>0, <1>7, <2>1, NextFields DEF RecordOK
  <2>2. ASSUME a = "applied"
        PROVE  record.seq = v.seq /\ (record.cancellation => q.to = "canceled")
    BY <1>4, <1>6, <2>2, AppliedChecks DEF a
  <2>3. QED BY <2>1, <2>2
<1>9. Knows(ctl', record')
  <2>1. v.cancellation =>
           /\ record'.cancellation
           /\ record'.seq = v.seq \/ (record'.status = "canceled" /\ record'.seq = v.seq + 1)
    <3>1. v.cancellation =>
             /\ record.cancellation
             /\ record.seq = v.seq \/ (record.status = "canceled" /\ record.seq = v.seq + 1)
      BY <1>0 DEF Knows, v
    <3>2. QED BY <1>4, <1>5, <1>7, <1>8, <3>1
  <2>2. UpToDate(v, record') \/ (record'.seq = q.seq /\ record'.status = q.to)
    BY <1>7, <1>8
  <2>3. QED BY <1>2, <1>3, <2>1, <2>2 DEF Knows, Writing
<1>10. Steers(ctl', record', elapsed)
  <2>1. ctl.refusals = 1 => q.reason = "goalCanceled" BY <1>0 DEF Steers, q
  <2>2. ctl.refusals \in Nat /\ ctl.refusals <= 1 BY <1>0 DEF Controllers, Steers
  <2>3. Finishing(record, elapsed) => Finishing(record', elapsed)
    BY <1>5 DEF Finishing
  <2>4. \/ a \in {"applied", "duplicate"}
        \/ /\ a \in {"cancellation-requested", "stale"} /\ ctl.refusals = 0
           /\ record'.cancellation \/ isTerminal(record'.status)
    BY <1>7, <2>1, <2>2
  <2>5. ctl.status = "completed" => isTerminal(record'.status) BY <1>0, <1>5 DEF Steers
  <2>6. QED BY <1>0, <1>2, <2>1, <2>2, <2>3, <2>4, <2>5 DEF Steers, Writing
<1>11. Tries(ctl', n, start') BY <1>2 DEF Tries
<1>12. QED BY <1>9, <1>10, <1>11 DEF Guides

\* A start that answers the instance that waits for it, or leaves it alone.
LEMMA AnswerGuides ==
    ASSUME SecondChance, IInv, Patience, NEW s \in Starts, NEW a, Answer(s, a), NEW n,
           Guides(ctl, record, elapsed, n, start),
           ctl.pc = "start" /\ ctl.slot = s /\ a = "stood-down" => Finishing(record, elapsed)
    PROVE  Guides(ctl', record, elapsed, n, start')
<1>0. /\ RecordOK(record) /\ ctl \in Controllers /\ ControllerInv(ctl, record)
      /\ start \in [Starts -> StartCalls]
  BY DEF IInv, TypeInv, ReaderInv
<1>1. CASE ~(Running("start") /\ ctl.slot = s)
  <2>1. ctl' = ctl /\ start' = [start EXCEPT ![s] = NoStart] BY <1>1 DEF Answer
  <2>2. ctl.slot \in Starts \cup {None} BY <1>0 DEF Controllers
  <2>3. Tries(ctl, n, start') BY <1>0, <2>1, <2>2 DEF Guides, Tries, NoStart
  <2>4. QED BY <2>1, <2>3 DEF Guides
<1>2. CASE Running("start") /\ ctl.slot = s
  <2>0. ctl.pc = "start" /\ ctl.pc \in Working /\ ~isTerminal(ctl.view.status)
    BY <1>0, <1>2 DEF Running, Working, ControllerInv, isTerminal
  <2>1. CASE a = "stood-down"
    <3>1. ctl' = IdleWake(ctl) BY <1>2, <2>1 DEF Answer
    <3>2. QED BY <1>0, <1>2, <2>0, <2>1, <3>1, WakeIdle
  <2>2. CASE a = "failed"
    <3>1. ctl' = [Checkpointed(ctl, "reread") EXCEPT !.pending = "startFailed"]
      BY <1>2, <2>2 DEF Answer
    <3>2. /\ ctl'.pc = "reread" /\ ctl'.view = ctl.view /\ ctl'.status = ctl.status
          /\ ctl'.idles = ctl.idles /\ ctl'.refusals = ctl.refusals
      BY <1>0, <3>1 DEF Checkpointed, Controllers
    <3>3. QED BY <1>0, <2>0, <3>2, WorkOn DEF Working
  <2>3. CASE a \notin {"stood-down", "failed"}
    <3> DEFINE q == buildOpenAttempt(ctl.view)
    <3>1. ctl' = ToCommit(ctl, q) BY <1>2, <2>3 DEF Answer
    <3>2. /\ ctl'.pc = "commit" /\ ctl'.view = ctl.view /\ ctl'.request = q
          /\ ctl'.status = ctl.status /\ ctl'.idles = ctl.idles /\ ctl'.refusals = ctl.refusals
      BY <1>0, <3>1 DEF ToCommit, Checkpointed, Controllers
    <3>3. q.reason = None BY DEF buildOpenAttempt, baseTransition, withAttempt
    <3> HIDE DEF q
    <3>4. q.reason # "goalCanceled" /\ q.reason # "attemptLimit" BY <3>3 DEF None
    <3>5. QED BY <1>0, <2>0, <3>2, <3>4, AskWrite
  <2>4. QED BY <2>1, <2>2, <2>3
<1>3. QED BY <1>1, <1>2

LEMMA StartPortGuides ==
    ASSUME SecondChance, IInv, Patience, NEW s \in Starts, StartPort(s), NEW n,
           Guides(ctl, record, elapsed, n, start)
    PROVE  Guides(ctl', record, elapsed, n, start')
<1>0. /\ start \in [Starts -> StartCalls] /\ StartInv
      /\ ctl.slot \in Starts \cup {None}
  BY DEF IInv, TypeInv, Controllers
<1>1. goalIsOver(TRUE) => Finishing(record, elapsed)
  BY DEF goalIsOver, Finishing
<1>2. goalIsOver(FALSE) => goalIsOver(TRUE) BY DEF goalIsOver
<1>3. ctl.pc = "start" /\ ctl.slot = s => ~start[s].timedOut
  BY GoalRunAssumption DEF Guides, Tries
<1>4. ASSUME NEW p, StartGoes(s, p) PROVE Guides(ctl', record, elapsed, n, start')
  <2>1. ctl' = ctl /\ \A t \in Starts : start'[t].timedOut = start[t].timedOut
    BY <1>0, <1>4 DEF StartGoes, StartCalls
  <2>2. Tries(ctl, n, start') BY <1>0, <2>1 DEF Guides, Tries
  <2>3. QED BY <2>1, <2>2 DEF Guides
<1>5. ASSUME NEW a, Answer(s, a), a # "stood-down" \/ start[s].timedOut \/ goalIsOver(TRUE)
      PROVE  Guides(ctl', record, elapsed, n, start')
  <2>1. ctl.pc = "start" /\ ctl.slot = s /\ a = "stood-down" => Finishing(record, elapsed)
    BY <1>1, <1>3, <1>5
  <2>2. QED BY <1>5, <2>1, AnswerGuides
<1>6. \A d \in BOOLEAN : mustStandDown(s, d) => start[s].timedOut \/ goalIsOver(TRUE)
  BY <1>2 DEF mustStandDown, goalIsOver
<1>7. CASE StartChecks(s) BY <1>4, <1>5, <1>6, <1>7 DEF StartChecks
<1>8. CASE StartAdopts(s) BY <1>4, <1>8 DEF StartAdopts
<1>9. CASE StartAdopted(s) BY <1>5, <1>6, <1>9 DEF StartAdopted
<1>10. CASE StartSeats(s) BY <1>4, <1>5, <1>6, <1>10 DEF StartSeats
<1>11. CASE StartClaims(s)
  <2>1. start[s].attempt \in Attempts BY <1>0, <1>11 DEF StartClaims, StartInv
  <2>2. QED BY <1>4, <1>5, <1>11, <2>1 DEF StartClaims, Patience
<1>12. CASE StartCreates(s) BY <1>4, <1>12 DEF StartCreates
<1>13. CASE StartConfirms(s) BY <1>4, <1>5, <1>13 DEF StartConfirms
<1>14. CASE StartFences(s) BY <1>4, <1>14 DEF StartFences
<1>15. CASE StartStops(s)
  <2>1. goalIsOver(TRUE) BY <1>15 DEF StartStops, Patience
  <2>2. QED BY <1>5, <1>15, <2>1 DEF StartStops
<1>16. QED
  BY <1>7, <1>8, <1>9, <1>10, <1>11, <1>12, <1>13, <1>14, <1>15 DEF StartPort

\* A recovered instance knows what it knew, and begins its tries again.
LEMMA ReplayGuides ==
    ASSUME ctl \in Controllers, Crash, NEW n \in Nat, Guides(ctl, record, elapsed, n, start)
    PROVE  Guides(ctl', record, elapsed, n, start')
<1>0. ctl.slot \in Starts \cup {None} /\ start' = [s \in Starts |-> NoStart]
  BY DEF Controllers, Crash
<1>1. CASE ctl.status # "running"
  <2>1. ctl' = ctl BY <1>1 DEF Crash, Replayed
  <2>2. Tries(ctl, n, start') BY <1>0 DEF Guides, Tries, NoStart
  <2>3. QED BY <2>1, <2>2 DEF Guides
<1>2. CASE ctl.status = "running"
  <2> DEFINE p == IF ctl.pc = "abortRun" THEN "abort"
                  ELSE IF ctl.pc = "committed" THEN "commit" ELSE ctl.pc
             k == IF ctl.prior = 0 THEN 0 ELSE 1
  <2>1. ctl' = [ctl EXCEPT !.pc = p, !.slot = None, !.tries = 0, !.prior = k]
    BY <1>2 DEF Crash, Replayed
  <2>2. /\ ctl'.pc = p /\ ctl'.view = ctl.view /\ ctl'.request = ctl.request
        /\ ctl'.status = ctl.status /\ ctl'.idles = ctl.idles /\ ctl'.refusals = ctl.refusals
        /\ ctl'.slot = None /\ ctl'.tries = 0
    <3> HIDE DEF p, k
    <3>1. QED BY <2>1 DEF Controllers
  <2>3. Knows(ctl', record) BY <2>2 DEF Guides, Knows, Writing
  <2>4. Steers(ctl', record, elapsed) BY <2>2 DEF Guides, Steers, Writing
  <2>5. Tries(ctl', n, start') BY <2>2 DEF Tries
  <2>6. QED BY <2>3, <2>4, <2>5 DEF Guides
<1>3. QED BY <1>1, <1>2

\* What is known of the instance after any step.
LEMMA GuidesNext ==
    ASSUME SecondChance, IInv, UsedType, Growing(record), Patience, [Next]_vars,
           used'.timeouts < MaxTries, used'.timeouts >= used.timeouts, UsedType'
    PROVE  Guides(ctl', record', elapsed', used'.timeouts, start')
<1>0. /\ RecordOK(record) /\ ctl \in Controllers /\ RecordMoves
      /\ Guides(ctl, record, elapsed, used.timeouts, start)
      /\ used.timeouts \in Nat /\ used'.timeouts \in Nat /\ ctl.tries \in Nat
      /\ elapsed => elapsed'
  BY StepMovesRecord, OthersAlone DEF IInv, TypeInv, Patience, UsedType, Controllers
<1> DEFINE Goal == Guides(ctl', record', elapsed', used'.timeouts, start')
<1>1. ASSUME Guides(ctl', record, elapsed, used'.timeouts, start'), record' = record,
             elapsed' = elapsed
      PROVE  Goal
  BY <1>1
<1>2. CASE commitTransition
  <2>1. elapsed' = elapsed /\ used' = used BY <1>2 DEF commitTransition
  <2>2. QED BY <1>0, <1>2, <2>1, CommitGuides
<1>3. CASE Controller /\ ~commitTransition
  <2>1. record' = record /\ elapsed' = elapsed /\ used' = used
    BY <1>3 DEF Controller, loadGoalState, ControllerFences, ControllerStops, CommitRecorded,
       TryStart, AttemptWins, CancelOrDeadlineWins, runValidator, Reread
  <2>2. QED BY <1>3, <2>1, ControllerGuides
<1>4. CASE TryTimesOut
  <2>1. record' = record /\ elapsed' = elapsed BY <1>4 DEF TryTimesOut
  <2>2. QED BY <1>0, <1>4, <2>1, TimeoutGuides
<1>5. ASSUME NEW s \in Starts, StartPort(s) PROVE Goal
  <2>1. record' = record /\ elapsed' = elapsed /\ used' = used
    BY <1>5 DEF StartPort, StartChecks, StartAdopts, StartAdopted, StartSeats, StartClaims,
       StartCreates, StartConfirms, StartFences, StartStops
  <2>2. QED BY <1>0, <1>5, <2>1, StartPortGuides
<1>6. CASE Crash
  <2>1. record' = record /\ elapsed' = elapsed /\ used'.timeouts = used.timeouts
    BY <1>6 DEF Crash, UsedType
  <2>2. QED BY <1>0, <1>6, <2>1, ReplayGuides
<1>7. ASSUME NEW h \in Hosts, startController(h), ctl' # ctl PROVE Goal
  <2>1. ctl' = [NewController EXCEPT !.gen = record.restarts]
    BY <1>7 DEF startController
  <2>2. record.restarts \in Nat BY <1>0 DEF RecordOK, GoalRecords
  <2>3. ctl'.status = "running" /\ ctl'.idles = 0 /\ ctl'.refusals = 0
    BY <2>1 DEF NewController
  <2>4. Fresh(ctl') BY <2>1, <2>2, NewIsFresh
  <2>5. QED BY <2>3, <2>4, FreshGuides
<1>8. ASSUME NEW h \in Hosts, HostEnds(h), ctl' # ctl PROVE Goal
  <2>1. ctl' = Over(ctl, "cancelled") BY <1>8 DEF HostEnds, cancelController
  <2>2. QED BY <1>0, <2>1, OverGuides
<1>9. ASSUME ctl' = ctl, start' = start, ~commitTransition PROVE Goal
  <2>1. record'.seq = record.seq \/ record'.status = "canceled" BY <1>9, OthersCancel
  <2>2. QED BY <1>0, <1>9, <2>1, GuidesLasts
<1>10. ASSUME NEW h \in Hosts, startController(h) \/ HostEnds(h), ctl' = ctl PROVE Goal
  <2>1. CASE start' = start
    <3>2. CASE commitTransition BY <1>2, <3>2
    <3>3. CASE ~commitTransition BY <1>9, <1>10, <2>1, <3>3
    <3>4. QED BY <3>2, <3>3
  <2>2. CASE start' # start
    <3>1. cancelController /\ record' = record
      BY <1>10, <2>2 DEF HostEnds, startController
    <3>2. ctl' = Over(ctl, "cancelled") BY <3>1 DEF cancelController
    <3>3. QED BY <1>0, <3>2, OverGuides
  <2>3. QED BY <2>1, <2>2
<1>11. QED
  BY <1>2, <1>3, <1>4, <1>5, <1>6, <1>7, <1>8, <1>9, <1>10, ControllerAlone

-----------------------------------------------------------------------------
(* What the others know.                                                   *)

LEMMA WaitsLasts ==
    ASSUME RecordOK(record), RecordMoves, NEW c, HostWaits(c, record)
    PROVE  HostWaits(c, record')
  BY OverStays DEF HostWaits

LEMMA HostGoesWaits ==
    ASSUME TypeInv, RecordMoves, \A k \in Hosts : HostWaits(host[k], record),
           NEW h \in Hosts, NEW d, HostGoes(h, d), HostWaits(d, record)
    PROVE  \A k \in Hosts : HostWaits(host'[k], record')
<1>0. RecordOK(record) /\ host \in [Hosts -> HostCalls] BY DEF TypeInv
<1>1. ASSUME NEW k \in Hosts PROVE HostWaits(host'[k], record)
  BY <1>0, <1>1 DEF HostGoes
<1>2. QED BY <1>0, <1>1, WaitsLasts

LEMMA NoCallWaits ==
    ASSUME NEW r PROVE HostWaits(NoCall, r) /\ HostWaits(BootCall, r)
  BY DEF NoCall, BootCall, HostWaits, None

LEMMA FirstReadWaits ==
    ASSUME NEW c \in HostCalls, NEW v \in GoalRecords, HostWaits(c, v)
    PROVE  HostWaits(FirstRead(c, v), v)
<1>1. CASE v.status = "canceled" BY <1>1 DEF FirstRead, HostWaits, HostCalls, isTerminal
<1>2. CASE v.status # "canceled" /\ isTerminal(v.status)
  BY <1>2 DEF HostWaits
<1>3. CASE ~isTerminal(v.status)
  <2> DEFINE p == IF c.op = "cancel" THEN "mark" ELSE "get"
             d == [c EXCEPT !.pc = p, !.rec = v]
  <2>1. FirstRead(c, v) = d BY <1>3 DEF FirstRead, isTerminal
  <2>2. d.pc # "count" /\ d.why = c.why BY DEF HostCalls
  <2> HIDE DEF d
  <2>3. QED BY <2>1, <2>2 DEF HostWaits
<1>4. QED BY <1>1, <1>2, <1>3

LEMMA HostCallWaits ==
    ASSUME IInv, RecordMoves, Patience, NEW h \in Hosts, HostCall(h)
    PROVE  \A k \in Hosts : HostWaits(host'[k], record')
<1> DEFINE c == host[h]
           Goal == \A k \in Hosts : HostWaits(host'[k], record')
<1>0. /\ TypeInv /\ RecordOK(record) /\ c \in HostCalls /\ HostWaits(c, record)
      /\ \A k \in Hosts : HostWaits(host[k], record)
      /\ Steers(ctl, record, elapsed)
  BY DEF IInv, TypeInv, Patience, Guides
<1>1. ASSUME NEW d, HostGoes(h, d), HostWaits(d, record) PROVE Goal
  BY <1>0, <1>1, HostGoesWaits
<1>2. HostDone(h) => Goal BY <1>1, NoCallWaits DEF HostDone
<1>3. ASSUME NEW d, HostGoes(h, d), isTerminal(record.status) PROVE Goal
  BY <1>1, <1>3 DEF HostWaits
\* A call goes on with the reason it had, or a harmless one.
<1>4. ASSUME NEW d, HostGoes(h, d), d.pc # "count",
             d.why \in {c.why, "start", "restart", "settle"}
      PROVE  Goal
  <2>1. HostWaits(d, record) BY <1>0, <1>4 DEF HostWaits
  <2>2. QED BY <1>1, <1>4, <2>1
<1>5. ASSUME NEW p, p # "count", NEW w \in {c.why, "start", "restart", "settle"}, NEW d, HostGoes(h, d),
             d \in {[c EXCEPT !.pc = p], [c EXCEPT !.pc = p, !.why = w],
                    [c EXCEPT !.pc = p, !.fenced = FALSE]}
      PROVE  Goal
  <2>1. d.pc = p /\ d.why \in {c.why, w} BY <1>0, <1>5 DEF HostCalls
  <2>2. QED BY <1>4, <1>5, <2>1
<1>6. ASSUME NEW p, p # "count", NEW v, HostGoes(h, [c EXCEPT !.pc = p, !.rec = v]) PROVE Goal
  <2> DEFINE d == [c EXCEPT !.pc = p, !.rec = v]
  <2>1. d.pc = p /\ d.why = c.why BY <1>0 DEF HostCalls
  <2> HIDE DEF d
  <2>2. QED BY <1>4, <1>6, <2>1 DEF d
<1>7. ASSUME NEW v, NEW w \in {c.why, "settle"}, NEW d, HostGoes(h, d),
             d = ToFence(c, v) \/ d = [ToFence(c, v) EXCEPT !.why = w]
      PROVE  Goal
  <2> DEFINE f == ToFence(c, v)
  <2>1. /\ f.pc = "fence" /\ f.why = c.why
        /\ f = [f EXCEPT !.why = c.why] /\ "why" \in DOMAIN f /\ "pc" \in DOMAIN f
    BY <1>0 DEF ToFence, HostCalls
  <2>2. [f EXCEPT !.why = w].pc = "fence" /\ [f EXCEPT !.why = w].why = w
    BY <1>0 DEF ToFence, HostCalls
  <2> HIDE DEF f
  <2>3. d.pc = "fence" /\ d.why \in {c.why, w} BY <1>7, <2>1, <2>2 DEF f
  <2>4. QED BY <1>4, <1>7, <2>3
<1>9. CASE HostGets(h)
  <2>1. CASE ctl.status \in {"failed", "completed"}
    <3>1. isTerminal(record.status) BY <1>0, <2>1 DEF Steers
    <3>2. \E d : HostGoes(h, d) BY <1>9 DEF HostGets, HostDone
    <3>3. QED BY <1>3, <3>1, <3>2
  <2>2. CASE ctl.status \notin {"failed", "completed"}
    <3>1. \/ HostGoes(h, [c EXCEPT !.pc = "stand", !.why = "start"])
          \/ HostGoes(h, [c EXCEPT !.pc = "end"]) \/ HostGoes(h, [c EXCEPT !.pc = "attempt"])
          \/ HostGoes(h, ToFence(c, c.rec)) \/ HostGoes(h, [c EXCEPT !.pc = "mark"])
      BY <1>9, <2>2 DEF HostGets, ControllerTerminal
    <3>2. CASE HostGoes(h, [c EXCEPT !.pc = "stand", !.why = "start"]) BY <1>5, <3>2
    <3>3. CASE HostGoes(h, [c EXCEPT !.pc = "end"]) BY <1>5, <3>3
    <3>4. CASE HostGoes(h, [c EXCEPT !.pc = "attempt"]) BY <1>5, <3>4
    <3>5. CASE HostGoes(h, [c EXCEPT !.pc = "mark"]) BY <1>5, <3>5
    <3>6. CASE HostGoes(h, ToFence(c, c.rec)) BY <1>7, <3>6
    <3>7. QED BY <3>1, <3>2, <3>3, <3>4, <3>5, <3>6
  <2>3. QED BY <2>1, <2>2
<1>10. CASE standDownIfOvertaken(h)
  <2>1. CASE record.cancellation
    <3>1. HostGoes(h, [c EXCEPT !.pc = "end", !.rec = record])
      BY <1>10, <2>1 DEF standDownIfOvertaken
    <3>2. QED BY <1>6, <3>1
  <2>2. CASE ~record.cancellation /\ isTerminal(record.status)
    BY <1>2, <1>10, <2>2 DEF standDownIfOvertaken, HostDone
  <2>3. CASE ~record.cancellation /\ ~isTerminal(record.status)
    <3>1. c.why # "count" BY <1>0, <2>3 DEF HostWaits
    <3>2. HostGoes(h, [c EXCEPT !.pc = "start"])
      BY <1>10, <2>3, <3>1 DEF standDownIfOvertaken
    <3>3. QED BY <1>5, <3>2
  <2>4. QED BY <2>1, <2>2, <2>3
<1>11. CASE recordControllerRestart(h)
  <2>1. isTerminal(record.status) BY <1>0, <1>11 DEF recordControllerRestart, HostWaits
  <2>2. \E d : HostGoes(h, d) BY <1>11 DEF recordControllerRestart
  <2>3. QED BY <1>3, <2>1, <2>2
<1>13. CASE startController(h)
  <2>1. HostGoes(h, NoCall) \/ HostGoes(h, [c EXCEPT !.pc = "attempt"])
    BY <1>13 DEF startController
  <2>2. CASE HostGoes(h, [c EXCEPT !.pc = "attempt"]) BY <1>5, <2>2
  <2>3. QED BY <1>2, <2>1, <2>2 DEF HostDone
<1>14. CASE recoverAttempt(h) BY <1>2, <1>14 DEF recoverAttempt
<1>15. CASE requestCancellationOf(h)
  <2>1. \/ HostGoes(h, NoCall) \/ HostGoes(h, ToFence(c, record'))
        \/ HostGoes(h, [c EXCEPT !.pc = "settle", !.rec = record])
        \/ HostGoes(h, [c EXCEPT !.pc = "signal", !.rec = record'])
    BY <1>15 DEF requestCancellationOf
  <2>2. CASE HostGoes(h, ToFence(c, record')) BY <1>7, <2>2
  <2>3. CASE HostGoes(h, [c EXCEPT !.pc = "settle", !.rec = record]) BY <1>6, <2>3
  <2>4. CASE HostGoes(h, [c EXCEPT !.pc = "signal", !.rec = record']) BY <1>6, <2>4
  <2>5. QED BY <1>2, <2>1, <2>2, <2>3, <2>4 DEF HostDone
<1>16. CASE HostSignals(h)
  <2>1. HostGoes(h, [c EXCEPT !.pc = "end"]) BY <1>16 DEF HostSignals
  <2>2. QED BY <1>5, <2>1
<1>17. CASE HostEnds(h)
  <2>1. CASE c.pc = "settle"
    <3>1. HostGoes(h, [ToFence(c, c.rec) EXCEPT !.why = "settle"])
      BY <1>17, <2>1 DEF HostEnds
    <3>2. QED BY <1>7, <3>1
  <2>2. CASE c.pc # "settle"
    <3>1. ToFence(c, c.rec).why = c.why BY <1>0 DEF ToFence, HostCalls
    <3>2. HostGoes(h, [ToFence(c, c.rec) EXCEPT !.why = c.why])
      BY <1>17, <2>2, <3>1 DEF HostEnds
    <3>3. QED BY <1>7, <3>2
  <2>3. QED BY <2>1, <2>2
<1>18. CASE HostFences(h)
  <2>1. \/ HostGoes(h, [c EXCEPT !.pc = "stop"])
        \/ HostGoes(h, [c EXCEPT !.pc = "stop", !.fenced = FALSE])
    BY <1>18 DEF HostFences
  <2>2. CASE HostGoes(h, [c EXCEPT !.pc = "stop"]) BY <1>5, <2>2
  <2>3. CASE HostGoes(h, [c EXCEPT !.pc = "stop", !.fenced = FALSE]) BY <1>5, <2>3
  <2>4. QED BY <2>1, <2>2, <2>3
<1>19. CASE HostStops(h)
  <2>1. \/ HostGoes(h, NoCall) \/ HostGoes(h, [c EXCEPT !.pc = "readBack"])
        \/ HostGoes(h, [c EXCEPT !.pc = "commit", !.rec = record])
        \/ HostGoes(h, [c EXCEPT !.pc = "commit", !.rec = c.rec])
    BY <1>19 DEF HostStops
  <2>2. CASE HostGoes(h, [c EXCEPT !.pc = "readBack"]) BY <1>5, <2>2
  <2>3. CASE HostGoes(h, [c EXCEPT !.pc = "commit", !.rec = record]) BY <1>6, <2>3
  <2>4. CASE HostGoes(h, [c EXCEPT !.pc = "commit", !.rec = c.rec]) BY <1>6, <2>4
  <2>5. QED BY <1>2, <2>1, <2>2, <2>3, <2>4 DEF HostDone
<1>20. CASE commitCancellation(h)
  <2>1. \/ HostGoes(h, NoCall) \/ HostGoes(h, [c EXCEPT !.pc = "readBack"])
        \/ HostGoes(h, [c EXCEPT !.rec = record]) /\ c.pc = "commit"
    BY <1>20 DEF commitCancellation
  <2>2. CASE HostGoes(h, [c EXCEPT !.pc = "readBack"]) BY <1>5, <2>2
  <2>3. CASE HostGoes(h, [c EXCEPT !.rec = record]) /\ c.pc = "commit"
    <3> DEFINE d == [c EXCEPT !.rec = record]
    <3>1. d.why = c.why /\ d.pc = c.pc BY <1>0 DEF HostCalls
    <3> HIDE DEF d
    <3>2. QED BY <1>4, <2>3, <3>1 DEF d
  <2>4. QED BY <1>2, <2>1, <2>2, <2>3 DEF HostDone
<1>21. CASE readBack(h) BY <1>2, <1>21 DEF readBack
<1>22. QED
  BY <1>9, <1>10, <1>11, <1>13, <1>14, <1>15, <1>16, <1>17, <1>18, <1>19, <1>20, <1>21
     DEF HostCall

\* So no restart is counted.
LEMMA NoRestartCounts ==
    ASSUME Patience, NEW h \in Hosts, recordControllerRestart(h) PROVE record' = record
  BY DEF Patience, recordControllerRestart, HostWaits, MayCountRestart

LEMMA HostsWaitNext ==
    ASSUME IInv, RecordMoves, Patience, [Next]_vars
    PROVE  \A k \in Hosts : HostWaits(host'[k], record')
<1>0. /\ TypeInv /\ RecordOK(record) /\ record \in GoalRecords
      /\ \A h \in Hosts : HostWaits(host[h], record)
  BY DEF IInv, TypeInv, Patience, RecordOK
<1>1. CASE host' = host BY <1>0, <1>1, WaitsLasts
<1>2. ASSUME NEW h \in Hosts, HostCall(h) PROVE \A k \in Hosts : HostWaits(host'[k], record')
  BY <1>2, HostCallWaits
<1>3. ASSUME NEW call \in Calls, CallBegins(call[1], call[2])
      PROVE  \A k \in Hosts : HostWaits(host'[k], record')
  <2> DEFINE c == [NoCall EXCEPT !.op = call[2]]
  <2>1. call[1] \in Hosts /\ call[2] \in {"cancel", "recover"} BY GoalRunAssumption
  <2>2. c \in HostCalls BY <2>1, HostTypes DEF HostCalls
  <2>3. HostWaits(c, record) BY DEF NoCall, HostWaits, None
  <2>4. HostGoes(call[1], FirstRead(c, record)) BY <1>3 DEF CallBegins
  <2> HIDE DEF c
  <2>5. HostWaits(FirstRead(c, record), record) BY <1>0, <2>2, <2>3, FirstReadWaits
  <2>6. QED BY <1>0, <2>1, <2>4, <2>5, HostGoesWaits
<1>4. CASE BootReads
  <2>1. "boot" \in Hosts /\ host["boot"] \in HostCalls
    BY <1>0, GoalRunAssumption DEF TypeInv
  <2>2. HostWaits(FirstRead(host["boot"], record), record) BY <1>0, <2>1, FirstReadWaits
  <2>3. QED BY <1>0, <1>4, <2>1, <2>2, HostGoesWaits DEF BootReads
<1>5. CASE Crash
  <2>1. \A h \in Hosts : host'[h] \in {NoCall, BootCall} BY <1>5 DEF Crash
  <2>2. QED BY <2>1, NoCallWaits
<1>6. QED BY <1>1, <1>2, <1>3, <1>4, <1>5, HostAlone

-----------------------------------------------------------------------------
(* The rest of Patience.                                                   *)

LEMMA NoRestarts ==
    ASSUME IInv, Patience, [Next]_vars PROVE record'.restarts = 0
<1>0. RecordOK(record) /\ record \in GoalRecords /\ record.restarts = 0
  BY DEF IInv, TypeInv, RecordOK, Patience
<1>1. ASSUME NEW q, record' = applyTransition(q, record) PROVE record'.restarts = 0
  <2>1. record' = record \/ record' = buildNext(record, q) BY <1>1 DEF applyTransition
  <2>2. buildNext(record, q).restarts = record.restarts BY <1>0, NextFields
  <2>3. QED BY <1>0, <2>1, <2>2
<1>2. ASSUME NEW h \in Hosts, requestCancellationOf(h) PROVE record'.restarts = 0
  BY <1>0, <1>2 DEF requestCancellationOf, requestCancellation, GoalRecords
<1>3. ASSUME NEW h \in Hosts, recordControllerRestart(h) PROVE record'.restarts = 0
  BY <1>0, <1>3, NoRestartCounts
<1>4. ASSUME NEW h \in Hosts, commitCancellation(h) PROVE record'.restarts = 0
  BY <1>0, <1>1, <1>4 DEF commitCancellation
<1>5. commitTransition => record'.restarts = 0 BY <1>1 DEF commitTransition
<1>6. QED BY <1>0, <1>2, <1>3, <1>4, <1>5, RecordAlone

\* Who changes the claims.
LEMMA ClaimAlone ==
    ASSUME [Next]_vars, claim' # claim
    PROVE  \/ \E s \in Starts : StartClaims(s)
           \/ \E set : fenceAttempts(set) /\
                 \/ ControllerFences \/ FinalizerFences
                 \/ \E s \in Starts : StartFences(s)
                 \/ \E h \in Hosts : HostFences(h)
<1>1. \/ ControllerFences \/ FinalizerFences
      \/ \E s \in Starts : StartClaims(s) \/ StartFences(s)
      \/ \E h \in Hosts : HostFences(h)
  BY DEF Next, vars, Controller, loadGoalState, ControllerStops,
     commitTransition, CommitRecorded,
     TryStart, TryTimesOut, AttemptWins, CancelOrDeadlineWins, runValidator, Reread, StartPort,
     StartChecks, StartAdopts, StartAdopted, StartSeats, StartCreates, StartConfirms,
     StartStops, AttemptRun, FenceReadsRecord, FenceReadsClaim, Step,
     GivesUpWaiting, forward, HostCall, HostGets, standDownIfOvertaken, recordControllerRestart,
     startController, recoverAttempt, requestCancellationOf, HostSignals, HostEnds, HostStops,
     commitCancellation, readBack, CallBegins,
     BootReads, Finalizer, FinalizerStops, FinalizerReads, DeadlinePasses, Crash
<1>2. QED BY <1>1 DEF ControllerFences, FinalizerFences, StartFences, HostFences

LEMMA ClaimsNext ==
    ASSUME IInv, QuietInv, Patience, [Next]_vars
    PROVE  \A i \in Attempts : claim'[i] = "tombstoned" => goalIsOver(TRUE)'
<1> SUFFICES ASSUME NEW i \in Attempts, claim'[i] = "tombstoned" PROVE goalIsOver(TRUE)'
  OBVIOUS
<1>0. /\ TypeInv /\ RecordOK(record) /\ RecordMoves
      /\ claim \in [Attempts -> {None, "claimed", "tombstoned"}]
  BY StepMovesRecord DEF IInv, TypeInv
<1>1. goalIsOver(TRUE) => goalIsOver(TRUE)'
  BY <1>0, GoalStaysOver
<1>2. CASE claim[i] = "tombstoned" BY <1>1, <1>2 DEF Patience
<1>3. CASE claim[i] # "tombstoned"
  <2>1. ASSUME NEW s \in Starts, StartClaims(s) PROVE FALSE
    BY <1>0, <1>3, <2>1 DEF StartClaims
  <2>2. CASE ControllerFences
    <3>1. goalIsOver(TRUE)
      BY <2>2 DEF ControllerFences, Running, Patience, Guides, Steers, Finishing, goalIsOver
    <3>2. QED BY <1>1, <3>1
  <2>3. CASE FinalizerFences
    <3>1. record.cancellation BY <2>3 DEF FinalizerFences, Patience, None
    <3>2. QED BY <1>1, <3>1 DEF goalIsOver
  <2>4. ASSUME NEW s \in Starts, StartFences(s) PROVE goalIsOver(TRUE)'
    <3>1. goalIsOver(TRUE) BY <2>4 DEF StartFences, Patience
    <3>2. QED BY <1>1, <3>1
  <2>5. ASSUME NEW h \in Hosts, HostFences(h) PROVE goalIsOver(TRUE)'
    <3>1. CASE host[h].why \in {"overtaken", "orphan"}
      <4>1. isTerminal(record.status) BY <3>1 DEF Patience, HostWaits
      <4>2. QED BY <1>1, <4>1 DEF goalIsOver
    <3>2. CASE host[h].why \notin {"overtaken", "orphan"}
      <4>1. record.cancellation
        BY <2>5, <3>2 DEF HostFences, QuietInv, CancelInv
      <4>2. QED BY <1>1, <4>1 DEF goalIsOver
    <3>3. QED BY <3>1, <3>2
  <2>6. QED BY <1>3, <2>1, <2>2, <2>3, <2>4, <2>5, ClaimAlone
<1>4. QED BY <1>2, <1>3

LEMMA UndosNext ==
    ASSUME IInv, Patience, [Next]_vars, NEW s \in Starts, start'[s].pc \in {"undo", "undoRun"}
    PROVE  goalIsOver(TRUE)'
<1>0. TypeInv /\ RecordOK(record) /\ RecordMoves /\ start \in [Starts -> StartCalls]
  BY StepMovesRecord DEF IInv, TypeInv
<1>1. goalIsOver(TRUE) => goalIsOver(TRUE)' BY <1>0, GoalStaysOver
<1>2. goalIsOver(TRUE)
  <2>1. CASE start'[s].pc = start[s].pc BY <2>1 DEF Patience
  <2>2. CASE TryStart(s) BY <1>0, <2>2 DEF TryStart
  <2>3. CASE StartPort(s)
    <3>1. ASSUME NEW a, Answer(s, a) PROVE FALSE BY <1>0, <3>1 DEF Answer, NoStart
    <3>2. ASSUME NEW p, StartGoes(s, p) PROVE start'[s].pc = p
      BY <1>0, <3>2 DEF StartGoes, StartCalls
    <3>3. start[s].pc = "undo" \/ StartConfirms(s)
      BY <2>3, <3>1, <3>2 DEF StartPort, StartChecks, StartAdopts, StartAdopted, StartSeats,
         StartClaims, StartCreates, StartFences, StartStops
    <3>4. ASSUME StartConfirms(s) PROVE goalIsOver(TRUE)
      BY <3>1, <3>4 DEF StartConfirms
    <3>5. QED BY <3>3, <3>4 DEF Patience
  <2>4. QED BY <1>0, <2>1, <2>2, <2>3, StartSteps
<1>3. QED BY <1>1, <1>2

LEMMA SignalsNext ==
    ASSUME IInv, QuietInv, Patience, [Next]_vars
    PROVE  /\ finalizer'.pc # None => record'.cancellation
           /\ cancelSig' = "full" => record'.cancellation
<1>0. RecordOK(record) /\ RecordMoves BY StepMovesRecord DEF IInv, TypeInv
<1>1. record.cancellation => record'.cancellation BY <1>0, MarkerStays
<1>2. ASSUME finalizer'.pc # None PROVE record.cancellation
  <2>1. CASE finalizer.pc # None BY <2>1 DEF Patience
  <2>2. CASE finalizer.pc = None
    <3>1. \E h \in Hosts : HostEnds(h)
      <4>1. \/ Finalizer \/ Crash \/ \E h \in Hosts : startController(h) \/ HostEnds(h)
        BY <1>2, <2>2 DEF Next, vars, Controller, loadGoalState, ControllerFences, ControllerStops,
     commitTransition, CommitRecorded,
     TryStart, TryTimesOut, AttemptWins, CancelOrDeadlineWins, runValidator, Reread, StartPort,
     StartChecks, StartAdopts, StartAdopted, StartSeats, StartClaims, StartCreates, StartConfirms,
     StartFences, StartStops, AttemptRun, FenceReadsRecord, FenceReadsClaim, Step,
     GivesUpWaiting, forward, HostCall, HostGets, standDownIfOvertaken, recordControllerRestart,
     recoverAttempt, requestCancellationOf, HostSignals, HostFences, HostStops,
     commitCancellation, readBack, CallBegins, BootReads, DeadlinePasses
      <4>2. ~Finalizer
        BY <2>2 DEF Finalizer, FinalizerFences, FinalizerStops, FinalizerReads, None
      <4>3. ~Crash BY <1>2, <2>2 DEF Crash
      <4>4. ASSUME NEW h \in Hosts, startController(h) PROVE FALSE
        BY <1>2, <2>2, <4>4 DEF startController, NoFinalizer
      <4>5. QED BY <4>1, <4>2, <4>3, <4>4
    <3>2. PICK h \in Hosts : HostEnds(h) BY <3>1
    <3>3. host[h].rec.cancellation BY <3>2 DEF HostEnds, QuietInv, CancelInv
    <3>4. QED BY <3>3 DEF QuietInv, CancelInv
  <2>3. QED BY <2>1, <2>2
<1>3. ASSUME cancelSig' = "full" PROVE record.cancellation
  <2>1. CASE cancelSig = "full" BY <2>1 DEF Patience
  <2>2. CASE cancelSig # "full"
    <3>1. \E h \in Hosts : startController(h) \/ HostSignals(h)
      BY <1>3, <2>2 DEF Next, vars, Controller, loadGoalState, ControllerFences, ControllerStops,
     commitTransition, CommitRecorded,
     TryStart, TryTimesOut, AttemptWins, CancelOrDeadlineWins, runValidator, Reread, StartPort,
     StartChecks, StartAdopts, StartAdopted, StartSeats, StartClaims, StartCreates, StartConfirms,
     StartFences, StartStops, AttemptRun, FenceReadsRecord, FenceReadsClaim, Step,
     GivesUpWaiting, forward, HostCall, HostGets, standDownIfOvertaken, recordControllerRestart,
     recoverAttempt, requestCancellationOf, HostEnds, HostFences, HostStops,
     commitCancellation, readBack, CallBegins, BootReads, DeadlinePasses, Crash,
     Finalizer, FinalizerFences, FinalizerStops, FinalizerReads
    <3>2. PICK h \in Hosts : startController(h) \/ HostSignals(h) BY <3>1
    <3>3. ~startController(h) BY <1>3, <2>2 DEF startController
    <3>4. host[h].rec.cancellation BY <3>2, <3>3 DEF HostSignals, QuietInv, CancelInv
    <3>5. QED BY <3>4 DEF QuietInv, CancelInv
  <2>3. QED BY <2>1, <2>2
<1>4. QED BY <1>1, <1>2, <1>3

-----------------------------------------------------------------------------
(* Only starts that time out fail a controller.                            *)

\* The promises are void once a start has timed out as often as it may be tried.
FailInv == UsedType /\ Growing(record) /\ (used.timeouts < MaxTries => Patience)

LEMMA InitFail ==
    ASSUME Init PROVE FailInv
<1>1. /\ record = createGoalState /\ ctl \in {NewController, NoController}
      /\ \A h \in Hosts : host[h] \in {NoCall, BootCall}
      /\ \A i \in Attempts : claim[i] = None
      /\ \A s \in Starts : start[s].pc = "idle"
      /\ finalizer = NoFinalizer /\ cancelSig = "empty"
  BY DEF Init, NoStart
<1>2. UsedType BY DEF Init, UsedType
<1>3. Growing(record) BY <1>1 DEF Growing, createGoalState, Idle
<1>4. record.restarts = 0 BY <1>1 DEF createGoalState
<1>5. Guides(ctl, record, elapsed, used.timeouts, start)
  <2>1. Fresh(ctl) BY <1>1, NewIsFresh
  <2>2. ctl.status \in {None, "running"} /\ ctl.idles = 0 /\ ctl.refusals = 0
    BY <1>1 DEF NewController, NoController
  <2>3. QED BY <2>1, <2>2, FreshGuides DEF None
<1>6. \A h \in Hosts : HostWaits(host[h], record) BY <1>1, NoCallWaits
<1>7. Patience BY <1>1, <1>4, <1>5, <1>6 DEF Patience, None, NoFinalizer
<1>8. QED BY <1>2, <1>3, <1>7 DEF FailInv

LEMMA TimeoutsGrow ==
    ASSUME UsedType, [Next]_vars PROVE UsedType' /\ used'.timeouts >= used.timeouts
<1>1. UsedType' BY CalmSteps
<1>2. CASE used' = used BY <1>2 DEF UsedType
<1>3. CASE Crash BY <1>3 DEF UsedType, Crash
<1>4. CASE Faulty BY <1>4 DEF UsedType, Faulty
<1>5. CASE used' = [used EXCEPT !.timeouts = @ + 1] BY <1>5 DEF UsedType
<1>6. ASSUME NEW call \in Calls, used' = [used EXCEPT !.calls = @ \cup {call}]
      PROVE  used'.timeouts >= used.timeouts
  BY <1>6 DEF UsedType
<1>7. QED BY <1>1, <1>2, <1>3, <1>4, <1>5, <1>6, UsedMoves

LEMMA NextFail ==
    ASSUME SecondChance, IInv, QuietInv, FailInv, [Next]_vars PROVE FailInv'
<1>1. UsedType' /\ used'.timeouts >= used.timeouts BY TimeoutsGrow DEF FailInv
<1>2. RecordOK(record) /\ RecordMoves BY StepMovesRecord DEF IInv, TypeInv
<1>3. Growing(record') BY <1>2, GrowingLasts DEF FailInv
<1>4. ASSUME used'.timeouts < MaxTries PROVE Patience'
  <2>1. used.timeouts < MaxTries
    BY <1>1, <1>4, GoalRunAssumption DEF FailInv, UsedType
  <2>2. Patience /\ UsedType /\ Growing(record) BY <2>1 DEF FailInv
  <2>3. Guides(ctl', record', elapsed', used'.timeouts, start')
    BY <1>1, <1>4, <2>2, GuidesNext
  <2>4. record'.restarts = 0 BY <2>2, NoRestarts
  <2>5. \A h \in Hosts : HostWaits(host'[h], record') BY <1>2, <2>2, HostsWaitNext
  <2>6. \A i \in Attempts : claim'[i] = "tombstoned" => goalIsOver(TRUE)'
    BY <2>2, ClaimsNext
  <2>7. \A s \in Starts : start'[s].pc \in {"undo", "undoRun"} => goalIsOver(TRUE)'
    BY <2>2, UndosNext
  <2>8. /\ finalizer'.pc # None => record'.cancellation
        /\ cancelSig' = "full" => record'.cancellation
    BY <2>2, SignalsNext
  <2>9. QED BY <2>3, <2>4, <2>5, <2>6, <2>7, <2>8 DEF Patience
<1>5. QED BY <1>1, <1>3, <1>4 DEF FailInv

\* A controller is failed only by starts that time out, MaxTries of them: no commit of
\* its is refused for good and it never spins, for a controller that may be refused
\* and idle once in a row at least (goal-workflow.ts:262 allows five refusals, :270
\* twenty-five idle wakes).
THEOREM ControllerFailsByTimeouts ==
    ASSUME SecondChance PROVE Spec => []OnlyTimeoutsFail
<1>1. FailInv => OnlyTimeoutsFail
  BY GoalRunAssumption DEF FailInv, UsedType, Patience, Guides, Steers, OnlyTimeoutsFail
<1>2. IInv /\ QuietInv /\ FailInv /\ [Next]_vars => FailInv' BY NextFail
<1>3. QED BY <1>1, <1>2, InitFail, Invariance, QuietInvariance, PTL DEF Spec

\* Once cancel() or recover() has answered 'canceled' no run of the goal is let through
\* to a step again (goal-cancellation.ts readBack); the stored record always decodes;
\* and a controller is failed by nothing but starts that time out.
THEOREM CancelIsKept == ASSUME SecondChance PROVE Spec => []CancelKeepsItsWord
<1>1. TypeOK /\ CanceledMeansQuiet /\ OnlyTimeoutsFail => CancelKeepsItsWord
  BY DEF CancelKeepsItsWord
<1>2. QED BY <1>1, TypeCorrect, CanceledGoalIsQuiet, ControllerFailsByTimeouts, PTL
=============================================================================
