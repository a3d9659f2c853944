------------------------- MODULE CompactionScheduler -------------------------
(***************************************************************************)
(* Background compaction of one conversation: the scheduler that queues,   *)
(* defers, retries and cancels candidates                                  *)
(* (conversationalist/src/compaction-scheduler.ts) and                     *)
(* Conversation.compact(), which summarizes a snapshot and publishes the   *)
(* summary by compare-and-swap (history-compaction.ts,                     *)
(* history-transaction.ts), while others write to the conversation.        *)
(*                                                                         *)
(* A step is the code between two awaits.  A history is the number of      *)
(* writes that it still tells of, as messages or in a summary.             *)
(***************************************************************************)
EXTENDS Integers, Sequences, FiniteSets

CONSTANTS
    maxStaleRetries,    \* candidates of a request that may go stale, less one
    MaxJobs,            \* bound: requests that start a job
    MaxWrites,          \* bound: writes to the conversation
    Faults              \* whether schedule adapters throw and summarizers fail

CompactionAssumption ==
    {maxStaleRetries, MaxJobs, MaxWrites} \subseteq Nat /\ Faults \in BOOLEAN

VARIABLES
    jobs,       \* all jobs that were started, in order
    job,        \* #job, the one that new requests join; 0 if there is none
    windows,    \* jobs whose task the schedule adapter still holds
    inFlight,   \* #inFlight, by the job whose candidate it is; 0 if there is none
    candidate,  \* per job, its call of compact()
    phase,      \* state.phase
    disposed,   \* state.disposed
    counts,     \* state.counts
    open,       \* whether the conversation's lifecycle is 'open'
    revision,   \* controllerRevision
    boundary,   \* whether no stream is open and no tool call is pending
    written,    \* writes that were acknowledged
    history     \* how many of them the current history tells of

schedulerVars == <<jobs, job, windows, inFlight, candidate, phase, disposed, counts>>
conversationVars == <<open, revision, boundary, written, history>>
vars == <<schedulerVars, conversationVars>>

Outcomes == {"committed", "no-op", "discarded", "cancelled", "failed"}
NoCandidate == [stage |-> "none", base |-> 0, covers |-> 0, result |-> "none"]

Init ==
    /\ jobs = <<>> /\ job = 0 /\ windows = {} /\ inFlight = 0
    /\ candidate = [j \in 1 .. MaxJobs |-> NoCandidate]
    /\ phase = "idle" /\ disposed = FALSE
    /\ counts = [o \in Outcomes \cup {"requested", "rescheduled"} |-> 0]
    /\ open = TRUE /\ revision = 0 /\ boundary = TRUE /\ written = 0 /\ history = 0

Settled(j) == jobs[j].outcome # "none"

Add(c, key) == [c EXCEPT ![key] = @ + 1]

-----------------------------------------------------------------------------
(* #settle and #queue, as what they leave of the scheduler's state s.      *)

State == [jobs |-> jobs, job |-> job, windows |-> windows, phase |-> phase, counts |-> counts]

\* The phase is left alone if a newer job has begun.
settle(s, j, outcome) ==
    [s EXCEPT !.jobs[j] = [@ EXCEPT !.outcome = outcome, !.at = "settled"],
              !.job = IF @ = j THEN 0 ELSE @,
              !.phase = IF s.job \in {0, j} THEN outcome ELSE @,
              !.counts = Add(@, outcome)]

\* The adapter takes the task, or throws.
queue(s, j) ==
    {[s EXCEPT !.jobs[j].at = "queued", !.windows = @ \cup {j}]}
    \cup (IF Faults THEN {settle(s, j, "failed")} ELSE {})

Becomes(s) ==
    /\ jobs' = s.jobs /\ job' = s.job /\ windows' = s.windows
    /\ phase' = s.phase /\ counts' = s.counts

-----------------------------------------------------------------------------
(* request(): a request that finds a job joins it.                         *)

startJob ==
    /\ ~disposed /\ job = 0
    /\ Len(jobs) < MaxJobs
    /\ LET j == Len(jobs) + 1
           s == [State EXCEPT
                   !.jobs = Append(@, [at |-> "queued", reason |-> FALSE, candidates |-> 0,
                                       outcome |-> "none"]),
                   !.job = j, !.phase = "pending", !.counts = Add(@, "requested")]
       IN  \E next \in queue(s, j) : Becomes(next)
    /\ UNCHANGED <<inFlight, candidate, disposed, conversationVars>>

\* compact() takes its snapshot at once.
starts(j, s) ==
    /\ Becomes([s EXCEPT !.jobs[j].at = "running", !.jobs[j].candidates = @ + 1,
                         !.phase = "running"])
    /\ inFlight' = j
    /\ candidate' = [candidate EXCEPT ![j] =
                       [stage |-> "summarizing", base |-> revision, covers |-> history,
                        result |-> "none"]]

\* A faulty variant: a candidate does not wait for the one in flight.
run_overlaps(j, s) ==
    IF Settled(j) \/ ~boundary THEN Becomes(s) /\ UNCHANGED <<inFlight, candidate>>
    ELSE starts(j, s)

\* #run: a withdrawn task does nothing, a candidate in flight is awaited, and
\* so is a durable boundary.
run(j, s) ==
    IF Settled(j) THEN Becomes(s) /\ UNCHANGED <<inFlight, candidate>>
    ELSE IF inFlight # 0
    THEN Becomes([s EXCEPT !.jobs[j].at = "joins"]) /\ UNCHANGED <<inFlight, candidate>>
    ELSE IF ~boundary
    THEN Becomes([s EXCEPT !.jobs[j].at = "boundary"]) /\ UNCHANGED <<inFlight, candidate>>
    ELSE starts(j, s)

\* The adapter's window for a job.
WindowOpens(j) ==
    /\ j \in windows
    /\ run(j, [State EXCEPT !.windows = @ \ {j}])
    /\ UNCHANGED <<disposed, conversationVars>>

\* The candidate that a job has waited for is over.  It belonged to a job that
\* was cancelled, so it is the last one of that job.
JoinedRuns(j) ==
    /\ j \in DOMAIN jobs /\ jobs[j].at = "joins"
    /\ \A k \in 1 .. j - 1 : Settled(k)
    /\ run(j, State)
    /\ UNCHANGED <<disposed, conversationVars>>

-----------------------------------------------------------------------------
(* Conversation.compact().                                                 *)

\* A faulty variant: the revision is not compared.
commitAtRevision_blind(base) == TRUE

commitAtRevision(base) == revision = base

\* ensureCompactionActive: neither the job's signal nor the conversation's.
compactionActive(j) == ~jobs[j].reason /\ open

Returned(j, result) ==
    candidate' = [candidate EXCEPT ![j] = [@ EXCEPT !.stage = "returned", !.result = result]]

\* The summarizer has settled: compactOwned from there to its result.
compactOwned(j) ==
    LET c == candidate[j]
    IN  /\ c.stage = "summarizing"
        /\ \/ \* it failed, or was told to stop
              /\ Faults \/ ~compactionActive(j)
              /\ Returned(j, "error")
              /\ UNCHANGED <<revision, history>>
           \/ \* there was nothing to compact
              /\ compactionActive(j)
              /\ Returned(j, IF revision = c.base THEN "no-op" ELSE "discarded")
              /\ UNCHANGED <<revision, history>>
           \/ \* the summary is published in place of what it covers
              /\ compactionActive(j) /\ commitAtRevision(c.base)
              /\ revision' = revision + 1
              /\ history' = c.covers
              /\ Returned(j, "committed")
           \/ \* somebody has written meanwhile
              /\ compactionActive(j) /\ ~commitAtRevision(c.base)
              /\ Returned(j, "discarded")
              /\ UNCHANGED <<revision, history>>
        /\ UNCHANGED <<jobs, job, windows, inFlight, phase, disposed, counts, open,
                       boundary, written>>

\* #attempt after compact(): #onResult, #onDiscarded or #onError.
attempt(j) ==
    LET result == candidate[j].result
        discarded == Add(counts, "discarded")
    IN  /\ candidate[j].stage = "returned"
        /\ inFlight' = 0
        /\ candidate' = [candidate EXCEPT ![j] = NoCandidate]
        /\ \/ /\ result \in {"committed", "no-op"}
              /\ Becomes(settle(State, j, result))
           \/ /\ result = "error"
              /\ Becomes(settle(State, j, IF jobs[j].reason THEN "cancelled" ELSE "failed"))
           \/ /\ result = "discarded" /\ jobs[j].reason
              /\ Becomes(settle([State EXCEPT !.counts = discarded], j, "cancelled"))
           \/ /\ result = "discarded" /\ ~jobs[j].reason
              /\ jobs[j].candidates > maxStaleRetries
              /\ Becomes(settle(State, j, "discarded"))
           \/ /\ result = "discarded" /\ ~jobs[j].reason
              /\ jobs[j].candidates <= maxStaleRetries
              /\ \E s \in queue([State EXCEPT !.phase = "pending",
                                              !.counts = Add(discarded, "rescheduled")], j) :
                   Becomes(s)
        /\ UNCHANGED <<disposed, conversationVars>>

-----------------------------------------------------------------------------
(* Cancellation.                                                           *)

\* A running candidate settles its job itself; other work is withdrawn, unless
\* the adapter's timer is faster than its cancel.
cancelJob(s, j) ==
    LET told == [s EXCEPT !.jobs[j].reason = TRUE, !.job = 0]
        over == settle(told, j, "cancelled")
    IN  IF jobs[j].at = "running" THEN {told}
        ELSE {over, [over EXCEPT !.windows = @ \ {j}]}

\* cancel(), and the abort of a requester's signal.
cancel ==
    /\ job # 0
    /\ \E s \in cancelJob(State, job) : Becomes(s)
    /\ UNCHANGED <<inFlight, candidate, disposed, conversationVars>>

\* dispose() up to its wait for the candidate in flight.
Disposes ==
    /\ disposed' = TRUE
    /\ IF job = 0 THEN Becomes(State) ELSE \E s \in cancelJob(State, job) : Becomes(s)
    /\ UNCHANGED <<inFlight, candidate>>

dispose == ~disposed /\ Disposes /\ UNCHANGED conversationVars

\* The conversation is closed or disposed, and its event disposes the scheduler.
closeConversation ==
    /\ open /\ open' = FALSE
    /\ IF disposed THEN UNCHANGED schedulerVars ELSE Disposes
    /\ UNCHANGED <<revision, boundary, written, history>>

-----------------------------------------------------------------------------
(* The conversation.                                                       *)

\* A commit of somebody else, which may open or end a stream or a tool call.
\* Its change event queues the job that waits for a boundary.
commit(atBoundary) ==
    LET waiting == {j \in DOMAIN jobs : jobs[j].at = "boundary"}
    IN  /\ open /\ written < MaxWrites
        /\ revision' = revision + 1 /\ written' = written + 1 /\ history' = history + 1
        /\ boundary' = atBoundary
        /\ IF atBoundary /\ waiting # {}
           THEN \E j \in waiting : \E s \in queue(State, j) : Becomes(s)
           ELSE Becomes(State)
        /\ UNCHANGED <<inFlight, candidate, disposed, open>>

JobStep(j) == WindowOpens(j) \/ JoinedRuns(j) \/ compactOwned(j) \/ attempt(j)

Next ==
    \/ startJob \/ cancel \/ dispose \/ closeConversation
    \/ \E j \in 1 .. MaxJobs : JobStep(j)
    \/ \E b \in BOOLEAN : commit(b)

Spec == Init /\ [][Next]_vars

-----------------------------------------------------------------------------
(* Properties.                                                             *)

TypeOK ==
    /\ job \in 0 .. Len(jobs) /\ inFlight \in 0 .. Len(jobs)
    /\ windows \subseteq DOMAIN jobs
    /\ phase \in Outcomes \cup {"idle", "pending", "running"}
    /\ \A j \in DOMAIN jobs :
         /\ jobs[j].at \in {"queued", "joins", "boundary", "running", "settled"}
         /\ jobs[j].outcome \in Outcomes \cup {"none"}
         /\ jobs[j].candidates \in 0 .. maxStaleRetries + 1

\* The current history tells of every write, whatever was published in between:
\* "the newer history is left exactly as it is".
NoWriteIsLost == history = written

\* A summary that comes back after its request was cancelled, or after the
\* conversation was closed, is not published.
PublishesInTime ==
    \A j \in 1 .. MaxJobs :
        candidate'[j].result = "committed" /\ candidate[j].stage = "summarizing" =>
            open /\ ~jobs[j].reason

\* Summaries never overlap, although a cancelled summarizer may run on while
\* a new request is served.
OneSummaryAtATime ==
    \A j, k \in 1 .. MaxJobs :
        candidate[j].stage # "none" /\ candidate[k].stage # "none" => j = k /\ inFlight = j

\* A request is settled once, and the totals tell how.
CountsAddUp ==
    LET With(o) == Cardinality({j \in DOMAIN jobs : jobs[j].outcome = o})
    IN  /\ counts["requested"] = Len(jobs)
        /\ \A o \in Outcomes \ {"discarded"} : counts[o] = With(o)
        /\ counts["discarded"] >= With("discarded") + counts["rescheduled"]

\* The job that new requests join is the newest, and can still be cancelled.
JoinsALiveJob ==
    /\ job # 0 => job = Len(jobs) /\ ~Settled(job) /\ ~jobs[job].reason
    /\ \A j \in DOMAIN jobs : ~Settled(j) /\ ~jobs[j].reason => job = j

Unsettled == {j \in DOMAIN jobs : ~Settled(j)}
=============================================================================
