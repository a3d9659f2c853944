--------------------------- MODULE IdempotentCall ---------------------------
(***************************************************************************)
(* withToolboxIdempotency() runs a tool at most once for an idempotency    *)
(* key.  A call claims the key with a "started" marker that carries its    *)
(* attempt, a lease and an absolute deadline, renews the marker while the  *)
(* tool runs, and replaces it by the result.  A marker that is found is an *)
(* unknown outcome: it is replaced only with an operator's receipt for     *)
(* that attempt, once its lease has run out.                               *)
(*                                                                         *)
(* One key of one process-local cache (create-tool-result-cache.ts), whose *)
(* operations on the key are serialised by a lock, with one exception:     *)
(* getState() reads, and deletes an expired result, without the lock.  A   *)
(* locked operation is one step here; a deletion from outside that falls   *)
(* into the middle of one has the effect it has just before it, or none.   *)
(* An attempt is named by the call that made it.                           *)
(***************************************************************************)
EXTENDS Integers

CONSTANTS
    Calls,        \* the calls with the same key
    Lease,        \* leaseDurationMs
    MaxDuration,  \* maximumExecutionDurationMs
    TTL,          \* how long a result is kept
    MaxNow,       \* bound: the clock stops here
    MaxCrashes    \* bound: restarts of the process

IdempotencyAssumption ==
    /\ Lease \in Nat \ {0} /\ MaxDuration \in Nat \ {0} /\ TTL \in Nat \ {0}
    /\ MaxNow \in Nat /\ MaxCrashes \in Nat

VARIABLES
    now,
    entry,        \* what the store holds for the key
    pc,           \* pc[c]: where the call stands
    op,           \* op[c]: the cache operation it has under way
    seen,         \* seen[c]: the entry it read
    asked,        \* asked[c]: the observedAt of that operation
    deadline,     \* deadline[c]: the absolute deadline of its attempt
    owned,        \* owned[c]: leaseOwned
    aborted,      \* aborted[c]: its signal
    answer,       \* answer[c]: what it told its caller
    effects,      \* the attempts whose callback has started
    settled,      \* the attempts that were retried on an operator's word, or
                  \* cleared on the word of the tool
    finished,     \* finished[c]: when the recorded result of c expires, or 0
    crashes

vars == <<now, entry, pc, op, seen, asked, deadline, owned, aborted, answer,
          effects, settled, finished, crashes>>
ledger == <<effects, settled, finished>>

None == [status |-> "none"]
Started(c, lease, end) == [status |-> "started", attempt |-> c, lease |-> lease, end |-> end]
Completed(c, expires) == [status |-> "completed", attempt |-> c, expires |-> expires]
Silent == [kind |-> "none"]
Says(kind) == [kind |-> kind]
Result(c, kind) == [kind |-> kind, attempt |-> c]

Init ==
    /\ now = 0
    /\ entry = None
    /\ pc = [c \in Calls |-> "idle"]
    /\ op = [c \in Calls |-> "none"]
    /\ seen = [c \in Calls |-> None]
    /\ asked = [c \in Calls |-> 0]
    /\ deadline = [c \in Calls |-> 0]
    /\ owned = [c \in Calls |-> FALSE]
    /\ aborted = [c \in Calls |-> FALSE]
    /\ answer = [c \in Calls |-> Silent]
    /\ effects = {}
    /\ settled = {}
    /\ finished = [c \in Calls |-> 0]
    /\ crashes = 0

Goto(c, p) == pc' = [pc EXCEPT ![c] = p]
Run(c, o) == op' = [op EXCEPT ![c] = o]
Tell(c, a) == answer' = [answer EXCEPT ![c] = a] /\ Goto(c, "done")
Least(a, b) == IF a < b THEN a ELSE b

-----------------------------------------------------------------------------
(* The cache.                                                              *)

\* A "started" marker never expires.
isExpired(e) == e.status = "completed" /\ now > e.expires

\* What a locked operation finds after the clean-up of getEntry.
Present == IF isExpired(entry) THEN None ELSE entry

\* The fence of every conditional operation.
Holds(c) == Present.status = "started" /\ Present.attempt = c

\* The marker is made when the call decides, and written later.
startedAt(c) == deadline[c] - MaxDuration
StartedExecution(c) == Started(c, startedAt(c) + Least(Lease, MaxDuration), deadline[c])

\* A faulty variant: the claim overwrites a marker.
CanClaim_started == Present.status # "completed"

CanClaim == Present = None

CanReplace(c) ==
    /\ Present.status = "started"
    /\ Present.attempt = seen[c].attempt
    /\ startedAt(c) >= Present.lease

CanRenew(c, observedAt) == Holds(c) /\ observedAt < Present.end

Renewed(observedAt) ==
    [Present EXCEPT !.lease = Least(observedAt + Lease, Present.end)]

-----------------------------------------------------------------------------
(* A call up to its claim.                                                 *)

\* What the call does with the entry it read: a result is given out under the
\* current policy, or refused; a marker needs a receipt for that very attempt
\* and a lease that has run out; an empty key is claimed.
Decide(c, found, receipt) ==
    CASE found.status = "completed" ->
            Tell(c, IF receipt THEN Result(found.attempt, "deduped") ELSE Says("refused"))
            /\ UNCHANGED <<op, deadline>>
      [] found.status = "started" /\ ~(receipt /\ now >= found.lease) ->
            Tell(c, Says("unknown")) /\ UNCHANGED <<op, deadline>>
      [] found.status = "started" /\ receipt /\ now >= found.lease ->
            /\ Run(c, "replace") /\ Goto(c, "replacing")
            /\ deadline' = [deadline EXCEPT ![c] = now + MaxDuration]
            /\ UNCHANGED answer
      [] found.status = "none" ->
            /\ Run(c, "claim") /\ Goto(c, "claiming")
            /\ deadline' = [deadline EXCEPT ![c] = now + MaxDuration]
            /\ UNCHANGED answer

\* getState(), outside of the lock.
Read(c) ==
    /\ pc[c] = "idle"
    /\ seen' = [seen EXCEPT ![c] = Present]
    /\ IF aborted[c]
       THEN Tell(c, Says("interrupted")) /\ op' = op
       ELSE /\ Goto(c, IF isExpired(entry) THEN "purging" ELSE "read")
            /\ Run(c, IF isExpired(entry) THEN "purge" ELSE "none")
            /\ UNCHANGED answer
    /\ UNCHANGED <<now, entry, asked, deadline, owned, aborted, ledger, crashes>>

\* The deletion of the expired result: unconditional, and after an await.
Purge(c) ==
    /\ op[c] = "purge"
    /\ entry' = None
    /\ Run(c, "none")
    /\ pc' = IF pc[c] = "purging" THEN [pc EXCEPT ![c] = "read"] ELSE pc
    /\ UNCHANGED <<now, seen, asked, deadline, owned, aborted, answer, ledger, crashes>>

\* The receipt is verified, which takes a while; the entry may be old by now.
Proceed(c, receipt) ==
    /\ pc[c] = "read"
    /\ Decide(c, seen[c], receipt)
    /\ UNCHANGED <<now, entry, seen, asked, owned, aborted, ledger, crashes>>

\* claimStarted(), also for a call that no longer waits for it; that one
\* removes its marker again (cleanLateClaim).
Claim(c) ==
    /\ op[c] = "claim"
    /\ entry' = IF CanClaim THEN StartedExecution(c) ELSE Present
    /\ IF pc[c] = "done"
       THEN Run(c, IF CanClaim THEN "clean" ELSE "none") /\ UNCHANGED <<pc, answer>>
       ELSE /\ Run(c, "none")
            /\ IF CanClaim THEN Goto(c, "claimed") /\ UNCHANGED answer
               ELSE Tell(c, IF Present.status = "started" THEN Says("unknown")
                            ELSE Result(Present.attempt, "deduped"))
    /\ UNCHANGED <<now, seen, asked, deadline, owned, aborted, ledger, crashes>>

\* replaceUnknownStarted(), after which the attempt it replaces is settled.
Replace(c) ==
    /\ op[c] = "replace"
    /\ LET ok == CanReplace(c)
       IN  /\ entry' = IF ok THEN StartedExecution(c) ELSE Present
           /\ settled' = IF ok THEN settled \cup {seen[c].attempt} ELSE settled
           /\ IF pc[c] = "done"
              THEN Run(c, IF ok THEN "clean" ELSE "none") /\ UNCHANGED <<pc, answer>>
              ELSE /\ Run(c, "none")
                   /\ IF ok THEN Goto(c, "claimed") /\ UNCHANGED answer
                      ELSE Tell(c, IF Present.status = "completed"
                                   THEN Result(Present.attempt, "deduped") ELSE Says("unknown"))
    /\ UNCHANGED <<now, seen, asked, deadline, owned, aborted, effects, finished, crashes>>

-----------------------------------------------------------------------------
(* From the claim to the answer.                                           *)

\* The admission: past the absolute deadline the marker is removed; otherwise
\* it is renewed once more.
Admit(c) ==
    /\ pc[c] = "claimed"
    /\ IF now >= deadline[c]
       THEN Tell(c, Says("timeout")) /\ Run(c, "clean")
       ELSE Goto(c, "renewing") /\ Run(c, "renew") /\ UNCHANGED answer
    /\ asked' = [asked EXCEPT ![c] = now]
    /\ UNCHANGED <<now, entry, seen, deadline, owned, aborted, ledger, crashes>>

FirstRenewal(c) ==
    /\ op[c] = "renew"
    /\ entry' = IF CanRenew(c, asked[c]) THEN Renewed(asked[c]) ELSE Present
    /\ IF pc[c] = "done"
       THEN Run(c, IF CanRenew(c, asked[c]) THEN "clean" ELSE "none") /\ UNCHANGED <<pc, answer, owned>>
       ELSE /\ Run(c, "none")
            /\ IF CanRenew(c, asked[c])
               THEN Goto(c, "policy") /\ owned' = [owned EXCEPT ![c] = TRUE] /\ UNCHANGED answer
               ELSE Tell(c, Says("unknown")) /\ UNCHANGED owned
    /\ UNCHANGED <<now, seen, asked, deadline, aborted, ledger, crashes>>

\* awaitBeforeExecution: the call answers; the operation under way goes on, and
\* a marker that has been written is removed.
Interrupt(c) ==
    /\ aborted[c]
    /\ pc[c] \in {"purging", "read", "claiming", "replacing", "claimed", "renewing"}
    /\ Tell(c, Says("interrupted"))
    /\ Run(c, IF pc[c] = "claimed" THEN "clean" ELSE op[c])
    /\ UNCHANGED <<now, entry, seen, asked, deadline, owned, aborted, ledger, crashes>>

\* deleteStarted().
Clean(c) ==
    /\ op[c] = "clean"
    /\ entry' = IF Holds(c) THEN None ELSE Present
    /\ Run(c, "none")
    /\ UNCHANGED <<now, pc, seen, asked, deadline, owned, aborted, answer, ledger, crashes>>

\* The renewal timer, at any time or not at all.  A renewal that is slow to land
\* has the effect of one made where it was asked for, or of one that fails.
Renew(c) ==
    /\ pc[c] \in {"policy", "running"}
    /\ now < deadline[c]
    /\ entry' = IF owned[c] /\ CanRenew(c, now) THEN Renewed(now) ELSE entry
    /\ owned' = [owned EXCEPT ![c] = @ /\ CanRenew(c, now)]
    /\ UNCHANGED <<now, pc, op, seen, asked, deadline, aborted, answer, ledger, crashes>>

\* The policy lets the tool run.
StartCallback(c) ==
    /\ pc[c] = "policy"
    /\ effects' = effects \cup {c}
    /\ Goto(c, "running")
    /\ UNCHANGED <<now, entry, op, seen, asked, deadline, owned, aborted, answer, settled, finished,
                   crashes>>

\* The tool, or the policy in its place, has answered: with a result, with an
\* error that clears the marker (validation, permission, not found,
\* unavailable; such an error that is thrown clears it whoever holds the lease),
\* or with another error.
Finish(c, outcome) ==
    /\ \/ pc[c] = "running"
       \/ pc[c] = "policy" /\ outcome # "success"
    /\ LET mine == owned[c] /\ ~aborted[c]
       IN  CASE outcome = "thrown" ->
                    /\ Tell(c, Says("error")) /\ Run(c, "clean")
                    /\ settled' = settled \cup {c}
             [] ~mine /\ outcome # "thrown" -> Tell(c, Says("unknown")) /\ UNCHANGED <<op, settled>>
             [] mine /\ outcome = "success" ->
                    Goto(c, "completing") /\ Run(c, "complete") /\ UNCHANGED <<answer, settled>>
             [] mine /\ outcome = "cleared" ->
                    /\ Tell(c, Says("error")) /\ Run(c, "clean")
                    /\ settled' = settled \cup {c}
             [] mine /\ outcome = "failed" ->
                    Tell(c, Says("error")) /\ UNCHANGED <<op, settled>>
    /\ asked' = [asked EXCEPT ![c] = now]
    /\ UNCHANGED <<now, entry, seen, deadline, owned, aborted, effects, finished, crashes>>

\* completeStarted(): only the attempt that holds the marker, when it was asked
\* for before its end.
Complete(c) ==
    /\ op[c] = "complete"
    /\ LET ok == CanRenew(c, asked[c])
       IN  /\ entry' = IF ok THEN Completed(c, now + TTL) ELSE Present
           /\ finished' = IF ok THEN [finished EXCEPT ![c] = now + TTL] ELSE finished
           /\ Run(c, "none")
           /\ IF pc[c] = "done" THEN UNCHANGED <<pc, answer>>
              ELSE Tell(c, IF ok THEN Result(c, "fresh") ELSE Says("unknown"))
    /\ UNCHANGED <<now, seen, asked, deadline, owned, aborted, effects, settled, crashes>>

GiveUpCompletion(c) ==
    /\ aborted[c] /\ pc[c] = "completing"
    /\ Tell(c, Says("unknown"))
    /\ UNCHANGED <<now, entry, op, seen, asked, deadline, owned, aborted, ledger, crashes>>

-----------------------------------------------------------------------------
(* The environment.                                                        *)

Abort(c) ==
    /\ pc[c] \notin {"done", "dead"} /\ ~aborted[c]
    /\ aborted' = [aborted EXCEPT ![c] = TRUE]
    /\ UNCHANGED <<now, entry, pc, op, seen, asked, deadline, owned, answer, ledger, crashes>>

\* The process dies with its calls; the store keeps the entry.
Crash ==
    /\ crashes < MaxCrashes
    /\ crashes' = crashes + 1
    /\ pc' = [c \in Calls |-> IF pc[c] = "idle" THEN "idle" ELSE "dead"]
    /\ op' = [c \in Calls |-> "none"]
    /\ UNCHANGED <<now, entry, seen, asked, deadline, owned, aborted, answer, ledger>>

Tick ==
    /\ now < MaxNow
    /\ now' = now + 1
    /\ UNCHANGED <<entry, pc, op, seen, asked, deadline, owned, aborted, answer, ledger, crashes>>

CallStep(c) ==
    \/ Read(c) \/ Purge(c) \/ \E receipt \in BOOLEAN : Proceed(c, receipt)
    \/ Claim(c) \/ Replace(c) \/ Admit(c) \/ FirstRenewal(c) \/ Interrupt(c) \/ Clean(c)
    \/ Renew(c) \/ StartCallback(c)
    \/ \E outcome \in {"success", "cleared", "thrown", "failed"} : Finish(c, outcome)
    \/ Complete(c) \/ GiveUpCompletion(c) \/ Abort(c)

Next == (\E c \in Calls : CallStep(c)) \/ Crash \/ Tick

Spec == Init /\ [][Next]_vars

-----------------------------------------------------------------------------
(* Properties.                                                             *)

Entries ==
    {None}
    \cup [status : {"started"}, attempt : Calls, lease : 0 .. MaxNow + Lease,
          end : 0 .. MaxNow + MaxDuration]
    \cup [status : {"completed"}, attempt : Calls, expires : 0 .. MaxNow + TTL]

Answers ==
    [kind : {"none", "unknown", "refused", "interrupted", "timeout", "error"}]
    \cup [kind : {"fresh", "deduped"}, attempt : Calls]

\* The lease of a marker never outlives its absolute deadline.
TypeOK ==
    /\ now \in 0 .. MaxNow /\ crashes \in 0 .. MaxCrashes
    /\ entry \in Entries /\ seen \in [Calls -> Entries]
    /\ entry.status = "started" => entry.lease <= entry.end
    /\ pc \in [Calls -> {"idle", "purging", "read", "claiming", "replacing", "claimed",
                         "renewing", "policy", "running", "completing", "done", "dead"}]
    /\ op \in [Calls -> {"none", "purge", "claim", "replace", "renew", "clean", "complete"}]
    /\ asked \in [Calls -> 0 .. MaxNow]
    /\ deadline \in [Calls -> 0 .. MaxNow + MaxDuration]
    /\ owned \in [Calls -> BOOLEAN] /\ aborted \in [Calls -> BOOLEAN]
    /\ answer \in [Calls -> Answers]
    /\ effects \subseteq Calls /\ settled \subseteq Calls
    /\ finished \in [Calls -> 0 .. MaxNow + TTL]

\* The attempt no longer stands in the way of another: its result has expired,
\* an operator settled it, or the tool said that nothing happened.
Retired(c) == c \in settled \/ (finished[c] # 0 /\ now > finished[c])

\* The tool runs once: of two attempts whose callback has started, one has been
\* retired.  Crashes, interruptions, late writes and lost leases do not free
\* the key (claimStarted, replaceUnknownStarted, the clean-up of late writes).
OneEffect ==
    \A c, d \in effects : c # d => Retired(c) \/ Retired(d)

\* An attempt that an operator has had retried does not report its result any
\* more, however late it ends: nobody is given the result of an attempt that
\* was settled before it was recorded (completeStarted and its fence).
SupersededIsSilent ==
    \A c \in Calls : finished'[c] # finished[c] => c \notin settled

\* A call that was interrupted before the tool ran leaves no marker, once what
\* it had under way is over: the next call is not told of an unknown outcome
\* (cleanLateClaim, cleanLateStartedWrite).
InterruptedLeavesNothing ==
    \A c \in Calls :
        answer[c].kind \in {"interrupted", "timeout"} /\ pc[c] = "done" /\ op[c] = "none" =>
            ~(entry.status = "started" /\ entry.attempt = c)
=============================================================================
