--------------------------- MODULE ApprovalResume ---------------------------
(***************************************************************************)
(* A tool call that needs a person's approval returns a signed approval    *)
(* whose binding is kept by an ApprovalStateStore.  resumeApproval() spends *)
(* the binding and starts the call: it reserves, commits and, if the call   *)
(* is interrupted on the way, releases it again, with an await at each     *)
(* step.  Several requests may resume the same approval, an operator may   *)
(* revoke it, a restarted host may restore it, and it expires.              *)
(*                                                                         *)
(* The module models the process-local store (approval-binding.ts), the    *)
(* consumption (toolbox-approval-consumption.ts), the three places that    *)
(* consume (the start of the callback, the replay of a recorded result and *)
(* the policy that asks again) and the issuance of the approval that       *)
(* replaces the first one in the last case.                                *)
(***************************************************************************)
EXTENDS Integers, FiniteSets

CONSTANTS
    Resumers,     \* the concurrent calls of resumeApproval() for one approval
    ExpiresAt,    \* when the binding of that approval expires
    Deadline,     \* Deadline[r]: the deadline of r's request
    MaxNow,       \* bound: the clock stops here
    MaxFaults     \* bound: calls of revoke() that fail for a passing reason

ApprovalAssumption ==
    /\ ExpiresAt \in Nat \ {0} /\ MaxNow \in Nat /\ MaxFaults \in Nat
    /\ Deadline \in [Resumers -> Nat]

VARIABLES
    now,          \* the clock
    store,        \* where the store keeps the binding of the approval
    next,         \* next[r]: the same for the approval that replaces it when
                  \* the policy asks r again
    pc,           \* pc[r]: the await at which r stands
    kind,         \* kind[r]: what the policy made of r's call
    aborted,      \* aborted[r]: the signal of r's caller
    stopped,      \* stopped[r]: the signal of the execution, which follows the
                  \* caller's and is also aborted by the toolbox
    reported,     \* reported[r]: consumption.consumed, as the result tells it
    spent,        \* spent[r]: r passed the approval
    late,         \* late[r]: the issuance or the rollback that goes on after r
                  \* has answered
    tries,        \* tries[r]: calls of revoke() left to revokeLateIssuance
    restorer,     \* a restoreApproval() in progress
    revoked,      \* revoke() has succeeded
    faults

vars == <<now, store, next, pc, kind, aborted, stopped, reported, spent, late,
          tries, restorer, revoked, faults>>
resuming == <<pc, kind, reported, spent>>
signals == <<aborted, stopped>>
hosts == <<restorer, revoked, faults>>

States == {"absent", "issued", "reserved", "consumed", "revoked"}
Points == {"idle", "state", "admission", "reserve", "reserved", "commit",
           "committed", "withdraw", "fail", "admitted", "after", "rollback",
           "issuing", "done"}
Kinds == {"unknown", "run", "replay", "regate"}

Init ==
    /\ now = 0
    /\ store = "issued"
    /\ next = [r \in Resumers |-> "absent"]
    /\ pc = [r \in Resumers |-> "idle"]
    /\ kind = [r \in Resumers |-> "unknown"]
    /\ aborted = [r \in Resumers |-> FALSE]
    /\ stopped = [r \in Resumers |-> FALSE]
    /\ reported = [r \in Resumers |-> FALSE]
    /\ spent = [r \in Resumers |-> FALSE]
    /\ late = [r \in Resumers |-> "none"]
    /\ tries = [r \in Resumers |-> 3]
    /\ restorer = "idle"
    /\ revoked = FALSE
    /\ faults = 0

Goto(r, p) == pc' = [pc EXCEPT ![r] = p]

-----------------------------------------------------------------------------
(* The store.  Every operation but commit and release reads the clock.     *)

Expired == now >= ExpiresAt

\* What purgeExpired leaves of the binding: a reservation is not purged.
Purged == IF Expired /\ store # "reserved" THEN "absent" ELSE store

CanIssue == ~Expired /\ Purged = "absent"

CanReserve == ~Expired /\ Purged = "issued"

\* revoke() takes a binding that is issued or reserved; on one that is
\* consumed or absent it throws.
RevokedFrom ==
    IF Purged \in {"issued", "reserved", "revoked"} THEN "revoked" ELSE Purged

\* release() undoes a reservation and a commit, and nothing else.
Released == IF store \in {"reserved", "consumed"} THEN "issued" ELSE store

-----------------------------------------------------------------------------
(* A resumeApproval() up to the admission of the call.                     *)

Late(r) == Deadline[r] <= now

\* prepareResume: an expired binding is refused; otherwise the state is asked
\* for, unless the request is aborted or too late.
Resume(r) ==
    /\ pc[r] = "idle"
    /\ Goto(r, IF Expired \/ aborted[r] \/ Late(r) THEN "done" ELSE "state")
    /\ UNCHANGED <<now, store, next, kind, signals, reported, spent, late, tries, hosts>>

\* waitForState: the answer of the store races the signal and the deadline.
StateRead(r) ==
    /\ pc[r] = "state"
    /\ store' = Purged
    /\ Goto(r, IF aborted[r] \/ Late(r) \/ Purged # "issued" THEN "done" ELSE "admission")
    /\ UNCHANGED <<now, next, kind, signals, reported, spent, late, tries, hosts>>

\* The arguments are validated and the policy is run again.  It may refuse the
\* call or the execution may have been stopped: nothing is consumed then.
\* Otherwise it lets the callback run, has a recorded result replayed, or asks
\* for another approval.
Admit(r, k) ==
    /\ pc[r] = "admission"
    /\ ~stopped[r]
    /\ kind' = [kind EXCEPT ![r] = k]
    /\ Goto(r, "reserve")
    /\ UNCHANGED <<now, store, next, signals, reported, spent, late, tries, hosts>>

Refuse(r) ==
    /\ pc[r] = "admission"
    /\ Goto(r, "done")
    /\ UNCHANGED <<now, store, next, kind, signals, reported, spent, late, tries, hosts>>

-----------------------------------------------------------------------------
(* consume() of toolbox-approval-consumption.ts.                           *)

\* A faulty variant: a binding that is consumed counts as one's own.
Reserve_consumed(r) ==
    /\ pc[r] = "reserve"
    /\ CASE CanReserve -> store' = "reserved" /\ Goto(r, "reserved")
         [] store = "consumed" -> store' = store /\ Goto(r, "committed")
         [] OTHER -> store' = store /\ Goto(r, "done")
    /\ UNCHANGED <<now, next, kind, signals, reported, spent, late, tries, hosts>>

\* A reserve() that throws leaves nothing to release.
Reserve(r) ==
    /\ pc[r] = "reserve"
    /\ IF CanReserve
       THEN store' = "reserved" /\ Goto(r, "reserved")
       ELSE store' = (IF Expired THEN store ELSE Purged) /\ Goto(r, "done")
    /\ UNCHANGED <<now, next, kind, signals, reported, spent, late, tries, hosts>>

\* After reserve(): an aborted request withdraws, one past its deadline fails;
\* both release.
Reserved(r) ==
    /\ pc[r] = "reserved"
    /\ Goto(r, IF aborted[r] THEN "withdraw" ELSE IF Late(r) THEN "fail" ELSE "commit")
    /\ UNCHANGED <<now, store, next, kind, signals, reported, spent, late, tries, hosts>>

\* A faulty variant: commit() does not look at what became of the reservation.
Commit_blind(r) ==
    /\ pc[r] = "commit"
    /\ store' = "consumed" /\ Goto(r, "committed")
    /\ UNCHANGED <<now, next, kind, signals, reported, spent, late, tries, hosts>>

\* commit(): the reservation may have been revoked meanwhile.
Commit(r) ==
    /\ pc[r] = "commit"
    /\ IF store = "reserved"
       THEN store' = "consumed" /\ Goto(r, "committed")
       ELSE store' = store /\ Goto(r, "fail")
    /\ UNCHANGED <<now, next, kind, signals, reported, spent, late, tries, hosts>>

\* After commit(): the same two checks again.  A request that passes them has
\* a rollback in its hands.
Committed(r) ==
    /\ pc[r] = "committed"
    /\ reported' = [reported EXCEPT ![r] = TRUE]
    /\ Goto(r, IF aborted[r] THEN "withdraw" ELSE IF Late(r) THEN "fail" ELSE "admitted")
    /\ UNCHANGED <<now, store, next, kind, signals, spent, late, tries, hosts>>

\* A faulty variant: the request goes without giving the approval back.
Withdraw_silent(r) ==
    /\ pc[r] \in {"withdraw", "fail"}
    /\ reported' = [reported EXCEPT ![r] = FALSE]
    /\ Goto(r, "done")
    /\ UNCHANGED <<now, store, next, kind, signals, spent, late, tries, hosts>>

\* The release of either path; the caller that goes on after "withdraw" finds
\* its signal aborted and stops.
Withdraw(r) ==
    /\ pc[r] \in {"withdraw", "fail"}
    /\ store' = Released
    /\ reported' = [reported EXCEPT ![r] = FALSE]
    /\ Goto(r, "done")
    /\ UNCHANGED <<now, next, kind, signals, spent, late, tries, hosts>>

-----------------------------------------------------------------------------
(* What the three callers of consume() do with an admission.               *)

\* startRuntimeExecution: a stopped execution answers at once and leaves the
\* rollback to itself; otherwise the callback starts.
Start(r) ==
    /\ pc[r] = "admitted" /\ kind[r] = "run"
    /\ Goto(r, "done")
    /\ IF stopped[r]
       THEN late' = [late EXCEPT ![r] = "rollback"] /\ spent' = spent
       ELSE spent' = [spent EXCEPT ![r] = TRUE] /\ late' = late
    /\ UNCHANGED <<now, store, next, kind, signals, reported, tries, hosts>>

\* handleAuthorizationOnly: the recorded result is given out after the
\* policy's last word, and the approval is given back if the word is no.
Replay(r) ==
    /\ pc[r] = "admitted" /\ kind[r] = "replay"
    /\ Goto(r, IF stopped[r] THEN "rollback" ELSE "after")
    /\ UNCHANGED <<now, store, next, kind, signals, reported, spent, late, tries, hosts>>

PolicyAfter(r, allowed) ==
    /\ pc[r] = "after"
    /\ Goto(r, IF allowed THEN "done" ELSE "rollback")
    /\ spent' = [spent EXCEPT ![r] = allowed]
    /\ UNCHANGED <<now, store, next, kind, signals, reported, late, tries, hosts>>

\* consumeAndIssueApproval: the policy asked again, and another binding is
\* issued in exchange, unless the execution is stopped or late.
Exchange(r) ==
    /\ pc[r] = "admitted" /\ kind[r] = "regate"
    /\ IF stopped[r] \/ Late(r)
       THEN Goto(r, "rollback") /\ late' = late
       ELSE Goto(r, "issuing") /\ late' = [late EXCEPT ![r] = "issue"]
    /\ UNCHANGED <<now, store, next, kind, signals, reported, spent, tries, hosts>>

\* A rollback that is awaited, or the one Start left behind.
Rollback(r) ==
    /\ \/ pc[r] = "rollback" /\ Goto(r, "done") /\ late' = late
       \/ late[r] = "rollback" /\ late' = [late EXCEPT ![r] = "none"] /\ pc' = pc
    /\ store' = Released
    /\ UNCHANGED <<now, next, kind, signals, reported, spent, tries, hosts>>

-----------------------------------------------------------------------------
(* issueApprovalStateWithInterruption: the issuance races the signal and    *)
(* the deadline; one that lands too late is revoked.                        *)

Issue(r) ==
    /\ late[r] = "issue"
    /\ next' = [next EXCEPT ![r] = "issued"]
    /\ late' = [late EXCEPT ![r] = IF pc[r] = "issuing" THEN "issued" ELSE "revoke"]
    /\ UNCHANGED <<now, store, resuming, signals, tries, hosts>>

IssueAnswered(r) ==
    /\ pc[r] = "issuing" /\ late[r] = "issued"
    /\ Goto(r, "done")
    /\ spent' = [spent EXCEPT ![r] = TRUE]
    /\ late' = [late EXCEPT ![r] = "none"]
    /\ UNCHANGED <<now, store, next, kind, signals, reported, tries, hosts>>

\* interrupt: what was issued, or will be, is to be revoked.
IssueInterrupted(r) ==
    /\ pc[r] = "issuing"
    /\ stopped[r] \/ Late(r)
    /\ Goto(r, "rollback")
    /\ late' = [late EXCEPT ![r] = IF @ = "issued" THEN "revoke" ELSE @]
    /\ UNCHANGED <<now, store, next, kind, signals, reported, spent, tries, hosts>>

\* revokeLateIssuance: three tries, after which the error is dropped.
RevokeLate(r, fails) ==
    /\ late[r] = "revoke"
    /\ fails => faults < MaxFaults
    /\ faults' = IF fails THEN faults + 1 ELSE faults
    /\ tries' = [tries EXCEPT ![r] = @ - 1]
    /\ next' = IF fails THEN next ELSE [next EXCEPT ![r] = "revoked"]
    /\ late' = IF fails /\ tries[r] > 1 THEN late ELSE [late EXCEPT ![r] = "none"]
    /\ UNCHANGED <<now, store, resuming, signals, restorer, revoked>>

-----------------------------------------------------------------------------
(* The operator, the host and the environment.                             *)

\* revokeApproval(): throws, and changes nothing, on a binding that is
\* consumed or absent.
Revoke ==
    /\ ~revoked
    /\ store' = RevokedFrom
    /\ revoked' = (store' = "revoked")
    /\ UNCHANGED <<now, next, resuming, signals, late, tries, restorer, faults>>

\* restoreApproval(): asks for the state, and issues the binding again if
\* there is none.  state() says nothing of a reservation.
RestoreReads ==
    /\ restorer = "idle"
    /\ ~Expired
    /\ store' = Purged
    /\ restorer' = IF Purged \in {"absent", "reserved"} THEN "issue" ELSE "done"
    /\ UNCHANGED <<now, next, resuming, signals, late, tries, revoked, faults>>

RestoreIssues ==
    /\ restorer = "issue"
    /\ store' = IF CanIssue THEN "issued" ELSE Purged
    /\ restorer' = "done"
    /\ UNCHANGED <<now, next, resuming, signals, late, tries, revoked, faults>>

\* The caller's abort reaches the execution; the toolbox can stop the
\* execution without it.
Abort(r) ==
    /\ pc[r] # "done" /\ ~aborted[r]
    /\ aborted' = [aborted EXCEPT ![r] = TRUE]
    /\ stopped' = [stopped EXCEPT ![r] = TRUE]
    /\ UNCHANGED <<now, store, next, resuming, late, tries, hosts>>

Stop(r) ==
    /\ pc[r] \notin {"idle", "state", "done"} /\ ~stopped[r]
    /\ stopped' = [stopped EXCEPT ![r] = TRUE]
    /\ UNCHANGED <<now, store, next, resuming, aborted, late, tries, hosts>>

Tick ==
    /\ now < MaxNow
    /\ now' = now + 1
    /\ UNCHANGED <<store, next, resuming, signals, late, tries, hosts>>

ResumeStep(r) ==
    \/ Resume(r) \/ StateRead(r) \/ Refuse(r)
    \/ \E k \in Kinds \ {"unknown"} : Admit(r, k)
    \/ Reserve(r) \/ Reserved(r) \/ Commit(r) \/ Committed(r) \/ Withdraw(r)
    \/ Start(r) \/ Replay(r) \/ \E ok \in BOOLEAN : PolicyAfter(r, ok)
    \/ Exchange(r) \/ Rollback(r)
    \/ Issue(r) \/ IssueAnswered(r) \/ IssueInterrupted(r)
    \/ \E fails \in BOOLEAN : RevokeLate(r, fails)

Next ==
    \/ \E r \in Resumers : ResumeStep(r) \/ Abort(r) \/ Stop(r)
    \/ Revoke \/ RestoreReads \/ RestoreIssues \/ Tick

Spec == Init /\ [][Next]_vars

-----------------------------------------------------------------------------
(* Properties.                                                             *)

TypeOK ==
    /\ now \in 0 .. MaxNow
    /\ store \in States /\ next \in [Resumers -> {"absent", "issued", "revoked"}]
    /\ pc \in [Resumers -> Points] /\ kind \in [Resumers -> Kinds]
    /\ aborted \in [Resumers -> BOOLEAN] /\ stopped \in [Resumers -> BOOLEAN]
    /\ reported \in [Resumers -> BOOLEAN] /\ spent \in [Resumers -> BOOLEAN]
    /\ late \in [Resumers -> {"none", "rollback", "issue", "issued", "revoke"}]
    /\ tries \in [Resumers -> 0 .. 3]
    /\ restorer \in {"idle", "issue", "done"} /\ revoked \in BOOLEAN
    /\ faults \in 0 .. MaxFaults

\* An approval is spent once: whatever the resumers, their interruptions and a
\* restoration do, at most one of them starts the call, replays its result or
\* exchanges the approval ("consumes the binding once", armorer/README.md).
SpentOnce == \A r, s \in Resumers : spent[r] /\ spent[s] => r = s

\* Once revoke() has succeeded, no resumer passes any more, the one that held
\* the reservation at that moment included (revoke, approval-binding.ts).
RevokedIsFinal == revoked => spent' = spent

Away(r) == pc[r] \in {"idle", "state", "admission", "reserve", "done"} /\ late[r] # "rollback"

\* When no resumer is on its way through the store, nothing is left reserved,
\* and a binding counts as consumed only if somebody passed with it: a call that
\* was interrupted gives the approval back (consume and its rollback).
GivenBack ==
    (\A r \in Resumers : Away(r)) =>
        /\ store # "reserved"
        /\ store = "consumed" => \E r \in Resumers : spent[r]

\* An approval is exchanged whole: once a call that was asked again is over,
\* its new approval can be used if and only if the old one was given for it;
\* an issuance that lands after the interruption does not leave a second
\* approval behind (waitForIssuance, revokeLateIssuance).
ExchangedWhole ==
    \A r \in Resumers :
        pc[r] = "done" /\ kind[r] = "regate" /\ late[r] = "none" =>
            (next[r] = "issued") = spent[r]

\* A result that says the approval was not consumed is that of a call that did
\* not pass: the bureau offers the approval again on its strength
\* (create-bureau.ts, the review that stays pending).
NotConsumedNotSpent ==
    \A r \in Resumers : pc[r] = "done" /\ spent[r] => reported[r]
=============================================================================
