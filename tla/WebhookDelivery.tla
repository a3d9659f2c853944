--------------------------- MODULE WebhookDelivery ---------------------------
(***************************************************************************)
(* createWebhookNotifier() posts a subject to a target.  A delivery is     *)
(* claimed in memory and has a durable record under the same id, written   *)
(* before the first attempt; it is retried with a back-off, and ends as    *)
(* delivered, exhausted or aborted.  dispose() abandons the back-off and   *)
(* awaits what is under way.  A process that dies loses the claims and     *)
(* leaves the records.                                                     *)
(*                                                                         *)
(* An id stands for "<subject>:<target>".  Liveness snapshots and payloads *)
(* are left out; the target and the store are external.                    *)
(***************************************************************************)
EXTENDS Integers, FiniteSets

CONSTANTS
    Ids,          \* the deliveries
    maxAttempts,
    MaxCrashes,   \* bound: the process dies, or restarts
    MaxFaults     \* bound: failed operations of the store

WebhookAssumption ==
    maxAttempts \in Nat \ {0} /\ MaxCrashes \in Nat /\ MaxFaults \in Nat

VARIABLES
    record,       \* record[i]: the status stored, or "absent"
    audited,      \* the ids with a webhook.delivery.exhausted entry
    claimed,      \* notifiedSubjectTargets
    pc,           \* pc[i]: where deliver() stands
    attempt,      \* attempt[i]
    saving,       \* saving[i]: the status about to be persisted
    aborted,      \* the owner's signal
    disposed,
    awaited,      \* what dispose() awaits
    disposal,     \* "none", "waiting", "done"
    caught,       \* the deliveries that were under way when the signal fired
    posters,      \* posters[i]: the processes that have sent i
    accepted,     \* the ids the target has answered for
    crashes, faults

vars == <<record, audited, claimed, pc, attempt, saving, aborted, disposed, awaited, disposal,
          caught, posters, accepted, crashes, faults>>
shutdown == <<aborted, disposed, awaited, disposal, caught>>
outside == <<posters, accepted, crashes>>

Init ==
    /\ record = [i \in Ids |-> "absent"]
    /\ audited = {}
    /\ claimed = {}
    /\ pc = [i \in Ids |-> "idle"]
    /\ attempt = [i \in Ids |-> 0]
    /\ saving = [i \in Ids |-> "none"]
    /\ aborted = FALSE
    /\ disposed = FALSE
    /\ awaited = {}
    /\ disposal = "none"
    /\ caught = {}
    /\ posters = [i \in Ids |-> {}]
    /\ accepted = {}
    /\ crashes = 0
    /\ faults = 0

Goto(i, p) == pc' = [pc EXCEPT ![i] = p]
Save(i, status) == Goto(i, "saving") /\ saving' = [saving EXCEPT ![i] = status]
Active == {i \in Ids : pc[i] \notin {"idle", "ended"}}

-----------------------------------------------------------------------------
(* The delivery.                                                           *)

\* The listener of actions, which dispose() removes, and notify(), which it
\* does not stop.
claim(i) ==
    /\ i \notin claimed
    /\ claimed' = claimed \cup {i}
    /\ Goto(i, "checking")
    /\ UNCHANGED <<record, audited, attempt, saving, shutdown, outside, faults>>

fireReview(i) == ~disposed /\ claim(i)
notifyExternal(i) == claim(i)

\* A faulty variant: the record is written with the outcome only.
Check_unrecorded(i, ok) ==
    /\ pc[i] = "checking"
    /\ ok \/ faults < MaxFaults
    /\ faults' = IF ok THEN faults ELSE faults + 1
    /\ Goto(i, IF ok /\ record[i] = "absent" THEN "looping" ELSE "ended")
    /\ UNCHANGED <<record, audited, claimed, attempt, saving, shutdown, outside>>

\* kv.has, which is not inside a try: its failure ends the delivery.
Check(i, ok) ==
    /\ pc[i] = "checking"
    /\ ok \/ faults < MaxFaults
    /\ faults' = IF ok THEN faults ELSE faults + 1
    /\ IF ok /\ record[i] = "absent" THEN Save(i, "pending")
       ELSE Goto(i, "ended") /\ UNCHANGED saving
    /\ UNCHANGED <<record, audited, claimed, attempt, shutdown, outside>>

\* How deliver() goes on after it has persisted a status.
AfterSave(i) ==
    CASE saving[i] = "pending" /\ attempt[i] = 0 -> "looping"
      [] saving[i] = "pending" /\ attempt[i] > 0 -> "backoff"
      [] saving[i] = "exhausted" -> "auditing"
      [] saving[i] \in {"delivered", "aborted"} -> "ended"

\* persist(): a failure is reported to the diagnostics and to nobody else.
persist(i, ok) ==
    /\ pc[i] = "saving"
    /\ ok \/ faults < MaxFaults
    /\ faults' = IF ok THEN faults ELSE faults + 1
    /\ record' = IF ok THEN [record EXCEPT ![i] = saving[i]] ELSE record
    /\ Goto(i, AfterSave(i))
    /\ UNCHANGED <<audited, claimed, attempt, saving, shutdown, outside>>

Post(i) ==
    /\ attempt' = [attempt EXCEPT ![i] = @ + 1]
    /\ posters' = [posters EXCEPT ![i] = @ \cup {crashes}]
    /\ Goto(i, "posting")

\* The top of the loop.
Attempt(i) ==
    /\ pc[i] = "looping"
    /\ CASE aborted -> Save(i, "aborted") /\ UNCHANGED <<attempt, posters>>
         [] ~aborted /\ disposed -> Goto(i, "ended") /\ UNCHANGED <<saving, attempt, posters>>
         [] ~aborted /\ ~disposed -> Post(i) /\ UNCHANGED saving
    /\ UNCHANGED <<record, audited, claimed, shutdown, accepted, crashes, faults>>

\* fetch answers, or rejects: then the target may have had the request or not.
Respond(i, ok, reached) ==
    /\ pc[i] = "posting"
    /\ ok => reached
    /\ accepted' = IF reached THEN accepted \cup {i} ELSE accepted
    /\ Save(i, CASE ok -> "delivered"
                 [] ~ok /\ aborted -> "aborted"
                 [] ~ok /\ ~aborted /\ attempt[i] >= maxAttempts -> "exhausted"
                 [] ~ok /\ ~aborted /\ attempt[i] < maxAttempts -> "pending")
    /\ UNCHANGED <<record, audited, claimed, attempt, shutdown, posters, crashes, faults>>

markExhausted(i) ==
    /\ pc[i] = "auditing"
    /\ audited' = audited \cup {i}
    /\ Goto(i, "ended")
    /\ UNCHANGED <<record, claimed, attempt, saving, shutdown, outside, faults>>

\* A faulty variant: dispose() clears the timer and resolves nothing.
Wake_cleared(i) ==
    /\ pc[i] = "backoff"
    /\ ~disposed
    /\ Goto(i, "looping")
    /\ UNCHANGED <<record, audited, claimed, attempt, saving, shutdown, outside, faults>>

\* abandonableSleep(): over, or cut short.
Wake(i) ==
    /\ pc[i] = "backoff"
    /\ Goto(i, "looping")
    /\ UNCHANGED <<record, audited, claimed, attempt, saving, shutdown, outside, faults>>

-----------------------------------------------------------------------------
(* The end of the notifier, and of the process.                            *)

Abort ==
    /\ ~aborted
    /\ aborted' = TRUE
    /\ caught' = {i \in Active : pc[i] # "checking"}
    /\ UNCHANGED <<record, audited, claimed, pc, attempt, saving, disposed, awaited, disposal,
                   outside, faults>>

dispose ==
    /\ ~disposed
    /\ disposed' = TRUE
    /\ awaited' = Active
    /\ disposal' = "waiting"
    /\ UNCHANGED <<record, audited, claimed, pc, attempt, saving, aborted, caught, outside,
                   faults>>

\* Promise.allSettled over the deliveries that were active.
Disposed ==
    /\ disposal = "waiting"
    /\ awaited \cap Active = {}
    /\ disposal' = "done"
    /\ UNCHANGED <<record, audited, claimed, pc, attempt, saving, aborted, disposed, awaited,
                   caught, outside, faults>>

Crash ==
    /\ crashes < MaxCrashes
    /\ crashes' = crashes + 1
    /\ claimed' = {}
    /\ pc' = [i \in Ids |-> "idle"]
    /\ attempt' = [i \in Ids |-> 0]
    /\ saving' = [i \in Ids |-> "none"]
    /\ aborted' = FALSE /\ disposed' = FALSE /\ awaited' = {} /\ disposal' = "none"
    /\ caught' = {}
    /\ UNCHANGED <<record, audited, posters, accepted, faults>>

DeliverStep(i) ==
    \/ \E ok \in BOOLEAN : Check(i, ok) \/ persist(i, ok)
    \/ Attempt(i) \/ markExhausted(i) \/ Wake(i)
    \/ \E ok, reached \in BOOLEAN : Respond(i, ok, reached)

Next ==
    \/ \E i \in Ids : fireReview(i) \/ notifyExternal(i) \/ DeliverStep(i)
    \/ Abort \/ dispose \/ Disposed \/ Crash

Spec == Init /\ [][Next]_vars

-----------------------------------------------------------------------------
(* Properties.                                                             *)

Statuses == {"absent", "pending", "delivered", "exhausted", "aborted"}

TypeOK ==
    /\ record \in [Ids -> Statuses]
    /\ audited \subseteq Ids /\ claimed \subseteq Ids
    /\ pc \in [Ids -> {"idle", "checking", "saving", "looping", "posting", "backoff", "auditing",
                       "ended"}]
    /\ attempt \in [Ids -> 0 .. maxAttempts]
    /\ saving \in [Ids -> {"none"} \cup (Statuses \ {"absent"})]
    /\ aborted \in BOOLEAN /\ disposed \in BOOLEAN
    /\ awaited \subseteq Ids /\ caught \subseteq Ids
    /\ disposal \in {"none", "waiting", "done"}
    /\ posters \in [Ids -> SUBSET (0 .. MaxCrashes)] /\ accepted \subseteq Ids
    /\ crashes \in 0 .. MaxCrashes /\ faults \in 0 .. MaxFaults

\* A restart does not notify again: while the store works, the attempts for an
\* id are all made by the process that wrote its record, whatever the outcome
\* and wherever a process dies (the comment on notifiedSubjectTargets).
NotifiedByOneProcess ==
    faults = 0 => \A i \in Ids : Cardinality(posters[i]) <= 1

\* A delivery that was under way when the owner's signal fired does not stay
\* "pending", also when dispose() comes in between (the order of the two checks
\* in the loop of deliver()).
AbortIsRecorded ==
    faults = 0 => \A i \in caught : pc[i] = "ended" => record[i] # "pending"
=============================================================================
