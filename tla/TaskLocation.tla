---------------------------- MODULE TaskLocation ----------------------------
(***************************************************************************)
(* What the scheduler promises about a task id, and all that a caller sees *)
(* through locateTask(): an id in progress leaves that state only by       *)
(* settling, an outcome never turns into another outcome, and what was     *)
(* retained is forgotten only by its timers, a new submission or stop().   *)
(* Source: packages/operative/src/scheduler/create-scheduler.ts            *)
(***************************************************************************)
CONSTANTS Tasks, Outcome

VARIABLE location   \* SchedulerTaskLocation of each id; an outcome means "terminal"

Locations == {"not-found", "in-progress", "expired"} \cup Outcome

Init == location = [id \in Tasks |-> "not-found"]

Accept(id) ==
  /\ location[id] # "in-progress"
  /\ location' = [location EXCEPT ![id] = "in-progress"]

(* stop() settles several ids in one turn. *)
Settle(ids, outcome) ==
  /\ \A id \in ids : location[id] = "in-progress"
  /\ location' = [id \in Tasks |-> IF id \in ids THEN outcome ELSE location[id]]

Evict(id) ==
  /\ location[id] \in Outcome
  /\ location' = [location EXCEPT ![id] = "expired"]

Forget(id) ==
  /\ location[id] = "expired"
  /\ location' = [location EXCEPT ![id] = "not-found"]

Purge ==
  location' = [id \in Tasks |->
                 IF location[id] = "in-progress" THEN "in-progress" ELSE "not-found"]

Next ==
  \/ \E id \in Tasks : Accept(id) \/ Evict(id) \/ Forget(id)
  \/ \E ids \in SUBSET Tasks, outcome \in Outcome : Settle(ids, outcome)
  \/ Purge

Spec == Init /\ [][Next]_location
=============================================================================
