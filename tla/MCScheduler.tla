----------------------------- MODULE MCScheduler -----------------------------
(***************************************************************************)
(* Small instances of the scheduler: which tasks exist, and with which     *)
(* lanes and requeue policies.                                             *)
(***************************************************************************)
EXTENDS Scheduler

CONSTANTS b, b2, i, d

(* A background task that is requeued, and an immediate one that preempts it. *)
MCPriority == [t \in Tasks |-> IF t = i THEN "immediate" ELSE "background"]

(* Background tasks are requeued by default, immediate ones are not. *)
MCRequeue == [t \in Tasks |-> t # i]

(* Nobody is left waiting: a submission to a started scheduler settles,    *)
(* also when its run fails, is preempted or meets a shutdown, and every    *)
(* stop() returns.                                                         *)
EverythingEnds == SubmissionSettles /\ StopTerminates
=============================================================================
