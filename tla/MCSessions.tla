------------------------------ MODULE MCSessions ------------------------------
(***************************************************************************)
(* Three outboxes and four stores: the values of the parameters of         *)
(* Sessions.                                                               *)
(***************************************************************************)
EXTENDS Sessions, TLC

CONSTANTS
    b1, b2, c1, c2, c3, s1, s2, s3,
    shared, mixed, crashing, writers, returning, merging, indexing

\* Two processes drain one outbox; one process drains facts of all kinds while
\* its storage fails; and one process crashes, and its claims outlive it.
OutboxNames == {shared, mixed, crashing}
BureausValue == shared :> {b1, b2} @@ mixed :> {b1} @@ crashing :> {b1}
KindsValue == shared :> {"saved"} @@ crashing :> {"deleted"}
    @@ mixed :> {"saved", "deleted", "attachment", "unknown"}
LeaseValue == shared :> 1 @@ mixed :> 1 @@ crashing :> 2
MaxTriesValue == [x \in OutboxNames |-> 1]
MaxFactsValue == [x \in OutboxNames |-> 2]
MaxClockValue == shared :> 1 @@ mixed :> 0 @@ crashing :> 2
MaxCrashesValue == shared :> 0 @@ mixed :> 0 @@ crashing :> 1
MaxFaultsValue == shared :> 0 @@ mixed :> 2 @@ crashing :> 0

\* Two callers save, update and delete one session; a caller meets the later
\* lives of a session it holds an object of; three callers write one session
\* at once; and two callers write, delete, expire and list two sessions.
StoreNames == {writers, returning, merging, indexing}
CallersValue == writers :> {c1, c2} @@ returning :> {c1} @@ merging :> {c1, c2, c3}
    @@ indexing :> {c1, c2}
IdsValue == writers :> {s1} @@ returning :> {s1} @@ merging :> {s1} @@ indexing :> {s2, s3}
OperationsValue == writers :> {"save", "update", "delete"}
    @@ returning :> {"save", "update", "delete"} @@ merging :> {"save"}
    @@ indexing :> {"update", "delete", "list", "cleanup"}
UpdatersValue == writers :> {"append", "create"} @@ returning :> {"append", "create", "held"}
    @@ merging :> {"held"} @@ indexing :> {"create"}
MaxAttemptsValue == [x \in StoreNames |-> 2]
MaxOperationsValue == [[x \in StoreNames |-> 3] EXCEPT ![returning] = 4]
FineClockValue == [x \in StoreNames |-> TRUE]

Symmetry == Permutations({b1, b2}) \cup Permutations({c1, c2, c3})
    \cup Permutations({s2, s3})
=============================================================================
