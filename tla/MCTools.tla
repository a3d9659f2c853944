------------------------------- MODULE MCTools -------------------------------
(***************************************************************************)
(* Two approvals and two keys: the values of the parameters of Tools.      *)
(***************************************************************************)
EXTENDS Tools, TLC

CONSTANTS r1, r2, q1, q2, q3, c1, c2, c3, pair, race, expiring, lasting

\* Two requests resume an approval; the first one has a deadline, revocations
\* fail for a while and the approval expires.  And three requests race for an
\* approval that does not expire.
ApprovalNames == {pair, race}
ResumersValue == pair :> {r1, r2} @@ race :> {q1, q2, q3}
ExpiresAtValue == pair :> 2 @@ race :> 1
DeadlineValue == pair :> (r1 :> 1 @@ r2 :> 3) @@ race :> [r \in {q1, q2, q3} |-> 1]
MaxFaultsValue == pair :> 1 @@ race :> 0

\* Two calls with one key, whose leases and results run out, and three calls
\* with one key, whose results are kept.
KeyNames == {expiring, lasting}
CallsValue == expiring :> {c1, c2} @@ lasting :> {c1, c2, c3}
LeaseValue == expiring :> 2 @@ lasting :> 1
MaxDurationValue == expiring :> 3 @@ lasting :> 1
TTLValue == expiring :> 1 @@ lasting :> 5
MaxCrashesValue == expiring :> 1 @@ lasting :> 1

MaxNowValue == pair :> 2 @@ race :> 0 @@ expiring :> 3 @@ lasting :> 1

Symmetry == Permutations({q1, q2, q3}) \cup Permutations({c1, c2, c3})
=============================================================================
