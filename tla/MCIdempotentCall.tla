-------------------------- MODULE MCIdempotentCall --------------------------
(* An instance of IdempotentCall for TLC; the calls are interchangeable.    *)
EXTENDS IdempotentCall, TLC

CONSTANTS c1, c2, c3

Symmetry == Permutations(Calls)
=============================================================================
