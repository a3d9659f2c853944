----------------------------- MODULE OrderedFeed -----------------------------
(***************************************************************************)
(* What the session outbox promises its readers: the facts that session    *)
(* writes committed become durable one by one, each once, in the order of  *)
(* their commits, and none is passed over.                                 *)
(***************************************************************************)
EXTENDS Naturals, Sequences

VARIABLES
    committed,  \* the kinds of the facts, in the order of their commits
    delivered   \* the ordinals whose fact is durable, in the order they became so

FeedInit == committed = <<>> /\ delivered = <<>>

CommitFact ==
    /\ \E k \in {"saved", "deleted", "attachment", "unknown"} :
           committed' = Append(committed, k)
    /\ UNCHANGED delivered

\* A fact nobody here can interpret is never delivered, and holds up the rest.
DeliverNext ==
    /\ Len(delivered) < Len(committed)
    /\ committed[Len(delivered) + 1] # "unknown"
    /\ delivered' = Append(delivered, Len(delivered) + 1)
    /\ UNCHANGED committed

FeedSpec == FeedInit /\ [][CommitFact \/ DeliverNext]_<<committed, delivered>>
=============================================================================
