------------------------------- MODULE Sessions -------------------------------
(***************************************************************************)
(* Session stores and the outboxes that drain their facts.  A session      *)
(* write and a drain meet in the entries of the outbox alone, and each     *)
(* component models its side of them; different stores, and different      *)
(* outboxes, do not meet.  So the initial state picks one of them with its *)
(* configuration, and only that one moves: the clock is shared, and the    *)
(* variables of the component that is not picked stay None.                *)
(***************************************************************************)
EXTENDS Integers, Sequences, FiniteSets

CONSTANTS
    Outboxes, Stores,   \* the outboxes and the stores, by name
    \* Of each outbox: OutboxDrain explains the parameters.
    Bureaus, Kinds, Lease, MaxTries, MaxFacts, MaxClock, MaxCrashes, MaxFaults,
    \* Of each store: SessionStore explains them.
    Callers, Ids, Operations, Updaters, MaxAttempts, MaxOperations, FineClock,
    None

VARIABLES
    instance,   \* the outbox or the store that is picked
    clock,
    \* One outbox and its drains (OutboxDrain).
    facts, entries, journal, drain, call, writes, retryAt, life, deletion, used,
    \* One session store (SessionStore).
    body, index, ordinal, log, minted, mine, op, called, acked, expired

outboxVars == <<facts, entries, journal, drain, call, writes, retryAt, life, deletion, used>>
storeVars == <<body, index, ordinal, log, minted, mine, op, called, acked, expired>>
vars == <<instance, clock, outboxVars, storeVars>>

O(x) == INSTANCE OutboxDrain WITH
    Bureaus <- Bureaus[x], Kinds <- Kinds[x], Lease <- Lease[x], MaxTries <- MaxTries[x],
    MaxFacts <- MaxFacts[x], MaxClock <- MaxClock[x], MaxCrashes <- MaxCrashes[x],
    MaxFaults <- MaxFaults[x]

S(x) == INSTANCE SessionStore WITH
    Callers <- Callers[x], Ids <- Ids[x], Operations <- Operations[x],
    Updaters <- Updaters[x], MaxAttempts <- MaxAttempts[x],
    MaxOperations <- MaxOperations[x], FineClock <- FineClock[x]

ASSUME Apart == Outboxes \cap Stores = {}
ASSUME OutboxInstances == \A x \in Outboxes : O(x)!OutboxAssumption
ASSUME StoreInstances == \A x \in Stores : S(x)!SessionStoreAssumption

NoOutbox ==
    /\ facts = None /\ entries = None /\ journal = None /\ drain = None /\ call = None
    /\ writes = None /\ retryAt = None /\ life = None /\ deletion = None /\ used = None

NoStore ==
    /\ body = None /\ index = None /\ ordinal = None /\ log = None /\ minted = None
    /\ mine = None /\ op = None /\ called = None /\ acked = None /\ expired = None

Init ==
    \/ \E x \in Outboxes : instance = x /\ O(x)!Init /\ NoStore
    \/ \E x \in Stores : instance = x /\ S(x)!Init /\ NoOutbox

Next ==
    \/ \E x \in Outboxes : instance = x /\ O(x)!Next /\ UNCHANGED <<instance, storeVars>>
    \/ \E x \in Stores : instance = x /\ S(x)!Next /\ UNCHANGED <<instance, outboxVars>>

Spec == Init /\ [][Next]_vars

-----------------------------------------------------------------------------
(* Properties: those of the modules.                                       *)

\* Every variable of the outbox keeps its type, and a fact leaves it only when
\* every row it owes is durable, whatever crashes, failed writes and lapsed
\* claims did in between.
NoFactIsLost ==
    \A x \in Outboxes : instance = x => O(x)!TypeOK /\ O(x)!NoFactIsLost

\* What has been committed and delivered, if it is an outbox that is picked.
Committed == IF instance \in Outboxes THEN facts ELSE <<>>
Delivered == IF instance \in Outboxes THEN [x \in Outboxes |-> O(x)!Delivered][instance]
             ELSE <<>>

Feed == INSTANCE OrderedFeed WITH committed <- Committed, delivered <- Delivered

\* Facts become durable once each and in the order of their commits, although
\* two processes may replay one fact at the same time.
ImplementsOrderedFeed == Feed!FeedSpec

\* Every variable of the store keeps its type, and the outbox entries tell the
\* whole story of every life of a session: one entry per revision, and a
\* deletion exactly when it was deleted.
LogTellsBodies ==
    \A x \in Stores : instance = x => S(x)!TypeOK /\ S(x)!LogTellsBodies

\* What a save or an update has reported as written stays in the session for
\* as long as that life of it lasts, whoever else writes.
NoLostMessage ==
    \A x \in Stores : instance = x => S(x)!NoLostMessage

\* Unless two commits happen in one millisecond, the summary index never
\* misses a session or shows an earlier revision of it, whatever commits,
\* deletes, expires, rebuilds and repairs at once.
IndexFaithful ==
    \A x \in Stores : instance = x /\ FineClock[x] => S(x)!IndexFaithful

\* No step shortens a claim or takes it from a live owner, whatever renewal
\* arrives late; and a stored session changes only into its own next revision,
\* without content that was written to an earlier life of its id.
NothingIsTakenBack ==
    [][/\ \A x \in Outboxes : instance = x => O(x)!ClaimLasts
       /\ \A x \in Stores : instance = x => S(x)!LifeGoesOn]_vars
=============================================================================
