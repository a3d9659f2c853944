----------------------------- MODULE OutboxDrain -----------------------------
(***************************************************************************)
(* The session commit outbox, drained by several bureau processes that     *)
(* share one store: outbox.pending, claim and acknowledge                  *)
(* (operative/src/session/create-session-store.ts) and drainOutbox with    *)
(* its passes, claim renewal and retry timer                               *)
(* (bureau/src/create-bureau.ts), down to the rows that a replayed fact    *)
(* leaves in the durable event history and in the audit trail.             *)
(*                                                                         *)
(* The store, the history and the audit trail survive a crash; a process's *)
(* drain, its calls, its timers and its writes in flight do not.  A step   *)
(* is the code between two awaits.                                         *)
(***************************************************************************)
EXTENDS Integers, Sequences, FiniteSets, FiniteSetsExt

CONSTANTS
    Bureaus,        \* processes that share the store
    Kinds,          \* the kinds of facts that are committed
    Lease,          \* OUTBOX_CLAIM_LEASE_MS, in ticks of the clock
    MaxTries,       \* MAXIMUM_SAVE_ATTEMPTS: tries of a claim or an acknowledgement
    MaxFacts,       \* bound: facts committed
    MaxClock,       \* bound: the clock
    MaxCrashes,     \* bound: crashes
    MaxFaults,      \* bound: storage calls and writes that fail
    None

OutboxAssumption ==
    /\ Kinds \subseteq {"saved", "deleted", "attachment", "unknown"}
    /\ {Lease, MaxTries} \subseteq Nat \ {0}
    /\ {MaxFacts, MaxClock, MaxCrashes, MaxFaults} \subseteq Nat
    /\ None \notin [owner : Bureaus \X (1 .. MaxCrashes + 1), until : 0 .. MaxClock + Lease]

VARIABLES
    facts,      \* the kinds of all facts committed so far; the index is the ordinal
    entries,    \* the outbox: per pending ordinal, its claim
    journal,    \* the durable rows that replays have left, in order
    clock,
    drain,      \* per process, drainOutbox
    call,       \* per process, its claim() calls: the drain's and the renewal timer's
    writes,     \* per process, the rows its listeners are writing
    retryAt,    \* per process, the time for which the retry timer is armed
    life,       \* per process, how often it was started; None while it is down
    deletion,   \* per process, a deleteSession() that waits for the drain
    used        \* what has been used of the bounds

vars == <<facts, entries, journal, clock, drain, call, writes, retryAt, life,
          deletion, used>>

Ordinals == 1 .. MaxFacts
Claim == [owner : Bureaus \X (1 .. MaxCrashes + 1), until : 0 .. MaxClock + Lease]
Row == [log : {"history", "audit"}, ordinal : Ordinals]
Recorded == {journal[i] : i \in DOMAIN journal}

Idle == [pc |-> "idle", todo |-> {}, read |-> None, tries |-> 0, rerun |-> FALSE]
Started == [Idle EXCEPT !.pc = "list"]
NoCall == [pc |-> "idle", ordinal |-> 0, until |-> 0, read |-> None, tries |-> 0]
NoDeletion == [pc |-> "none", ordinal |-> 0]

Init ==
    /\ facts = <<>>
    /\ entries = [o \in {} |-> None]
    /\ journal = <<>>
    /\ clock = 0
    /\ drain = [d \in Bureaus |-> Idle]
    /\ call = [d \in Bureaus |-> [c \in {"drain", "renew"} |-> NoCall]]
    /\ writes = [d \in Bureaus |-> {}]
    /\ retryAt = [d \in Bureaus |-> None]
    /\ life = [d \in Bureaus |-> 1]
    /\ deletion = [d \in Bureaus |-> NoDeletion]
    /\ used = [crashes |-> 0, faults |-> 0]

Up(d) == life[d] # None
\* outboxDrainOwner is minted once in a process's life.
Owner(d) == <<d, life[d]>>
Entry(d) == Min(drain[d].todo)
Set(d, r) == drain' = [drain EXCEPT ![d] = r]

-----------------------------------------------------------------------------
(* drainOutbox: one drain at a time in a process; a call that finds one    *)
(* under way joins it and asks for another pass.                           *)

drainOutbox(d) ==
    IF drain[d].pc = "idle" THEN Started ELSE [drain[d] EXCEPT !.rerun = TRUE]

\* The promise of the drain settles, and with it everyone who joined.
DrainSettles(d) ==
    /\ Set(d, Idle)
    /\ deletion' = [deletion EXCEPT ![d].pc = IF @ = "draining" THEN "returned" ELSE @]

\* A pass is over: another one if somebody joined meanwhile.
PassEnds(d) ==
    IF drain[d].rerun THEN Set(d, Started) /\ UNCHANGED deletion ELSE DrainSettles(d)

\* A session write commits its fact with an ordinal, and its event triggers
\* the drain of the process that wrote.
Commit(d, k) ==
    /\ Up(d) /\ Len(facts) < MaxFacts
    /\ k = "deleted" => deletion[d].pc = "none"
    /\ facts' = Append(facts, k)
    /\ entries' = [o \in DOMAIN entries \cup {Len(facts) + 1} |->
                      IF o \in DOMAIN entries THEN entries[o] ELSE None]
    /\ Set(d, drainOutbox(d))
    /\ deletion' = IF k = "deleted"
                   THEN [deletion EXCEPT ![d] = [pc |-> "committed", ordinal |-> Len(facts) + 1]]
                   ELSE deletion
    /\ UNCHANGED <<journal, clock, call, writes, retryAt, life, used>>

\* performDeleteSession drains once more itself, and waits for it.
DeletionDrains(d) ==
    /\ Up(d) /\ deletion[d].pc = "committed"
    /\ deletion' = [deletion EXCEPT ![d].pc = "draining"]
    /\ Set(d, drainOutbox(d))
    /\ UNCHANGED <<facts, entries, journal, clock, call, writes, retryAt, life, used>>

\* The maintenance pass, by hand or by the timer.
Maintenance(d) ==
    /\ Up(d)
    /\ Set(d, drainOutbox(d))
    /\ UNCHANGED <<facts, entries, journal, clock, call, writes, retryAt, life,
                   deletion, used>>

\* outbox.pending; its list and gets are one step, as a fact that leaves in
\* between is one that the claim will not find.
ListPending(d) ==
    /\ Up(d) /\ drain[d].pc = "list"
    /\ Set(d, [drain[d] EXCEPT !.pc = "listed", !.todo = DOMAIN entries])
    /\ UNCHANGED <<facts, entries, journal, clock, call, writes, retryAt, life,
                   deletion, used>>

\* The next entry of the pass, if any: nothing was pending, the batch is done
\* and is listed again, its namespace is unknown, or it is claimed until a
\* lease from now.
NextEntry(d) ==
    /\ Up(d) /\ drain[d].pc \in {"listed", "next"}
    /\ \/ /\ drain[d].todo = {} /\ drain[d].pc = "listed"
          /\ PassEnds(d)
          /\ UNCHANGED call
       \/ /\ drain[d].todo = {} /\ drain[d].pc = "next"
          /\ Set(d, [drain[d] EXCEPT !.pc = "list"])
          /\ UNCHANGED <<call, deletion>>
       \/ /\ drain[d].todo # {}
          /\ facts[Entry(d)] = "unknown"
          /\ PassEnds(d)
          /\ UNCHANGED call
       \/ /\ drain[d].todo # {}
          /\ facts[Entry(d)] # "unknown"
          /\ call' = [call EXCEPT ![d]["drain"] =
                        [NoCall EXCEPT !.pc = "read", !.ordinal = Entry(d), !.until = clock + Lease]]
          /\ Set(d, [drain[d] EXCEPT !.pc = "claim"])
          /\ UNCHANGED deletion
    /\ UNCHANGED <<facts, entries, journal, clock, writes, retryAt, life, used>>

-----------------------------------------------------------------------------
(* outbox.claim: read, decide, compare and swap.                           *)

\* A faulty variant: a claim does not keep others away.
Claimable_always(o, me) == TRUE

\* A faulty variant: a lease that has run out protects for ever.
Claimable_nolapse(o, me) == entries[o] = None \/ entries[o].owner = me

Claimable(o, me) ==
    \/ entries[o] = None
    \/ entries[o].until <= clock
    \/ entries[o].owner = me

\* The owner's own claim is only ever extended.
NextUntil(o, me, until) ==
    IF entries[o] # None /\ entries[o].owner = me
    THEN Max({entries[o].until, until}) ELSE until

\* The call answers: a renewal's answer is dropped, the drain's is awaited.
Answered(c, answer, lease) ==
    IF c = "renew" THEN NoCall ELSE [NoCall EXCEPT !.pc = answer, !.read = lease]

ClaimReads(d, c) ==
    LET k == call[d][c]
        o == k.ordinal
        until == NextUntil(o, Owner(d), k.until)
    IN  /\ Up(d) /\ k.pc = "read"
        /\ call' = [call EXCEPT ![d][c] =
              IF o \notin DOMAIN entries THEN Answered(c, "lost", None)
              ELSE IF ~Claimable(o, Owner(d)) \/ until <= clock
              THEN Answered(c, "lost", entries[o])
              ELSE [k EXCEPT !.pc = "swap", !.read = entries[o], !.until = until]]
        /\ UNCHANGED <<facts, entries, journal, clock, drain, writes, retryAt, life,
                       deletion, used>>

\* k.until is what this try is to write; another try computes it again, and
\* the maximum with a longer claim of its own is the same.
ClaimSwaps(d, c) ==
    LET k == call[d][c]
        o == k.ordinal
    IN  /\ Up(d) /\ k.pc = "swap"
        /\ IF o \in DOMAIN entries /\ entries[o] = k.read
           THEN /\ entries' = [entries EXCEPT ![o] = [owner |-> Owner(d), until |-> k.until]]
                /\ call' = [call EXCEPT ![d][c] = Answered(c, "won", None)]
           ELSE /\ call' = [call EXCEPT ![d][c] =
                      IF k.tries + 1 < MaxTries
                      THEN [k EXCEPT !.pc = "read", !.tries = @ + 1]
                      ELSE Answered(c, "lost", IF o \in DOMAIN entries THEN entries[o] ELSE None)]
                /\ UNCHANGED entries
        /\ UNCHANGED <<facts, journal, clock, drain, writes, retryAt, life, deletion, used>>

\* The pass stops at an entry it could not claim, and wakes when the claim
\* that stood in its way runs out.
ClaimLost(d) ==
    LET lease == call[d]["drain"].read
    IN  /\ Up(d) /\ drain[d].pc = "claim" /\ call[d]["drain"].pc = "lost"
        /\ retryAt' = IF lease # None /\ (retryAt[d] = None \/ retryAt[d] > lease.until)
                      THEN [retryAt EXCEPT ![d] = lease.until] ELSE retryAt
        /\ call' = [call EXCEPT ![d]["drain"] = NoCall]
        /\ PassEnds(d)
        /\ UNCHANGED <<facts, entries, journal, clock, writes, life, used>>

RetryFires(d) ==
    /\ Up(d) /\ retryAt[d] # None
    /\ retryAt[d] <= clock
    /\ retryAt' = [retryAt EXCEPT ![d] = None]
    /\ Set(d, drainOutbox(d))
    /\ UNCHANGED <<facts, entries, journal, clock, call, writes, life, deletion, used>>

-----------------------------------------------------------------------------
(* drainOutboxEntry: replay the fact, check that it is durable, retire it. *)

RowsOf(o) ==
    CASE facts[o] = "saved" -> {[log |-> "history", ordinal |-> o]}
      [] facts[o] = "deleted" -> {[log |-> l, ordinal |-> o] : l \in {"history", "audit"}}
      [] facts[o] = "attachment" -> {[log |-> "audit", ordinal |-> o]}
      [] OTHER -> {}

\* The dispatch starts the writes of the listeners; the renewal timer starts
\* with it.
Replay(d) ==
    /\ Up(d) /\ drain[d].pc = "claim" /\ call[d]["drain"].pc = "won"
    /\ call' = [call EXCEPT ![d]["drain"] = NoCall]
    /\ writes' = [writes EXCEPT ![d] = @ \cup RowsOf(Entry(d))]
    /\ Set(d, [drain[d] EXCEPT !.pc = IF facts[Entry(d)] = "attachment"
                                     THEN "attach" ELSE "history"])
    /\ UNCHANGED <<facts, entries, journal, clock, retryAt, life, deletion, used>>

Replaying(d) == drain[d].pc \in {"history", "audit", "attach", "ackRead", "ackSwap"}

\* The interval that renews the claim while the fact is replayed.
Renew(d) ==
    /\ Up(d) /\ Replaying(d) /\ call[d]["renew"].pc = "idle"
    /\ call' = [call EXCEPT ![d]["renew"] =
                  [NoCall EXCEPT !.pc = "read", !.ordinal = Entry(d), !.until = clock + Lease]]
    /\ UNCHANGED <<facts, entries, journal, clock, drain, writes, retryAt, life,
                   deletion, used>>

\* A faulty variant: no dedupe marker.
RowLands_again(row) == journal' = Append(journal, row)

\* history.record() and auditTrail.record() with a dedupe key append a row and
\* its marker in one swap, so only once.  The audit listener of a deletion
\* gives no key.
RowLands(row) ==
    journal' = IF row \in Recorded /\ ~(row.log = "audit" /\ facts[row.ordinal] = "deleted")
               THEN journal ELSE Append(journal, row)

WriteLands(d, row) ==
    /\ Up(d) /\ row \in writes[d]
    /\ RowLands(row)
    /\ writes' = [writes EXCEPT ![d] = @ \ {row}]
    /\ UNCHANGED <<facts, entries, clock, drain, call, retryAt, life, deletion, used>>

\* A failed write of a listener is swallowed; that of an attachment rejects,
\* and the drain with it.
WriteFails(d, row) ==
    /\ Up(d) /\ row \in writes[d]
    /\ used.faults < MaxFaults
    /\ used' = [used EXCEPT !.faults = @ + 1]
    /\ writes' = [writes EXCEPT ![d] = @ \ {row}]
    /\ IF drain[d].pc = "attach" /\ row.ordinal = Entry(d)
       THEN DrainSettles(d) ELSE UNCHANGED <<drain, deletion>>
    /\ UNCHANGED <<facts, entries, journal, clock, call, retryAt, life>>

RowAt(d, log) == [log |-> log, ordinal |-> Entry(d)]

\* A faulty variant: settled is taken for recorded.
CheckHistory_settled(d) ==
    /\ Up(d) /\ drain[d].pc = "history"
    /\ RowAt(d, "history") \notin writes[d]
    /\ Set(d, [drain[d] EXCEPT !.pc = "ackRead"])
    /\ UNCHANGED <<facts, entries, journal, clock, call, writes, retryAt, life,
                   deletion, used>>

\* waitForActiveWrites, then wasRecorded: the pass stops unless the row is there.
CheckHistory(d) ==
    /\ Up(d) /\ drain[d].pc = "history"
    /\ RowAt(d, "history") \notin writes[d]
    /\ IF RowAt(d, "history") \in Recorded
       THEN /\ Set(d, [drain[d] EXCEPT !.pc = IF facts[Entry(d)] = "deleted"
                                              THEN "audit" ELSE "ackRead"])
            /\ UNCHANGED deletion
       ELSE PassEnds(d)
    /\ UNCHANGED <<facts, entries, journal, clock, call, writes, retryAt, life, used>>

\* auditTrail.query waits for the write in flight and reads the row back.
CheckAudit(d) ==
    /\ Up(d) /\ drain[d].pc = "audit"
    /\ RowAt(d, "audit") \notin writes[d]
    /\ IF RowAt(d, "audit") \in Recorded
       THEN Set(d, [drain[d] EXCEPT !.pc = "ackRead"]) /\ UNCHANGED deletion
       ELSE PassEnds(d)
    /\ UNCHANGED <<facts, entries, journal, clock, call, writes, retryAt, life, used>>

\* auditTrail.record() of an attachment has resolved.
AttachmentRecorded(d) ==
    /\ Up(d) /\ drain[d].pc = "attach"
    /\ RowAt(d, "audit") \notin writes[d]
    /\ Set(d, [drain[d] EXCEPT !.pc = "ackRead"])
    /\ UNCHANGED <<facts, entries, journal, clock, call, writes, retryAt, life,
                   deletion, used>>

Continued(d) == [drain[d] EXCEPT !.pc = "next", !.todo = @ \ {Entry(d)},
                                 !.read = None, !.tries = 0]

\* acknowledge reads: an entry that is gone counts as retired, one that
\* somebody else has claimed ends the pass.
AckReads(d) ==
    LET o == Entry(d)
    IN  /\ Up(d) /\ drain[d].pc = "ackRead"
        /\ IF o \notin DOMAIN entries
           THEN Set(d, Continued(d)) /\ UNCHANGED deletion
           ELSE IF entries[o] = None \/ entries[o].owner # Owner(d)
           THEN PassEnds(d)
           ELSE /\ Set(d, [drain[d] EXCEPT !.pc = "ackSwap", !.read = entries[o]])
                /\ UNCHANGED deletion
        /\ UNCHANGED <<facts, entries, journal, clock, call, writes, retryAt, life, used>>

\* ... and deletes the entry if it is still what it read.
AckSwaps(d) ==
    LET o == Entry(d)
    IN  /\ Up(d) /\ drain[d].pc = "ackSwap"
        /\ IF o \in DOMAIN entries /\ entries[o] = drain[d].read
           THEN /\ entries' = [e \in DOMAIN entries \ {o} |-> entries[e]]
                /\ Set(d, Continued(d))
                /\ UNCHANGED deletion
           ELSE /\ UNCHANGED entries
                /\ IF drain[d].tries + 1 < MaxTries
                   THEN /\ Set(d, [drain[d] EXCEPT !.pc = "ackRead", !.tries = @ + 1])
                        /\ UNCHANGED deletion
                   ELSE PassEnds(d)
        /\ UNCHANGED <<facts, journal, clock, call, writes, retryAt, life, used>>

-----------------------------------------------------------------------------
(* Time, faults and crashes.                                               *)

Tick ==
    /\ clock < MaxClock
    /\ clock' = clock + 1
    /\ UNCHANGED <<facts, entries, journal, drain, call, writes, retryAt, life,
                   deletion, used>>

\* pending, claim or acknowledge rejects: the drain does, and its callers
\* report it and go on.
StoreFails(d) ==
    /\ Up(d) /\ used.faults < MaxFaults
    /\ drain[d].pc \in {"list", "claim", "ackRead", "ackSwap"}
    /\ used' = [used EXCEPT !.faults = @ + 1]
    /\ call' = [call EXCEPT ![d]["drain"] = NoCall]
    /\ DrainSettles(d)
    /\ UNCHANGED <<facts, entries, journal, clock, writes, retryAt, life>>

\* The process dies.  The bound leaves the clock room for its leases to lapse.
Crash(d) ==
    /\ Up(d) /\ used.crashes < MaxCrashes /\ clock + Lease <= MaxClock
    /\ used' = [used EXCEPT !.crashes = @ + 1]
    /\ life' = [life EXCEPT ![d] = None]
    /\ Set(d, Idle)
    /\ call' = [call EXCEPT ![d] = [c \in {"drain", "renew"} |-> NoCall]]
    /\ writes' = [writes EXCEPT ![d] = {}]
    /\ retryAt' = [retryAt EXCEPT ![d] = None]
    /\ deletion' = [deletion EXCEPT ![d] = NoDeletion]
    /\ UNCHANGED <<facts, entries, journal, clock>>

\* Boot recovery drains before anything else, under a new owner.
Restart(d) ==
    /\ ~Up(d)
    /\ life' = [life EXCEPT ![d] = used.crashes + 1]
    /\ Set(d, Started)
    /\ UNCHANGED <<facts, entries, journal, clock, call, writes, retryAt, deletion, used>>

DrainStep(d) ==
    \/ ListPending(d) \/ NextEntry(d) \/ ClaimLost(d) \/ Replay(d)
    \/ CheckHistory(d) \/ CheckAudit(d) \/ AttachmentRecorded(d)
    \/ AckReads(d) \/ AckSwaps(d)

CallStep(d, c) == ClaimReads(d, c) \/ ClaimSwaps(d, c)

WriteSettles(d) == \E row \in writes[d] : WriteLands(d, row) \/ WriteFails(d, row)

Next ==
    \/ \E d \in Bureaus :
         \/ \E k \in Kinds : Commit(d, k)
         \/ DeletionDrains(d) \/ Maintenance(d) \/ RetryFires(d)
         \/ DrainStep(d) \/ WriteSettles(d)
         \/ \E c \in {"drain", "renew"} : CallStep(d, c)
         \/ Renew(d) \/ StoreFails(d) \/ Crash(d) \/ Restart(d)
    \/ Tick

Spec == Init /\ [][Next]_vars

-----------------------------------------------------------------------------
(* Properties.                                                             *)

TypeOK ==
    /\ facts \in Seq(Kinds) /\ Len(facts) <= MaxFacts
    /\ DOMAIN entries \subseteq DOMAIN facts
    /\ \A o \in DOMAIN entries : entries[o] \in Claim \cup {None}
    /\ journal \in Seq(Row)
    /\ clock \in 0 .. MaxClock
    /\ \A d \in Bureaus :
         /\ drain[d].pc \in {"idle", "list", "listed", "next", "claim", "history",
                             "audit", "attach", "ackRead", "ackSwap"}
         /\ drain[d].todo \subseteq DOMAIN facts
         /\ Replaying(d) => drain[d].todo # {}
         /\ writes[d] \subseteq Row
         /\ retryAt[d] \in 0 .. MaxClock + Lease \cup {None}
         /\ life[d] \in 1 .. MaxCrashes + 1 \cup {None}
         /\ deletion[d].pc \in {"none", "committed", "draining", "returned"}

\* A fact leaves the outbox only when every row it owes is durable, whatever
\* crashes, failed writes and lapsed claims did in between
\* (drainOutboxEntry acknowledges after the write, never before).
NoFactIsLost ==
    \A o \in DOMAIN facts \ DOMAIN entries :
        facts[o] # "unknown" /\ RowsOf(o) \subseteq Recorded

\* The row by which a fact counts as delivered.
Primary(row) == row.log = IF facts[row.ordinal] = "attachment" THEN "audit" ELSE "history"

\* The places of those rows in the journal.
Deliveries == {p \in DOMAIN journal : Primary(journal[p])}

\* The ordinals of those rows, in their order.
Delivered ==
    [i \in 1 .. Cardinality(Deliveries) |->
        LET at == CHOOSE p \in Deliveries : Cardinality({q \in Deliveries : q <= p}) = i
        IN  journal[at].ordinal]

\* Facts become durable once each and in the order of their commits, although
\* two processes may replay one fact at the same time ("exactly once, in
\* ordinal order").
Feed == INSTANCE OrderedFeed WITH committed <- facts, delivered <- Delivered
ImplementsOrderedFeed == Feed!FeedSpec

\* An owner's claim is never shortened, by a late renewal or otherwise: a
\* same-owner renewal can only ever extend the stored until.
ClaimLasts ==
    \A o \in DOMAIN entries \cap DOMAIN entries' :
        entries[o] # None =>
            /\ entries'[o] # None
            /\ entries'[o].owner = entries[o].owner => entries'[o].until >= entries[o].until
            /\ entries'[o].owner # entries[o].owner => entries[o].until <= clock
=============================================================================
