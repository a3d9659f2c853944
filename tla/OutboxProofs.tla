---------------------------- MODULE OutboxProofs ----------------------------
(***************************************************************************)
(* Theorems about the session outbox and its drains, for any number of     *)
(* outboxes, processes, facts, crashes and faults.  Everything up to the   *)
(* composition is about one outbox, x, and its variables.                  *)
(***************************************************************************)
EXTENDS Sessions, WellFoundedInduction, FiniteSetTheorems, TLAPS

-----------------------------------------------------------------------------
(* The entry of a pass.                                                    *)

\* Min of a non-empty set of naturals is its least element.
LEMMA MinIsLeast ==
    ASSUME NEW x \in Outboxes, NEW T, T \subseteq Nat, T # {}
    PROVE  O(x)!Min(T) \in T /\ \A y \in T : O(x)!Min(T) <= y
<1>1. \E m \in T : \A y \in T : ~ (<<y, m>> \in OpToRel(<, Nat))
  BY NatLessThanWellFounded, WFMin
<1>2. \E m \in T : \A y \in T : m <= y
  <2>1. PICK m \in T : \A y \in T : ~ (<<y, m>> \in OpToRel(<, Nat)) BY <1>1
  <2>2. ASSUME NEW y \in T PROVE m <= y
    <3>1. <<y, m>> \in Nat \X Nat OBVIOUS
    <3>2. ~ (y < m) BY <2>1, <3>1 DEF OpToRel
    <3>3. m \in Nat /\ y \in Nat OBVIOUS
    <3>4. QED BY <3>2, <3>3
  <2>3. QED BY <2>2
<1>3. QED BY <1>2 DEF O!Min

-----------------------------------------------------------------------------
(* Types.                                                                  *)

Stages == {"idle", "list", "listed", "next", "claim", "history", "audit", "attach",
           "ackRead", "ackSwap"}
Lease0(x) == O(x)!Claim \cup {None}
Drains(x) == [pc : Stages, todo : SUBSET Nat, read : Lease0(x), tries : Nat, rerun : BOOLEAN]
Calls(x) == [pc : {"idle", "read", "swap", "lost", "won"}, ordinal : Nat,
             until : 0 .. MaxClock[x] + Lease[x], read : Lease0(x), tries : Nat]
Deletions == [pc : {"none", "committed", "draining", "returned"}, ordinal : Nat]

\* TypeOK, with the whole shape of what a process keeps; and a drain that has
\* come to an entry has one.
TypeInv(x) ==
    /\ facts \in Seq(Kinds[x]) /\ Len(facts) <= MaxFacts[x]
    /\ DOMAIN entries \subseteq DOMAIN facts
    /\ \A o \in DOMAIN entries : entries[o] \in Lease0(x)
    /\ journal \in Seq(O(x)!Row)
    /\ clock \in 0 .. MaxClock[x]
    /\ drain \in [Bureaus[x] -> Drains(x)]
    /\ call \in [Bureaus[x] -> [{"drain", "renew"} -> Calls(x)]]
    /\ writes \in [Bureaus[x] -> SUBSET O(x)!Row]
    /\ retryAt \in [Bureaus[x] -> 0 .. MaxClock[x] + Lease[x] \cup {None}]
    /\ life \in [Bureaus[x] -> 1 .. MaxCrashes[x] + 1 \cup {None}]
    /\ deletion \in [Bureaus[x] -> Deletions]
    /\ used \in [crashes : 0 .. MaxCrashes[x], faults : 0 .. MaxFaults[x]]
    /\ \A d \in Bureaus[x] : drain[d].todo \subseteq DOMAIN facts
    /\ \A d \in Bureaus[x] : drain[d].pc = "claim" \/ O(x)!Replaying(d) => drain[d].todo # {}

LEMMA Constants0 ==
    ASSUME NEW x \in Outboxes, O(x)!OutboxAssumption
    PROVE  /\ None \notin O(x)!Claim
           /\ Kinds[x] \subseteq {"saved", "deleted", "attachment", "unknown"}
           /\ Lease[x] \in Nat \ {0} /\ MaxTries[x] \in Nat \ {0}
           /\ MaxFacts[x] \in Nat /\ MaxClock[x] \in Nat /\ MaxCrashes[x] \in Nat /\ MaxFaults[x] \in Nat
  BY DEF O!OutboxAssumption, O!Claim

\* The first entry of a pass is one of its entries, and the earliest.
LEMMA EntryIsFirst ==
    ASSUME NEW x \in Outboxes, TypeInv(x), NEW d \in Bureaus[x], drain[d].todo # {}
    PROVE  /\ O(x)!Entry(d) \in drain[d].todo
           /\ O(x)!Entry(d) \in DOMAIN facts
           /\ O(x)!Entry(d) \in Nat
           /\ \A o \in drain[d].todo : O(x)!Entry(d) <= o
<1>1. drain[d].todo \subseteq Nat BY DEF TypeInv, Drains
<1>2. drain[d].todo \subseteq DOMAIN facts BY DEF TypeInv
<1>3. QED BY <1>1, <1>2, MinIsLeast DEF O!Entry

\* The facts are a sequence of the kinds, of bounded length.
LEMMA FactsBounded ==
    ASSUME NEW x \in Outboxes, O(x)!OutboxAssumption, TypeInv(x)
    PROVE  /\ DOMAIN facts = 1 .. Len(facts) /\ Len(facts) \in Nat
           /\ DOMAIN facts \subseteq 1 .. MaxFacts[x]
           /\ \A o \in DOMAIN facts :
                facts[o] \in Kinds[x] /\ facts[o] \in {"saved", "deleted", "attachment", "unknown"}
<1>1. facts \in Seq(Kinds[x]) /\ Len(facts) <= MaxFacts[x] BY DEF TypeInv
<1>2. DOMAIN facts = 1 .. Len(facts) /\ Len(facts) \in Nat BY <1>1
<1>3. \A o \in DOMAIN facts : facts[o] \in Kinds[x] BY <1>1, <1>2
<1>4. MaxFacts[x] \in Nat /\ Kinds[x] \subseteq {"saved", "deleted", "attachment", "unknown"}
  BY Constants0
<1>5. QED BY <1>1, <1>2, <1>3, <1>4

LEMMA StartValues ==
    ASSUME NEW x \in Outboxes, O(x)!OutboxAssumption
    PROVE  /\ O(x)!Idle \in Drains(x) /\ O(x)!Idle.pc = "idle" /\ O(x)!Idle.todo = {}
           /\ O(x)!Started \in Drains(x) /\ O(x)!Started.pc = "list" /\ O(x)!Started.todo = {}
           /\ O(x)!NoCall \in Calls(x) /\ O(x)!NoCall.pc = "idle"
           /\ O(x)!NoDeletion \in Deletions
<1>1. O(x)!Idle \in Drains(x) /\ O(x)!Idle.pc = "idle" /\ O(x)!Idle.todo = {}
  BY DEF O!Idle, Drains, Stages, Lease0
<1>2. O(x)!Started \in Drains(x) /\ O(x)!Started.pc = "list" /\ O(x)!Started.todo = {}
  BY DEF O!Idle, O!Started, Drains, Stages, Lease0
<1>3. 0 \in 0 .. MaxClock[x] + Lease[x] BY Constants0
<1>4. O(x)!NoCall \in Calls(x) /\ O(x)!NoCall.pc = "idle" BY <1>3 DEF O!NoCall, Calls, Lease0
<1>5. QED BY <1>1, <1>2, <1>4 DEF O!NoDeletion, Deletions

LEMMA InitType == ASSUME NEW x \in Outboxes, O(x)!OutboxAssumption, O(x)!Init PROVE TypeInv(x)
<1>1. \A d \in Bureaus[x] : drain[d] = O(x)!Idle BY DEF O!Init
<1>2. /\ facts \in Seq(Kinds[x]) /\ Len(facts) <= MaxFacts[x]
      /\ DOMAIN entries \subseteq DOMAIN facts
      /\ \A o \in DOMAIN entries : entries[o] \in Lease0(x)
      /\ journal \in Seq(O(x)!Row)
      /\ clock \in 0 .. MaxClock[x]
  BY Constants0 DEF O!Init
<1>3. /\ drain \in [Bureaus[x] -> Drains(x)]
      /\ call \in [Bureaus[x] -> [{"drain", "renew"} -> Calls(x)]]
      /\ writes \in [Bureaus[x] -> SUBSET O(x)!Row]
      /\ retryAt \in [Bureaus[x] -> 0 .. MaxClock[x] + Lease[x] \cup {None}]
      /\ life \in [Bureaus[x] -> 1 .. MaxCrashes[x] + 1 \cup {None}]
      /\ deletion \in [Bureaus[x] -> Deletions]
      /\ used \in [crashes : 0 .. MaxCrashes[x], faults : 0 .. MaxFaults[x]]
  BY Constants0, StartValues DEF O!Init
<1>4. \A d \in Bureaus[x] : drain[d].todo = {} /\ ~ (drain[d].pc = "claim" \/ O(x)!Replaying(d))
  BY <1>1, StartValues DEF O!Replaying
<1>5. QED BY <1>2, <1>3, <1>4 DEF TypeInv

-----------------------------------------------------------------------------
(* How a step moves a drain.                                               *)

\* The drain of d becomes r, and the others stay.
Becomes(x, d, r) ==
    /\ drain' \in [Bureaus[x] -> Drains(x)]
    /\ drain'[d] = r
    /\ \A e \in Bureaus[x] : e # d => drain'[e] = drain[e]

LEMMA SetBecomes ==
    ASSUME NEW x \in Outboxes, TypeInv(x), NEW d \in Bureaus[x], NEW r \in Drains(x), O(x)!Set(d, r)
    PROVE  Becomes(x, d, r)
  BY DEF TypeInv, O!Set, Becomes

LEMMA DrainFields ==
    ASSUME NEW x \in Outboxes, TypeInv(x), NEW d \in Bureaus[x]
    PROVE  /\ drain[d] \in Drains(x)
           /\ drain[d].pc \in Stages /\ drain[d].todo \subseteq Nat /\ drain[d].read \in Lease0(x)
           /\ drain[d].tries \in Nat /\ drain[d].rerun \in BOOLEAN
  BY DEF TypeInv, Drains

\* A call of drainOutbox starts a drain or leaves its place and its batch alone.
LEMMA DrainCalled ==
    ASSUME NEW x \in Outboxes, O(x)!OutboxAssumption, TypeInv(x), NEW d \in Bureaus[x],
           O(x)!Set(d, O(x)!drainOutbox(d))
    PROVE  \/ Becomes(x, d, O(x)!Started)
           \/ \E r \in Drains(x) : /\ Becomes(x, d, r) /\ r.pc = drain[d].pc
                                   /\ r.todo = drain[d].todo /\ r.read = drain[d].read
<1>1. CASE drain[d].pc = "idle"
  BY <1>1, SetBecomes, StartValues DEF O!drainOutbox
<1>2. CASE drain[d].pc # "idle"
  <2> DEFINE r == [drain[d] EXCEPT !.rerun = TRUE]
  <2>1. r \in Drains(x) /\ r.pc = drain[d].pc /\ r.todo = drain[d].todo /\ r.read = drain[d].read
    BY DrainFields DEF Drains
  <2>2. O(x)!Set(d, r) BY <1>2 DEF O!drainOutbox
  <2>3. Becomes(x, d, r) BY <2>1, <2>2, SetBecomes
  <2>4. QED BY <2>1, <2>3
<1>3. QED BY <1>1, <1>2

\* The drain has no batch any more.
Rests(x, d) == Becomes(x, d, O(x)!Idle) \/ Becomes(x, d, O(x)!Started)

LEMMA SettlesRests ==
    ASSUME NEW x \in Outboxes, O(x)!OutboxAssumption, TypeInv(x), NEW d \in Bureaus[x],
           O(x)!DrainSettles(d)
    PROVE  Becomes(x, d, O(x)!Idle) /\ deletion' \in [Bureaus[x] -> Deletions]
<1>1. Becomes(x, d, O(x)!Idle) BY SetBecomes, StartValues DEF O!DrainSettles
<1>2. deletion' \in [Bureaus[x] -> Deletions] BY DEF O!DrainSettles, TypeInv, Deletions
<1>3. QED BY <1>1, <1>2

LEMMA PassEndsRests ==
    ASSUME NEW x \in Outboxes, O(x)!OutboxAssumption, TypeInv(x), NEW d \in Bureaus[x],
           O(x)!PassEnds(d)
    PROVE  Rests(x, d) /\ deletion' \in [Bureaus[x] -> Deletions]
<1>1. CASE drain[d].rerun
  <2>1. O(x)!Set(d, O(x)!Started) /\ UNCHANGED deletion BY <1>1 DEF O!PassEnds
  <2>2. QED BY <2>1, SetBecomes, StartValues DEF TypeInv, Rests
<1>2. CASE ~drain[d].rerun
  BY <1>2, SettlesRests DEF O!PassEnds, Rests
<1>3. QED BY <1>1, <1>2

-----------------------------------------------------------------------------
(* Every step keeps the types.                                             *)

StoreSame == UNCHANGED <<facts, entries, journal, clock>>

\* What TypeInv says of a process's batch.
BatchOK(x, d) ==
    /\ drain[d].todo \subseteq DOMAIN facts
    /\ drain[d].pc = "claim" \/ O(x)!Replaying(d) => drain[d].todo # {}

\* A batch without entries, or the same as before, is in order.
LEMMA RestsBatch ==
    ASSUME NEW x \in Outboxes, O(x)!OutboxAssumption, TypeInv(x), NEW d \in Bureaus[x],
           Rests(x, d), facts' = facts
    PROVE  /\ drain' \in [Bureaus[x] -> Drains(x)]
           /\ \A e \in Bureaus[x] : BatchOK(x, e)'
<1>1. drain'[d].todo = {} /\ ~ (drain'[d].pc = "claim" \/ O(x)!Replaying(d)')
  BY StartValues DEF Rests, Becomes, O!Replaying
<1>2. \A e \in Bureaus[x] : e # d => drain'[e] = drain[e] BY DEF Rests, Becomes
<1>3. QED BY <1>1, <1>2 DEF TypeInv, BatchOK, O!Replaying, Rests, Becomes

LEMMA BecomesBatch ==
    ASSUME NEW x \in Outboxes, O(x)!OutboxAssumption, TypeInv(x), NEW d \in Bureaus[x],
           NEW r \in Drains(x), Becomes(x, d, r),
           DOMAIN facts \subseteq DOMAIN facts',
           r.todo \subseteq DOMAIN facts',
           r.pc \in {"claim", "history", "audit", "attach", "ackRead", "ackSwap"} => r.todo # {}
    PROVE  /\ drain' \in [Bureaus[x] -> Drains(x)]
           /\ \A e \in Bureaus[x] : BatchOK(x, e)'
<1>1. BatchOK(x, d)' BY DEF Becomes, BatchOK, O!Replaying
<1>2. ASSUME NEW e \in Bureaus[x], e # d PROVE BatchOK(x, e)'
  BY <1>2 DEF Becomes, BatchOK, O!Replaying, TypeInv
<1>3. QED BY <1>1, <1>2 DEF Becomes

LEMMA CalledBatch ==
    ASSUME NEW x \in Outboxes, O(x)!OutboxAssumption, TypeInv(x), NEW d \in Bureaus[x],
           O(x)!Set(d, O(x)!drainOutbox(d)),
           DOMAIN facts \subseteq DOMAIN facts'
    PROVE  /\ drain' \in [Bureaus[x] -> Drains(x)]
           /\ \A e \in Bureaus[x] : BatchOK(x, e)'
<1>1. CASE Becomes(x, d, O(x)!Started)
  BY <1>1, BecomesBatch, StartValues
<1>2. CASE \E r \in Drains(x) : /\ Becomes(x, d, r) /\ r.pc = drain[d].pc
                                /\ r.todo = drain[d].todo /\ r.read = drain[d].read
  <2>1. PICK r \in Drains(x) : Becomes(x, d, r) /\ r.pc = drain[d].pc /\ r.todo = drain[d].todo
    BY <1>2
  <2>2. r.todo \subseteq DOMAIN facts BY <2>1 DEF TypeInv
  <2>3. r.pc \in {"claim", "history", "audit", "attach", "ackRead", "ackSwap"} => r.todo # {}
    BY <2>1 DEF TypeInv, O!Replaying
  <2>4. QED BY <2>1, <2>2, <2>3, BecomesBatch
<1>3. QED BY <1>1, <1>2, DrainCalled

\* The parts of TypeInv, to be shown one by one.
StoreOK(x) ==
    /\ facts \in Seq(Kinds[x]) /\ Len(facts) <= MaxFacts[x]
    /\ DOMAIN entries \subseteq DOMAIN facts
    /\ \A o \in DOMAIN entries : entries[o] \in Lease0(x)
    /\ journal \in Seq(O(x)!Row)
    /\ clock \in 0 .. MaxClock[x]
ProcessesOK(x) ==
    /\ call \in [Bureaus[x] -> [{"drain", "renew"} -> Calls(x)]]
    /\ writes \in [Bureaus[x] -> SUBSET O(x)!Row]
    /\ retryAt \in [Bureaus[x] -> 0 .. MaxClock[x] + Lease[x] \cup {None}]
    /\ life \in [Bureaus[x] -> 1 .. MaxCrashes[x] + 1 \cup {None}]
    /\ deletion \in [Bureaus[x] -> Deletions]
    /\ used \in [crashes : 0 .. MaxCrashes[x], faults : 0 .. MaxFaults[x]]
BatchesOK(x) == drain \in [Bureaus[x] -> Drains(x)] /\ \A d \in Bureaus[x] : BatchOK(x, d)

LEMMA TypeParts ==
    ASSUME NEW x \in Outboxes PROVE /\ TypeInv(x) <=> StoreOK(x) /\ ProcessesOK(x) /\ BatchesOK(x)
    /\ TypeInv(x)' <=> StoreOK(x)' /\ ProcessesOK(x)' /\ BatchesOK(x)'
  BY DEF TypeInv, StoreOK, ProcessesOK, BatchesOK, BatchOK

\* Batches depend on the drains and on the facts alone.
LEMMA BatchesStay ==
    ASSUME NEW x \in Outboxes, TypeInv(x), UNCHANGED <<drain, facts>> PROVE BatchesOK(x)'
  BY DEF TypeInv, BatchesOK, BatchOK, O!Replaying

LEMMA CallFields ==
    ASSUME NEW x \in Outboxes, TypeInv(x), NEW d \in Bureaus[x], NEW c \in {"drain", "renew"}
    PROVE  /\ call[d][c] \in Calls(x)
           /\ call[d][c].ordinal \in Nat /\ call[d][c].until \in 0 .. MaxClock[x] + Lease[x]
           /\ call[d][c].read \in Lease0(x) /\ call[d][c].tries \in Nat
  BY DEF TypeInv, Calls

\* A call that is replaced by another keeps the type of all calls.
LEMMA CallReplaced ==
    ASSUME NEW x \in Outboxes, TypeInv(x), NEW d \in Bureaus[x], NEW c \in {"drain", "renew"},
           NEW k \in Calls(x),
           call' = [call EXCEPT ![d][c] = k]
    PROVE  call' \in [Bureaus[x] -> [{"drain", "renew"} -> Calls(x)]]
  BY DEF TypeInv

LEMMA AnsweredType ==
    ASSUME NEW x \in Outboxes, O(x)!OutboxAssumption, NEW c, NEW a \in {"lost", "won"},
           NEW l \in Lease0(x)
    PROVE  O(x)!Answered(c, a, l) \in Calls(x)
  BY StartValues DEF O!Answered, Calls

LEMMA TriesAgain ==
    ASSUME NEW x \in Outboxes, NEW k \in Calls(x)
    PROVE  [k EXCEPT !.pc = "read", !.tries = @ + 1] \in Calls(x)
<1>1. k.tries \in Nat BY DEF Calls
<1>2. k.tries + 1 \in Nat BY <1>1
<1>3. [k EXCEPT !.pc = "read", !.tries = k.tries + 1] \in Calls(x) BY <1>2 DEF Calls
<1>4. [k EXCEPT !.pc = "read", !.tries = @ + 1] = [k EXCEPT !.pc = "read", !.tries = k.tries + 1]
  BY DEF Calls
<1>5. QED BY <1>3, <1>4

LEMMA NewCall ==
    ASSUME NEW x \in Outboxes, O(x)!OutboxAssumption, TypeInv(x), NEW o \in Nat
    PROVE  [O(x)!NoCall EXCEPT !.pc = "read", !.ordinal = o, !.until = clock + Lease[x]] \in Calls(x)
<1>1. clock + Lease[x] \in 0 .. MaxClock[x] + Lease[x] BY Constants0 DEF TypeInv
<1>2. QED BY <1>1, StartValues DEF Calls

LEMMA ClaimType ==
    ASSUME NEW x \in Outboxes, O(x)!OutboxAssumption, TypeInv(x), NEW d \in Bureaus[x],
           O(x)!Up(d), NEW u \in 0 .. MaxClock[x] + Lease[x]
    PROVE  [owner |-> O(x)!Owner(d), until |-> u] \in O(x)!Claim
  BY DEF TypeInv, O!Up, O!Owner, O!Claim

\* Steps by which work is asked for.
LEMMA AskingType ==
    ASSUME NEW x \in Outboxes, O(x)!OutboxAssumption, TypeInv(x), NEW d \in Bureaus[x],
           \/ \E k \in Kinds[x] : O(x)!Commit(d, k)
           \/ O(x)!DeletionDrains(d) \/ O(x)!Maintenance(d) \/ O(x)!RetryFires(d)
    PROVE  TypeInv(x)'
<1>1. ASSUME NEW k \in Kinds[x], O(x)!Commit(d, k) PROVE TypeInv(x)'
  <2>1. StoreOK(x)'
    <3>1. /\ facts' \in Seq(Kinds[x]) /\ Len(facts') = Len(facts) + 1
          /\ DOMAIN facts' = DOMAIN facts \cup {Len(facts) + 1}
      BY <1>1 DEF O!Commit, TypeInv
    <3>2. DOMAIN entries' = DOMAIN entries \cup {Len(facts) + 1} BY <1>1 DEF O!Commit
    <3>3. \A o \in DOMAIN entries' : entries'[o] \in Lease0(x)
      BY <1>1 DEF O!Commit, TypeInv, Lease0
    <3>4. journal' \in Seq(O(x)!Row) /\ clock' \in 0 .. MaxClock[x] BY <1>1 DEF O!Commit, TypeInv
    <3>5. Len(facts') <= MaxFacts[x] BY <1>1, <3>1, Constants0 DEF O!Commit, TypeInv
    <3>6. QED BY <3>1, <3>2, <3>3, <3>4, <3>5 DEF StoreOK, TypeInv
  <2>2. ProcessesOK(x)'
    <3>1. Len(facts) + 1 \in Nat BY DEF TypeInv
    <3>2. deletion' \in [Bureaus[x] -> Deletions] BY <1>1, <3>1 DEF O!Commit, TypeInv, Deletions
    <3>3. QED BY <1>1, <3>2 DEF O!Commit, TypeInv, ProcessesOK
  <2>3. BatchesOK(x)'
    <3>1. DOMAIN facts \subseteq DOMAIN facts' BY <1>1 DEF O!Commit, TypeInv
    <3>2. QED BY <1>1, <3>1, CalledBatch DEF O!Commit, BatchesOK
  <2>4. QED BY <2>1, <2>2, <2>3, TypeParts
<1>2. CASE O(x)!DeletionDrains(d)
  <2>1. deletion' \in [Bureaus[x] -> Deletions] BY <1>2 DEF O!DeletionDrains, TypeInv, Deletions
  <2>2. StoreOK(x)' /\ ProcessesOK(x)' BY <1>2, <2>1 DEF O!DeletionDrains, TypeInv, StoreOK, ProcessesOK
  <2>3. BatchesOK(x)' BY <1>2, CalledBatch DEF O!DeletionDrains, BatchesOK
  <2>4. QED BY <2>2, <2>3, TypeParts
<1>3. CASE O(x)!Maintenance(d)
  <2>1. StoreOK(x)' /\ ProcessesOK(x)' BY <1>3 DEF O!Maintenance, TypeInv, StoreOK, ProcessesOK
  <2>2. BatchesOK(x)' BY <1>3, CalledBatch DEF O!Maintenance, BatchesOK
  <2>3. QED BY <2>1, <2>2, TypeParts
<1>4. CASE O(x)!RetryFires(d)
  <2>1. StoreOK(x)' /\ ProcessesOK(x)' BY <1>4 DEF O!RetryFires, TypeInv, StoreOK, ProcessesOK
  <2>2. BatchesOK(x)' BY <1>4, CalledBatch DEF O!RetryFires, BatchesOK
  <2>3. QED BY <2>1, <2>2, TypeParts
<1>5. QED BY <1>1, <1>2, <1>3, <1>4

\* Steps of a claim() call.
LEMMA CallType ==
    ASSUME NEW x \in Outboxes, O(x)!OutboxAssumption, TypeInv(x), NEW d \in Bureaus[x],
           NEW c \in {"drain", "renew"},
           O(x)!CallStep(d, c)
    PROVE  TypeInv(x)'
<1> DEFINE k == call[d][c]
           o == k.ordinal
<1>1. BatchesOK(x)' /\ UNCHANGED drain /\ UNCHANGED facts
  <2>1. UNCHANGED <<drain, facts>> BY DEF O!CallStep, O!ClaimReads, O!ClaimSwaps
  <2>2. QED BY <2>1, BatchesStay
<1>2. k \in Calls(x) /\ k.until \in 0 .. MaxClock[x] + Lease[x] /\ k.tries \in Nat BY CallFields
<1>3. CASE O(x)!ClaimReads(d, c)
  <2> DEFINE until == O(x)!NextUntil(o, O(x)!Owner(d), k.until)
             j == IF o \notin DOMAIN entries THEN O(x)!Answered(c, "lost", None)
                  ELSE IF ~O(x)!Claimable(o, O(x)!Owner(d)) \/ until <= clock
                  THEN O(x)!Answered(c, "lost", entries[o])
                  ELSE [k EXCEPT !.pc = "swap", !.read = entries[o], !.until = until]
  <2>1. ASSUME o \in DOMAIN entries PROVE until \in 0 .. MaxClock[x] + Lease[x]
    <3>1. CASE entries[o] # None /\ entries[o].owner = O(x)!Owner(d)
      <4>1. entries[o].until \in 0 .. MaxClock[x] + Lease[x]
        BY <2>1, <3>1 DEF TypeInv, Lease0, O!Claim
      <4>2. O(x)!Max({entries[o].until, k.until}) \in {entries[o].until, k.until}
        BY <4>1, <1>2 DEF O!Max
      <4>3. QED BY <3>1, <4>1, <4>2, <1>2 DEF O!NextUntil
    <3>2. CASE ~ (entries[o] # None /\ entries[o].owner = O(x)!Owner(d))
      BY <3>2, <1>2 DEF O!NextUntil
    <3>3. QED BY <3>1, <3>2
  <2>2. None \in Lease0(x) /\ \A e \in DOMAIN entries : entries[e] \in Lease0(x)
    BY DEF TypeInv, Lease0
  <2>3. ASSUME o \in DOMAIN entries
        PROVE  [k EXCEPT !.pc = "swap", !.read = entries[o], !.until = until] \in Calls(x)
    <3> HIDE DEF until, o
    <3> QED BY <2>1, <2>2, <2>3, <1>2 DEF Calls
  <2>4. j \in Calls(x)
    <3> HIDE DEF until, o
    <3> QED BY <2>2, <2>3, AnsweredType
  <2>5. call' = [call EXCEPT ![d][c] = j] BY <1>3 DEF O!ClaimReads
  <2>6. call' \in [Bureaus[x] -> [{"drain", "renew"} -> Calls(x)]]
    <3> HIDE DEF j
    <3> QED BY <2>4, <2>5, CallReplaced
  <2>7. StoreOK(x)' /\ ProcessesOK(x)'
    BY <1>3, <2>6 DEF O!ClaimReads, TypeInv, StoreOK, ProcessesOK
  <2>8. QED BY <1>1, <2>7, TypeParts
<1>4. CASE O(x)!ClaimSwaps(d, c)
  <2>1. CASE o \in DOMAIN entries /\ entries[o] = k.read
    <3>1. entries' = [entries EXCEPT ![o] = [owner |-> O(x)!Owner(d), until |-> k.until]]
      BY <1>4, <2>1 DEF O!ClaimSwaps
    <3>2. call' = [call EXCEPT ![d][c] = O(x)!Answered(c, "won", None)]
      BY <1>4, <2>1 DEF O!ClaimSwaps
    <3>3. [owner |-> O(x)!Owner(d), until |-> k.until] \in O(x)!Claim BY <1>4, <1>2, ClaimType DEF O!ClaimSwaps
    <3>4. call' \in [Bureaus[x] -> [{"drain", "renew"} -> Calls(x)]]
      BY <3>2, CallReplaced, AnsweredType DEF Lease0
    <3>5. DOMAIN entries' = DOMAIN entries /\ \A e \in DOMAIN entries : entries'[e] \in Lease0(x)
      BY <3>1, <3>3 DEF TypeInv, Lease0
    <3>6. UNCHANGED <<facts, journal, clock, writes, retryAt, life, deletion, used>>
      BY <1>4 DEF O!ClaimSwaps
    <3>7. StoreOK(x)' BY <3>5, <3>6 DEF TypeInv, StoreOK
    <3>8. ProcessesOK(x)' BY <3>4, <3>6 DEF TypeInv, ProcessesOK
    <3>9. QED BY <1>1, <3>7, <3>8, TypeParts
  <2>2. CASE ~ (o \in DOMAIN entries /\ entries[o] = k.read)
    <3> DEFINE j == IF k.tries + 1 < MaxTries[x]
                    THEN [k EXCEPT !.pc = "read", !.tries = @ + 1]
                    ELSE O(x)!Answered(c, "lost", IF o \in DOMAIN entries THEN entries[o] ELSE None)
    <3>1. call' = [call EXCEPT ![d][c] = j] /\ UNCHANGED entries
      BY <1>4, <2>2 DEF O!ClaimSwaps
    <3>2. (IF o \in DOMAIN entries THEN entries[o] ELSE None) \in Lease0(x) BY DEF TypeInv, Lease0
    <3>3. [k EXCEPT !.pc = "read", !.tries = @ + 1] \in Calls(x) BY <1>2, TriesAgain
    <3>4. j \in Calls(x) BY <3>2, <3>3, AnsweredType
    <3>5. call' \in [Bureaus[x] -> [{"drain", "renew"} -> Calls(x)]]
      <4> HIDE DEF j
      <4> QED BY <3>1, <3>4, CallReplaced
    <3>6. UNCHANGED <<facts, entries, journal, clock, writes, retryAt, life, deletion, used>>
      BY <1>4, <3>1 DEF O!ClaimSwaps
    <3>7. StoreOK(x)' /\ ProcessesOK(x)' BY <3>5, <3>6 DEF TypeInv, StoreOK, ProcessesOK
    <3>8. QED BY <1>1, <3>7, TypeParts
  <2>3. QED BY <2>1, <2>2
<1>5. QED BY <1>3, <1>4 DEF O!CallStep

\* A drain that goes on to another stage, with the same batch.
LEMMA StageType ==
    ASSUME NEW x \in Outboxes, TypeInv(x), NEW d \in Bureaus[x], NEW p \in Stages
    PROVE  LET r == [drain[d] EXCEPT !.pc = p]
           IN  r \in Drains(x) /\ r.pc = p /\ r.todo = drain[d].todo
  BY DrainFields DEF Drains

\* The same, of a drain that has come to an entry.
LEMMA GoesOnBatch ==
    ASSUME NEW x \in Outboxes, O(x)!OutboxAssumption, TypeInv(x), NEW d \in Bureaus[x],
           NEW r \in Drains(x), O(x)!Set(d, r),
           r.todo = drain[d].todo, drain[d].todo # {}, facts' = facts
    PROVE  BatchesOK(x)'
<1>1. Becomes(x, d, r) BY SetBecomes
<1>2. r.todo \subseteq DOMAIN facts BY DEF TypeInv
<1>3. QED BY <1>1, <1>2, BecomesBatch DEF BatchesOK

LEMMA PassEndsBatch ==
    ASSUME NEW x \in Outboxes, O(x)!OutboxAssumption, TypeInv(x), NEW d \in Bureaus[x],
           O(x)!PassEnds(d) \/ O(x)!DrainSettles(d),
           facts' = facts
    PROVE  BatchesOK(x)' /\ deletion' \in [Bureaus[x] -> Deletions]
  BY PassEndsRests, SettlesRests, RestsBatch DEF Rests, BatchesOK

\* Steps by which a pass finds and claims its entries.
LEMMA PassType ==
    ASSUME NEW x \in Outboxes, O(x)!OutboxAssumption, TypeInv(x), NEW d \in Bureaus[x],
           O(x)!ListPending(d) \/ O(x)!NextEntry(d) \/ O(x)!ClaimLost(d) \/ O(x)!Replay(d)
    PROVE  TypeInv(x)'
<1>1. CASE O(x)!ListPending(d)
  <2> DEFINE r == [drain[d] EXCEPT !.pc = "listed", !.todo = DOMAIN entries]
  <2>1. DOMAIN entries \subseteq DOMAIN facts /\ DOMAIN facts \subseteq Nat BY DEF TypeInv
  <2>2. r \in Drains(x) /\ r.pc = "listed" /\ r.todo = DOMAIN entries
    BY <2>1, DrainFields DEF Drains, Stages
  <2>3. Becomes(x, d, r) BY <1>1, <2>2, SetBecomes DEF O!ListPending
  <2>4. BatchesOK(x)'
    <3> HIDE DEF r
    <3>1. facts' = facts BY <1>1 DEF O!ListPending
    <3>2. QED BY <2>1, <2>2, <2>3, <3>1, BecomesBatch DEF BatchesOK
  <2>5. StoreOK(x)' /\ ProcessesOK(x)' BY <1>1 DEF O!ListPending, TypeInv, StoreOK, ProcessesOK
  <2>6. QED BY <2>4, <2>5, TypeParts
<1>2. CASE O(x)!NextEntry(d)
  <2>1. UNCHANGED <<facts, entries, journal, clock, writes, retryAt, life, used>>
    BY <1>2 DEF O!NextEntry
  <2>2. StoreOK(x)' BY <2>1 DEF TypeInv, StoreOK
  <2>3. CASE O(x)!PassEnds(d) /\ UNCHANGED call
    <3>1. BatchesOK(x)' /\ deletion' \in [Bureaus[x] -> Deletions] BY <2>1, <2>3, PassEndsBatch
    <3>2. ProcessesOK(x)' BY <2>1, <2>3, <3>1 DEF TypeInv, ProcessesOK
    <3>3. QED BY <2>2, <3>1, <3>2, TypeParts
  <2>4. CASE O(x)!Set(d, [drain[d] EXCEPT !.pc = "list"]) /\ UNCHANGED <<call, deletion>>
    <3> DEFINE r == [drain[d] EXCEPT !.pc = "list"]
    <3>1. r \in Drains(x) /\ r.pc = "list" /\ r.todo = drain[d].todo BY StageType DEF Stages
    <3>2. Becomes(x, d, r) BY <2>4, <3>1, SetBecomes
    <3>3. BatchesOK(x)'
      <4> HIDE DEF r
      <4> QED BY <2>1, <3>1, <3>2, BecomesBatch DEF TypeInv, BatchesOK
    <3>4. ProcessesOK(x)' BY <2>1, <2>4 DEF TypeInv, ProcessesOK
    <3>5. QED BY <2>2, <3>3, <3>4, TypeParts
  <2>5. CASE /\ drain[d].todo # {}
             /\ call' = [call EXCEPT ![d]["drain"] =
                  [O(x)!NoCall EXCEPT !.pc = "read", !.ordinal = O(x)!Entry(d), !.until = clock + Lease[x]]]
             /\ O(x)!Set(d, [drain[d] EXCEPT !.pc = "claim"])
             /\ UNCHANGED deletion
    <3> DEFINE r == [drain[d] EXCEPT !.pc = "claim"]
    <3>1. r \in Drains(x) /\ r.pc = "claim" /\ r.todo = drain[d].todo BY StageType DEF Stages
    <3>2. BatchesOK(x)'
      <4> HIDE DEF r
      <4> QED BY <2>1, <2>5, <3>1, GoesOnBatch DEF r
    <3>3. O(x)!Entry(d) \in Nat BY <2>5, EntryIsFirst
    <3>4. call' \in [Bureaus[x] -> [{"drain", "renew"} -> Calls(x)]]
      BY <2>5, <3>3, NewCall, CallReplaced
    <3>5. ProcessesOK(x)' BY <2>1, <2>5, <3>4 DEF TypeInv, ProcessesOK
    <3>6. QED BY <2>2, <3>2, <3>5, TypeParts
  <2>6. QED BY <1>2, <2>3, <2>4, <2>5 DEF O!NextEntry
<1>3. CASE O(x)!ClaimLost(d)
  <2>1. UNCHANGED <<facts, entries, journal, clock, writes, life, used>> /\ O(x)!PassEnds(d)
    BY <1>3 DEF O!ClaimLost
  <2>2. StoreOK(x)' BY <2>1 DEF TypeInv, StoreOK
  <2>3. BatchesOK(x)' /\ deletion' \in [Bureaus[x] -> Deletions] BY <2>1, PassEndsBatch
  <2>4. call' \in [Bureaus[x] -> [{"drain", "renew"} -> Calls(x)]]
    BY <1>3, StartValues, CallReplaced DEF O!ClaimLost
  <2>5. retryAt' \in [Bureaus[x] -> 0 .. MaxClock[x] + Lease[x] \cup {None}]
    <3>1. ASSUME call[d]["drain"].read # None
          PROVE  call[d]["drain"].read.until \in 0 .. MaxClock[x] + Lease[x]
      BY <3>1, CallFields DEF Lease0, O!Claim
    <3>2. QED BY <1>3, <3>1 DEF O!ClaimLost, TypeInv
  <2>6. ProcessesOK(x)' BY <2>1, <2>3, <2>4, <2>5 DEF TypeInv, ProcessesOK
  <2>7. QED BY <2>2, <2>3, <2>6, TypeParts
<1>4. CASE O(x)!Replay(d)
  <2> DEFINE p == IF facts[O(x)!Entry(d)] = "attachment" THEN "attach" ELSE "history"
             r == [drain[d] EXCEPT !.pc = p]
  <2>1. UNCHANGED <<facts, entries, journal, clock, retryAt, life, deletion, used>>
    BY <1>4 DEF O!Replay
  <2>2. StoreOK(x)' BY <2>1 DEF TypeInv, StoreOK
  <2>3. p \in Stages BY DEF Stages
  <2>4. r \in Drains(x) /\ r.todo = drain[d].todo
    <3> HIDE DEF p
    <3> QED BY <2>3, StageType
  <2>5. drain[d].todo # {} BY <1>4 DEF O!Replay, TypeInv
  <2>6. O(x)!Set(d, r) BY <1>4 DEF O!Replay
  <2>7. BatchesOK(x)'
    <3> HIDE DEF r, p
    <3> QED BY <2>1, <2>4, <2>5, <2>6, GoesOnBatch
  <2>8. call' \in [Bureaus[x] -> [{"drain", "renew"} -> Calls(x)]]
    BY <1>4, StartValues, CallReplaced DEF O!Replay
  <2>9. O(x)!RowsOf(O(x)!Entry(d)) \subseteq O(x)!Row
    <3>1. O(x)!Entry(d) \in O(x)!Ordinals BY <2>5, EntryIsFirst, FactsBounded DEF O!Ordinals
    <3>2. QED BY <3>1 DEF O!RowsOf, O!Row
  <2>10. writes' \in [Bureaus[x] -> SUBSET O(x)!Row] BY <1>4, <2>9 DEF O!Replay, TypeInv
  <2>11. ProcessesOK(x)' BY <2>1, <2>8, <2>10 DEF TypeInv, ProcessesOK
  <2>12. QED BY <2>2, <2>7, <2>11, TypeParts
<1>5. QED BY <1>1, <1>2, <1>3, <1>4

\* A step of the drain itself that ends its pass or goes on with its entry,
\* and touches nothing else of the processes.
LEMMA GoesOnType ==
    ASSUME NEW x \in Outboxes, O(x)!OutboxAssumption, TypeInv(x), NEW d \in Bureaus[x],
           UNCHANGED <<facts, entries, journal, clock, call, writes, retryAt, life, used>>,
           \/ O(x)!PassEnds(d)
           \/ /\ drain[d].todo # {} /\ UNCHANGED deletion
              /\ \E p \in Stages : O(x)!Set(d, [drain[d] EXCEPT !.pc = p])
    PROVE  TypeInv(x)'
<1>1. StoreOK(x)' BY DEF TypeInv, StoreOK
<1>2. BatchesOK(x)' /\ deletion' \in [Bureaus[x] -> Deletions]
  <2>1. CASE O(x)!PassEnds(d) BY <2>1, PassEndsBatch
  <2>2. ASSUME drain[d].todo # {}, UNCHANGED deletion,
               NEW p \in Stages, O(x)!Set(d, [drain[d] EXCEPT !.pc = p])
        PROVE  BatchesOK(x)' /\ deletion' \in [Bureaus[x] -> Deletions]
    <3> DEFINE r == [drain[d] EXCEPT !.pc = p]
    <3>1. r \in Drains(x) /\ r.todo = drain[d].todo BY StageType
    <3>2. O(x)!Set(d, r) BY <2>2
    <3>3. BatchesOK(x)'
      <4> HIDE DEF r
      <4> QED BY <2>2, <3>1, <3>2, GoesOnBatch
    <3>4. QED BY <2>2, <3>3 DEF TypeInv
  <2>3. QED BY <2>1, <2>2
<1>3. ProcessesOK(x)' BY <1>2 DEF TypeInv, ProcessesOK
<1>4. QED BY <1>1, <1>2, <1>3, TypeParts

LEMMA ReplayingHasEntry ==
    ASSUME NEW x \in Outboxes, TypeInv(x), NEW d \in Bureaus[x], O(x)!Replaying(d)
    PROVE  drain[d].todo # {}
  BY DEF TypeInv

\* The next entry of a batch.
LEMMA ContinuedType ==
    ASSUME NEW x \in Outboxes, TypeInv(x), NEW d \in Bureaus[x]
    PROVE  /\ O(x)!Continued(d) \in Drains(x) /\ O(x)!Continued(d).pc = "next"
           /\ O(x)!Continued(d).todo = drain[d].todo \ {O(x)!Entry(d)}
  BY DrainFields DEF O!Continued, Drains, Stages, Lease0

LEMMA ContinuedBatch ==
    ASSUME NEW x \in Outboxes, O(x)!OutboxAssumption, TypeInv(x), NEW d \in Bureaus[x],
           O(x)!Set(d, O(x)!Continued(d)), facts' = facts
    PROVE  BatchesOK(x)'
<1>1. Becomes(x, d, O(x)!Continued(d)) BY ContinuedType, SetBecomes
<1>2. O(x)!Continued(d).todo \subseteq DOMAIN facts
  <2>1. drain[d].todo \subseteq DOMAIN facts BY DEF TypeInv
  <2>2. QED BY <2>1, ContinuedType
<1>3. QED BY <1>1, <1>2, ContinuedType, BecomesBatch DEF BatchesOK

LEMMA RetriesType ==
    ASSUME NEW x \in Outboxes, TypeInv(x), NEW d \in Bureaus[x]
    PROVE  LET r == [drain[d] EXCEPT !.pc = "ackRead", !.tries = @ + 1]
           IN  r \in Drains(x) /\ r.pc = "ackRead" /\ r.todo = drain[d].todo
<1>1. drain[d].tries + 1 \in Nat BY DrainFields
<1>2. [drain[d] EXCEPT !.pc = "ackRead", !.tries = @ + 1]
        = [drain[d] EXCEPT !.pc = "ackRead", !.tries = drain[d].tries + 1]
  BY DrainFields DEF Drains
<1>3. QED BY <1>1, <1>2, DrainFields DEF Drains, Stages

LEMMA ReadsType ==
    ASSUME NEW x \in Outboxes, TypeInv(x), NEW d \in Bureaus[x], NEW l \in Lease0(x)
    PROVE  LET r == [drain[d] EXCEPT !.pc = "ackSwap", !.read = l]
           IN  r \in Drains(x) /\ r.pc = "ackSwap" /\ r.todo = drain[d].todo
  BY DrainFields DEF Drains, Stages

\* Steps by which a replayed fact is checked and retired.
LEMMA RetireType ==
    ASSUME NEW x \in Outboxes, O(x)!OutboxAssumption, TypeInv(x), NEW d \in Bureaus[x],
           \/ O(x)!CheckHistory(d) \/ O(x)!CheckAudit(d) \/ O(x)!AttachmentRecorded(d)
           \/ O(x)!AckReads(d) \/ O(x)!AckSwaps(d)
    PROVE  TypeInv(x)'
<1>0. O(x)!Replaying(d) /\ drain[d].todo # {}
  <2>1. O(x)!Replaying(d)
    BY DEF O!CheckHistory, O!CheckAudit, O!AttachmentRecorded, O!AckReads, O!AckSwaps, O!Replaying
  <2>2. QED BY <2>1, ReplayingHasEntry
<1>1. CASE O(x)!CheckHistory(d)
  BY <1>0, <1>1, GoesOnType DEF O!CheckHistory, Stages
<1>2. CASE O(x)!CheckAudit(d)
  BY <1>0, <1>2, GoesOnType DEF O!CheckAudit, Stages
<1>3. CASE O(x)!AttachmentRecorded(d)
  BY <1>0, <1>3, GoesOnType DEF O!AttachmentRecorded, Stages
<1>4. CASE O(x)!AckReads(d)
  <2> DEFINE o == O(x)!Entry(d)
  <2>1. UNCHANGED <<facts, entries, journal, clock, call, writes, retryAt, life, used>>
    BY <1>4 DEF O!AckReads
  <2>2. CASE O(x)!PassEnds(d) BY <2>1, <2>2, GoesOnType
  <2>3. CASE O(x)!Set(d, O(x)!Continued(d)) /\ UNCHANGED deletion
    <3>1. BatchesOK(x)' BY <2>1, <2>3, ContinuedBatch
    <3>2. StoreOK(x)' /\ ProcessesOK(x)' BY <2>1, <2>3 DEF TypeInv, StoreOK, ProcessesOK
    <3>3. QED BY <3>1, <3>2, TypeParts
  <2>4. CASE /\ o \in DOMAIN entries
             /\ O(x)!Set(d, [drain[d] EXCEPT !.pc = "ackSwap", !.read = entries[o]])
             /\ UNCHANGED deletion
    <3> DEFINE r == [drain[d] EXCEPT !.pc = "ackSwap", !.read = entries[o]]
    <3>1. entries[o] \in Lease0(x) BY <2>4 DEF TypeInv
    <3>2. r \in Drains(x) /\ r.todo = drain[d].todo
      <4> HIDE DEF o
      <4> QED BY <3>1, ReadsType
    <3>3. O(x)!Set(d, r) BY <2>4
    <3>4. BatchesOK(x)'
      <4> HIDE DEF r
      <4> QED BY <1>0, <2>1, <3>2, <3>3, GoesOnBatch
    <3>5. StoreOK(x)' /\ ProcessesOK(x)' BY <2>1, <2>4 DEF TypeInv, StoreOK, ProcessesOK
    <3>6. QED BY <3>4, <3>5, TypeParts
  <2>5. QED BY <1>4, <2>2, <2>3, <2>4 DEF O!AckReads
<1>5. CASE O(x)!AckSwaps(d)
  <2> DEFINE o == O(x)!Entry(d)
  <2>1. UNCHANGED <<facts, journal, clock, call, writes, retryAt, life, used>>
    BY <1>5 DEF O!AckSwaps
  <2>2. CASE UNCHANGED entries /\ O(x)!PassEnds(d) BY <2>1, <2>2, GoesOnType
  <2>3. CASE /\ entries' = [e \in DOMAIN entries \ {o} |-> entries[e]]
             /\ O(x)!Set(d, O(x)!Continued(d)) /\ UNCHANGED deletion
    <3>1. BatchesOK(x)' BY <2>1, <2>3, ContinuedBatch
    <3>2. DOMAIN entries' \subseteq DOMAIN entries
          /\ \A e \in DOMAIN entries' : entries'[e] = entries[e]
      BY <2>3
    <3>3. StoreOK(x)' BY <2>1, <3>2 DEF TypeInv, StoreOK
    <3>4. ProcessesOK(x)' BY <2>1, <2>3 DEF TypeInv, ProcessesOK
    <3>5. QED BY <3>1, <3>3, <3>4, TypeParts
  <2>4. CASE /\ O(x)!Set(d, [drain[d] EXCEPT !.pc = "ackRead", !.tries = @ + 1])
             /\ UNCHANGED <<entries, deletion>>
    <3> DEFINE r == [drain[d] EXCEPT !.pc = "ackRead", !.tries = @ + 1]
    <3>1. r \in Drains(x) /\ r.todo = drain[d].todo BY RetriesType
    <3>2. O(x)!Set(d, r) BY <2>4
    <3>3. BatchesOK(x)'
      <4> HIDE DEF r
      <4> QED BY <1>0, <2>1, <3>1, <3>2, GoesOnBatch
    <3>4. StoreOK(x)' /\ ProcessesOK(x)' BY <2>1, <2>4 DEF TypeInv, StoreOK, ProcessesOK
    <3>5. QED BY <3>3, <3>4, TypeParts
  <2>5. QED BY <1>5, <2>2, <2>3, <2>4 DEF O!AckSwaps
<1>6. QED BY <1>1, <1>2, <1>3, <1>4, <1>5

\* A row that lands is appended, unless its marker is there already.
LEMMA LandsGrows ==
    ASSUME NEW x \in Outboxes, TypeInv(x), NEW row \in O(x)!Row, O(x)!RowLands(row)
    PROVE  /\ journal' \in Seq(O(x)!Row)
           /\ journal' = journal \/ journal' = Append(journal, row)
  BY DEF O!RowLands, TypeInv

LEMMA UsedType ==
    ASSUME NEW x \in Outboxes, O(x)!OutboxAssumption, TypeInv(x)
    PROVE  LET U == [crashes : 0 .. MaxCrashes[x], faults : 0 .. MaxFaults[x]]
           IN  /\ used.faults < MaxFaults[x] => [used EXCEPT !.faults = @ + 1] \in U
               /\ used.crashes < MaxCrashes[x] => [used EXCEPT !.crashes = @ + 1] \in U
<1>1. used \in [crashes : 0 .. MaxCrashes[x], faults : 0 .. MaxFaults[x]] BY DEF TypeInv
<1>2. MaxCrashes[x] \in Nat /\ MaxFaults[x] \in Nat BY Constants0
<1>3. used.faults < MaxFaults[x] =>
        [used EXCEPT !.faults = @ + 1] \in [crashes : 0 .. MaxCrashes[x], faults : 0 .. MaxFaults[x]]
  BY <1>1, <1>2
<1>4. used.crashes < MaxCrashes[x] =>
        [used EXCEPT !.crashes = @ + 1] \in [crashes : 0 .. MaxCrashes[x], faults : 0 .. MaxFaults[x]]
  BY <1>1, <1>2
<1>5. QED BY <1>3, <1>4

\* Writes, renewals, faults, crashes and time.
LEMMA OutsideType ==
    ASSUME NEW x \in Outboxes, O(x)!OutboxAssumption, TypeInv(x), NEW d \in Bureaus[x],
           O(x)!WriteSettles(d) \/ O(x)!Renew(d) \/ O(x)!StoreFails(d) \/ O(x)!Crash(d) \/ O(x)!Restart(d)
    PROVE  TypeInv(x)'
<1>1. ASSUME NEW row \in writes[d], O(x)!WriteLands(d, row) PROVE TypeInv(x)'
  <2>1. row \in O(x)!Row BY DEF TypeInv
  <2>2. journal' \in Seq(O(x)!Row) BY <1>1, <2>1, LandsGrows DEF O!WriteLands
  <2>3. StoreOK(x)' BY <1>1, <2>2 DEF O!WriteLands, TypeInv, StoreOK
  <2>4. writes' \in [Bureaus[x] -> SUBSET O(x)!Row] BY <1>1 DEF O!WriteLands, TypeInv
  <2>5. ProcessesOK(x)' BY <1>1, <2>4 DEF O!WriteLands, TypeInv, ProcessesOK
  <2>6. BatchesOK(x)' BY <1>1, BatchesStay DEF O!WriteLands
  <2>7. QED BY <2>3, <2>5, <2>6, TypeParts
<1>2. ASSUME NEW row \in writes[d], O(x)!WriteFails(d, row) PROVE TypeInv(x)'
  <2>1. UNCHANGED <<facts, entries, journal, clock, call, retryAt, life>>
    BY <1>2 DEF O!WriteFails
  <2>2. writes' \in [Bureaus[x] -> SUBSET O(x)!Row] BY <1>2 DEF O!WriteFails, TypeInv
  <2>3. used' \in [crashes : 0 .. MaxCrashes[x], faults : 0 .. MaxFaults[x]]
    BY <1>2, UsedType DEF O!WriteFails
  <2>4. BatchesOK(x)' /\ deletion' \in [Bureaus[x] -> Deletions]
    <3>1. CASE O(x)!DrainSettles(d) BY <2>1, <3>1, PassEndsBatch
    <3>2. CASE UNCHANGED <<drain, deletion>>
      BY <2>1, <3>2, BatchesStay DEF TypeInv
    <3>3. QED BY <1>2, <3>1, <3>2 DEF O!WriteFails
  <2>5. StoreOK(x)' BY <2>1 DEF TypeInv, StoreOK
  <2>6. ProcessesOK(x)' BY <2>1, <2>2, <2>3, <2>4 DEF TypeInv, ProcessesOK
  <2>7. QED BY <2>4, <2>5, <2>6, TypeParts
<1>3. CASE O(x)!Renew(d)
  <2>1. O(x)!Entry(d) \in Nat BY <1>3, ReplayingHasEntry, EntryIsFirst DEF O!Renew
  <2>2. call' \in [Bureaus[x] -> [{"drain", "renew"} -> Calls(x)]]
    BY <1>3, <2>1, NewCall, CallReplaced DEF O!Renew
  <2>3. StoreOK(x)' /\ ProcessesOK(x)' BY <1>3, <2>2 DEF O!Renew, TypeInv, StoreOK, ProcessesOK
  <2>4. BatchesOK(x)' BY <1>3, BatchesStay DEF O!Renew
  <2>5. QED BY <2>3, <2>4, TypeParts
<1>4. CASE O(x)!StoreFails(d)
  <2>1. BatchesOK(x)' /\ deletion' \in [Bureaus[x] -> Deletions]
    BY <1>4, PassEndsBatch DEF O!StoreFails
  <2>2. used' \in [crashes : 0 .. MaxCrashes[x], faults : 0 .. MaxFaults[x]]
    BY <1>4, UsedType DEF O!StoreFails
  <2>3. call' \in [Bureaus[x] -> [{"drain", "renew"} -> Calls(x)]]
    BY <1>4, StartValues, CallReplaced DEF O!StoreFails
  <2>4. StoreOK(x)' /\ ProcessesOK(x)'
    BY <1>4, <2>1, <2>2, <2>3 DEF O!StoreFails, TypeInv, StoreOK, ProcessesOK
  <2>5. QED BY <2>1, <2>4, TypeParts
<1>5. CASE O(x)!Crash(d)
  <2>1. Becomes(x, d, O(x)!Idle) BY <1>5, SetBecomes, StartValues DEF O!Crash
  <2>2. BatchesOK(x)' BY <1>5, <2>1, RestsBatch DEF Rests, BatchesOK, O!Crash
  <2>3. used' \in [crashes : 0 .. MaxCrashes[x], faults : 0 .. MaxFaults[x]]
    BY <1>5, UsedType DEF O!Crash
  <2>4. call' \in [Bureaus[x] -> [{"drain", "renew"} -> Calls(x)]]
        /\ deletion' \in [Bureaus[x] -> Deletions]
    BY <1>5, StartValues DEF O!Crash, TypeInv
  <2>5. /\ life' \in [Bureaus[x] -> 1 .. MaxCrashes[x] + 1 \cup {None}]
        /\ writes' \in [Bureaus[x] -> SUBSET O(x)!Row]
        /\ retryAt' \in [Bureaus[x] -> 0 .. MaxClock[x] + Lease[x] \cup {None}]
    BY <1>5 DEF O!Crash, TypeInv
  <2>6. StoreOK(x)' BY <1>5 DEF O!Crash, TypeInv, StoreOK
  <2>7. QED BY <2>2, <2>3, <2>4, <2>5, <2>6, TypeParts DEF ProcessesOK
<1>6. CASE O(x)!Restart(d)
  <2>1. Becomes(x, d, O(x)!Started) BY <1>6, SetBecomes, StartValues DEF O!Restart
  <2>2. BatchesOK(x)' BY <1>6, <2>1, RestsBatch DEF Rests, BatchesOK, O!Restart
  <2>3. used.crashes + 1 \in 1 .. MaxCrashes[x] + 1 BY Constants0 DEF TypeInv
  <2>4. life' \in [Bureaus[x] -> 1 .. MaxCrashes[x] + 1 \cup {None}] BY <1>6, <2>3 DEF O!Restart, TypeInv
  <2>5. StoreOK(x)' /\ ProcessesOK(x)' BY <1>6, <2>4 DEF O!Restart, TypeInv, StoreOK, ProcessesOK
  <2>6. QED BY <2>2, <2>5, TypeParts
<1>7. QED BY <1>1, <1>2, <1>3, <1>4, <1>5, <1>6 DEF O!WriteSettles

LEMMA NextType ==
    ASSUME NEW x \in Outboxes, O(x)!OutboxAssumption, TypeInv(x),
           [O(x)!Next]_vars PROVE TypeInv(x)'
<1>1. CASE O(x)!Tick
  <2>1. clock' \in 0 .. MaxClock[x] BY <1>1, Constants0 DEF O!Tick, TypeInv
  <2>2. StoreOK(x)' /\ ProcessesOK(x)' BY <1>1, <2>1 DEF O!Tick, TypeInv, StoreOK, ProcessesOK
  <2>3. BatchesOK(x)' BY <1>1, BatchesStay DEF O!Tick
  <2>4. QED BY <2>2, <2>3, TypeParts
<1>2. CASE UNCHANGED vars
  <2>1. BatchesOK(x)' BY <1>2, BatchesStay DEF vars, outboxVars
  <2>2. StoreOK(x)' /\ ProcessesOK(x)'
    BY <1>2 DEF vars, outboxVars, TypeInv, StoreOK, ProcessesOK
  <2>3. QED BY <2>1, <2>2, TypeParts
<1>3. QED BY <1>1, <1>2, AskingType, CallType, PassType, RetireType, OutsideType
          DEF O!Next, O!DrainStep

-----------------------------------------------------------------------------
(* A fact is retired only when its rows are durable, and a pass comes to an *)
(* entry only when all facts before it are.                                 *)

\* All the rows that a fact owes are there.
Durable(x, o) == facts[o] # "unknown" /\ O(x)!RowsOf(o) \subseteq O(x)!Recorded

\* What the batch of a pass leaves out before one of its entries is durable.
Passed(x, d) ==
    \A o \in DOMAIN facts : \A t \in drain[d].todo :
        o < t /\ o \notin drain[d].todo => Durable(x, o)

\* What a drain knows of the entry it has come to.
Stage(x, d) ==
    /\ drain[d].pc = "claim" => facts[O(x)!Entry(d)] # "unknown"
    /\ drain[d].pc = "history" => facts[O(x)!Entry(d)] \in {"saved", "deleted"}
    /\ drain[d].pc = "audit" =>
         facts[O(x)!Entry(d)] = "deleted" /\ O(x)!RowAt(d, "history") \in O(x)!Recorded
    /\ drain[d].pc = "attach" =>
         facts[O(x)!Entry(d)] = "attachment" /\ O(x)!RowAt(d, "audit") \in writes[d] \cup O(x)!Recorded
    /\ drain[d].pc \in {"ackRead", "ackSwap"} => Durable(x, O(x)!Entry(d))

\* A row in flight is owed by its fact, and all facts before that are durable.
InFlight(x, d) ==
    \A row \in writes[d] :
        /\ row.ordinal \in DOMAIN facts /\ row \in O(x)!RowsOf(row.ordinal)
        /\ \A o \in DOMAIN facts : o < row.ordinal => Durable(x, o)

Process(x, d) == Passed(x, d) /\ Stage(x, d) /\ InFlight(x, d)

FactInv(x) == O(x)!NoFactIsLost /\ \A d \in Bureaus[x] : Process(x, d)

\* Facts and rows are only ever added, and facts at the end.
Lengthens(x) ==
    /\ DOMAIN facts \subseteq DOMAIN facts' /\ DOMAIN facts' \subseteq Nat
    /\ \A o \in DOMAIN facts : facts'[o] = facts[o]
    /\ \A o \in DOMAIN facts' \ DOMAIN facts : \A p \in DOMAIN facts : p < o
    /\ O(x)!Recorded \subseteq O(x)!Recorded'

LEMMA AppendRecords ==
    ASSUME NEW x \in Outboxes, TypeInv(x), NEW row \in O(x)!Row, journal' = Append(journal, row)
    PROVE  O(x)!Recorded' = O(x)!Recorded \cup {row}
<1>1. DOMAIN journal' = DOMAIN journal \cup {Len(journal) + 1} BY DEF TypeInv
<1>2. \A i \in DOMAIN journal : journal'[i] = journal[i] BY DEF TypeInv
<1>3. journal'[Len(journal) + 1] = row BY DEF TypeInv
<1>4. QED BY <1>1, <1>2, <1>3 DEF O!Recorded

LEMMA RowIsRecorded ==
    ASSUME NEW x \in Outboxes, TypeInv(x), NEW row \in O(x)!Row, O(x)!RowLands(row)
    PROVE  O(x)!Recorded' = O(x)!Recorded \cup {row}
<1>1. CASE journal' = Append(journal, row) BY <1>1, AppendRecords
<1>2. CASE journal' = journal /\ row \in O(x)!Recorded BY <1>2 DEF O!Recorded
<1>3. QED BY <1>1, <1>2 DEF O!RowLands

LEMMA NextGrows == ASSUME NEW x \in Outboxes, TypeInv(x), [O(x)!Next]_vars PROVE Lengthens(x)
<1>1. ASSUME NEW d \in Bureaus[x], NEW k \in Kinds[x], O(x)!Commit(d, k) PROVE Lengthens(x)
  <2>1. facts' = Append(facts, k) /\ journal' = journal BY <1>1 DEF O!Commit
  <2>2. QED BY <2>1 DEF TypeInv, Lengthens, O!Recorded
<1>2. ASSUME NEW d \in Bureaus[x], NEW row \in writes[d], O(x)!WriteLands(d, row) PROVE Lengthens(x)
  <2>1. row \in O(x)!Row BY DEF TypeInv
  <2>2. O(x)!Recorded \subseteq O(x)!Recorded' /\ facts' = facts
    BY <1>2, <2>1, RowIsRecorded DEF O!WriteLands, TypeInv
  <2>3. QED BY <1>2, <2>1, <2>2, RowIsRecorded DEF O!WriteLands, Lengthens, TypeInv
<1>3. ASSUME UNCHANGED <<facts, journal>> PROVE Lengthens(x)
  BY <1>3 DEF Lengthens, O!Recorded, TypeInv
<1>4. CASE UNCHANGED vars BY <1>3, <1>4 DEF vars, outboxVars
<1>5. CASE O(x)!Tick BY <1>3, <1>5 DEF O!Tick
<1>6. ASSUME NEW d \in Bureaus[x],
             \/ O(x)!DeletionDrains(d) \/ O(x)!Maintenance(d) \/ O(x)!RetryFires(d) \/ O(x)!DrainStep(d)
             \/ \E row \in writes[d] : O(x)!WriteFails(d, row)
             \/ \E c \in {"drain", "renew"} : O(x)!CallStep(d, c)
             \/ O(x)!Renew(d) \/ O(x)!StoreFails(d) \/ O(x)!Crash(d) \/ O(x)!Restart(d)
      PROVE  UNCHANGED <<facts, journal>>
  BY <1>6 DEF O!DeletionDrains, O!Maintenance, O!RetryFires, O!DrainStep, O!WriteFails,
     O!CallStep, O!Renew,
     O!StoreFails, O!Crash, O!Restart, O!ListPending, O!NextEntry, O!ClaimLost, O!Replay, O!CheckHistory,
     O!CheckAudit, O!AttachmentRecorded, O!AckReads, O!AckSwaps, O!ClaimReads, O!ClaimSwaps
<1>7. QED BY <1>1, <1>2, <1>3, <1>4, <1>5, <1>6 DEF O!Next, O!WriteSettles

LEMMA DurableStays ==
    ASSUME NEW x \in Outboxes, Lengthens(x), NEW o \in DOMAIN facts
    PROVE  O(x)!RowsOf(o)' = O(x)!RowsOf(o) /\ (Durable(x, o) => Durable(x, o)')
<1>1. facts'[o] = facts[o] BY DEF Lengthens
<1>2. O(x)!RowsOf(o)' = O(x)!RowsOf(o) BY <1>1 DEF O!RowsOf
<1>3. QED BY <1>1, <1>2 DEF Durable, Lengthens

\* A row in flight stays owed, and a fact that comes later is not before it.
LEMMA InFlightStays ==
    ASSUME NEW x \in Outboxes, Lengthens(x), NEW d \in Bureaus[x], InFlight(x, d),
           writes'[d] \subseteq writes[d]
    PROVE  InFlight(x, d)'
<1>1. SUFFICES ASSUME NEW row \in writes'[d]
               PROVE  /\ row.ordinal \in DOMAIN facts' /\ row \in O(x)!RowsOf(row.ordinal)'
                      /\ \A o \in DOMAIN facts' : o < row.ordinal => Durable(x, o)'
  BY DEF InFlight
<1>2. row.ordinal \in DOMAIN facts /\ row \in O(x)!RowsOf(row.ordinal)
  BY DEF InFlight
<1>3. ASSUME NEW o \in DOMAIN facts', o < row.ordinal PROVE o \in DOMAIN facts
  BY <1>2, <1>3 DEF Lengthens
<1>4. \A o \in DOMAIN facts : o < row.ordinal => Durable(x, o) BY DEF InFlight
<1>5. QED BY <1>2, <1>3, <1>4, DurableStays DEF Lengthens

\* A drain without a batch has nothing to know.
LEMMA ProcessRests ==
    ASSUME NEW x \in Outboxes, O(x)!OutboxAssumption, Lengthens(x), NEW d \in Bureaus[x],
           InFlight(x, d),
           Rests(x, d), writes'[d] \subseteq writes[d]
    PROVE  Process(x, d)'
<1>1. drain'[d].todo = {} /\ drain'[d].pc \in {"idle", "list"}
  BY StartValues DEF Rests, Becomes
<1>2. QED BY <1>1, InFlightStays DEF Process, Passed, Stage

\* What a batch has left out stays durable.
LEMMA PassedStays ==
    ASSUME NEW x \in Outboxes, TypeInv(x), Lengthens(x), NEW d \in Bureaus[x], Passed(x, d),
           drain'[d].todo = drain[d].todo
    PROVE  Passed(x, d)'
<1>1. SUFFICES ASSUME NEW o \in DOMAIN facts', NEW t \in drain[d].todo, o < t,
                      o \notin drain[d].todo
               PROVE  Durable(x, o)'
  BY DEF Passed
<1>2. t \in DOMAIN facts BY DEF TypeInv
<1>3. o \in DOMAIN facts BY <1>1, <1>2 DEF Lengthens
<1>4. QED BY <1>1, <1>3, DurableStays DEF Passed

\* A drain that stays where it is knows what it knew, as long as no row that it
\* counts on leaves otherwise than by landing.
LEMMA ProcessStays ==
    ASSUME NEW x \in Outboxes, TypeInv(x), Lengthens(x), NEW d \in Bureaus[x], Process(x, d),
           drain'[d].pc = drain[d].pc, drain'[d].todo = drain[d].todo,
           writes'[d] \subseteq writes[d],
           drain[d].pc = "attach" /\ O(x)!RowAt(d, "audit") \in writes[d]
               => O(x)!RowAt(d, "audit") \in writes'[d] \cup O(x)!Recorded'
    PROVE  Process(x, d)'
<1>1. InFlight(x, d)' BY InFlightStays DEF Process
<1>2. O(x)!Entry(d)' = O(x)!Entry(d) BY DEF O!Entry
<1>3. Passed(x, d)' BY PassedStays DEF Process
<1>4. Stage(x, d)'
  <2>1. CASE drain[d].pc \in {"claim", "history", "audit", "attach", "ackRead", "ackSwap"}
    <3>1. O(x)!Entry(d) \in DOMAIN facts BY <2>1, EntryIsFirst DEF TypeInv, O!Replaying
    <3>2. facts'[O(x)!Entry(d)] = facts[O(x)!Entry(d)] BY <3>1 DEF Lengthens
    <3>3. O(x)!RowAt(d, "history")' = O(x)!RowAt(d, "history") /\ O(x)!RowAt(d, "audit")' = O(x)!RowAt(d, "audit")
      BY <1>2 DEF O!RowAt
    <3>4. ASSUME Durable(x, O(x)!Entry(d)) PROVE Durable(x, O(x)!Entry(d))'
      <4>1. \A o \in DOMAIN facts : Durable(x, o) => Durable(x, o)' BY DurableStays
      <4>2. QED BY <1>2, <3>1, <3>4, <4>1 DEF Durable, O!RowsOf
    <3>5. Stage(x, d) BY DEF Process
    <3>6. O(x)!Recorded \subseteq O(x)!Recorded' BY DEF Lengthens
    <3>7. QED BY <1>2, <3>2, <3>3, <3>4, <3>5, <3>6 DEF Stage
  <2>2. CASE drain[d].pc \notin {"claim", "history", "audit", "attach", "ackRead", "ackSwap"}
    BY <2>2 DEF Stage
  <2>3. QED BY <2>1, <2>2
<1>5. QED BY <1>1, <1>3, <1>4 DEF Process

\* A process that does not move.
LEMMA ProcessIdle ==
    ASSUME NEW x \in Outboxes, TypeInv(x), Lengthens(x), NEW d \in Bureaus[x], Process(x, d),
           drain'[d] = drain[d], writes'[d] = writes[d]
    PROVE  Process(x, d)'
  BY ProcessStays DEF Lengthens

\* drainOutbox changes nothing of that.
LEMMA ProcessCalled ==
    ASSUME NEW x \in Outboxes, O(x)!OutboxAssumption, TypeInv(x), Lengthens(x),
           \A e \in Bureaus[x] : Process(x, e),
           NEW d \in Bureaus[x], O(x)!Set(d, O(x)!drainOutbox(d)), writes' = writes
    PROVE  \A e \in Bureaus[x] : Process(x, e)'
<1>1. ASSUME NEW e \in Bureaus[x], e # d PROVE Process(x, e)'
  <2>1. drain'[e] = drain[e] BY <1>1, DrainCalled DEF Becomes
  <2>2. QED BY <2>1, ProcessIdle
<1>2. Process(x, d)'
  <2>1. CASE Becomes(x, d, O(x)!Started) BY <2>1, ProcessRests DEF Rests, Process
  <2>2. CASE \E r \in Drains(x) : /\ Becomes(x, d, r) /\ r.pc = drain[d].pc
                                  /\ r.todo = drain[d].todo /\ r.read = drain[d].read
    BY <2>2, ProcessStays DEF Becomes
  <2>3. QED BY <2>1, <2>2, DrainCalled
<1>3. QED BY <1>1, <1>2

\* The end of a pass, too.
LEMMA ProcessPassEnds ==
    ASSUME NEW x \in Outboxes, O(x)!OutboxAssumption, TypeInv(x), Lengthens(x),
           \A e \in Bureaus[x] : Process(x, e),
           NEW d \in Bureaus[x], O(x)!PassEnds(d) \/ O(x)!DrainSettles(d) \/ Rests(x, d),
           \A e \in Bureaus[x] : writes'[e] \subseteq writes[e],
           \A e \in Bureaus[x] : e # d => writes'[e] = writes[e]
    PROVE  \A e \in Bureaus[x] : Process(x, e)'
<1>1. Rests(x, d) BY PassEndsRests, SettlesRests DEF Rests
<1>2. ASSUME NEW e \in Bureaus[x], e # d PROVE Process(x, e)'
  <2>1. drain'[e] = drain[e] BY <1>1, <1>2 DEF Rests, Becomes
  <2>2. QED BY <1>2, <2>1, ProcessIdle
<1>3. Process(x, d)' BY <1>1, ProcessRests DEF Process
<1>4. QED BY <1>2, <1>3

\* A drain that goes on with its entry.
LEMMA ProcessGoesOn ==
    ASSUME NEW x \in Outboxes, TypeInv(x), Lengthens(x), \A e \in Bureaus[x] : Process(x, e),
           NEW d \in Bureaus[x], NEW r \in Drains(x), O(x)!Set(d, r), r.todo = drain[d].todo,
           writes' = writes, Stage(x, d)'
    PROVE  \A e \in Bureaus[x] : Process(x, e)'
<1>1. Becomes(x, d, r) BY SetBecomes
<1>2. ASSUME NEW e \in Bureaus[x], e # d PROVE Process(x, e)'
  <2>1. drain'[e] = drain[e] BY <1>1, <1>2 DEF Becomes
  <2>2. QED BY <2>1, ProcessIdle
<1>3. Process(x, d)'
  <2>1. Passed(x, d)' BY <1>1, PassedStays DEF Becomes, Process
  <2>2. InFlight(x, d)' BY InFlightStays DEF Process
  <2>3. QED BY <2>1, <2>2 DEF Process
<1>4. QED BY <1>2, <1>3

\* The facts of an entry that is replayed.
LEMMA EntryKind ==
    ASSUME NEW x \in Outboxes, O(x)!OutboxAssumption, TypeInv(x), NEW d \in Bureaus[x],
           drain[d].todo # {}
    PROVE  facts[O(x)!Entry(d)] \in {"saved", "deleted", "attachment", "unknown"}
  BY EntryIsFirst, FactsBounded

LEMMA PassProcess ==
    ASSUME NEW x \in Outboxes, O(x)!OutboxAssumption, TypeInv(x), FactInv(x), Lengthens(x),
           NEW d \in Bureaus[x],
           O(x)!ListPending(d) \/ O(x)!NextEntry(d) \/ O(x)!ClaimLost(d) \/ O(x)!Replay(d)
    PROVE  \A e \in Bureaus[x] : Process(x, e)'
<1>0. \A e \in Bureaus[x] : Process(x, e) BY DEF FactInv
<1>1. CASE O(x)!ListPending(d)
  <2> DEFINE r == [drain[d] EXCEPT !.pc = "listed", !.todo = DOMAIN entries]
  <2>1. DOMAIN entries \subseteq DOMAIN facts /\ DOMAIN facts \subseteq Nat BY DEF TypeInv
  <2>2. r \in Drains(x) /\ r.pc = "listed" /\ r.todo = DOMAIN entries
    BY <2>1, DrainFields DEF Drains, Stages
  <2>3. Becomes(x, d, r) BY <1>1, <2>2, SetBecomes DEF O!ListPending
  <2>4. drain'[d].pc = "listed" /\ drain'[d].todo = DOMAIN entries
        /\ \A e \in Bureaus[x] : e # d => drain'[e] = drain[e]
    BY <2>2, <2>3 DEF Becomes
  <2>5. UNCHANGED <<facts, journal, writes>> BY <1>1 DEF O!ListPending
  <2>6. ASSUME NEW e \in Bureaus[x], e # d PROVE Process(x, e)'
    BY <1>0, <2>4, <2>5, <2>6, ProcessIdle
  <2>7. Passed(x, d)'
    <3>1. \A o \in DOMAIN facts \ DOMAIN entries : Durable(x, o)
      BY DEF FactInv, O!NoFactIsLost, Durable
    <3>2. \A o \in DOMAIN facts : Durable(x, o) => Durable(x, o)' BY DurableStays
    <3>3. QED BY <2>4, <2>5, <3>1, <3>2 DEF Passed
  <2>8. Stage(x, d)' BY <2>4 DEF Stage
  <2>9. InFlight(x, d)' BY <1>0, <2>5, InFlightStays DEF Process
  <2>10. QED BY <2>6, <2>7, <2>8, <2>9 DEF Process
<1>2. CASE O(x)!NextEntry(d)
  <2>1. UNCHANGED <<facts, journal, writes>> BY <1>2 DEF O!NextEntry
  <2>2. CASE O(x)!PassEnds(d) BY <1>0, <2>1, <2>2, ProcessPassEnds
  <2>3. CASE O(x)!Set(d, [drain[d] EXCEPT !.pc = "list"])
    <3> DEFINE r == [drain[d] EXCEPT !.pc = "list"]
    <3>1. r \in Drains(x) /\ r.pc = "list" /\ r.todo = drain[d].todo BY StageType DEF Stages
    <3>2. O(x)!Set(d, r) BY <2>3
    <3> HIDE DEF r
    <3>3. drain'[d] = r BY <3>1, <3>2, SetBecomes DEF Becomes
    <3>4. Stage(x, d)' BY <3>1, <3>3 DEF Stage
    <3>5. QED BY <1>0, <2>1, <3>1, <3>2, <3>4, ProcessGoesOn
  <2>4. CASE drain[d].todo # {} /\ facts[O(x)!Entry(d)] # "unknown"
             /\ O(x)!Set(d, [drain[d] EXCEPT !.pc = "claim"])
    <3> DEFINE r == [drain[d] EXCEPT !.pc = "claim"]
    <3>1. r \in Drains(x) /\ r.pc = "claim" /\ r.todo = drain[d].todo BY StageType DEF Stages
    <3>2. O(x)!Set(d, r) BY <2>4
    <3> HIDE DEF r
    <3>3. drain'[d] = r BY <3>1, <3>2, SetBecomes DEF Becomes
    <3>4. O(x)!Entry(d)' = O(x)!Entry(d) BY <3>1, <3>3 DEF O!Entry
    <3>5. Stage(x, d)' BY <2>1, <2>4, <3>1, <3>3, <3>4 DEF Stage
    <3>6. QED BY <1>0, <2>1, <3>1, <3>2, <3>5, ProcessGoesOn
  <2>5. QED BY <1>2, <2>2, <2>3, <2>4 DEF O!NextEntry
<1>3. CASE O(x)!ClaimLost(d)
  <2>1. UNCHANGED writes /\ O(x)!PassEnds(d) BY <1>3 DEF O!ClaimLost
  <2>2. QED BY <1>0, <2>1, ProcessPassEnds
<1>4. CASE O(x)!Replay(d)
  <2> DEFINE p == IF facts[O(x)!Entry(d)] = "attachment" THEN "attach" ELSE "history"
             r == [drain[d] EXCEPT !.pc = p]
  <2>1. UNCHANGED <<facts, journal>> /\ drain[d].pc = "claim" /\ O(x)!Set(d, r)
        /\ writes' = [writes EXCEPT ![d] = @ \cup O(x)!RowsOf(O(x)!Entry(d))]
    BY <1>4 DEF O!Replay
  <2>2. p \in Stages BY DEF Stages
  <2>3. r \in Drains(x) /\ r.pc = p /\ r.todo = drain[d].todo
    <3> HIDE DEF p
    <3> QED BY <2>2, StageType
  <2>4. drain[d].todo # {} BY <2>1 DEF TypeInv
  <2>5. /\ drain'[d].pc = p /\ drain'[d].todo = drain[d].todo
        /\ \A e \in Bureaus[x] : e # d => drain'[e] = drain[e]
    <3>1. Becomes(x, d, r) BY <2>1, <2>3, SetBecomes
    <3> HIDE DEF r
    <3>2. QED BY <2>3, <3>1 DEF Becomes
  <2>6. /\ writes'[d] = writes[d] \cup O(x)!RowsOf(O(x)!Entry(d))
        /\ \A e \in Bureaus[x] : e # d => writes'[e] = writes[e]
    BY <2>1 DEF TypeInv
  <2>7. O(x)!Entry(d)' = O(x)!Entry(d) BY <2>5 DEF O!Entry
  <2>8. facts[O(x)!Entry(d)] \in {"saved", "deleted", "attachment"}
    BY <1>0, <2>1, <2>4, EntryKind DEF Process, Stage
  <2>9. ASSUME NEW e \in Bureaus[x], e # d PROVE Process(x, e)'
    BY <1>0, <2>5, <2>6, <2>9, ProcessIdle
  <2>10. Passed(x, d)' BY <1>0, <2>5, PassedStays DEF Process
  <2>11. Stage(x, d)'
    <3>1. ASSUME facts[O(x)!Entry(d)] = "attachment" PROVE O(x)!RowAt(d, "audit")' \in writes'[d]
      BY <2>6, <2>7, <3>1 DEF O!RowAt, O!RowsOf
    <3>2. QED BY <2>1, <2>5, <2>7, <2>8, <3>1 DEF Stage
  <2>12. InFlight(x, d)'
    <3>1. SUFFICES ASSUME NEW row \in O(x)!RowsOf(O(x)!Entry(d)) \cup writes[d]
                   PROVE  /\ row.ordinal \in DOMAIN facts /\ row \in O(x)!RowsOf(row.ordinal)
                          /\ \A o \in DOMAIN facts : o < row.ordinal => Durable(x, o)
      <4>1. \A o \in DOMAIN facts : O(x)!RowsOf(o)' = O(x)!RowsOf(o) /\ (Durable(x, o) => Durable(x, o)')
        BY DurableStays
      <4>2. QED BY <2>1, <2>6, <3>1, <4>1 DEF InFlight
    <3>2. CASE row \in writes[d] BY <1>0, <3>2 DEF Process, InFlight
    <3>3. CASE row \in O(x)!RowsOf(O(x)!Entry(d))
      <4>1. row.ordinal = O(x)!Entry(d) BY <3>3 DEF O!RowsOf
      <4>2. O(x)!Entry(d) \in DOMAIN facts BY <2>4, EntryIsFirst
      <4>3. ASSUME NEW o \in DOMAIN facts, o < O(x)!Entry(d) PROVE Durable(x, o)
        <5>1. o \in Nat BY DEF TypeInv
        <5>2. o \notin drain[d].todo /\ O(x)!Entry(d) \in drain[d].todo
          BY <2>4, <4>3, <5>1, EntryIsFirst
        <5>3. QED BY <1>0, <4>3, <5>2 DEF Process, Passed
      <4>4. QED BY <3>3, <4>1, <4>2, <4>3
    <3>4. QED BY <3>1, <3>2, <3>3
  <2>13. QED BY <2>9, <2>10, <2>11, <2>12 DEF Process
<1>5. QED BY <1>1, <1>2, <1>3, <1>4

\* A drain that goes on to stage p with its entry, if it knows enough for it.
LEMMA StageReached ==
    ASSUME NEW x \in Outboxes, TypeInv(x), Lengthens(x), \A e \in Bureaus[x] : Process(x, e),
           NEW d \in Bureaus[x],
           NEW r \in Drains(x), O(x)!Set(d, r), r.todo = drain[d].todo,
           UNCHANGED <<facts, journal, writes>>,
           \/ /\ r.pc = "audit" /\ facts[O(x)!Entry(d)] = "deleted"
              /\ O(x)!RowAt(d, "history") \in O(x)!Recorded
           \/ r.pc \in {"ackRead", "ackSwap"} /\ Durable(x, O(x)!Entry(d))
    PROVE  \A e \in Bureaus[x] : Process(x, e)'
<1>1. drain'[d] = r BY SetBecomes DEF Becomes
<1>2. O(x)!Entry(d)' = O(x)!Entry(d) BY <1>1 DEF O!Entry
<1>3. O(x)!RowAt(d, "history")' = O(x)!RowAt(d, "history") BY <1>2 DEF O!RowAt
<1>4. Durable(x, O(x)!Entry(d))' = Durable(x, O(x)!Entry(d)) BY <1>2 DEF Durable, O!RowsOf, O!Recorded
<1>5. O(x)!Recorded' = O(x)!Recorded BY DEF O!Recorded
<1>6. Stage(x, d)' BY <1>1, <1>2, <1>3, <1>4, <1>5 DEF Stage
<1>7. QED BY <1>6, ProcessGoesOn

\* An entry that is left behind is durable.
LEMMA ProcessContinued ==
    ASSUME NEW x \in Outboxes, TypeInv(x), Lengthens(x), \A e \in Bureaus[x] : Process(x, e),
           NEW d \in Bureaus[x],
           O(x)!Set(d, O(x)!Continued(d)), Durable(x, O(x)!Entry(d)),
           UNCHANGED <<facts, journal, writes>>
    PROVE  \A e \in Bureaus[x] : Process(x, e)'
<1>1. Becomes(x, d, O(x)!Continued(d)) BY ContinuedType, SetBecomes
<1>2. ASSUME NEW e \in Bureaus[x], e # d PROVE Process(x, e)'
  <2>1. drain'[e] = drain[e] BY <1>1, <1>2 DEF Becomes
  <2>2. QED BY <2>1, ProcessIdle
<1>3. drain'[d].pc = "next" /\ drain'[d].todo = drain[d].todo \ {O(x)!Entry(d)}
  BY <1>1, ContinuedType DEF Becomes
<1>4. Passed(x, d)'
  <2>1. \A o \in DOMAIN facts : Durable(x, o) => Durable(x, o)' BY DurableStays
  <2>2. QED BY <1>3, <2>1 DEF Process, Passed
<1>5. Stage(x, d)' BY <1>3 DEF Stage
<1>6. InFlight(x, d)' BY InFlightStays DEF Process
<1>7. QED BY <1>2, <1>4, <1>5, <1>6 DEF Process

LEMMA RetireProcess ==
    ASSUME NEW x \in Outboxes, O(x)!OutboxAssumption, TypeInv(x), FactInv(x), Lengthens(x),
           NEW d \in Bureaus[x],
           \/ O(x)!CheckHistory(d) \/ O(x)!CheckAudit(d) \/ O(x)!AttachmentRecorded(d)
           \/ O(x)!AckReads(d) \/ O(x)!AckSwaps(d)
    PROVE  \A e \in Bureaus[x] : Process(x, e)'
<1>0. \A e \in Bureaus[x] : Process(x, e) BY DEF FactInv
<1>1. UNCHANGED <<facts, journal, writes>>
  BY DEF O!CheckHistory, O!CheckAudit, O!AttachmentRecorded, O!AckReads, O!AckSwaps
<1>2. CASE O(x)!PassEnds(d) BY <1>0, <1>1, <1>2, ProcessPassEnds
<1>3. CASE O(x)!CheckHistory(d)
  <2>1. facts[O(x)!Entry(d)] \in {"saved", "deleted"}
    BY <1>0, <1>3 DEF O!CheckHistory, Process, Stage
  <2>2. CASE O(x)!RowAt(d, "history") \in O(x)!Recorded
    <3> DEFINE p == IF facts[O(x)!Entry(d)] = "deleted" THEN "audit" ELSE "ackRead"
               r == [drain[d] EXCEPT !.pc = p]
    <3>1. p \in Stages BY DEF Stages
    <3>2. r \in Drains(x) /\ r.pc = p /\ r.todo = drain[d].todo
      <4> HIDE DEF p
      <4> QED BY <3>1, StageType
    <3>3. O(x)!Set(d, r) BY <1>3, <2>2 DEF O!CheckHistory
    <3>4. facts[O(x)!Entry(d)] = "saved" => Durable(x, O(x)!Entry(d))
      BY <2>2 DEF Durable, O!RowsOf, O!RowAt
    <3>5. QED
      <4> HIDE DEF r
      <4> QED BY <1>0, <1>1, <2>1, <2>2, <3>2, <3>3, <3>4, StageReached
  <2>3. CASE O(x)!RowAt(d, "history") \notin O(x)!Recorded BY <1>2, <1>3, <2>3 DEF O!CheckHistory
  <2>4. QED BY <2>2, <2>3
<1>4. CASE O(x)!CheckAudit(d)
  <2>1. facts[O(x)!Entry(d)] = "deleted" /\ O(x)!RowAt(d, "history") \in O(x)!Recorded
    BY <1>0, <1>4 DEF O!CheckAudit, Process, Stage
  <2>2. CASE O(x)!RowAt(d, "audit") \in O(x)!Recorded
    <3> DEFINE r == [drain[d] EXCEPT !.pc = "ackRead"]
    <3>1. r \in Drains(x) /\ r.pc = "ackRead" /\ r.todo = drain[d].todo BY StageType DEF Stages
    <3>2. O(x)!Set(d, r) BY <1>4, <2>2 DEF O!CheckAudit
    <3>3. Durable(x, O(x)!Entry(d)) BY <2>1, <2>2 DEF Durable, O!RowsOf, O!RowAt
    <3>4. QED
      <4> HIDE DEF r
      <4> QED BY <1>0, <1>1, <3>1, <3>2, <3>3, StageReached
  <2>3. CASE O(x)!RowAt(d, "audit") \notin O(x)!Recorded BY <1>2, <1>4, <2>3 DEF O!CheckAudit
  <2>4. QED BY <2>2, <2>3
<1>5. CASE O(x)!AttachmentRecorded(d)
  <2> DEFINE r == [drain[d] EXCEPT !.pc = "ackRead"]
  <2>1. r \in Drains(x) /\ r.pc = "ackRead" /\ r.todo = drain[d].todo BY StageType DEF Stages
  <2>2. O(x)!Set(d, r) BY <1>5 DEF O!AttachmentRecorded
  <2>3. facts[O(x)!Entry(d)] = "attachment" /\ O(x)!RowAt(d, "audit") \in O(x)!Recorded
    BY <1>0, <1>5 DEF O!AttachmentRecorded, Process, Stage
  <2>4. Durable(x, O(x)!Entry(d)) BY <2>3 DEF Durable, O!RowsOf, O!RowAt
  <2>5. QED
    <3> HIDE DEF r
    <3> QED BY <1>0, <1>1, <2>1, <2>2, <2>4, StageReached
<1>6. CASE O(x)!AckReads(d)
  <2> DEFINE o == O(x)!Entry(d)
             r == [drain[d] EXCEPT !.pc = "ackSwap", !.read = entries[o]]
  <2>1. Durable(x, O(x)!Entry(d)) BY <1>0, <1>6 DEF O!AckReads, Process, Stage
  <2>2. CASE O(x)!Set(d, O(x)!Continued(d)) BY <1>0, <1>1, <2>1, <2>2, ProcessContinued
  <2>3. CASE o \in DOMAIN entries /\ O(x)!Set(d, r)
    <3>1. entries[o] \in Lease0(x) BY <2>3 DEF TypeInv
    <3>2. r \in Drains(x) /\ r.pc = "ackSwap" /\ r.todo = drain[d].todo
      <4> HIDE DEF o
      <4> QED BY <3>1, ReadsType
    <3>3. QED
      <4> HIDE DEF r
      <4> QED BY <1>0, <1>1, <2>1, <2>3, <3>2, StageReached
  <2>4. QED BY <1>2, <1>6, <2>2, <2>3 DEF O!AckReads
<1>7. CASE O(x)!AckSwaps(d)
  <2> DEFINE r == [drain[d] EXCEPT !.pc = "ackRead", !.tries = @ + 1]
  <2>1. Durable(x, O(x)!Entry(d)) BY <1>0, <1>7 DEF O!AckSwaps, Process, Stage
  <2>2. CASE O(x)!Set(d, O(x)!Continued(d)) BY <1>0, <1>1, <2>1, <2>2, ProcessContinued
  <2>3. CASE O(x)!Set(d, r)
    <3>1. r \in Drains(x) /\ r.pc = "ackRead" /\ r.todo = drain[d].todo BY RetriesType
    <3>2. QED
      <4> HIDE DEF r
      <4> QED BY <1>0, <1>1, <2>1, <2>3, <3>1, StageReached
  <2>4. QED BY <1>2, <1>7, <2>2, <2>3 DEF O!AckSwaps
<1>8. QED BY <1>3, <1>4, <1>5, <1>6, <1>7

LEMMA WriteProcess ==
    ASSUME NEW x \in Outboxes, O(x)!OutboxAssumption, TypeInv(x), FactInv(x), Lengthens(x),
           NEW d \in Bureaus[x], O(x)!WriteSettles(d)
    PROVE  \A e \in Bureaus[x] : Process(x, e)'
<1>0. \A e \in Bureaus[x] : Process(x, e) BY DEF FactInv
<1>1. PICK row \in writes[d] : O(x)!WriteLands(d, row) \/ O(x)!WriteFails(d, row) BY DEF O!WriteSettles
<1>2. /\ row \in O(x)!Row
      /\ writes'[d] = writes[d] \ {row}
      /\ \A e \in Bureaus[x] : e # d => writes'[e] = writes[e]
  BY <1>1 DEF O!WriteLands, O!WriteFails, TypeInv
<1>3. CASE O(x)!WriteLands(d, row)
  <2>1. drain' = drain BY <1>3 DEF O!WriteLands
  <2>2. row \in O(x)!Recorded' BY <1>2, <1>3, RowIsRecorded DEF O!WriteLands
  <2>3. Process(x, d)' BY <1>0, <1>2, <2>1, <2>2, ProcessStays
  <2>4. QED BY <1>0, <1>2, <2>1, <2>3, ProcessIdle
<1>4. CASE O(x)!WriteFails(d, row)
  <2>1. CASE drain[d].pc = "attach" /\ row.ordinal = O(x)!Entry(d)
    <3>1. O(x)!DrainSettles(d) BY <1>4, <2>1 DEF O!WriteFails
    <3>2. \A e \in Bureaus[x] : writes'[e] \subseteq writes[e] BY <1>2
    <3>3. QED BY <1>0, <1>2, <3>1, <3>2, ProcessPassEnds
  <2>2. CASE ~ (drain[d].pc = "attach" /\ row.ordinal = O(x)!Entry(d))
    <3>1. drain' = drain BY <1>4, <2>2 DEF O!WriteFails
    <3>2. drain[d].pc = "attach" => row # O(x)!RowAt(d, "audit") BY <2>2 DEF O!RowAt
    <3>3. Process(x, d)' BY <1>0, <1>2, <3>1, <3>2, ProcessStays
    <3>4. QED BY <1>0, <1>2, <3>1, <3>3, ProcessIdle
  <2>3. QED BY <2>1, <2>2
<1>5. QED BY <1>1, <1>3, <1>4

LEMMA NextProcess ==
    ASSUME NEW x \in Outboxes, O(x)!OutboxAssumption, TypeInv(x), FactInv(x), [O(x)!Next]_vars
    PROVE  \A d \in Bureaus[x] : Process(x, d)'
<1>0. Lengthens(x) /\ \A d \in Bureaus[x] : Process(x, d) BY NextGrows DEF FactInv
<1>1. ASSUME UNCHANGED <<drain, writes>> PROVE \A d \in Bureaus[x] : Process(x, d)'
  BY <1>0, <1>1, ProcessIdle
<1>2. ASSUME NEW d \in Bureaus[x],
             (\E k \in Kinds[x] : O(x)!Commit(d, k)) \/ O(x)!DeletionDrains(d) \/ O(x)!Maintenance(d) \/ O(x)!RetryFires(d)
      PROVE  \A e \in Bureaus[x] : Process(x, e)'
  <2>1. O(x)!Set(d, O(x)!drainOutbox(d)) /\ writes' = writes
    BY <1>2 DEF O!Commit, O!DeletionDrains, O!Maintenance, O!RetryFires
  <2>2. QED BY <1>0, <2>1, ProcessCalled
<1>3. ASSUME NEW d \in Bureaus[x], O(x)!StoreFails(d) \/ O(x)!Crash(d) \/ O(x)!Restart(d)
      PROVE  \A e \in Bureaus[x] : Process(x, e)'
  <2>1. O(x)!DrainSettles(d) \/ Rests(x, d)
    BY <1>3, SetBecomes, StartValues DEF O!StoreFails, O!Crash, O!Restart, Rests
  <2>2. /\ \A e \in Bureaus[x] : writes'[e] \subseteq writes[e]
        /\ \A e \in Bureaus[x] : e # d => writes'[e] = writes[e]
    BY <1>3 DEF O!StoreFails, O!Crash, O!Restart, TypeInv
  <2>3. QED BY <1>0, <2>1, <2>2, ProcessPassEnds
<1>4. ASSUME NEW d \in Bureaus[x], O(x)!DrainStep(d) PROVE \A e \in Bureaus[x] : Process(x, e)'
  BY <1>0, <1>4, PassProcess, RetireProcess DEF O!DrainStep
<1>5. ASSUME NEW d \in Bureaus[x], O(x)!WriteSettles(d) PROVE \A e \in Bureaus[x] : Process(x, e)'
  BY <1>0, <1>5, WriteProcess
<1>6. ASSUME NEW d \in Bureaus[x], O(x)!Renew(d) \/ \E c \in {"drain", "renew"} : O(x)!CallStep(d, c)
      PROVE  UNCHANGED <<drain, writes>>
  BY <1>6 DEF O!Renew, O!CallStep, O!ClaimReads, O!ClaimSwaps
<1>7. O(x)!Tick \/ UNCHANGED vars => UNCHANGED <<drain, writes>> BY DEF O!Tick, vars, outboxVars
<1>8. QED BY <1>1, <1>2, <1>3, <1>4, <1>5, <1>6, <1>7 DEF O!Next

LEMMA NextNoFactIsLost ==
    ASSUME NEW x \in Outboxes, O(x)!OutboxAssumption, TypeInv(x), FactInv(x), [O(x)!Next]_vars
    PROVE  O(x)!NoFactIsLost'
<1>0. Lengthens(x) BY NextGrows
<1>1. ASSUME \A o \in DOMAIN facts' \ DOMAIN entries' :
               o \in DOMAIN facts /\ (o \notin DOMAIN entries \/ Durable(x, o))
      PROVE  O(x)!NoFactIsLost'
  <2>1. \A o \in DOMAIN facts \ DOMAIN entries : Durable(x, o)
    BY DEF FactInv, O!NoFactIsLost, Durable
  <2>2. \A o \in DOMAIN facts : Durable(x, o) => Durable(x, o)' BY <1>0, DurableStays
  <2>3. \A o \in DOMAIN facts' \ DOMAIN entries' : Durable(x, o)' BY <1>1, <2>1, <2>2
  <2>4. QED BY <2>3 DEF O!NoFactIsLost, Durable
<1>2. ASSUME facts' = facts, DOMAIN entries' = DOMAIN entries PROVE O(x)!NoFactIsLost'
  BY <1>1, <1>2
<1>3. ASSUME NEW d \in Bureaus[x], NEW k \in Kinds[x], O(x)!Commit(d, k) PROVE O(x)!NoFactIsLost'
  <2>1. DOMAIN facts' = DOMAIN facts \cup {Len(facts) + 1} BY <1>3 DEF O!Commit, TypeInv
  <2>2. DOMAIN entries' = DOMAIN entries \cup {Len(facts) + 1} BY <1>3 DEF O!Commit
  <2>3. QED BY <1>1, <2>1, <2>2
<1>4. ASSUME NEW d \in Bureaus[x], O(x)!AckSwaps(d) PROVE O(x)!NoFactIsLost'
  <2>1. facts' = facts BY <1>4 DEF O!AckSwaps
  <2>2. Durable(x, O(x)!Entry(d)) BY <1>4 DEF FactInv, O!AckSwaps, Process, Stage
  <2>3. CASE entries' = [e \in DOMAIN entries \ {O(x)!Entry(d)} |-> entries[e]]
    BY <1>1, <2>1, <2>2, <2>3
  <2>4. CASE entries' = entries BY <1>2, <2>1, <2>4
  <2>5. QED BY <1>4, <2>3, <2>4 DEF O!AckSwaps
<1>5. ASSUME NEW d \in Bureaus[x], NEW c \in {"drain", "renew"}, O(x)!CallStep(d, c) PROVE O(x)!NoFactIsLost'
  <2>1. facts' = facts /\ DOMAIN entries' = DOMAIN entries
    BY <1>5 DEF O!CallStep, O!ClaimReads, O!ClaimSwaps
  <2>2. QED BY <1>2, <2>1
<1>6. ASSUME UNCHANGED <<facts, entries>> PROVE O(x)!NoFactIsLost' BY <1>2, <1>6
<1>7. ASSUME NEW d \in Bureaus[x],
             \/ O(x)!DeletionDrains(d) \/ O(x)!Maintenance(d) \/ O(x)!RetryFires(d)
             \/ O(x)!ListPending(d) \/ O(x)!NextEntry(d) \/ O(x)!ClaimLost(d) \/ O(x)!Replay(d)
             \/ O(x)!CheckHistory(d) \/ O(x)!CheckAudit(d) \/ O(x)!AttachmentRecorded(d) \/ O(x)!AckReads(d)
             \/ O(x)!WriteSettles(d) \/ O(x)!Renew(d) \/ O(x)!StoreFails(d) \/ O(x)!Crash(d) \/ O(x)!Restart(d)
      PROVE  UNCHANGED <<facts, entries>>
  BY <1>7 DEF O!DeletionDrains, O!Maintenance, O!RetryFires, O!ListPending, O!NextEntry,
     O!ClaimLost, O!Replay,
     O!CheckHistory, O!CheckAudit, O!AttachmentRecorded, O!AckReads, O!WriteSettles, O!WriteLands, O!WriteFails,
     O!Renew, O!StoreFails, O!Crash, O!Restart
<1>8. O(x)!Tick \/ UNCHANGED vars => UNCHANGED <<facts, entries>> BY DEF O!Tick, vars, outboxVars
<1>9. QED BY <1>3, <1>4, <1>5, <1>6, <1>7, <1>8 DEF O!Next, O!DrainStep

LEMMA InitFacts == ASSUME NEW x \in Outboxes, O(x)!OutboxAssumption, O(x)!Init PROVE FactInv(x)
<1>1. DOMAIN facts = {} BY DEF O!Init
<1>2. O(x)!NoFactIsLost BY <1>1 DEF O!NoFactIsLost
<1>3. ASSUME NEW d \in Bureaus[x] PROVE Process(x, d)
  <2>1. drain[d] = O(x)!Idle /\ writes[d] = {} BY DEF O!Init
  <2>2. drain[d].pc = "idle" /\ drain[d].todo = {} BY <2>1, StartValues
  <2>3. QED BY <2>1, <2>2 DEF Process, Passed, Stage, InFlight
<1>4. QED BY <1>2, <1>3 DEF FactInv

-----------------------------------------------------------------------------
(* A claim is kept.                                                        *)

\* What a claim() call that is about to swap has made sure of when it read: it
\* extends its own claim, or the claim it found had run out.
SwapOK(x, d, c) ==
    LET k == call[d][c]
    IN  k.pc = "swap" =>
            /\ O(x)!Up(d)
            /\ k.read # None =>
                 /\ k.read.owner = O(x)!Owner(d) => k.until >= k.read.until
                 /\ k.read.owner # O(x)!Owner(d) => k.read.until <= clock

SwapInv(x) == \A d \in Bureaus[x] : \A c \in {"drain", "renew"} : SwapOK(x, d, c)

\* Time goes on, and a process that lives on keeps its calls' word.
LEMMA SwapStays ==
    ASSUME NEW x \in Outboxes, TypeInv(x), NEW d \in Bureaus[x], NEW c \in {"drain", "renew"},
           SwapOK(x, d, c),
           call'[d][c] = call[d][c], life'[d] = life[d], clock' \in Nat, clock' >= clock
    PROVE  SwapOK(x, d, c)'
<1>1. ASSUME call[d][c].read # None PROVE call[d][c].read.until \in Nat
  <2>1. call[d][c].read \in O(x)!Claim BY <1>1, CallFields DEF Lease0
  <2>2. QED BY <2>1 DEF O!Claim
<1>2. clock \in Nat BY DEF TypeInv
<1>3. QED BY <1>1, <1>2 DEF SwapOK, O!Up, O!Owner

\* A call that is not about to swap has nothing to make sure of.
LEMMA SwapQuiet ==
    ASSUME NEW x \in Outboxes, NEW d, NEW c, call'[d][c].pc # "swap" PROVE SwapOK(x, d, c)'
  BY DEF SwapOK

LEMMA AnsweredIsQuiet ==
    ASSUME NEW x \in Outboxes, NEW c, NEW a \in {"lost", "won"}, NEW l
    PROVE  O(x)!Answered(c, a, l).pc # "swap"
  BY DEF O!Answered, O!NoCall

LEMMA MaxOfTwo ==
    ASSUME NEW x \in Outboxes, NEW a \in Nat, NEW b \in Nat
    PROVE  O(x)!Max({a, b}) \in Nat /\ O(x)!Max({a, b}) >= a
<1>1. \E m \in {a, b} : \A y \in {a, b} : m >= y
  <2>1. CASE a >= b BY <2>1
  <2>2. CASE b >= a BY <2>2
  <2>3. QED BY <2>1, <2>2
<1>2. O(x)!Max({a, b}) \in {a, b} /\ \A y \in {a, b} : O(x)!Max({a, b}) >= y BY <1>1 DEF O!Max
<1>3. QED BY <1>2

LEMMA NewCallIsQuiet ==
    ASSUME NEW x \in Outboxes, NEW o, NEW u
    PROVE  [O(x)!NoCall EXCEPT !.pc = "read", !.ordinal = o, !.until = u].pc # "swap"
<1>1. O(x)!NoCall = [pc |-> "idle", ordinal |-> 0, until |-> 0, read |-> None, tries |-> 0]
  BY DEF O!NoCall
<1>2. QED BY <1>1

LEMMA ReadsSwap ==
    ASSUME NEW x \in Outboxes, O(x)!OutboxAssumption, TypeInv(x), NEW d \in Bureaus[x],
           NEW c \in {"drain", "renew"},
           O(x)!ClaimReads(d, c)
    PROVE  SwapOK(x, d, c)'
<1> DEFINE k == call[d][c]
           o == k.ordinal
           until == O(x)!NextUntil(o, O(x)!Owner(d), k.until)
<1>1. /\ call' = [call EXCEPT ![d][c] =
              IF o \notin DOMAIN entries THEN O(x)!Answered(c, "lost", None)
              ELSE IF ~O(x)!Claimable(o, O(x)!Owner(d)) \/ until <= clock
              THEN O(x)!Answered(c, "lost", entries[o])
              ELSE [k EXCEPT !.pc = "swap", !.read = entries[o], !.until = until]]
      /\ O(x)!Up(d) /\ UNCHANGED <<life, clock>>
  BY DEF O!ClaimReads
<1>2. call \in [Bureaus[x] -> [{"drain", "renew"} -> Calls(x)]] /\ k \in Calls(x) BY DEF TypeInv
<1>3. CASE o \notin DOMAIN entries
  <2>1. call'[d][c] = O(x)!Answered(c, "lost", None) BY <1>1, <1>2, <1>3
  <2>2. QED BY <2>1, AnsweredIsQuiet, SwapQuiet
<1>4. CASE o \in DOMAIN entries /\ (~O(x)!Claimable(o, O(x)!Owner(d)) \/ until <= clock)
  <2>1. call'[d][c] = O(x)!Answered(c, "lost", entries[o]) BY <1>1, <1>2, <1>4
  <2>2. QED BY <2>1, AnsweredIsQuiet, SwapQuiet
<1>5. CASE o \in DOMAIN entries /\ O(x)!Claimable(o, O(x)!Owner(d)) /\ ~ (until <= clock)
  <2> HIDE DEF until, k
  <2>1. call'[d][c] = [k EXCEPT !.pc = "swap", !.read = entries[k.ordinal], !.until = until]
    BY <1>1, <1>2, <1>5 DEF k
  <2>2. call'[d][c].read = entries[k.ordinal] /\ call'[d][c].until = until
    BY <1>2, <2>1 DEF Calls
  <2>3. ASSUME entries[k.ordinal] # None
        PROVE  /\ entries[k.ordinal].owner = O(x)!Owner(d) => until >= entries[k.ordinal].until
               /\ entries[k.ordinal].owner # O(x)!Owner(d) => entries[k.ordinal].until <= clock
    <3>1. entries[k.ordinal] \in O(x)!Claim BY <1>5, <2>3 DEF TypeInv, Lease0
    <3>2. entries[k.ordinal].until \in Nat /\ k.until \in Nat
      BY <1>2, <3>1, Constants0 DEF O!Claim, Calls
    <3>3. CASE entries[k.ordinal].owner = O(x)!Owner(d)
      <4>1. until = O(x)!Max({entries[k.ordinal].until, k.until})
        BY <2>3, <3>3 DEF until, O!NextUntil
      <4>2. O(x)!Max({entries[k.ordinal].until, k.until}) >= entries[k.ordinal].until
        BY <3>2, MaxOfTwo
      <4>3. QED BY <3>3, <4>1, <4>2
    <3>4. CASE entries[k.ordinal].owner # O(x)!Owner(d)
      BY <1>5, <2>3, <3>4 DEF O!Claimable
    <3>5. QED BY <3>3, <3>4
  <2>4. O(x)!Owner(d)' = O(x)!Owner(d) /\ O(x)!Up(d)' BY <1>1 DEF O!Owner, O!Up
  <2>5. QED BY <1>1, <2>2, <2>3, <2>4 DEF SwapOK
<1>6. QED BY <1>3, <1>4, <1>5

LEMMA SwapsSwap ==
    ASSUME NEW x \in Outboxes, O(x)!OutboxAssumption, TypeInv(x), NEW d \in Bureaus[x],
           NEW c \in {"drain", "renew"},
           O(x)!ClaimSwaps(d, c)
    PROVE  SwapOK(x, d, c)'
<1> DEFINE k == call[d][c]
           o == k.ordinal
<1>1. call \in [Bureaus[x] -> [{"drain", "renew"} -> Calls(x)]] /\ k \in Calls(x) BY DEF TypeInv
<1>2. CASE call' = [call EXCEPT ![d][c] = O(x)!Answered(c, "won", None)]
  BY <1>1, <1>2, AnsweredIsQuiet, SwapQuiet
<1>3. ASSUME NEW l, call' = [call EXCEPT ![d][c] =
                      IF k.tries + 1 < MaxTries[x]
                      THEN [k EXCEPT !.pc = "read", !.tries = @ + 1]
                      ELSE O(x)!Answered(c, "lost", l)]
      PROVE  SwapOK(x, d, c)'
  <2>1. [k EXCEPT !.pc = "read", !.tries = @ + 1].pc = "read" BY <1>1 DEF Calls
  <2>2. call'[d][c].pc # "swap"
    <3> HIDE DEF k
    <3> QED BY <1>1, <1>3, <2>1, AnsweredIsQuiet
  <2>3. QED BY <2>2, SwapQuiet
<1>4. QED BY <1>2, <1>3 DEF O!ClaimSwaps

LEMMA InitSwap == ASSUME NEW x \in Outboxes, O(x)!OutboxAssumption, O(x)!Init PROVE SwapInv(x)
<1>1. \A d \in Bureaus[x] : \A c \in {"drain", "renew"} : call[d][c] = O(x)!NoCall BY DEF O!Init
<1>2. QED BY <1>1, StartValues DEF SwapInv, SwapOK

LEMMA NextSwap ==
    ASSUME NEW x \in Outboxes, O(x)!OutboxAssumption, TypeInv(x), SwapInv(x), [O(x)!Next]_vars
    PROVE  SwapInv(x)'
<1>0. clock \in Nat BY DEF TypeInv
<1>1. ASSUME NEW d \in Bureaus[x], NEW c \in {"drain", "renew"}, O(x)!CallStep(d, c) PROVE SwapInv(x)'
  <2>1. ASSUME NEW e \in Bureaus[x], NEW b \in {"drain", "renew"}, <<e, b>> # <<d, c>>
        PROVE  SwapOK(x, e, b)'
    <3>1. call'[e][b] = call[e][b]
      BY <1>1, <2>1 DEF O!CallStep, O!ClaimReads, O!ClaimSwaps, TypeInv
    <3>2. UNCHANGED <<life, clock>> BY <1>1 DEF O!CallStep, O!ClaimReads, O!ClaimSwaps
    <3>3. QED BY <1>0, <3>1, <3>2, SwapStays DEF SwapInv
  <2>2. SwapOK(x, d, c)' BY <1>1, ReadsSwap, SwapsSwap DEF O!CallStep
  <2>3. QED BY <2>1, <2>2 DEF SwapInv
<1>2. ASSUME NEW d \in Bureaus[x],
             \/ O(x)!NextEntry(d) \/ O(x)!ClaimLost(d) \/ O(x)!Replay(d) \/ O(x)!Renew(d) \/ O(x)!StoreFails(d)
             \/ O(x)!Crash(d) \/ O(x)!Restart(d)
      PROVE  SwapInv(x)'
  <2>1. ASSUME NEW e \in Bureaus[x], NEW b \in {"drain", "renew"}
        PROVE  call'[e][b] = call[e][b] \/ call'[e][b].pc # "swap"
    <3>1. O(x)!NoCall.pc # "swap" BY DEF O!NoCall
    <3>2. ASSUME NEW o, NEW u
          PROVE  [O(x)!NoCall EXCEPT !.pc = "read", !.ordinal = o, !.until = u].pc # "swap"
      BY NewCallIsQuiet
    <3>3. CASE O(x)!NextEntry(d)
      <4> DEFINE k == [O(x)!NoCall EXCEPT !.pc = "read", !.ordinal = O(x)!Entry(d), !.until = clock + Lease[x]]
      <4>1. call' = call \/ call' = [call EXCEPT ![d]["drain"] = k] BY <3>3 DEF O!NextEntry
      <4>2. k.pc # "swap" BY <3>2
      <4> HIDE DEF k
      <4>3. call \in [Bureaus[x] -> [{"drain", "renew"} -> Calls(x)]] BY DEF TypeInv
      <4>4. CASE call' = call BY <4>4
      <4>5. CASE call' = [call EXCEPT ![d]["drain"] = k]
        <5>1. CASE e = d /\ b = "drain" BY <4>2, <4>3, <4>5, <5>1
        <5>2. CASE ~ (e = d /\ b = "drain") BY <4>3, <4>5, <5>2
        <5>3. QED BY <5>1, <5>2
      <4>6. QED BY <4>1, <4>4, <4>5
    <3>4. CASE O(x)!Renew(d) BY <3>2, <3>4 DEF O!Renew, TypeInv
    <3>5. CASE O(x)!ClaimLost(d) BY <3>1, <3>5 DEF O!ClaimLost, TypeInv
    <3>6. CASE O(x)!Replay(d) BY <3>1, <3>6 DEF O!Replay, TypeInv
    <3>7. CASE O(x)!StoreFails(d) BY <3>1, <3>7 DEF O!StoreFails, TypeInv
    <3>8. CASE O(x)!Crash(d) BY <3>1, <3>8 DEF O!Crash, TypeInv
    <3>9. CASE O(x)!Restart(d) BY <3>9 DEF O!Restart
    <3>10. QED BY <1>2, <3>3, <3>4, <3>5, <3>6, <3>7, <3>8, <3>9
  <2>2. clock' = clock
    BY <1>2 DEF O!NextEntry, O!ClaimLost, O!Replay, O!Renew, O!StoreFails, O!Crash, O!Restart
  <2>3. ASSUME NEW e \in Bureaus[x], NEW b \in {"drain", "renew"} PROVE SwapOK(x, e, b)'
    <3>1. CASE call'[e][b].pc # "swap" BY <3>1, SwapQuiet
    <3>2. CASE call'[e][b] = call[e][b] /\ life'[e] = life[e]
      BY <1>0, <2>2, <3>2, SwapStays DEF SwapInv
    <3>3. CASE call'[e][b] = call[e][b] /\ life'[e] # life[e]
      <4>1. e = d /\ (O(x)!Crash(d) \/ O(x)!Restart(d))
        BY <1>2, <3>3 DEF O!NextEntry, O!ClaimLost, O!Replay, O!Renew, O!StoreFails, O!Crash,
           O!Restart, TypeInv
      <4>2. CASE O(x)!Crash(d)
        BY <3>1, <4>1, <4>2 DEF O!Crash, TypeInv, O!NoCall
      <4>3. CASE O(x)!Restart(d)
        <5>1. call[e][b].pc # "swap" BY <4>1, <4>3 DEF O!Restart, SwapInv, SwapOK
        <5>2. QED BY <3>3, <5>1, SwapQuiet
      <4>4. QED BY <4>1, <4>2, <4>3
    <3>4. QED BY <2>1, <3>1, <3>2, <3>3
  <2>4. QED BY <2>3 DEF SwapInv
<1>3. ASSUME UNCHANGED <<call, life>>, clock' \in Nat, clock' >= clock PROVE SwapInv(x)'
  BY <1>3, SwapStays DEF SwapInv
<1>4. ASSUME NEW d \in Bureaus[x],
             \/ \E k \in Kinds[x] : O(x)!Commit(d, k)
             \/ O(x)!DeletionDrains(d) \/ O(x)!Maintenance(d) \/ O(x)!RetryFires(d)
             \/ O(x)!ListPending(d) \/ O(x)!CheckHistory(d) \/ O(x)!CheckAudit(d) \/ O(x)!AttachmentRecorded(d)
             \/ O(x)!AckReads(d) \/ O(x)!AckSwaps(d) \/ O(x)!WriteSettles(d)
      PROVE  UNCHANGED <<call, life, clock>>
  BY <1>4 DEF O!Commit, O!DeletionDrains, O!Maintenance, O!RetryFires, O!ListPending,
     O!CheckHistory,
     O!CheckAudit, O!AttachmentRecorded, O!AckReads, O!AckSwaps, O!WriteSettles, O!WriteLands, O!WriteFails
<1>5. O(x)!Tick => UNCHANGED <<call, life>> /\ clock' \in Nat /\ clock' >= clock
  BY <1>0 DEF O!Tick
<1>6. UNCHANGED vars => UNCHANGED <<call, life, clock>> BY DEF vars, outboxVars
<1>7. QED BY <1>0, <1>1, <1>2, <1>3, <1>4, <1>5, <1>6 DEF O!Next, O!DrainStep

LEMMA StepKeepsClaims ==
    ASSUME NEW x \in Outboxes, O(x)!OutboxAssumption, TypeInv(x), SwapInv(x), [O(x)!Next]_vars
    PROVE  O(x)!ClaimLasts
<1>1. ASSUME \A o \in DOMAIN entries \cap DOMAIN entries' : entries'[o] = entries[o]
      PROVE  O(x)!ClaimLasts
  <2>1. SUFFICES ASSUME NEW o \in DOMAIN entries \cap DOMAIN entries', entries[o] # None
                 PROVE  entries[o].until >= entries[o].until
    BY <1>1, <2>1 DEF O!ClaimLasts
  <2>2. entries[o] \in O(x)!Claim BY <2>1 DEF TypeInv, Lease0
  <2>3. entries[o].until \in Nat BY <2>2, Constants0 DEF O!Claim
  <2>4. QED BY <2>3
<1>2. ASSUME NEW d \in Bureaus[x], NEW c \in {"drain", "renew"}, O(x)!ClaimSwaps(d, c)
      PROVE  O(x)!ClaimLasts
  <2> DEFINE k == call[d][c]
             o == k.ordinal
  <2>1. CASE entries' = entries BY <1>1, <2>1
  <2>2. CASE /\ o \in DOMAIN entries /\ entries[o] = k.read /\ k.pc = "swap"
             /\ entries' = [entries EXCEPT ![o] = [owner |-> O(x)!Owner(d), until |-> k.until]]
    <3>1. SwapOK(x, d, c) BY DEF SwapInv
    <3>2. [owner |-> O(x)!Owner(d), until |-> k.until] # None
      <4>1. O(x)!Up(d) /\ k.until \in 0 .. MaxClock[x] + Lease[x] BY <1>2, CallFields DEF O!ClaimSwaps
      <4>2. [owner |-> O(x)!Owner(d), until |-> k.until] \in O(x)!Claim BY <4>1, ClaimType
      <4>3. QED BY <4>2, Constants0
    <3>3. SUFFICES ASSUME NEW e \in DOMAIN entries, entries[e] # None
                   PROVE  /\ entries'[e] # None
                          /\ entries'[e].owner = entries[e].owner => entries'[e].until >= entries[e].until
                          /\ entries'[e].owner # entries[e].owner => entries[e].until <= clock
      BY <3>3 DEF O!ClaimLasts
    <3>4. CASE e = o
      <4> HIDE DEF o, k
      <4>1. entries'[e] = [owner |-> O(x)!Owner(d), until |-> k.until] BY <2>2, <3>4
      <4>2. entries[e] = k.read BY <2>2, <3>4
      <4>3. QED BY <2>2, <3>1, <3>2, <3>3, <4>1, <4>2 DEF SwapOK, k
    <3>5. CASE e # o
      <4>1. entries'[e] = entries[e] BY <2>2, <3>5
      <4>2. entries[e] \in O(x)!Claim BY <3>3 DEF TypeInv, Lease0
      <4>3. entries[e].until \in Nat BY <4>2, Constants0 DEF O!Claim
      <4>4. QED BY <3>3, <4>1, <4>3
    <3>6. QED BY <3>4, <3>5
  <2>3. QED BY <1>2, <2>1, <2>2 DEF O!ClaimSwaps
<1>3. ASSUME NEW d \in Bureaus[x], (\E k \in Kinds[x] : O(x)!Commit(d, k)) \/ O(x)!AckSwaps(d)
      PROVE  \A o \in DOMAIN entries \cap DOMAIN entries' : entries'[o] = entries[o]
  BY <1>3 DEF O!Commit, O!AckSwaps
<1>4. ASSUME NEW d \in Bureaus[x],
             \/ O(x)!DeletionDrains(d) \/ O(x)!Maintenance(d) \/ O(x)!RetryFires(d)
             \/ O(x)!ListPending(d) \/ O(x)!NextEntry(d) \/ O(x)!ClaimLost(d) \/ O(x)!Replay(d)
             \/ O(x)!CheckHistory(d) \/ O(x)!CheckAudit(d) \/ O(x)!AttachmentRecorded(d) \/ O(x)!AckReads(d)
             \/ O(x)!WriteSettles(d) \/ O(x)!Renew(d) \/ O(x)!StoreFails(d) \/ O(x)!Crash(d) \/ O(x)!Restart(d)
             \/ \E c \in {"drain", "renew"} : O(x)!ClaimReads(d, c)
      PROVE  entries' = entries
  BY <1>4 DEF O!DeletionDrains, O!Maintenance, O!RetryFires, O!ListPending, O!NextEntry,
     O!ClaimLost, O!Replay,
     O!CheckHistory, O!CheckAudit, O!AttachmentRecorded, O!AckReads, O!WriteSettles, O!WriteLands, O!WriteFails,
     O!Renew, O!StoreFails, O!Crash, O!Restart, O!ClaimReads
<1>5. O(x)!Tick \/ UNCHANGED vars => entries' = entries BY DEF O!Tick, vars, outboxVars
<1>6. QED BY <1>1, <1>2, <1>3, <1>4, <1>5 DEF O!Next, O!DrainStep, O!CallStep

-----------------------------------------------------------------------------
(* The feed.                                                               *)

\* What is in the journal is owed by its fact.
RowInv(x) == \A row \in O(x)!Recorded : row.ordinal \in DOMAIN facts /\ row \in O(x)!RowsOf(row.ordinal)

\* The cardinality that the outbox counts with is that of the theorems.
LEMMA OutboxCardinality == \A x, T : O(x)!Cardinality(T) = Cardinality(T)
  BY DEF O!Cardinality, Cardinality

Count(x) == Cardinality(O(x)!Deliveries)
Rank(x, p) == Cardinality({q \in O(x)!Deliveries : q <= p})

\* The n-th delivery is that of the n-th fact.
OrderInv(x) ==
    /\ \A p \in O(x)!Deliveries : journal[p].ordinal = Rank(x, p)
    /\ {journal[p].ordinal : p \in O(x)!Deliveries} = 1 .. Count(x)

FeedInv(x) == RowInv(x) /\ OrderInv(x)

LEMMA DeliveriesFinite ==
    ASSUME NEW x \in Outboxes, TypeInv(x)
    PROVE  /\ IsFiniteSet(O(x)!Deliveries) /\ Count(x) \in Nat
           /\ O(x)!Deliveries \subseteq 1 .. Len(journal) /\ Len(journal) \in Nat
<1>1. O(x)!Deliveries \subseteq 1 .. Len(journal) /\ Len(journal) \in Nat
  BY DEF O!Deliveries, TypeInv
<1>2. IsFiniteSet(1 .. Len(journal)) BY <1>1, FS_Interval
<1>3. QED BY <1>1, <1>2, FS_Subset, FS_CardinalityType DEF Count

\* The rows by which recorded facts count stay those rows.
LEMMA PrimaryStays ==
    ASSUME NEW x \in Outboxes, Lengthens(x), NEW row, row.ordinal \in DOMAIN facts
    PROVE  O(x)!Primary(row)' = O(x)!Primary(row)
  BY DEF Lengthens, O!Primary

LEMMA FeedIdle ==
    ASSUME NEW x \in Outboxes, TypeInv(x), FeedInv(x), Lengthens(x), journal' = journal
    PROVE  FeedInv(x)' /\ O(x)!Delivered' = O(x)!Delivered
<1>1. \A p \in DOMAIN journal : journal[p] \in O(x)!Recorded BY DEF O!Recorded
<1>2. \A p \in DOMAIN journal : O(x)!Primary(journal[p])' = O(x)!Primary(journal[p])
  BY <1>1, PrimaryStays DEF FeedInv, RowInv, Lengthens, O!Primary
<1>3. O(x)!Deliveries' = O(x)!Deliveries BY <1>2 DEF O!Deliveries
<1>4. OrderInv(x)' BY <1>3 DEF FeedInv, OrderInv, Rank, Count
<1>5. RowInv(x)'
  <2>1. O(x)!Recorded' = O(x)!Recorded BY DEF O!Recorded
  <2>2. \A o \in DOMAIN facts : O(x)!RowsOf(o)' = O(x)!RowsOf(o) BY DurableStays
  <2>3. QED BY <2>1, <2>2 DEF FeedInv, RowInv, Lengthens
<1>6. O(x)!Delivered' = O(x)!Delivered BY <1>3 DEF O!Delivered
<1>7. QED BY <1>4, <1>5, <1>6 DEF FeedInv

\* The sequence of deliveries counts up.
CountsUp == \A x \in Outboxes : OrderInv(x) => O(x)!Delivered = [i \in 1 .. Count(x) |-> i]

LEMMA DeliveredCounts == CountsUp
<1> SUFFICES ASSUME NEW x \in Outboxes, OrderInv(x)
             PROVE  O(x)!Delivered = [i \in 1 .. Count(x) |-> i]
  BY DEF CountsUp
<1> DEFINE RankOf(p) == O(x)!Cardinality({q \in O(x)!Deliveries : q <= p})
<1>1. ASSUME NEW i \in 1 .. Count(x)
      PROVE  journal[CHOOSE p \in O(x)!Deliveries : RankOf(p) = i].ordinal = i
  <2>1. PICK p \in O(x)!Deliveries : journal[p].ordinal = i BY DEF OrderInv
  <2>2. \A q : RankOf(q) = Rank(x, q) BY OutboxCardinality DEF Rank
  <2> HIDE DEF RankOf
  <2>3. RankOf(p) = i BY <2>1, <2>2 DEF OrderInv
  <2> DEFINE at == CHOOSE q \in O(x)!Deliveries : RankOf(q) = i
  <2>4. at \in O(x)!Deliveries /\ RankOf(at) = i BY <2>3
  <2>5. QED BY <2>2, <2>4 DEF OrderInv
<1>2. O(x)!Cardinality(O(x)!Deliveries) = Count(x) BY OutboxCardinality DEF Count
<1>3. O(x)!Delivered
        = [i \in 1 .. Count(x) |->
              journal[CHOOSE p \in O(x)!Deliveries : RankOf(p) = i].ordinal]
  BY <1>2 DEF O!Delivered
<1>4. QED BY <1>1, <1>3

\* A row that lands for the first time and by which its fact counts is that of
\* the first fact without such a row.
LEMMA LandsInOrder ==
    ASSUME NEW x \in Outboxes, O(x)!OutboxAssumption, TypeInv(x), FactInv(x), FeedInv(x),
           NEW d \in Bureaus[x], NEW row \in writes[d],
           O(x)!Primary(row), row \notin O(x)!Recorded
    PROVE  row.ordinal = Count(x) + 1 /\ Count(x) < Len(facts) /\ facts[Count(x) + 1] # "unknown"
<1> DEFINE o == row.ordinal
<1>1. /\ row \in O(x)!Row /\ o \in DOMAIN facts /\ o \in Nat \ {0} /\ row \in O(x)!RowsOf(o)
      /\ \A e \in DOMAIN facts : e < o => Durable(x, e)
  <2>1. InFlight(x, d) BY DEF FactInv, Process
  <2>2. QED BY <2>1 DEF TypeInv, InFlight
<1>2. Count(x) \in Nat /\ DOMAIN facts = 1 .. Len(facts) /\ Len(facts) \in Nat
  BY DeliveriesFinite, FactsBounded
<1>3. ~ (o <= Count(x))
  <2>1. SUFFICES ASSUME o <= Count(x) PROVE FALSE OBVIOUS
  <2>2. o \in {journal[p].ordinal : p \in O(x)!Deliveries} BY <1>1, <1>2, <2>1 DEF FeedInv, OrderInv
  <2>3. PICK p \in O(x)!Deliveries : journal[p].ordinal = o BY <2>2
  <2>4. journal[p] \in O(x)!Row /\ journal[p] \in O(x)!Recorded /\ O(x)!Primary(journal[p])
    BY DEF O!Deliveries, O!Recorded, TypeInv
  <2>5. journal[p].log = row.log BY <2>3, <2>4 DEF O!Primary
  <2>6. journal[p] = row BY <1>1, <2>3, <2>4, <2>5 DEF O!Row
  <2>7. QED BY <2>4, <2>6
<1>4. ~ (o > Count(x) + 1)
  <2>1. SUFFICES ASSUME o > Count(x) + 1 PROVE FALSE OBVIOUS
  <2> DEFINE n == Count(x) + 1
             r == [log |-> IF facts[n] = "attachment" THEN "audit" ELSE "history", ordinal |-> n]
  <2>2. n \in DOMAIN facts /\ n < o BY <1>1, <1>2, <2>1
  <2>3. Durable(x, n) BY <1>1, <2>2
  <2>4. O(x)!RowsOf(n) \subseteq O(x)!Recorded /\ facts[n] # "unknown" BY <2>3 DEF Durable
  <2>5. facts[n] \in {"saved", "deleted", "attachment"} => r \in O(x)!RowsOf(n) BY DEF O!RowsOf
  <2>6. facts[n] \in Kinds[x] BY <2>2 DEF TypeInv
  <2>7. r \in O(x)!Recorded BY <2>4, <2>5, <2>6, Constants0
  <2>8. PICK p \in DOMAIN journal : journal[p] = r BY <2>7 DEF O!Recorded
  <2>9. O(x)!Primary(journal[p]) /\ journal[p].ordinal = n BY <2>8 DEF O!Primary
  <2>10. n \in {journal[q].ordinal : q \in O(x)!Deliveries} BY <2>8, <2>9 DEF O!Deliveries
  <2>11. n \in 1 .. Count(x) BY <2>10 DEF FeedInv, OrderInv
  <2>12. QED BY <1>2, <2>11
<1>5. o = Count(x) + 1 BY <1>1, <1>2, <1>3, <1>4
<1>6. facts[o] # "unknown" BY <1>1 DEF O!RowsOf
<1>7. QED BY <1>1, <1>2, <1>5, <1>6

\* A row that lands becomes the next delivery, or none.
LEMMA FeedLands ==
    ASSUME NEW x \in Outboxes, O(x)!OutboxAssumption, TypeInv(x), FactInv(x), FeedInv(x), Lengthens(x),
           NEW d \in Bureaus[x], NEW row \in writes[d], O(x)!WriteLands(d, row)
    PROVE  /\ FeedInv(x)'
           /\ \/ Count(x)' = Count(x)
              \/ Count(x)' = Count(x) + 1 /\ Count(x) < Len(facts) /\ facts[Count(x) + 1] # "unknown"
<1> DEFINE L == Len(journal)
<1>0. row \in O(x)!Row /\ facts' = facts /\ O(x)!RowLands(row)
  BY DEF O!WriteLands, TypeInv
<1>1. row.ordinal \in DOMAIN facts /\ row \in O(x)!RowsOf(row.ordinal)
  BY DEF FactInv, Process, InFlight
<1>2. CASE journal' = journal BY <1>2, FeedIdle DEF FeedInv, OrderInv, Count, O!Deliveries, O!Primary, O!WriteLands
<1>3. CASE journal' = Append(journal, row)
  <2>1. /\ L \in Nat /\ DOMAIN journal = 1 .. L /\ DOMAIN journal' = 1 .. L + 1
        /\ \A p \in 1 .. L : journal'[p] = journal[p]
        /\ journal'[L + 1] = row
    BY <1>3 DEF TypeInv
  <2>2. RowInv(x)'
    <3>1. O(x)!Recorded' = O(x)!Recorded \cup {row} BY <1>0, <1>3, AppendRecords
    <3>2. \A o \in DOMAIN facts : O(x)!RowsOf(o)' = O(x)!RowsOf(o) BY DurableStays
    <3>3. QED BY <1>0, <1>1, <3>1, <3>2 DEF FeedInv, RowInv
  <2>3. \A r : O(x)!Primary(r)' = O(x)!Primary(r) BY <1>0 DEF O!Primary
  <2>4. O(x)!Deliveries' = O(x)!Deliveries \cup (IF O(x)!Primary(row) THEN {L + 1} ELSE {})
    <3>1. O(x)!Deliveries' = {p \in 1 .. L + 1 : O(x)!Primary(journal'[p])}
      BY <2>1, <1>0 DEF O!Deliveries, O!Primary
    <3>2. O(x)!Deliveries = {p \in 1 .. L : O(x)!Primary(journal[p])} BY <2>1 DEF O!Deliveries
    <3>3. QED BY <2>1, <3>1, <3>2
  <2>5. IsFiniteSet(O(x)!Deliveries) /\ Count(x) \in Nat /\ O(x)!Deliveries \subseteq 1 .. L
    BY DeliveriesFinite
  <2>6. CASE ~O(x)!Primary(row)
    <3>1. O(x)!Deliveries' = O(x)!Deliveries BY <2>4, <2>6
    <3>2. \A p \in O(x)!Deliveries : journal'[p] = journal[p] BY <2>1, <2>5
    <3>3. OrderInv(x)' BY <3>1, <3>2 DEF FeedInv, OrderInv, Rank, Count
    <3>4. QED BY <2>2, <3>1, <3>3 DEF FeedInv, Count
  <2>7. CASE O(x)!Primary(row)
    <3>1. row \notin O(x)!Recorded
      <4>1. SUFFICES ASSUME row \in O(x)!Recorded PROVE FALSE OBVIOUS
      <4>2. journal' = journal
        BY <1>0, <2>7, <4>1 DEF O!RowLands, O!Primary
      <4>3. QED BY <2>1, <4>2
    <3>2. row.ordinal = Count(x) + 1 /\ Count(x) < Len(facts) /\ facts[Count(x) + 1] # "unknown"
      BY <2>7, <3>1, LandsInOrder
    <3>3. O(x)!Deliveries' = O(x)!Deliveries \cup {L + 1} /\ L + 1 \notin O(x)!Deliveries
      BY <2>1, <2>4, <2>5, <2>7
    <3>4. Count(x)' = Count(x) + 1 BY <2>5, <3>3, FS_AddElement DEF Count
    <3>5. ASSUME NEW p \in O(x)!Deliveries PROVE journal'[p].ordinal = Rank(x, p)'
      <4>1. {q \in O(x)!Deliveries' : q <= p} = {q \in O(x)!Deliveries : q <= p}
        BY <2>1, <2>5, <3>3
      <4>2. journal'[p] = journal[p] BY <2>1, <2>5
      <4>3. QED BY <4>1, <4>2 DEF FeedInv, OrderInv, Rank
    <3>6. ASSUME NEW p, p = L + 1 PROVE journal'[p].ordinal = Rank(x, p)'
      <4>1. \A q \in O(x)!Deliveries' : q <= p BY <2>1, <2>5, <3>3, <3>6
      <4>2. {q \in O(x)!Deliveries' : q <= p} = O(x)!Deliveries' BY <4>1
      <4>3. Rank(x, p)' = Count(x)' BY <4>2 DEF Rank, Count
      <4>4. journal'[p].ordinal = Count(x) + 1 BY <2>1, <3>2, <3>6
      <4>5. QED BY <3>4, <4>3, <4>4
    <3>7. {journal'[p].ordinal : p \in O(x)!Deliveries'} = 1 .. Count(x)'
      <4>1. {journal'[p].ordinal : p \in O(x)!Deliveries'}
              = {journal[p].ordinal : p \in O(x)!Deliveries} \cup {Count(x) + 1}
        BY <2>1, <2>5, <3>2, <3>3
      <4>2. {journal[p].ordinal : p \in O(x)!Deliveries} = 1 .. Count(x) BY DEF FeedInv, OrderInv
      <4>3. 1 .. Count(x) + 1 = (1 .. Count(x)) \cup {Count(x) + 1} BY <2>5
      <4>4. QED BY <3>4, <4>1, <4>2, <4>3
    <3>8. OrderInv(x)'
      <4>1. ASSUME NEW p \in O(x)!Deliveries' PROVE journal'[p].ordinal = Rank(x, p)'
        <5>1. p \in O(x)!Deliveries \/ p = L + 1 BY <3>3
        <5>2. QED BY <3>5, <3>6, <5>1
      <4>2. QED BY <3>7, <4>1 DEF OrderInv
    <3>9. QED BY <2>2, <3>2, <3>4, <3>8 DEF FeedInv
  <2>8. QED BY <2>6, <2>7
<1>4. QED BY <1>0, <1>2, <1>3, LandsGrows

\* A step leaves the feed alone, commits a fact, or delivers the next one.
FeedMoves(x) ==
    \/ facts' = facts /\ O(x)!Delivered' = O(x)!Delivered
    \/ (\E k \in Kinds[x] : facts' = Append(facts, k)) /\ O(x)!Delivered' = O(x)!Delivered
    \/ LET n == Len(O(x)!Delivered) + 1
       IN  /\ n <= Len(facts) /\ facts[n] # "unknown" /\ facts' = facts
           /\ O(x)!Delivered' = Append(O(x)!Delivered, n)

\* Every step keeps the order.
LEMMA NextFeed ==
    ASSUME NEW x \in Outboxes, O(x)!OutboxAssumption, TypeInv(x), FactInv(x), FeedInv(x),
           [O(x)!Next]_vars
    PROVE  FeedInv(x)' /\ FeedMoves(x)
<1>0. Lengthens(x) /\ TypeInv(x)' BY NextGrows, NextType
<1>1. ASSUME NEW d \in Bureaus[x], NEW row \in writes[d], O(x)!WriteLands(d, row)
      PROVE  FeedInv(x)' /\ FeedMoves(x)
  <2>1. facts' = facts BY <1>1 DEF O!WriteLands
  <2>2. FeedInv(x)' /\ Count(x) \in Nat BY <1>0, <1>1, FeedLands, DeliveriesFinite
  <2>3. O(x)!Delivered = [i \in 1 .. Count(x) |-> i] BY DeliveredCounts DEF CountsUp, FeedInv
  <2>4. O(x)!Delivered' = [i \in 1 .. Count(x)' |-> i]
    <3>1. OrderInv(x)' BY <2>2 DEF FeedInv
    <3>2. CountsUp' BY DeliveredCounts, PTL
    <3>3. QED BY <3>1, <3>2 DEF CountsUp
  <2>5. CASE Count(x)' = Count(x) BY <2>1, <2>2, <2>3, <2>4, <2>5 DEF FeedMoves
  <2>6. CASE Count(x)' = Count(x) + 1 /\ Count(x) < Len(facts) /\ facts[Count(x) + 1] # "unknown"
    <3>1. Len(O(x)!Delivered) = Count(x) /\ O(x)!Delivered' = Append(O(x)!Delivered, Count(x) + 1)
      BY <2>2, <2>3, <2>4, <2>6
    <3>2. Count(x) + 1 <= Len(facts) BY <2>2, <2>6, <1>0, FactsBounded
    <3>3. QED BY <2>1, <2>2, <2>6, <3>1, <3>2 DEF FeedMoves
  <2>7. QED BY <1>0, <1>1, <2>5, <2>6, FeedLands
<1>2. ASSUME NEW d \in Bureaus[x], NEW k \in Kinds[x], O(x)!Commit(d, k)
      PROVE  FeedInv(x)' /\ FeedMoves(x)
  <2>1. facts' = Append(facts, k) /\ journal' = journal BY <1>2 DEF O!Commit
  <2>2. FeedInv(x)' /\ O(x)!Delivered' = O(x)!Delivered BY <1>0, <2>1, FeedIdle
  <2>3. QED BY <2>1, <2>2 DEF FeedMoves
<1>3. ASSUME UNCHANGED <<facts, journal>>
      PROVE  FeedInv(x)' /\ FeedMoves(x)
  BY <1>0, <1>3, FeedIdle DEF FeedMoves
<1>4. ASSUME NEW d \in Bureaus[x],
             \/ O(x)!DeletionDrains(d) \/ O(x)!Maintenance(d) \/ O(x)!RetryFires(d)
             \/ O(x)!DrainStep(d)
             \/ \E row \in writes[d] : O(x)!WriteFails(d, row)
             \/ \E c \in {"drain", "renew"} : O(x)!CallStep(d, c)
             \/ O(x)!Renew(d) \/ O(x)!StoreFails(d) \/ O(x)!Crash(d) \/ O(x)!Restart(d)
      PROVE  UNCHANGED <<facts, journal>>
  BY <1>4 DEF O!DeletionDrains, O!Maintenance, O!RetryFires, O!DrainStep, O!WriteFails,
     O!CallStep, O!Renew, O!StoreFails, O!Crash, O!Restart, O!ListPending, O!NextEntry,
     O!ClaimLost, O!Replay, O!CheckHistory, O!CheckAudit, O!AttachmentRecorded, O!AckReads,
     O!AckSwaps, O!ClaimReads, O!ClaimSwaps
<1>5. O(x)!Tick \/ UNCHANGED vars => UNCHANGED <<facts, journal>> BY DEF O!Tick, vars, outboxVars
<1>6. QED BY <1>1, <1>2, <1>3, <1>4, <1>5 DEF O!Next, O!WriteSettles

LEMMA InitFeed ==
    ASSUME NEW x \in Outboxes, O(x)!OutboxAssumption, O(x)!Init
    PROVE  FeedInv(x) /\ facts = <<>> /\ O(x)!Delivered = <<>>
<1>1. facts = <<>> /\ journal = <<>> BY DEF O!Init
<1>2. O(x)!Recorded = {} /\ O(x)!Deliveries = {} BY <1>1 DEF O!Recorded, O!Deliveries
<1>3. Count(x) = 0 BY <1>2, FS_EmptySet DEF Count
<1>4. FeedInv(x) BY <1>2, <1>3 DEF FeedInv, RowInv, OrderInv
<1>5. O(x)!Delivered = <<>> BY <1>3, <1>4, DeliveredCounts DEF CountsUp, FeedInv
<1>6. QED BY <1>1, <1>4, <1>5

-----------------------------------------------------------------------------
(* The composition, and the theorems.                                      *)

OutboxInv(x) == TypeInv(x) /\ FactInv(x) /\ SwapInv(x) /\ FeedInv(x)
PickedOutboxInv == \A x \in Outboxes : instance = x => OutboxInv(x)

\* The outbox that is picked stays picked, and takes its own steps.
LEMMA OutboxMoves ==
    ASSUME [Next]_vars, NEW x \in Outboxes, instance = x \/ instance' = x
    PROVE  instance = x /\ instance' = x /\ [O(x)!Next]_vars
  BY Apart DEF Next, vars

LEMMA PickedOutboxInvariant == Spec => []PickedOutboxInv
<1>1. Init => PickedOutboxInv
  <2>1. ASSUME Init, NEW x \in Outboxes, instance = x PROVE OutboxInv(x)
    <3>1. O(x)!OutboxAssumption /\ O(x)!Init BY <2>1, Apart, OutboxInstances DEF Init
    <3>2. QED BY <3>1, InitType, InitFacts, InitSwap, InitFeed DEF OutboxInv
  <2>2. QED BY <2>1 DEF PickedOutboxInv
<1>2. ASSUME PickedOutboxInv, [Next]_vars PROVE PickedOutboxInv'
  <2>1. ASSUME NEW x \in Outboxes, instance' = x PROVE OutboxInv(x)'
    <3>1. O(x)!OutboxAssumption /\ OutboxInv(x) /\ [O(x)!Next]_vars
      BY <1>2, <2>1, OutboxMoves, OutboxInstances DEF PickedOutboxInv
    <3>2. TypeInv(x)' /\ SwapInv(x)' BY <3>1, NextType, NextSwap DEF OutboxInv
    <3>3. FactInv(x)' BY <3>1, <3>2, NextProcess, NextNoFactIsLost DEF OutboxInv, FactInv
    <3>4. FeedInv(x)' BY <3>1, NextFeed DEF OutboxInv
    <3>5. QED BY <3>2, <3>3, <3>4 DEF OutboxInv
  <2>2. QED BY <2>1 DEF PickedOutboxInv
<1>3. QED BY <1>1, <1>2, PTL DEF Spec

\* Every variable of an outbox, its drains and its rows keeps its type, and a
\* fact leaves the outbox only when every row it owes is durable, for any number
\* of drains, crashes, failed writes and lapsed claims (drainOutboxEntry
\* acknowledges after the write, never before).
THEOREM FactsAreNotLost == Spec => []NoFactIsLost
<1>1. ASSUME PickedOutboxInv, NEW x \in Outboxes, instance = x
      PROVE  O(x)!TypeOK /\ O(x)!NoFactIsLost
  <2>1. TypeInv(x) /\ FactInv(x) BY <1>1 DEF PickedOutboxInv, OutboxInv
  <2>2. O(x)!TypeOK BY <2>1 DEF TypeInv, O!TypeOK, Drains, Stages, Lease0, Deletions
  <2>3. QED BY <2>1, <2>2 DEF FactInv
<1>2. PickedOutboxInv => NoFactIsLost BY <1>1 DEF NoFactIsLost
<1>3. QED BY <1>2, PickedOutboxInvariant, PTL

\* A claim is never shortened by its owner, and never taken from an owner before
\* it has run out, however late a renewal or a second drain comes
\* (outbox.claim: a same-owner renewal can only ever extend the stored until).
THEOREM ClaimsAreKept == Spec => [][\A x \in Outboxes : instance = x => O(x)!ClaimLasts]_vars
<1>1. ASSUME PickedOutboxInv, [Next]_vars, NEW x \in Outboxes, instance = x
      PROVE  O(x)!ClaimLasts
  <2>1. O(x)!OutboxAssumption /\ TypeInv(x) /\ SwapInv(x) /\ [O(x)!Next]_vars
    BY <1>1, OutboxMoves, OutboxInstances DEF PickedOutboxInv, OutboxInv
  <2>2. QED BY <2>1, StepKeepsClaims
<1>2. PickedOutboxInv /\ [Next]_vars => [\A x \in Outboxes : instance = x => O(x)!ClaimLasts]_vars
  BY <1>1
<1>3. QED BY <1>2, PickedOutboxInvariant, PTL DEF Spec

\* A step maps to a step of the feed or a stutter.
LEMMA FeedStep ==
    ASSUME PickedOutboxInv, [Next]_vars
    PROVE  [Feed!CommitFact \/ Feed!DeliverNext]_<<Committed, Delivered>>
<1>1. ASSUME NEW x \in Outboxes, instance = x
      PROVE  [Feed!CommitFact \/ Feed!DeliverNext]_<<Committed, Delivered>>
  <2>1. instance' = x /\ O(x)!OutboxAssumption /\ OutboxInv(x) /\ [O(x)!Next]_vars
    BY <1>1, OutboxMoves, OutboxInstances DEF PickedOutboxInv
  <2>2. Committed = facts /\ Committed' = facts' BY <1>1, <2>1 DEF Committed
  <2>3. Delivered = O(x)!Delivered /\ Delivered' = O(x)!Delivered' BY <1>1, <2>1 DEF Delivered
  <2>4. FeedMoves(x) /\ TypeInv(x) BY <2>1, NextFeed DEF OutboxInv
  <2>5. CASE facts' = facts /\ O(x)!Delivered' = O(x)!Delivered BY <2>2, <2>3, <2>5
  <2>6. ASSUME NEW k \in Kinds[x], facts' = Append(facts, k), O(x)!Delivered' = O(x)!Delivered
        PROVE  Feed!CommitFact
    <3>1. k \in {"saved", "deleted", "attachment", "unknown"} BY <2>1, Constants0
    <3>2. QED BY <2>2, <2>3, <2>6, <3>1 DEF Feed!CommitFact
  <2>7. ASSUME NEW n, n = Len(O(x)!Delivered) + 1, n <= Len(facts), facts[n] # "unknown",
               facts' = facts, O(x)!Delivered' = Append(O(x)!Delivered, n)
        PROVE  Feed!DeliverNext
    <3>1. Len(O(x)!Delivered) < Len(facts)
      <4>1. O(x)!Delivered = [i \in 1 .. Count(x) |-> i] /\ Count(x) \in Nat
        BY <2>1, <2>4, DeliveredCounts, DeliveriesFinite DEF CountsUp, OutboxInv, FeedInv
      <4>2. Len(O(x)!Delivered) = Count(x) BY <4>1
      <4>3. QED BY <2>1, <2>4, <2>7, <4>1, <4>2, FactsBounded
    <3>2. QED BY <2>2, <2>3, <2>7, <3>1 DEF Feed!DeliverNext
  <2>8. QED BY <2>4, <2>5, <2>6, <2>7 DEF FeedMoves
<1>2. CASE instance \notin Outboxes
  <2>1. instance' = instance BY DEF Next, vars
  <2>2. QED BY <1>2, <2>1 DEF Committed, Delivered
<1>3. QED BY <1>1, <1>2

\* The rows by which facts count as delivered become durable one by one, each
\* once, in the order of the commits and without passing one over: for any
\* number of processes that drain one outbox, of crashes, of failed writes and
\* of lapsed claims ("exactly once, in ordinal order").
THEOREM OutboxImplementsFeed == Spec => ImplementsOrderedFeed
<1>1. Init => Feed!FeedInit
  <2>1. ASSUME Init, NEW x \in Outboxes, instance = x PROVE Feed!FeedInit
    <3>1. O(x)!OutboxAssumption /\ O(x)!Init BY <2>1, Apart, OutboxInstances DEF Init
    <3>2. QED BY <2>1, <3>1, InitFeed DEF Feed!FeedInit, Committed, Delivered
  <2>2. ASSUME instance \notin Outboxes PROVE Feed!FeedInit
    BY <2>2 DEF Feed!FeedInit, Committed, Delivered
  <2>3. QED BY <2>1, <2>2
<1>2. PickedOutboxInv /\ [Next]_vars => [Feed!CommitFact \/ Feed!DeliverNext]_<<Committed, Delivered>>
  BY FeedStep
<1>3. QED BY <1>1, <1>2, PickedOutboxInvariant, PTL DEF Spec, ImplementsOrderedFeed, Feed!FeedSpec
=============================================================================
