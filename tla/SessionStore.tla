---------------------------- MODULE SessionStore -----------------------------
(***************************************************************************)
(* The session store (operative/src/session/create-session-store.ts):      *)
(* save, update, delete, list and cleanup by callers in any number of      *)
(* processes over one key-value store.  A mutation reads a session's body, *)
(* the summary index and the outbox ordinal, at different times, and       *)
(* writes all of them, with the fact it commits, in one conditional batch. *)
(*                                                                         *)
(* A step is one storage call with the code up to the next one.  Callers   *)
(* are independent: the queue of mutations inside one process (runMutation)*)
(* only takes interleavings away.  Bodies under legacy keys are left out.  *)
(***************************************************************************)
EXTENDS Integers, Sequences, FiniteSets, Functions

CONSTANTS
    Callers,        \* concurrent callers, of one process or of several
    Ids,            \* session ids
    Operations,     \* the operations that are called
    Updaters,       \* what the updaters given to update() do
    MaxAttempts,    \* MAXIMUM_SAVE_ATTEMPTS
    MaxOperations,  \* bound: operations called
    FineClock,      \* no two commits happen in one millisecond
    None

SessionStoreAssumption ==
    /\ Operations \subseteq {"save", "update", "delete", "list", "cleanup"}
    /\ Updaters \subseteq {"append", "create", "held"}
    /\ MaxAttempts \in Nat \ {0} /\ MaxOperations \in Nat
    /\ FineClock \in BOOLEAN
    /\ \A S \in SUBSET Ids : None \notin [S -> [at : Nat, count : Nat]]
    /\ None \notin [id : Ids, inc : Nat, rev : Nat, msgs : SUBSET [by : Nat, base : Nat],
                    at : Nat]

VARIABLES
    body,       \* per id, the stored session or None
    index,      \* the summary index: None, or a function from ids to summaries
    ordinal,    \* the outbox ordinal
    log,        \* every outbox entry written, by ordinal
    clock,
    minted,     \* incarnations minted
    mine,       \* per caller, the session object it holds
    op,         \* per caller, the operation under way
    called,     \* operations called so far
    acked,      \* messages whose write returned to its caller
    expired     \* incarnations that cleanup removed

vars == <<body, index, ordinal, log, clock, minted, mine, op, called, acked, expired>>

Unminted == 0       \* incarnation ''
NoSummaries == [i \in {} |-> 0]

\* What a caller keeps of its operation.
Idle == [name |-> "none", pc |-> "idle", id |-> None, cand |-> None, number |-> 0,
         updater |-> "none", cutoff |-> 0, tries |-> 0, left |-> {}, todo |-> {}, gone |-> {},
         seen |-> None, idx |-> None, ord |-> 0, sums |-> NoSummaries]

\* A message names the operation that added it and the incarnation of the
\* session object it was added to.
NewSession(id) == [id |-> id, inc |-> Unminted, rev |-> 0, msgs |-> {}, at |-> 0]

Init ==
    /\ body = [i \in Ids |-> None]
    /\ index = None
    /\ ordinal = 0
    /\ log = <<>>
    /\ clock = 1
    /\ minted = 0
    /\ mine = [c \in Callers |-> None]
    /\ op = [c \in Callers |-> Idle]
    /\ called = 0
    /\ acked = {}
    /\ expired = {}

toSummary(session) == [at |-> session.at, count |-> Cardinality(session.msgs)]

\* The summaries, with that of one more session.
Including(sums, id, session) ==
    [i \in DOMAIN sums \cup {id} |-> IF i = id THEN toSummary(session) ELSE sums[i]]

\* A faulty variant: every object counts as fresh.
mergeSessions_fresh(current, candidate) ==
    [candidate EXCEPT !.inc = current.inc, !.rev = current.rev]

\* A candidate of the current revision replaces; an older one is merged in.
mergeSessions(current, candidate) ==
    [current EXCEPT !.msgs = IF candidate.rev >= current.rev
                             THEN candidate.msgs ELSE @ \cup candidate.msgs]

\* assertMatchingIncarnation
StaleIncarnation(candidate, current) ==
    /\ candidate.inc # Unminted
    /\ current # None
    /\ candidate.inc # current.inc

-----------------------------------------------------------------------------
(* Callers.                                                                *)

\* load(), or a new object that was never saved.
Hold(c, session) ==
    /\ op[c].pc = "idle" /\ ("save" \in Operations \/ "held" \in Updaters)
    /\ mine' = [mine EXCEPT ![c] = session]
    /\ UNCHANGED <<body, index, ordinal, log, clock, minted, op, called, acked, expired>>

\* One operation, in the state in which it starts: what is read in parallel.
Call(c, o) ==
    /\ op[c].pc = "idle" /\ o.name \in Operations /\ called < MaxOperations
    /\ called' = called + 1
    /\ op' = [op EXCEPT ![c] = o]
    /\ UNCHANGED <<body, index, ordinal, log, clock, minted, mine, acked, expired>>

WithMessage(session) ==
    [session EXCEPT !.msgs = @ \cup {[by |-> called + 1, base |-> session.inc]}]

AllThree == {"body", "index", "ordinal"}

CallSave(c) ==
    /\ mine[c] # None
    /\ Call(c, [Idle EXCEPT !.name = "save", !.pc = "read", !.left = AllThree, !.id = mine[c].id,
                            !.cand = WithMessage(mine[c]), !.number = called + 1])

\* The updater appends to what it is given, returns an object the caller has
\* held since before, creates a session that is missing, or declines to.
CallUpdate(c, id, updater) ==
    /\ updater = "held" => mine[c] # None /\ mine[c].id = id
    /\ Call(c, [Idle EXCEPT !.name = "update", !.pc = "read", !.left = {"body", "index"},
                            !.id = id, !.updater = updater, !.number = called + 1,
                            !.cand = IF updater = "held" THEN WithMessage(mine[c]) ELSE None])

CallDelete(c, id) ==
    Call(c, [Idle EXCEPT !.name = "delete", !.pc = "read", !.left = AllThree, !.id = id])

CallList(c) == Call(c, [Idle EXCEPT !.name = "list", !.pc = "read", !.left = {"index"}])

\* A session older than the cutoff is removed.
CallCleanup(c, cutoff) ==
    Call(c, [Idle EXCEPT !.name = "cleanup", !.pc = "bodies", !.cutoff = cutoff, !.todo = Ids,
                        !.seen = [i \in Ids |-> None]])

Set(c, o) == op' = [op EXCEPT ![c] = o]
Done(c) == Set(c, Idle)

\* A lost swap: read everything again, or reject with a SessionConflictError.
Again(c) ==
    IF op[c].tries + 1 = MaxAttempts THEN Idle
    ELSE LET o == [op[c] EXCEPT !.tries = @ + 1]
         IN  IF o.name = "cleanup"
             THEN [o EXCEPT !.pc = "bodies", !.todo = Ids, !.seen = [i \in Ids |-> None]]
             ELSE [o EXCEPT !.pc = "read",
                            !.left = IF o.name = "update" THEN {"body", "index"} ELSE AllThree]

-----------------------------------------------------------------------------
(* Reads.                                                                  *)

Read(c, what) ==
    /\ op[c].pc = "read" /\ what \in op[c].left
    /\ Set(c, LET o == [op[c] EXCEPT !.left = @ \ {what}]
              IN  CASE what = "body" -> [o EXCEPT !.seen = body[o.id]]
                    [] what = "index" -> [o EXCEPT !.idx = index]
                    [] what = "ordinal" -> [o EXCEPT !.ord = ordinal])
    /\ UNCHANGED <<body, index, ordinal, log, clock, minted, mine, called, acked, expired>>

\* summariesForMutation: an index that is not there is rebuilt from the bodies.
Summaries(o) ==
    IF o.idx = None THEN [o EXCEPT !.pc = "scan", !.todo = Ids, !.sums = NoSummaries]
    ELSE [o EXCEPT !.pc = "swap", !.sums = o.idx]

\* save has read everything it needs.
SaveDecides(c) ==
    LET o == op[c]
    IN  /\ o.name = "save" /\ o.pc = "read" /\ o.left = {}
        /\ Set(c, IF StaleIncarnation(o.cand, o.seen) THEN Idle ELSE Summaries(o))
        /\ UNCHANGED <<body, index, ordinal, log, clock, minted, mine, called, acked, expired>>

\* update runs the updater on what it has read, and reads the ordinal after.
UpdateDecides(c) ==
    LET o == op[c]
        given == IF o.seen = None THEN NewSession(o.id) ELSE o.seen
        cand == IF o.updater = "held" THEN o.cand
                ELSE [given EXCEPT !.msgs = @ \cup {[by |-> o.number, base |-> given.inc]}]
    IN  /\ o.name = "update" /\ o.pc = "read" /\ o.left = {}
        /\ Set(c, IF \/ o.updater = "append" /\ o.seen = None
                     \/ StaleIncarnation(cand, o.seen)
                  THEN Idle ELSE [o EXCEPT !.pc = "ordinal", !.cand = cand])
        /\ UNCHANGED <<body, index, ordinal, log, clock, minted, mine, called, acked, expired>>

UpdateReadsOrdinal(c) ==
    /\ op[c].pc = "ordinal"
    /\ Set(c, Summaries([op[c] EXCEPT !.ord = ordinal]))
    /\ UNCHANGED <<body, index, ordinal, log, clock, minted, mine, called, acked, expired>>

DeleteDecides(c) ==
    /\ op[c].name = "delete" /\ op[c].pc = "read" /\ op[c].left = {}
    /\ Set(c, Summaries(op[c]))
    /\ UNCHANGED <<body, index, ordinal, log, clock, minted, mine, called, acked, expired>>

\* summarizeBodies reads one body after another.
Scan(c, id) ==
    /\ op[c].pc = "scan" /\ id \in op[c].todo
    /\ Set(c, LET o == [op[c] EXCEPT !.todo = @ \ {id}]
                  p == IF body[id] = None THEN o
                       ELSE [o EXCEPT !.sums = Including(@, id, body[id])]
              IN  IF p.todo = {} THEN [p EXCEPT !.pc = "swap"] ELSE p)
    /\ UNCHANGED <<body, index, ordinal, log, clock, minted, mine, called, acked, expired>>

-----------------------------------------------------------------------------
(* commit and delete: the conditional batch.                               *)

\* A faulty variant: the index is written without a condition.
IndexUnchanged_unchecked(c) == TRUE

IndexUnchanged(c) == index = op[c].idx

\* A faulty variant: the ordinal is written without a condition.
OrdinalUnchanged_unchecked(c) == TRUE

OrdinalUnchanged(c) == ordinal = op[c].ord

\* outboxEntryKey: entries are put under the ordinals that follow.
PutEntries(new, from) ==
    /\ log' = SubSeq(log, 1, from) \o new \o SubSeq(log, from + Len(new) + 1, Len(log))
    /\ ordinal' = from + Len(new)

\* The facts that an update carries along, here one for every append.
Attachments(o, inc) ==
    IF o.name = "update" /\ o.updater = "append"
    THEN <<[kind |-> "attachment", id |-> o.id, inc |-> inc]>> ELSE <<>>

NextClock == clock' = IF FineClock THEN clock + 1 ELSE clock

Commit(c) ==
    LET o == op[c]
        old == body[o.id]
        merged == IF o.seen = None THEN o.cand ELSE mergeSessions(o.seen, o.cand)
        inc == IF o.seen = None THEN minted + 1 ELSE o.seen.inc
        next == [merged EXCEPT !.inc = inc,
                               !.rev = IF o.seen = None THEN 1 ELSE o.seen.rev + 1,
                               !.at = clock]
        ok == old = o.seen /\ IndexUnchanged(c) /\ OrdinalUnchanged(c)
    IN  /\ o.name \in {"save", "update"} /\ o.pc = "swap"
        /\ IF ok
           THEN /\ body' = [body EXCEPT ![o.id] = next]
                /\ index' = Including(o.sums, o.id, next)
                /\ PutEntries(<<[kind |-> IF o.seen = None THEN "created" ELSE "saved",
                                 id |-> o.id, inc |-> inc]>> \o Attachments(o, inc), o.ord)
                /\ acked' = acked \cup {[inc |-> inc, by |-> o.number]}
                /\ mine' = IF o.name = "save" THEN [mine EXCEPT ![c] = next] ELSE mine
                /\ NextClock /\ Done(c)
           ELSE /\ Set(c, Again(c))
                /\ UNCHANGED <<body, index, ordinal, log, clock, mine, acked>>
        /\ minted' = IF o.seen = None THEN minted + 1 ELSE minted
        /\ UNCHANGED <<called, expired>>

\* The index without some summaries; an empty one is deleted.
IndexWithout(sums, ids) ==
    IF DOMAIN sums \subseteq ids THEN None ELSE Restrict(sums, DOMAIN sums \ ids)

\* A body that was not there leaves no fact, and needs no ordinal.
DeleteSwaps(c) ==
    LET o == op[c]
        ok == /\ body[o.id] = o.seen /\ IndexUnchanged(c)
              /\ o.seen # None => OrdinalUnchanged(c)
    IN  /\ o.name = "delete" /\ o.pc = "swap"
        /\ IF ok
           THEN /\ body' = [body EXCEPT ![o.id] = None]
                /\ index' = IndexWithout(o.sums, {o.id})
                /\ IF o.seen = None THEN UNCHANGED <<log, ordinal>>
                   ELSE PutEntries(<<[kind |-> "deleted", id |-> o.id, inc |-> o.seen.inc]>>,
                                   o.ord)
                /\ NextClock /\ Done(c)
           ELSE /\ Set(c, Again(c))
                /\ UNCHANGED <<body, index, ordinal, log, clock>>
        /\ UNCHANGED <<minted, mine, called, acked, expired>>

-----------------------------------------------------------------------------
(* cleanup: every body, then the index, then one batch without a fact.     *)

CleanupReads(c, id) ==
    LET o == [op[c] EXCEPT !.todo = @ \ {id}, !.seen[id] = body[id]]
        old == {i \in Ids : o.seen[i] # None /\ o.seen[i].at < o.cutoff}
    IN  /\ op[c].pc = "bodies" /\ id \in op[c].todo
        /\ Set(c, IF o.todo # {} THEN o
                  ELSE IF old = {} THEN Idle
                  ELSE [o EXCEPT !.pc = "index", !.gone = old])
        /\ UNCHANGED <<body, index, ordinal, log, clock, minted, mine, called, acked, expired>>

CleanupReadsIndex(c) ==
    /\ op[c].pc = "index"
    /\ Set(c, Summaries([op[c] EXCEPT !.idx = index]))
    /\ UNCHANGED <<body, index, ordinal, log, clock, minted, mine, called, acked, expired>>

CleanupSwaps(c) ==
    LET o == op[c]
    IN  /\ o.name = "cleanup" /\ o.pc = "swap"
        /\ IF IndexUnchanged(c) /\ \A i \in o.gone : body[i] = o.seen[i]
           THEN /\ body' = [i \in Ids |-> IF i \in o.gone THEN None ELSE body[i]]
                /\ index' = IndexWithout(o.sums, o.gone)
                /\ expired' = expired \cup {o.seen[i].inc : i \in o.gone}
                /\ NextClock /\ Done(c)
           ELSE Set(c, Again(c)) /\ UNCHANGED <<body, index, clock, expired>>
        /\ UNCHANGED <<ordinal, log, minted, mine, called, acked>>

-----------------------------------------------------------------------------
(* list: a missing index is rebuilt, summaries without a body are dropped. *)

\* The page reads the body of every summary.
Page(o, sums) ==
    IF sums = NoSummaries THEN Idle ELSE [o EXCEPT !.pc = "page", !.todo = DOMAIN sums]

ListDecides(c) ==
    LET o == op[c]
    IN  /\ o.name = "list" /\ o.pc = "read" /\ o.left = {}
        /\ Set(c, IF o.idx = None THEN Summaries(o) ELSE Page(o, o.idx))
        /\ UNCHANGED <<body, index, ordinal, log, clock, minted, mine, called, acked, expired>>

ListRebuilds(c) ==
    LET o == op[c]
    IN  /\ o.name = "list" /\ o.pc = "swap"
        /\ IF IndexUnchanged(c)
           THEN index' = o.sums /\ Set(c, Page([o EXCEPT !.idx = o.sums], o.sums))
           ELSE /\ Set(c, [o EXCEPT !.pc = "reread"])
                /\ UNCHANGED index
        /\ UNCHANGED <<body, ordinal, log, clock, minted, mine, called, acked, expired>>

\* Somebody else wrote an index, or removed it again.
ListReads(c) ==
    LET o == op[c]
    IN  /\ o.name = "list" /\ o.pc = "reread"
        /\ Set(c, IF index # None THEN Page([o EXCEPT !.idx = index], index) ELSE Page(o, o.sums))
        /\ UNCHANGED <<body, index, ordinal, log, clock, minted, mine, called, acked, expired>>

\* A pass over bodies ends: with nothing missing or no index to repair.
ListLooks(c, id) ==
    LET o == [op[c] EXCEPT !.todo = @ \ {id},
                           !.gone = IF body[id] = None THEN @ \cup {id} ELSE @]
    IN  /\ op[c].pc \in {"page", "recheck"} /\ id \in op[c].todo
        /\ Set(c, IF o.todo # {} THEN o
                  ELSE IF o.gone = {} \/ o.idx = None THEN Idle
                  ELSE IF o.pc = "page"
                  THEN [o EXCEPT !.pc = "recheck", !.todo = o.gone, !.gone = {}]
                  ELSE [o EXCEPT !.pc = "repair"])
        /\ UNCHANGED <<body, index, ordinal, log, clock, minted, mine, called, acked, expired>>

ListRepairs(c) ==
    LET o == op[c]
    IN  /\ o.name = "list" /\ o.pc = "repair"
        /\ IF IndexUnchanged(c)
           THEN index' = Restrict(index, DOMAIN index \ o.gone) /\ Done(c)
           ELSE Set(c, [o EXCEPT !.pc = "repairRead"]) /\ UNCHANGED index
        /\ UNCHANGED <<body, ordinal, log, clock, minted, mine, called, acked, expired>>

\* The ids found missing are looked up once more against the new index.
ListRepairReads(c) ==
    LET o == op[c]
    IN  /\ o.name = "list" /\ o.pc = "repairRead"
        /\ Set(c, IF index = None \/ o.tries + 1 = MaxAttempts THEN Idle
                  ELSE [o EXCEPT !.pc = "recheck", !.idx = index, !.tries = @ + 1,
                                 !.todo = o.gone, !.gone = {}])
        /\ UNCHANGED <<body, index, ordinal, log, clock, minted, mine, called, acked, expired>>

-----------------------------------------------------------------------------

Next ==
    \E c \in Callers :
        \/ \E id \in Ids : Hold(c, NewSession(id)) \/ (body[id] # None /\ Hold(c, body[id]))
        \/ CallSave(c) \/ CallList(c)
        \/ \E id \in Ids : CallDelete(c, id) \/ \E u \in Updaters : CallUpdate(c, id, u)
        \/ \E t \in 2 .. clock : CallCleanup(c, t)
        \/ \E what \in AllThree : Read(c, what)
        \/ SaveDecides(c) \/ UpdateDecides(c) \/ UpdateReadsOrdinal(c) \/ DeleteDecides(c)
        \/ \E id \in Ids : Scan(c, id) \/ CleanupReads(c, id) \/ ListLooks(c, id)
        \/ Commit(c) \/ DeleteSwaps(c)
        \/ CleanupReadsIndex(c) \/ CleanupSwaps(c)
        \/ ListDecides(c) \/ ListRebuilds(c) \/ ListReads(c)
        \/ ListRepairs(c) \/ ListRepairReads(c)

Spec == Init /\ [][Next]_vars

-----------------------------------------------------------------------------
(* Properties.                                                             *)

Session == [id : Ids, inc : 0 .. minted, rev : Nat, msgs : SUBSET [by : Nat, base : Nat],
            at : Nat]

TypeOK ==
    /\ \A i \in Ids : body[i] = None \/ (body[i] \in Session /\ body[i].id = i)
    /\ index = None \/ DOMAIN index \subseteq Ids
    /\ ordinal = Len(log)
    /\ \A n \in DOMAIN log : log[n].id \in Ids
    /\ \A c \in Callers : mine[c] = None \/ mine[c] \in Session
    /\ called \in 0 .. MaxOperations

\* list() shows every session, and shows it as it is: the summary index never
\* misses a body or keeps the summary of an earlier revision, whatever rebuilds
\* and repairs it (commit, delete, cleanup and list write the index).
IndexFaithful ==
    \A i \in Ids : body[i] # None =>
        index # None /\ i \in DOMAIN index /\ index[i] = toSummary(body[i])

EntriesOf(inc) == {n \in DOMAIN log : log[n].inc = inc /\ log[n].kind # "attachment"}

\* The outbox tells the whole story of every life of a session: one entry per
\* revision, starting with its creation, and a deletion exactly when it was
\* deleted; only cleanup removes a session without a word.  An attachment
\* follows the entry of the revision that carried it.
LogTellsBodies ==
    /\ \A n \in DOMAIN log : log[n].kind = "attachment" =>
         n > 1 /\ log[n - 1].kind \in {"created", "saved"} /\ log[n - 1].inc = log[n].inc
    /\ \A n \in DOMAIN log : log[n].kind # "attachment" =>
         LET before == {k \in EntriesOf(log[n].inc) : k < n}
         IN  /\ log[n].kind = "created" <=> before = {}
             /\ \A k \in before : log[k].kind # "deleted" /\ log[k].id = log[n].id
    /\ \A i \in Ids : body[i] # None =>
         /\ Cardinality(EntriesOf(body[i].inc)) = body[i].rev
         /\ body[i].inc \notin expired
    /\ \A n \in DOMAIN log :
         \/ \E k \in EntriesOf(log[n].inc) : log[k].kind = "deleted"
         \/ log[n].inc \in expired
         \/ body[log[n].id] # None /\ body[log[n].id].inc = log[n].inc

\* What a save or an update has reported as written stays in the session for
\* as long as that life of it lasts, whoever else writes (mergeSessions).
NoLostMessage ==
    \A a \in acked, i \in Ids :
        body[i] # None /\ body[i].inc = a.inc => \E m \in body[i].msgs : m.by = a.by

\* A stored session changes only into its own next revision, and takes no
\* content from an object of an earlier life of its id
\* (assertMatchingIncarnation).
LifeGoesOn ==
    \A i \in Ids :
        LET new == body'[i].msgs \ body[i].msgs
        IN  body[i] # None /\ body'[i] # None /\ body'[i] # body[i] =>
              /\ body'[i].inc = body[i].inc /\ body'[i].rev = body[i].rev + 1
              /\ \A m \in new : m.base \in {Unminted, body[i].inc}
=============================================================================
