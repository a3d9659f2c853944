---------------------------- MODULE SessionProofs ----------------------------
(***************************************************************************)
(* Theorems about the session stores: what was acknowledged stays in a     *)
(* session for as long as it lives; a session changes only into its own    *)
(* next revision; the summary index shows every session as it is; the      *)
(* outbox tells the story of every life.  Everything up to the composition *)
(* is about one store, x, and its variables.                               *)
(*                                                                         *)
(* The first two rest on IInv, which is about copies: a caller holds a     *)
(* session as it was at some revision, whoever has the current revision    *)
(* has the current messages, and an older one has some of them.  The index *)
(* rests on IndexInv besides: what an operation will write is the index it *)
(* has read or, if there was none, a rebuilt one that no session can miss  *)
(* in, because without an index there are no sessions.  The story rests on *)
(* LogInv.                                                                 *)
(***************************************************************************)
EXTENDS OutboxProofs

Message == [by : Nat, base : Nat]
Messages == {M \in SUBSET Message : IsFiniteSet(M)}
Stored(x) == [id : Ids[x], inc : Nat, rev : Nat, msgs : Messages, at : Nat]

\* The body of a session that has the life of s.
Lives(i, s) == body[i] # None /\ body[i].inc = s.inc

\* A session as it was at some revision, or one that was never stored.
Copy(x, s) ==
        /\ s \in Stored(x) /\ s.inc <= minted
        /\ s.inc = S(x)!Unminted => s.rev = 0 /\ s.msgs = {}
        /\ \A i \in Ids[x] : Lives(i, s) =>
              /\ s.rev <= body[i].rev /\ s.msgs \subseteq body[i].msgs
              /\ s.rev = body[i].rev => body[i].msgs \subseteq s.msgs

\* A copy to which the operation of that number has added its message.
Candidate(x, s, number) ==
    /\ s \in Stored(x) /\ s.inc <= minted
    /\ s.inc = S(x)!Unminted => s.rev = 0 /\ \A m \in s.msgs : m.base = S(x)!Unminted
    /\ \E m \in s.msgs : m.by = number
    /\ \A i \in Ids[x] : Lives(i, s) =>
          /\ s.rev <= body[i].rev
          /\ s.rev = body[i].rev => body[i].msgs \subseteq s.msgs
          /\ \A m \in s.msgs : m \in body[i].msgs \/ m.base = s.inc

BodyInv(x) ==
    /\ minted \in Nat /\ clock \in Nat /\ called \in Nat
    /\ DOMAIN body = Ids[x]
    /\ \A i \in Ids[x] : body[i] # None =>
          /\ body[i] \in Stored(x) /\ body[i].id = i
          /\ body[i].inc \in 1 .. minted /\ body[i].rev >= 1
    /\ \A i, j \in Ids[x] :
          body[i] # None /\ body[j] # None /\ body[i].inc = body[j].inc => i = j

MineInv(x) ==
    /\ DOMAIN mine = Callers[x]
    /\ \A c \in Callers[x] : mine[c] # None => Copy(x, mine[c])

\* A save or an update: what it has read, and what it will write once that has
\* been found to be of the same life.
Writer(x, o) ==
    /\ o.pc \in {"read", "ordinal", "scan", "swap"}
    /\ o.id \in Ids[x] /\ o.number \in Nat
    /\ o.seen # None => Copy(x, o.seen) /\ o.seen.id = o.id
    /\ o.name = "save" \/ o.updater = "held" \/ o.pc # "read" =>
          Candidate(x, o.cand, o.number) /\ o.cand.id = o.id
    /\ o.pc # "read" => ~S(x)!StaleIncarnation(o.cand, o.seen)

Operation(x, o) ==
    /\ DOMAIN o = DOMAIN S(x)!Idle
    /\ o.name \in {"save", "update"} => Writer(x, o)

OpInv(x) == op = [c \in Callers[x] |-> op[c]] /\ \A c \in Callers[x] : Operation(x, op[c])

AckInv(x) ==
    /\ \A a \in acked : a.inc \in 1 .. minted
    /\ S(x)!NoLostMessage

IInv(x) == BodyInv(x) /\ MineInv(x) /\ OpInv(x) /\ AckInv(x)

-----------------------------------------------------------------------------
(* How bodies change.                                                      *)

\* A body stays, goes, becomes its next revision, or begins a new life.
Grows(x) ==
    /\ minted \in Nat /\ minted' \in Nat /\ minted <= minted'
    /\ \A i \in Ids[x] : body'[i] # None =>
          \/ body'[i] = body[i]
          \/ /\ body[i] # None /\ body'[i].inc = body[i].inc
             /\ body'[i].rev = body[i].rev + 1 /\ body[i].msgs \subseteq body'[i].msgs
          \/ body'[i].inc > minted

\* Copies stay copies.
LEMMA CopyStays ==
    ASSUME NEW x \in Stores, BodyInv(x), Grows(x), NEW s, Copy(x, s) PROVE Copy(x, s)'
<1>1. s \in Stored(x) /\ s.inc \in Nat /\ s.rev \in Nat BY DEF Copy, Stored
<1>2. s.inc <= minted' BY <1>1 DEF Copy, Grows
<1>3. ASSUME NEW i \in Ids[x], body'[i] # None, body'[i].inc = s.inc
      PROVE  /\ s.rev <= body'[i].rev /\ s.msgs \subseteq body'[i].msgs
             /\ s.rev = body'[i].rev => body'[i].msgs \subseteq s.msgs
  <2>1. ~(s.inc > minted) BY <1>1 DEF Copy, BodyInv
  <2>2. CASE body'[i] = body[i] BY <1>3, <2>2 DEF Copy, Lives
  <2>3. CASE /\ body[i] # None /\ body'[i].inc = body[i].inc
             /\ body'[i].rev = body[i].rev + 1 /\ body[i].msgs \subseteq body'[i].msgs
    <3>1. s.rev <= body[i].rev /\ s.msgs \subseteq body[i].msgs BY <1>3, <2>3 DEF Copy, Lives
    <3>2. body[i].rev \in Nat BY <2>3 DEF BodyInv, Stored
    <3>3. QED BY <1>1, <2>3, <3>1, <3>2
  <2>4. QED BY <1>3, <2>1, <2>2, <2>3 DEF Grows
<1>4. QED BY <1>1, <1>2, <1>3 DEF Copy, Lives

LEMMA CandidateStays ==
    ASSUME NEW x \in Stores, BodyInv(x), Grows(x), NEW s, NEW n, Candidate(x, s, n)
    PROVE  Candidate(x, s, n)'
<1>1. s \in Stored(x) /\ s.inc \in Nat /\ s.rev \in Nat BY DEF Candidate, Stored
<1>2. s.inc <= minted' BY <1>1 DEF Candidate, Grows
<1>3. ASSUME NEW i \in Ids[x], body'[i] # None, body'[i].inc = s.inc
      PROVE  /\ s.rev <= body'[i].rev
             /\ s.rev = body'[i].rev => body'[i].msgs \subseteq s.msgs
             /\ \A m \in s.msgs : m \in body'[i].msgs \/ m.base = s.inc
  <2>1. ~(s.inc > minted) BY <1>1 DEF Candidate, BodyInv
  <2>2. CASE body'[i] = body[i] BY <1>3, <2>2 DEF Candidate, Lives
  <2>3. CASE /\ body[i] # None /\ body'[i].inc = body[i].inc
             /\ body'[i].rev = body[i].rev + 1 /\ body[i].msgs \subseteq body'[i].msgs
    <3>1. /\ s.rev <= body[i].rev
          /\ \A m \in s.msgs : m \in body[i].msgs \/ m.base = s.inc
      BY <1>3, <2>3 DEF Candidate, Lives
    <3>2. body[i].rev \in Nat BY <2>3 DEF BodyInv, Stored
    <3>3. QED BY <1>1, <2>3, <3>1, <3>2
  <2>4. QED BY <1>3, <2>1, <2>2, <2>3 DEF Grows
<1>4. QED BY <1>1, <1>2, <1>3 DEF Candidate, Lives

LEMMA WriterStays ==
    ASSUME NEW x \in Stores, BodyInv(x), Grows(x), NEW o, Writer(x, o) PROVE Writer(x, o)'
<1>1. o.seen # None => Copy(x, o.seen)' BY CopyStays DEF Writer
<1>2. Candidate(x, o.cand, o.number) => Candidate(x, o.cand, o.number)' BY CandidateStays
<1>3. QED BY <1>1, <1>2 DEF Writer, S!StaleIncarnation

LEMMA OperationStays ==
    ASSUME NEW x \in Stores, BodyInv(x), Grows(x), NEW o, Operation(x, o) PROVE Operation(x, o)'
  BY WriterStays DEF Operation

\* A stored session is a copy of itself.
LEMMA BodyIsCopy ==
    ASSUME NEW x \in Stores, BodyInv(x), NEW i \in Ids[x], body[i] # None PROVE Copy(x, body[i])
<1>1. body[i] \in Stored(x) /\ body[i].inc \in 1 .. minted /\ body[i].rev \in Nat
  BY DEF BodyInv, Stored
<1>2. \A j \in Ids[x] : Lives(j, body[i]) => j = i BY DEF BodyInv, Lives
<1>3. QED BY <1>1, <1>2 DEF Copy, S!Unminted, BodyInv

\* A copy with one message more is a candidate.
LEMMA CopyWithMessage ==
    ASSUME NEW x \in Stores, NEW s, Copy(x, s), NEW n \in Nat
    PROVE  Candidate(x, [s EXCEPT !.msgs = @ \cup {[by |-> n, base |-> s.inc]}], n)
<1> DEFINE m == [by |-> n, base |-> s.inc]
           t == [s EXCEPT !.msgs = @ \cup {m}]
<1>1. s \in Stored(x) /\ m \in Message /\ m.by = n /\ m.base = s.inc BY DEF Copy, Stored, Message
<1>2. /\ t.id = s.id /\ t.inc = s.inc /\ t.rev = s.rev /\ t.at = s.at
      /\ t.msgs = s.msgs \cup {m} /\ t \in Stored(x)
  <2>1. s.msgs \cup {m} \in Messages BY <1>1, FS_AddElement DEF Stored, Messages
  <2>2. QED BY <1>1, <2>1 DEF Stored
<1>3. \A i \in Ids[x] : Lives(i, t) <=> Lives(i, s) BY <1>2 DEF Lives
<1> HIDE DEF m, t
<1>4. Candidate(x, t, n) BY <1>1, <1>2, <1>3 DEF Candidate, Copy
<1>5. QED BY <1>4 DEF t, m

LEMMA NewIsCopy ==
    ASSUME NEW x \in Stores, BodyInv(x), NEW id \in Ids[x] PROVE Copy(x, S(x)!NewSession(id))
  BY FS_EmptySet DEF BodyInv, Copy, S!NewSession, Stored, Messages, S!Unminted, Lives

-----------------------------------------------------------------------------
(* Steps that leave the bodies alone.                                      *)

Still == UNCHANGED <<body, minted, acked, clock>> /\ called' \in Nat

LEMMA StillGrows == ASSUME NEW x \in Stores, BodyInv(x), Still PROVE Grows(x) /\ BodyInv(x)'
  BY DEF BodyInv, Still, Grows, Stored

LEMMA StillMine ==
    ASSUME NEW x \in Stores, BodyInv(x), MineInv(x), Grows(x), mine' = mine PROVE MineInv(x)'
<1>1. ASSUME NEW c \in Callers[x], mine[c] # None PROVE Copy(x, mine[c])'
  <2>1. PICK s : s = mine[c] OBVIOUS
  <2>2. Copy(x, s)' BY <1>1, <2>1, CopyStays DEF MineInv
  <2>3. QED BY <2>1, <2>2 DEF Copy, Lives
<1>2. QED BY <1>1 DEF MineInv

LEMMA OpMoves ==
    ASSUME NEW x \in Stores, BodyInv(x), OpInv(x), Grows(x), NEW c \in Callers[x], NEW o,
           op' = [op EXCEPT ![c] = o],
           Operation(x, o)'
    PROVE  OpInv(x)'
<1>1. ASSUME NEW d \in Callers[x], NEW p, p = op'[d] PROVE Operation(x, p)'
  <2>1. CASE d = c BY <1>1, <2>1 DEF OpInv
  <2>2. CASE d # c
    <3>1. p = op[d] BY <1>1, <2>2 DEF OpInv
    <3>2. Operation(x, p) BY <3>1 DEF OpInv
    <3>3. QED BY <3>2, OperationStays
  <2>3. QED BY <2>1, <2>2
<1>2. ASSUME NEW d \in Callers[x] PROVE Operation(x, op[d])'
  <2>1. PICK p : p = op'[d] OBVIOUS
  <2>2. Operation(x, p)' BY <1>1, <2>1
  <2>3. QED BY <2>1, <2>2 DEF Operation, Writer, Candidate, Copy, Lives, S!StaleIncarnation
<1>3. op' = [d \in Callers[x] |-> op'[d]] BY DEF OpInv
<1>4. QED BY <1>2, <1>3 DEF OpInv

LEMMA StillMoves ==
    ASSUME NEW x \in Stores, IInv(x), Still, mine' = mine, NEW c \in Callers[x], NEW o,
           op' = [op EXCEPT ![c] = o],
           Operation(x, o)
    PROVE  IInv(x)'
<1>1. Grows(x) /\ BodyInv(x)' BY StillGrows DEF IInv
<1>2. Operation(x, o)' BY <1>1, OperationStays DEF IInv
<1>3. OpInv(x)' BY <1>1, <1>2, OpMoves DEF IInv
<1>4. MineInv(x)' BY <1>1, StillMine DEF IInv
<1>5. AckInv(x)' BY DEF IInv, AckInv, S!NoLostMessage, Still
<1>6. QED BY <1>1, <1>3, <1>4, <1>5 DEF IInv

LEMMA IdleIsOperation == ASSUME NEW x \in Stores PROVE Operation(x, S(x)!Idle)
  BY DEF Operation, S!Idle

LEMMA HoldKeeps ==
    ASSUME NEW x \in Stores, IInv(x), NEW c \in Callers[x], NEW s, Copy(x, s), S(x)!Hold(c, s)
    PROVE  IInv(x)'
<1>1. Still BY DEF S!Hold, Still, IInv, BodyInv
<1>2. Grows(x) /\ BodyInv(x)' BY <1>1, StillGrows DEF IInv
<1>3. MineInv(x)'
  <2>1. ASSUME NEW d \in Callers[x], NEW p, p = mine'[d], p # None PROVE Copy(x, p)'
    <3>1. p = s \/ p = mine[d] BY <2>1 DEF S!Hold, IInv, MineInv
    <3>2. Copy(x, p) BY <2>1, <3>1 DEF IInv, MineInv
    <3>3. QED BY <1>2, <3>2, CopyStays DEF IInv
  <2>2. ASSUME NEW d \in Callers[x], mine'[d] # None PROVE Copy(x, mine[d])'
    <3>1. PICK p : p = mine'[d] OBVIOUS
    <3>2. Copy(x, p)' BY <2>1, <2>2, <3>1
    <3>3. QED BY <3>1, <3>2 DEF Copy, Lives
  <2>3. DOMAIN mine' = Callers[x] BY DEF S!Hold, IInv, MineInv
  <2>4. QED BY <2>2, <2>3 DEF MineInv
<1>4. OpInv(x)'
  <2>1. op' = op BY DEF S!Hold
  <2>2. op' = [op EXCEPT ![c] = op[c]] BY <2>1 DEF IInv, OpInv
  <2>3. PICK o : o = op[c] OBVIOUS
  <2>4. Operation(x, o)' BY <1>2, <2>3, OperationStays DEF IInv, OpInv
  <2>5. QED BY <1>2, <2>2, <2>3, <2>4, OpMoves DEF IInv
<1>5. AckInv(x)' BY <1>1 DEF IInv, AckInv, S!NoLostMessage, Still
<1>6. QED BY <1>2, <1>3, <1>4, <1>5 DEF IInv

LEMMA CallKeeps ==
    ASSUME NEW x \in Stores, IInv(x), NEW c \in Callers[x], NEW o, S(x)!Call(c, o),
           Operation(x, o)
    PROVE  IInv(x)'
<1>1. Still /\ mine' = mine BY DEF S!Call, Still, IInv, BodyInv
<1>2. op' = [op EXCEPT ![c] = o] BY DEF S!Call
<1>3. QED BY <1>1, <1>2, StillMoves

\* Of the operations only saves and updates hold copies.
LEMMA OthersAreOperations ==
    ASSUME NEW x \in Stores, NEW o, DOMAIN o = DOMAIN S(x)!Idle, o.name \notin {"save", "update"}
    PROVE  Operation(x, o)
  BY DEF Operation

LEMMA CallDeleteKeeps ==
    ASSUME NEW x \in Stores, IInv(x), NEW c \in Callers[x], NEW id \in Ids[x],
           S(x)!CallDelete(c, id)
    PROVE  IInv(x)'
<1> DEFINE o == [S(x)!Idle EXCEPT !.name = "delete", !.pc = "read", !.left = S(x)!AllThree, !.id = id]
<1>1. DOMAIN o = DOMAIN S(x)!Idle /\ o.name = "delete" BY DEF S!Idle
<1>2. Operation(x, o) BY <1>1, OthersAreOperations
<1>3. S(x)!Call(c, o) BY DEF S!CallDelete
<1> HIDE DEF o
<1>4. QED BY <1>2, <1>3, CallKeeps

LEMMA CallListKeeps ==
    ASSUME NEW x \in Stores, IInv(x), NEW c \in Callers[x], S(x)!CallList(c) PROVE IInv(x)'
<1> DEFINE o == [S(x)!Idle EXCEPT !.name = "list", !.pc = "read", !.left = {"index"}]
<1>1. DOMAIN o = DOMAIN S(x)!Idle /\ o.name = "list" BY DEF S!Idle
<1>2. Operation(x, o) BY <1>1, OthersAreOperations
<1>3. S(x)!Call(c, o) BY DEF S!CallList
<1> HIDE DEF o
<1>4. QED BY <1>2, <1>3, CallKeeps

LEMMA CallCleanupKeeps ==
    ASSUME NEW x \in Stores, IInv(x), NEW c \in Callers[x], NEW t, S(x)!CallCleanup(c, t)
    PROVE  IInv(x)'
<1> DEFINE o == [S(x)!Idle EXCEPT !.name = "cleanup", !.pc = "bodies", !.cutoff = t, !.todo = Ids[x],
                            !.seen = [i \in Ids[x] |-> None]]
<1>1. DOMAIN o = DOMAIN S(x)!Idle /\ o.name = "cleanup" BY DEF S!Idle
<1>2. Operation(x, o) BY <1>1, OthersAreOperations
<1>3. S(x)!Call(c, o) BY DEF S!CallCleanup
<1> HIDE DEF o
<1>4. QED BY <1>2, <1>3, CallKeeps

\* A message is added to what the caller holds.
LEMMA HeldWithMessage ==
    ASSUME NEW x \in Stores, IInv(x), NEW c \in Callers[x], mine[c] # None
    PROVE  /\ Candidate(x, S(x)!WithMessage(mine[c]), called + 1) /\ called + 1 \in Nat
           /\ mine[c].id \in Ids[x] /\ S(x)!WithMessage(mine[c]).id = mine[c].id
<1>1. Copy(x, mine[c]) /\ called + 1 \in Nat BY DEF IInv, MineInv, BodyInv
<1>2. S(x)!WithMessage(mine[c]).id = mine[c].id BY <1>1 DEF S!WithMessage, Copy, Stored
<1>3. QED BY <1>1, <1>2, CopyWithMessage DEF S!WithMessage, Copy, Stored

LEMMA CallSaveKeeps ==
    ASSUME NEW x \in Stores, IInv(x), NEW c \in Callers[x], S(x)!CallSave(c) PROVE IInv(x)'
<1> DEFINE o == [S(x)!Idle EXCEPT !.name = "save", !.pc = "read", !.left = S(x)!AllThree, !.id = mine[c].id,
                            !.cand = S(x)!WithMessage(mine[c]), !.number = called + 1]
<1>1. /\ DOMAIN o = DOMAIN S(x)!Idle /\ o.name = "save" /\ o.pc = "read" /\ o.id = mine[c].id
      /\ o.cand = S(x)!WithMessage(mine[c]) /\ o.number = called + 1 /\ o.seen = None
  BY DEF S!Idle
<1>2. Writer(x, o) BY <1>1, HeldWithMessage DEF Writer, S!CallSave
<1>3. Operation(x, o) BY <1>1, <1>2 DEF Operation
<1>4. S(x)!Call(c, o) BY DEF S!CallSave
<1> HIDE DEF o
<1>5. QED BY <1>3, <1>4, CallKeeps

LEMMA CallUpdateKeeps ==
    ASSUME NEW x \in Stores, IInv(x), NEW c \in Callers[x], NEW id \in Ids[x], NEW u,
           S(x)!CallUpdate(c, id, u)
    PROVE  IInv(x)'
<1> DEFINE o == [S(x)!Idle EXCEPT !.name = "update", !.pc = "read", !.left = {"body", "index"},
                            !.id = id, !.updater = u, !.number = called + 1,
                            !.cand = IF u = "held" THEN S(x)!WithMessage(mine[c]) ELSE None]
<1>1. /\ DOMAIN o = DOMAIN S(x)!Idle /\ o.name = "update" /\ o.pc = "read" /\ o.id = id
      /\ o.updater = u /\ o.number = called + 1 /\ o.seen = None
      /\ u = "held" => o.cand = S(x)!WithMessage(mine[c])
  BY DEF S!Idle
<1>2. u = "held" => Candidate(x, o.cand, o.number) /\ o.cand.id = id
  BY <1>1, HeldWithMessage DEF S!CallUpdate
<1>3. Writer(x, o) BY <1>1, <1>2 DEF Writer, IInv, BodyInv
<1>4. Operation(x, o) BY <1>1, <1>3 DEF Operation
<1>5. S(x)!Call(c, o) BY DEF S!CallUpdate
<1> HIDE DEF o
<1>6. QED BY <1>4, <1>5, CallKeeps

-----------------------------------------------------------------------------
(* Reads and decisions: a step sets the caller's operation only.           *)

LEMMA SetKeeps ==
    ASSUME NEW x \in Stores, IInv(x), NEW c \in Callers[x], NEW o, S(x)!Set(c, o), Operation(x, o),
           UNCHANGED <<body, clock, minted, mine, called, acked>>
    PROVE  IInv(x)'
<1>1. Still BY DEF Still, IInv, BodyInv
<1>2. QED BY <1>1, StillMoves DEF S!Set

\* Which parts of an operation its being one depends on.
LEMMA SameOperation ==
    ASSUME NEW x \in Stores, NEW o, NEW p, Operation(x, o), DOMAIN p = DOMAIN S(x)!Idle,
           p.name = o.name, p.pc = o.pc,
           p.id = o.id, p.number = o.number, p.updater = o.updater, p.cand = o.cand,
           p.seen = o.seen
    PROVE  Operation(x, p)
  BY DEF Operation, Writer

\* The summaries are read between the decision and the swap.
LEMMA SummariesKeep ==
    ASSUME NEW x \in Stores, NEW o, DOMAIN o = DOMAIN S(x)!Idle,
           o.name \in {"save", "update"} => Writer(x, [o EXCEPT !.pc = "scan"])
    PROVE  Operation(x, S(x)!Summaries(o))
<1> DEFINE p == [o EXCEPT !.pc = "scan"]
           q == S(x)!Summaries(o)
<1>1. /\ DOMAIN p = DOMAIN S(x)!Idle /\ p.name = o.name /\ p.pc = "scan" /\ p.id = o.id
      /\ p.number = o.number /\ p.updater = o.updater /\ p.cand = o.cand /\ p.seen = o.seen
  BY DEF S!Idle
<1>2. /\ DOMAIN q = DOMAIN S(x)!Idle /\ q.name = o.name /\ q.pc \in {"scan", "swap"} /\ q.id = o.id
      /\ q.number = o.number /\ q.updater = o.updater /\ q.cand = o.cand /\ q.seen = o.seen
  BY DEF S!Idle, S!Summaries
<1> HIDE DEF p, q
<1>3. q.name \in {"save", "update"} => Writer(x, q)
  <2>1. SUFFICES ASSUME q.name \in {"save", "update"} PROVE Writer(x, q) OBVIOUS
  <2>2. Writer(x, p) BY <1>2, <2>1 DEF p
  <2>3. QED BY <1>1, <1>2, <2>2 DEF Writer
<1>4. Operation(x, q) BY <1>2, <1>3 DEF Operation
<1>5. QED BY <1>4 DEF q

LEMMA ReadKeeps ==
    ASSUME NEW x \in Stores, IInv(x), NEW c \in Callers[x], NEW what \in S(x)!AllThree,
           S(x)!Read(c, what)
    PROVE  IInv(x)'
<1> DEFINE r == [op[c] EXCEPT !.left = @ \ {what}]
           o == CASE what = "body" -> [r EXCEPT !.seen = body[r.id]]
                  [] what = "index" -> [r EXCEPT !.idx = index]
                  [] what = "ordinal" -> [r EXCEPT !.ord = ordinal]
<1>1. Operation(x, op[c]) BY DEF IInv, OpInv
<1>2. S(x)!Set(c, o) /\ op[c].pc = "read" BY DEF S!Read
<1>3. op[c].name \in {"save", "update"} => op[c].id \in Ids[x] BY <1>1 DEF Operation, Writer
<1>4. CASE what = "body"
  <2>1. /\ DOMAIN o = DOMAIN S(x)!Idle /\ o.name = op[c].name /\ o.pc = "read" /\ o.id = op[c].id
        /\ o.number = op[c].number /\ o.updater = op[c].updater /\ o.cand = op[c].cand
        /\ o.seen = body[op[c].id]
    BY <1>1, <1>2, <1>4 DEF Operation, S!Idle
  <2> HIDE DEF o
  <2>2. op[c].id \in Ids[x] /\ o.seen # None => Copy(x, o.seen) /\ o.seen.id = op[c].id
    BY <2>1, BodyIsCopy DEF IInv, BodyInv
  <2>3. Operation(x, o) BY <1>1, <1>2, <1>3, <2>1, <2>2 DEF Operation, Writer
  <2>4. QED BY <1>2, <2>3, SetKeeps DEF S!Read
<1>5. CASE what \in {"index", "ordinal"}
  <2>1. /\ DOMAIN o = DOMAIN S(x)!Idle /\ o.name = op[c].name /\ o.pc = op[c].pc /\ o.id = op[c].id
        /\ o.number = op[c].number /\ o.updater = op[c].updater /\ o.cand = op[c].cand
        /\ o.seen = op[c].seen
    BY <1>1, <1>5 DEF Operation, S!Idle
  <2> HIDE DEF o
  <2>2. Operation(x, o) BY <1>1, <2>1, SameOperation
  <2>3. QED BY <1>2, <2>2, SetKeeps DEF S!Read
<1>6. QED BY <1>4, <1>5 DEF S!AllThree

LEMMA SaveDecidesKeeps ==
    ASSUME NEW x \in Stores, IInv(x), NEW c \in Callers[x], S(x)!SaveDecides(c) PROVE IInv(x)'
<1>1. PICK o : o = op[c] OBVIOUS
<1>2. Operation(x, o) /\ o.name = "save" /\ o.pc = "read" BY <1>1 DEF IInv, OpInv, S!SaveDecides
<1>3. CASE S(x)!StaleIncarnation(o.cand, o.seen)
  BY <1>1, <1>3, IdleIsOperation, SetKeeps DEF S!SaveDecides
<1>4. CASE ~S(x)!StaleIncarnation(o.cand, o.seen)
  <2> DEFINE p == [o EXCEPT !.pc = "scan"]
  <2>1. /\ p.name = o.name /\ p.pc = "scan" /\ p.id = o.id /\ p.number = o.number
        /\ p.updater = o.updater /\ p.cand = o.cand /\ p.seen = o.seen
    BY <1>2 DEF Operation, S!Idle
  <2>2. Writer(x, p) BY <1>2, <1>4, <2>1 DEF Operation, Writer
  <2>3. Operation(x, S(x)!Summaries(o)) BY <1>2, <2>2, SummariesKeep DEF Operation
  <2>4. S(x)!Set(c, S(x)!Summaries(o)) BY <1>1, <1>4 DEF S!SaveDecides
  <2>5. QED BY <2>3, <2>4, SetKeeps DEF S!SaveDecides
<1>5. QED BY <1>3, <1>4

LEMMA UpdateDecidesKeeps ==
    ASSUME NEW x \in Stores, IInv(x), NEW c \in Callers[x], S(x)!UpdateDecides(c) PROVE IInv(x)'
<1>1. PICK o : o = op[c] OBVIOUS
<1> DEFINE given == IF o.seen = None THEN S(x)!NewSession(o.id) ELSE o.seen
           cand == IF o.updater = "held" THEN o.cand
                   ELSE [given EXCEPT !.msgs = @ \cup {[by |-> o.number, base |-> given.inc]}]
           p == [o EXCEPT !.pc = "ordinal", !.cand = cand]
<1>2. Operation(x, o) /\ o.name = "update" /\ o.pc = "read" BY <1>1 DEF IInv, OpInv, S!UpdateDecides
<1>3. Candidate(x, cand, o.number) /\ cand.id = o.id
  <2>1. CASE o.updater = "held" BY <1>2, <2>1 DEF Operation, Writer
  <2>2. CASE o.updater # "held"
    <3>1. Copy(x, given)
      <4>1. CASE o.seen = None BY <1>2, <4>1, NewIsCopy DEF Operation, Writer, IInv
      <4>2. CASE o.seen # None BY <1>2, <4>2 DEF Operation, Writer
      <4>3. QED BY <4>1, <4>2
    <3>2. o.number \in Nat /\ given.id = o.id BY <1>2 DEF Operation, Writer, S!NewSession
    <3> HIDE DEF given
    <3>3. cand.id = o.id BY <2>2, <3>1, <3>2 DEF Copy, Stored
    <3>4. QED BY <2>2, <3>1, <3>2, <3>3, CopyWithMessage
  <2>3. QED BY <2>1, <2>2
<1>4. S(x)!Set(c, S(x)!Idle) \/ (~S(x)!StaleIncarnation(cand, o.seen) /\ S(x)!Set(c, p))
  BY <1>1 DEF S!UpdateDecides
<1> HIDE DEF cand
<1>5. /\ DOMAIN p = DOMAIN S(x)!Idle /\ p.name = o.name /\ p.pc = "ordinal" /\ p.id = o.id
      /\ p.number = o.number /\ p.updater = o.updater /\ p.cand = cand /\ p.seen = o.seen
  BY <1>2 DEF Operation, S!Idle
<1> HIDE DEF p
<1>6. CASE S(x)!Set(c, S(x)!Idle) BY <1>6, IdleIsOperation, SetKeeps DEF S!UpdateDecides
<1>7. CASE ~S(x)!StaleIncarnation(cand, o.seen) /\ S(x)!Set(c, p)
  <2>1. Operation(x, p) BY <1>2, <1>3, <1>5, <1>7 DEF Operation, Writer
  <2>2. QED BY <1>7, <2>1, SetKeeps DEF S!UpdateDecides
<1>8. QED BY <1>4, <1>6, <1>7

LEMMA UpdateReadsOrdinalKeeps ==
    ASSUME NEW x \in Stores, IInv(x), NEW c \in Callers[x], S(x)!UpdateReadsOrdinal(c)
    PROVE  IInv(x)'
<1>1. PICK o : o = op[c] OBVIOUS
<1> DEFINE q == [o EXCEPT !.ord = ordinal]
           p == [q EXCEPT !.pc = "scan"]
<1>2. Operation(x, o) /\ o.pc = "ordinal" BY <1>1 DEF IInv, OpInv, S!UpdateReadsOrdinal
<1>3. /\ DOMAIN q = DOMAIN S(x)!Idle /\ q.name = o.name
      /\ p.name = o.name /\ p.pc = "scan" /\ p.id = o.id /\ p.number = o.number
      /\ p.updater = o.updater /\ p.cand = o.cand /\ p.seen = o.seen
  BY <1>2 DEF Operation, S!Idle
<1>4. q.name \in {"save", "update"} => Writer(x, p) BY <1>2, <1>3 DEF Operation, Writer
<1>5. Operation(x, S(x)!Summaries(q))
  <2> HIDE DEF q
  <2>1. QED BY <1>3, <1>4, SummariesKeep
<1>6. S(x)!Set(c, S(x)!Summaries(q)) BY <1>1 DEF S!UpdateReadsOrdinal
<1> HIDE DEF q
<1>7. QED BY <1>5, <1>6, SetKeeps DEF S!UpdateReadsOrdinal

\* The operations that write no session of their own.
LEMMA OtherSetKeeps ==
    ASSUME NEW x \in Stores, IInv(x), NEW c \in Callers[x], NEW o, DOMAIN o = DOMAIN S(x)!Idle,
           o.name \notin {"save", "update"}, S(x)!Set(c, o),
           UNCHANGED <<body, clock, minted, mine, called, acked>>
    PROVE  IInv(x)'
  BY OthersAreOperations, SetKeeps

\* Where such an operation may go.
LEMMA SummariesShape ==
    ASSUME NEW x \in Stores, NEW o, DOMAIN o = DOMAIN S(x)!Idle
    PROVE  DOMAIN S(x)!Summaries(o) = DOMAIN S(x)!Idle /\ S(x)!Summaries(o).name = o.name
  BY DEF S!Summaries, S!Idle

LEMMA PageShape ==
    ASSUME NEW x \in Stores, NEW o, DOMAIN o = DOMAIN S(x)!Idle, o.name \notin {"save", "update"},
           NEW sums
    PROVE  DOMAIN S(x)!Page(o, sums) = DOMAIN S(x)!Idle /\ S(x)!Page(o, sums).name \notin {"save", "update"}
  BY DEF S!Page, S!Idle

LEMMA AgainShape ==
    ASSUME NEW x \in Stores, NEW c, DOMAIN op[c] = DOMAIN S(x)!Idle,
           op[c].name \notin {"save", "update"}
    PROVE  DOMAIN S(x)!Again(c) = DOMAIN S(x)!Idle /\ S(x)!Again(c).name \notin {"save", "update"}
  BY DEF S!Again, S!Idle

LEMMA DeleteDecidesKeeps ==
    ASSUME NEW x \in Stores, IInv(x), NEW c \in Callers[x], S(x)!DeleteDecides(c) PROVE IInv(x)'
<1>1. DOMAIN op[c] = DOMAIN S(x)!Idle /\ op[c].name = "delete"
  BY DEF IInv, OpInv, Operation, S!DeleteDecides
<1>2. QED BY <1>1, SummariesShape, OtherSetKeeps DEF S!DeleteDecides

LEMMA ScanKeeps ==
    ASSUME NEW x \in Stores, IInv(x), NEW c \in Callers[x], NEW id,
           S(x)!Scan(c, id) PROVE IInv(x)'
<1>1. PICK u : u = op[c] OBVIOUS
<1> DEFINE o == [u EXCEPT !.todo = @ \ {id}]
           p == IF body[id] = None THEN o
                ELSE [o EXCEPT !.sums = S(x)!Including(@, id, body[id])]
           q == IF p.todo = {} THEN [p EXCEPT !.pc = "swap"] ELSE p
<1>2. Operation(x, u) /\ u.pc = "scan" /\ S(x)!Set(c, q) BY <1>1 DEF IInv, OpInv, S!Scan
<1>3. /\ DOMAIN p = DOMAIN S(x)!Idle /\ p.name = u.name /\ p.pc = u.pc
      /\ p.id = u.id /\ p.number = u.number /\ p.updater = u.updater /\ p.cand = u.cand
      /\ p.seen = u.seen
  BY <1>2 DEF Operation, S!Idle
<1> HIDE DEF p
<1>4. /\ DOMAIN q = DOMAIN S(x)!Idle /\ q.name = u.name /\ q.pc \in {"scan", "swap"}
      /\ q.id = u.id /\ q.number = u.number /\ q.updater = u.updater /\ q.cand = u.cand
      /\ q.seen = u.seen
  BY <1>2, <1>3 DEF S!Idle
<1> HIDE DEF q
<1>5. Operation(x, q) BY <1>2, <1>4 DEF Operation, Writer
<1>6. QED BY <1>2, <1>5, SetKeeps DEF S!Scan

LEMMA CleanupReadsKeeps ==
    ASSUME NEW x \in Stores, IInv(x), NEW c \in Callers[x], NEW id, S(x)!CleanupReads(c, id)
    PROVE  IInv(x)'
<1>1. PICK u : u = op[c] OBVIOUS
<1> DEFINE o == [u EXCEPT !.todo = @ \ {id}, !.seen[id] = body[id]]
           old == {i \in Ids[x] : o.seen[i] # None /\ o.seen[i].at < o.cutoff}
           p == IF o.todo # {} THEN o ELSE IF old = {} THEN S(x)!Idle
                ELSE [o EXCEPT !.pc = "index", !.gone = old]
<1>2. Operation(x, u) /\ u.pc = "bodies" /\ S(x)!Set(c, p) BY <1>1 DEF IInv, OpInv, S!CleanupReads
<1>3. u.name \notin {"save", "update"} BY <1>2 DEF Operation, Writer
<1>4. DOMAIN o = DOMAIN S(x)!Idle /\ o.name = u.name BY <1>2 DEF Operation, S!Idle
<1> HIDE DEF o
<1>5. DOMAIN p = DOMAIN S(x)!Idle /\ p.name \notin {"save", "update"} BY <1>3, <1>4 DEF S!Idle
<1> HIDE DEF p
<1>6. QED BY <1>2, <1>5, OtherSetKeeps DEF S!CleanupReads

LEMMA CleanupReadsIndexKeeps ==
    ASSUME NEW x \in Stores, IInv(x), NEW c \in Callers[x], S(x)!CleanupReadsIndex(c) PROVE IInv(x)'
<1>1. PICK u : u = op[c] OBVIOUS
<1> DEFINE o == [u EXCEPT !.idx = index]
<1>2. Operation(x, u) /\ u.pc = "index" /\ S(x)!Set(c, S(x)!Summaries(o))
  BY <1>1 DEF IInv, OpInv, S!CleanupReadsIndex
<1>3. u.name \notin {"save", "update"} BY <1>2 DEF Operation, Writer
<1>4. DOMAIN o = DOMAIN S(x)!Idle /\ o.name = u.name BY <1>2 DEF Operation, S!Idle
<1> HIDE DEF o
<1>5. QED BY <1>2, <1>3, <1>4, SummariesShape, OtherSetKeeps DEF S!CleanupReadsIndex

LEMMA ListDecidesKeeps ==
    ASSUME NEW x \in Stores, IInv(x), NEW c \in Callers[x], S(x)!ListDecides(c) PROVE IInv(x)'
<1>1. PICK o : o = op[c] OBVIOUS
<1>2. DOMAIN o = DOMAIN S(x)!Idle /\ o.name = "list"
  BY <1>1 DEF IInv, OpInv, Operation, S!ListDecides
<1>3. S(x)!Set(c, S(x)!Summaries(o)) \/ S(x)!Set(c, S(x)!Page(o, o.idx)) BY <1>1 DEF S!ListDecides
<1>4. QED BY <1>2, <1>3, SummariesShape, PageShape, OtherSetKeeps DEF S!ListDecides

LEMMA ListRebuildsKeeps ==
    ASSUME NEW x \in Stores, IInv(x), NEW c \in Callers[x], S(x)!ListRebuilds(c) PROVE IInv(x)'
<1>1. PICK o : o = op[c] OBVIOUS
<1> DEFINE p == [o EXCEPT !.idx = o.sums]
           q == [o EXCEPT !.pc = "reread"]
<1>2. DOMAIN o = DOMAIN S(x)!Idle /\ o.name = "list"
  BY <1>1 DEF IInv, OpInv, Operation, S!ListRebuilds
<1>3. DOMAIN p = DOMAIN S(x)!Idle /\ p.name = "list" /\ DOMAIN q = DOMAIN S(x)!Idle /\ q.name = "list"
  BY <1>2 DEF S!Idle
<1>4. S(x)!Set(c, S(x)!Page(p, o.sums)) \/ S(x)!Set(c, q) BY <1>1 DEF S!ListRebuilds
<1> HIDE DEF p, q
<1>5. QED BY <1>3, <1>4, PageShape, OtherSetKeeps DEF S!ListRebuilds

LEMMA ListReadsKeeps ==
    ASSUME NEW x \in Stores, IInv(x), NEW c \in Callers[x], S(x)!ListReads(c) PROVE IInv(x)'
<1>1. PICK o : o = op[c] OBVIOUS
<1> DEFINE p == [o EXCEPT !.idx = index]
<1>2. DOMAIN o = DOMAIN S(x)!Idle /\ o.name = "list" BY <1>1 DEF IInv, OpInv, Operation, S!ListReads
<1>3. DOMAIN p = DOMAIN S(x)!Idle /\ p.name = "list" BY <1>2 DEF S!Idle
<1>4. S(x)!Set(c, S(x)!Page(p, index)) \/ S(x)!Set(c, S(x)!Page(o, o.sums)) BY <1>1 DEF S!ListReads
<1> HIDE DEF p
<1>5. QED BY <1>2, <1>3, <1>4, PageShape, OtherSetKeeps DEF S!ListReads

LEMMA ListLooksKeeps ==
    ASSUME NEW x \in Stores, IInv(x), NEW c \in Callers[x], NEW id, S(x)!ListLooks(c, id)
    PROVE  IInv(x)'
<1>1. PICK u : u = op[c] OBVIOUS
<1> DEFINE o == [u EXCEPT !.todo = @ \ {id},
                          !.gone = IF body[id] = None THEN @ \cup {id} ELSE @]
           p == IF o.todo # {} THEN o
                ELSE IF o.gone = {} \/ o.idx = None THEN S(x)!Idle
                ELSE IF o.pc = "page"
                THEN [o EXCEPT !.pc = "recheck", !.todo = o.gone, !.gone = {}]
                ELSE [o EXCEPT !.pc = "repair"]
<1>2. Operation(x, u) /\ u.pc \in {"page", "recheck"} /\ S(x)!Set(c, p)
  BY <1>1 DEF IInv, OpInv, S!ListLooks
<1>3. u.name \notin {"save", "update"} BY <1>2 DEF Operation, Writer
<1>4. DOMAIN o = DOMAIN S(x)!Idle /\ o.name = u.name BY <1>2 DEF Operation, S!Idle
<1> HIDE DEF o
<1>5. DOMAIN p = DOMAIN S(x)!Idle /\ p.name \notin {"save", "update"} BY <1>3, <1>4 DEF S!Idle
<1> HIDE DEF p
<1>6. QED BY <1>2, <1>5, OtherSetKeeps DEF S!ListLooks

LEMMA ListRepairsKeeps ==
    ASSUME NEW x \in Stores, IInv(x), NEW c \in Callers[x],
           S(x)!ListRepairs(c) \/ S(x)!ListRepairReads(c)
    PROVE  IInv(x)'
<1>1. PICK o : o = op[c] OBVIOUS
<1> DEFINE p == [o EXCEPT !.pc = "repairRead"]
           q == [o EXCEPT !.pc = "recheck", !.idx = index, !.tries = @ + 1,
                          !.todo = o.gone, !.gone = {}]
<1>2. DOMAIN o = DOMAIN S(x)!Idle /\ o.name = "list"
  BY <1>1 DEF IInv, OpInv, Operation, S!ListRepairs, S!ListRepairReads
<1>3. DOMAIN p = DOMAIN S(x)!Idle /\ p.name = "list" /\ DOMAIN q = DOMAIN S(x)!Idle /\ q.name = "list"
  BY <1>2 DEF S!Idle
<1>4. S(x)!Set(c, S(x)!Idle) \/ S(x)!Set(c, p) \/ S(x)!Set(c, q) BY <1>1 DEF S!ListRepairs, S!ListRepairReads, S!Done
<1>5. UNCHANGED <<body, clock, minted, mine, called, acked>> BY DEF S!ListRepairs, S!ListRepairReads
<1>6. DOMAIN S(x)!Idle = DOMAIN S(x)!Idle /\ S(x)!Idle.name = "none" BY DEF S!Idle
<1> HIDE DEF p, q
<1>7. QED BY <1>3, <1>4, <1>5, <1>6, OtherSetKeeps

-----------------------------------------------------------------------------
(* Writes.                                                                 *)

\* A lost swap begins again, or gives up.
LEMMA AgainIsOperation ==
    ASSUME NEW x \in Stores, NEW c, Operation(x, op[c]) PROVE Operation(x, S(x)!Again(c))
<1>1. CASE op[c].name \in {"save", "update"}
  <2> DEFINE o == op[c]
  <2>1. \/ S(x)!Again(c) = S(x)!Idle
        \/ /\ DOMAIN S(x)!Again(c) = DOMAIN S(x)!Idle /\ S(x)!Again(c).name = o.name /\ S(x)!Again(c).pc = "read"
           /\ S(x)!Again(c).id = o.id /\ S(x)!Again(c).number = o.number
           /\ S(x)!Again(c).updater = o.updater /\ S(x)!Again(c).cand = o.cand /\ S(x)!Again(c).seen = o.seen
    BY <1>1 DEF S!Again, Operation, S!Idle
  <2>2. CASE S(x)!Again(c) = S(x)!Idle BY <2>2, IdleIsOperation
  <2>3. CASE /\ DOMAIN S(x)!Again(c) = DOMAIN S(x)!Idle /\ S(x)!Again(c).name = o.name /\ S(x)!Again(c).pc = "read"
             /\ S(x)!Again(c).id = o.id /\ S(x)!Again(c).number = o.number
             /\ S(x)!Again(c).updater = o.updater /\ S(x)!Again(c).cand = o.cand /\ S(x)!Again(c).seen = o.seen
    BY <1>1, <2>3 DEF Operation, Writer
  <2>4. QED BY <2>1, <2>2, <2>3
<1>2. CASE op[c].name \notin {"save", "update"}
  BY <1>2, AgainShape, OthersAreOperations DEF Operation
<1>3. QED BY <1>1, <1>2

\* A step after which bodies have grown, some perhaps gone, and the caller's
\* operation is over.
LEMMA WriteKeeps ==
    ASSUME NEW x \in Stores, IInv(x), Grows(x), BodyInv(x)', MineInv(x)', AckInv(x)',
           NEW c \in Callers[x], S(x)!Done(c)
    PROVE  IInv(x)'
<1>1. Operation(x, S(x)!Idle)' BY DEF Operation, S!Idle
<1>2. OpInv(x)' BY <1>1, OpMoves DEF IInv, S!Done, S!Set
<1>3. QED BY <1>2 DEF IInv

LEMMA ClockGoesOn == ASSUME NEW x \in Stores, BodyInv(x), S(x)!NextClock PROVE clock' \in Nat
  BY DEF BodyInv, S!NextClock

LEMMA DeleteSwapsKeeps ==
    ASSUME NEW x \in Stores, IInv(x), NEW c \in Callers[x], S(x)!DeleteSwaps(c) PROVE IInv(x)'
<1>1. Operation(x, op[c]) BY DEF IInv, OpInv
<1> DEFINE id == op[c].id
<1>2. CASE body' = body /\ S(x)!Set(c, S(x)!Again(c)) /\ clock' = clock
  BY <1>1, <1>2, AgainIsOperation, SetKeeps DEF S!DeleteSwaps
<1>3. CASE body' = [body EXCEPT ![id] = None] /\ S(x)!Done(c) /\ S(x)!NextClock
  <2>1. \A i \in Ids[x] : body'[i] # None => body'[i] = body[i] BY <1>3 DEF IInv, BodyInv
  <2>2. minted' = minted /\ mine' = mine /\ acked' = acked /\ called' = called BY DEF S!DeleteSwaps
  <2>3. Grows(x) BY <2>1, <2>2 DEF Grows, IInv, BodyInv
  <2>4. BodyInv(x)'
    <3>1. DOMAIN body' = Ids[x] BY <1>3 DEF IInv, BodyInv
    <3>2. clock' \in Nat BY <1>3, ClockGoesOn DEF IInv
    <3>3. QED BY <2>1, <2>2, <3>1, <3>2 DEF IInv, BodyInv, Stored
  <2>5. MineInv(x)' BY <2>2, <2>3, StillMine DEF IInv
  <2>6. AckInv(x)' BY <2>1, <2>2 DEF IInv, AckInv, S!NoLostMessage
  <2>7. QED BY <1>3, <2>3, <2>4, <2>5, <2>6, WriteKeeps
<1>4. QED BY <1>2, <1>3 DEF S!DeleteSwaps

LEMMA CleanupSwapsKeeps ==
    ASSUME NEW x \in Stores, IInv(x), NEW c \in Callers[x], S(x)!CleanupSwaps(c) PROVE IInv(x)'
<1>1. Operation(x, op[c]) BY DEF IInv, OpInv
<1> DEFINE gone == op[c].gone
<1>2. CASE body' = body /\ S(x)!Set(c, S(x)!Again(c)) /\ clock' = clock
  BY <1>1, <1>2, AgainIsOperation, SetKeeps DEF S!CleanupSwaps
<1>3. CASE body' = [i \in Ids[x] |-> IF i \in gone THEN None ELSE body[i]] /\ S(x)!Done(c) /\ S(x)!NextClock
  <2>1. \A i \in Ids[x] : body'[i] # None => body'[i] = body[i] BY <1>3
  <2>2. minted' = minted /\ mine' = mine /\ acked' = acked /\ called' = called BY DEF S!CleanupSwaps
  <2>3. Grows(x) BY <2>1, <2>2 DEF Grows, IInv, BodyInv
  <2>4. BodyInv(x)'
    <3>1. DOMAIN body' = Ids[x] BY <1>3
    <3>2. clock' \in Nat BY <1>3, ClockGoesOn DEF IInv
    <3>3. QED BY <2>1, <2>2, <3>1, <3>2 DEF IInv, BodyInv, Stored
  <2>5. MineInv(x)' BY <2>2, <2>3, StillMine DEF IInv
  <2>6. AckInv(x)' BY <2>1, <2>2 DEF IInv, AckInv, S!NoLostMessage
  <2>7. QED BY <1>3, <2>3, <2>4, <2>5, <2>6, WriteKeeps
<1>4. QED BY <1>2, <1>3 DEF S!CleanupSwaps

-----------------------------------------------------------------------------
(* Commits.                                                                *)

\* The session that a commit writes over what it has read.
Merged(x, o) == IF o.seen = None THEN o.cand ELSE S(x)!mergeSessions(o.seen, o.cand)
Life(o) == IF o.seen = None THEN minted + 1 ELSE o.seen.inc
Written(x, o) ==
    [Merged(x, o) EXCEPT !.inc = Life(o), !.rev = IF o.seen = None THEN 1 ELSE o.seen.rev + 1,
                         !.at = clock]

\* A commit that swaps.
Commits(x, c, o) ==
    /\ o = op[c] /\ Writer(x, o) /\ o.pc = "swap" /\ body[o.id] = o.seen
    /\ body' = [body EXCEPT ![o.id] = Written(x, o)]
    /\ minted' = IF o.seen = None THEN minted + 1 ELSE minted
    /\ acked' = acked \cup {[inc |-> Life(o), by |-> o.number]}
    /\ mine' = mine \/ mine' = [mine EXCEPT ![c] = Written(x, o)]
    /\ S(x)!NextClock /\ S(x)!Done(c) /\ called' = called

LEMMA CommitShape ==
    ASSUME NEW x \in Stores, IInv(x), NEW c \in Callers[x], S(x)!Commit(c)
    PROVE  \/ /\ S(x)!Set(c, S(x)!Again(c)) /\ mine' = mine /\ acked' = acked
              /\ UNCHANGED <<body, clock, called>>
              /\ minted' = minted \/ minted' = minted + 1
           \/ \E o : Commits(x, c, o)
<1>1. PICK o : o = op[c] OBVIOUS
<1>2. Operation(x, o) /\ o.name \in {"save", "update"} /\ o.pc = "swap"
  BY <1>1 DEF IInv, OpInv, S!Commit
<1>3. Writer(x, o) BY <1>2 DEF Operation
<1>4. CASE body[o.id] = o.seen /\ S(x)!IndexUnchanged(c) /\ S(x)!OrdinalUnchanged(c)
  <2>1. Commits(x, c, o)
    BY <1>1, <1>2, <1>3, <1>4 DEF S!Commit, Commits, Merged, Life, Written
  <2>2. QED BY <2>1
<1>5. CASE ~(body[o.id] = o.seen /\ S(x)!IndexUnchanged(c) /\ S(x)!OrdinalUnchanged(c))
  BY <1>1, <1>2, <1>5 DEF S!Commit
<1>6. QED BY <1>4, <1>5

\* What is written holds everything that was stored, and the new message; and
\* what is new in it is of no other life.
LEMMA WrittenGrows ==
    ASSUME NEW x \in Stores, IInv(x), NEW c \in Callers[x], NEW o, Commits(x, c, o)
    PROVE  /\ Written(x, o) \in Stored(x) /\ Written(x, o).id = o.id /\ Written(x, o).inc = Life(o)
           /\ \E m \in Written(x, o).msgs : m.by = o.number
           /\ o.seen = None => Written(x, o).rev = 1
           /\ o.seen # None =>
                /\ Written(x, o).rev = o.seen.rev + 1
                /\ o.seen.msgs \subseteq Written(x, o).msgs
                /\ \A m \in Written(x, o).msgs \ o.seen.msgs : m.base \in {S(x)!Unminted, o.seen.inc}
<1>1. /\ Candidate(x, o.cand, o.number) /\ ~S(x)!StaleIncarnation(o.cand, o.seen) /\ o.id \in Ids[x]
      /\ body[o.id] = o.seen /\ minted \in Nat /\ clock \in Nat
      /\ o.cand.id = o.id
      /\ o.seen # None => o.seen.id = o.id
  BY DEF Commits, Writer, IInv, BodyInv
<1>2. o.cand \in Stored(x) /\ \E m \in o.cand.msgs : m.by = o.number BY <1>1 DEF Candidate
<1>3. CASE o.seen = None
  <2>1. Written(x, o) = [o.cand EXCEPT !.inc = minted + 1, !.rev = 1, !.at = clock]
    BY <1>3 DEF Written, Merged, Life
  <2>2. /\ Written(x, o) \in Stored(x) /\ Written(x, o).inc = minted + 1 /\ Written(x, o).rev = 1
        /\ Written(x, o).msgs = o.cand.msgs /\ Written(x, o).id = o.cand.id
    <3>1. Written(x, o) = [id |-> o.cand.id, inc |-> minted + 1, rev |-> 1, msgs |-> o.cand.msgs,
                           at |-> clock]
      BY <1>2, <2>1 DEF Stored
    <3>2. minted + 1 \in Nat /\ o.cand.id \in Ids[x] /\ o.cand.msgs \in Messages
      BY <1>1, <1>2 DEF Stored
    <3>3. QED BY <1>1, <3>1, <3>2 DEF Stored
  <2>3. Written(x, o).id = o.id BY <1>1, <2>2
  <2>4. QED BY <1>2, <1>3, <2>2, <2>3 DEF Life
<1>4. CASE o.seen # None
  <2> DEFINE all == IF o.cand.rev >= o.seen.rev THEN o.cand.msgs
                    ELSE o.seen.msgs \cup o.cand.msgs
  <2>1. o.seen \in Stored(x) /\ o.seen.rev \in Nat /\ o.seen.rev >= 1 /\ o.cand.rev \in Nat
    BY <1>1, <1>2, <1>4 DEF IInv, BodyInv, Stored
  <2> DEFINE merged == [o.seen EXCEPT !.msgs = all]
  <2>2. Written(x, o) = [merged EXCEPT !.inc = o.seen.inc, !.rev = o.seen.rev + 1, !.at = clock]
    BY <1>4, <2>1 DEF Written, Merged, Life, S!mergeSessions, Stored
  <2>3. all \in Messages BY <1>2, <2>1, FS_Union DEF Stored, Messages
  <2>7. merged \in Stored(x) /\ merged.msgs = all /\ o.seen.inc \in Nat /\ merged.id = o.seen.id
    BY <2>1, <2>3 DEF Stored
  <2> HIDE DEF all, merged
  <2>4. /\ Written(x, o) \in Stored(x) /\ Written(x, o).inc = o.seen.inc
        /\ Written(x, o).rev = o.seen.rev + 1 /\ Written(x, o).msgs = all
        /\ Written(x, o).id = o.seen.id
    <3>1. Written(x, o) = [id |-> merged.id, inc |-> o.seen.inc, rev |-> o.seen.rev + 1,
                           msgs |-> all, at |-> clock]
      BY <2>2, <2>7 DEF Stored
    <3>2. o.seen.rev + 1 \in Nat /\ merged.id \in Ids[x] BY <2>1, <2>7 DEF Stored
    <3>3. QED BY <1>1, <2>3, <2>7, <3>1, <3>2 DEF Stored
  <2>5. o.seen.msgs \subseteq all /\ o.cand.msgs \subseteq all
        /\ \A m \in all \ o.seen.msgs : m \in o.cand.msgs /\ m.base \in {S(x)!Unminted, o.seen.inc}
    <3>1. CASE o.cand.inc = S(x)!Unminted
      <4>1. o.cand.rev = 0 /\ \A m \in o.cand.msgs : m.base = S(x)!Unminted
        BY <1>1, <3>1 DEF Candidate
      <4>2. all = o.seen.msgs \cup o.cand.msgs BY <2>1, <4>1 DEF all
      <4>3. QED BY <4>1, <4>2
    <3>2. CASE o.cand.inc = o.seen.inc
      <4>1. Lives(o.id, o.cand) BY <1>1, <1>4, <3>2 DEF Lives
      <4>2. /\ o.cand.rev <= o.seen.rev
            /\ o.cand.rev = o.seen.rev => o.seen.msgs \subseteq o.cand.msgs
            /\ \A m \in o.cand.msgs : m \in o.seen.msgs \/ m.base = o.seen.inc
        BY <1>1, <3>2, <4>1 DEF Candidate
      <4>3. o.cand.rev >= o.seen.rev => o.cand.rev = o.seen.rev BY <2>1, <4>2
      <4>4. QED BY <4>2, <4>3 DEF all
    <3>3. QED BY <1>1, <1>4, <3>1, <3>2 DEF S!StaleIncarnation
  <2>6. Written(x, o).id = o.id BY <1>1, <1>4, <2>4
  <2>8. QED BY <1>2, <1>4, <2>4, <2>5, <2>6 DEF Life
<1>5. QED BY <1>3, <1>4

LEMMA CommitLoses ==
    ASSUME NEW x \in Stores, IInv(x), NEW c \in Callers[x], S(x)!Set(c, S(x)!Again(c)),
           mine' = mine, acked' = acked,
           UNCHANGED <<body, clock, called>>, minted' = minted \/ minted' = minted + 1
    PROVE  IInv(x)'
<1>1. minted \in Nat /\ minted' \in Nat /\ minted <= minted' BY DEF IInv, BodyInv
<1>2. Grows(x) BY <1>1 DEF Grows
<1>3. BodyInv(x)' BY <1>1 DEF IInv, BodyInv, Stored
<1>4. MineInv(x)' BY <1>2, StillMine DEF IInv
<1>5. AckInv(x)' BY <1>1 DEF IInv, AckInv, S!NoLostMessage
<1>6. OpInv(x)'
  <2>1. PICK o : o = S(x)!Again(c) OBVIOUS
  <2>2. Operation(x, o) BY <2>1, AgainIsOperation DEF IInv, OpInv
  <2>3. Operation(x, o)' BY <1>2, <2>2, OperationStays DEF IInv
  <2>4. QED BY <1>2, <2>1, <2>3, OpMoves DEF IInv, S!Set
<1>7. QED BY <1>3, <1>4, <1>5, <1>6 DEF IInv

LEMMA CommitWins ==
    ASSUME NEW x \in Stores, IInv(x), NEW c \in Callers[x], NEW o, Commits(x, c, o) PROVE IInv(x)'
<1>1. PICK w : w = Written(x, o) OBVIOUS
<1>2. /\ w \in Stored(x) /\ w.id = o.id
      /\ w.inc = Life(o) /\ \E m \in w.msgs : m.by = o.number
      /\ o.seen = None => w.rev = 1
      /\ o.seen # None => w.rev = o.seen.rev + 1 /\ o.seen.msgs \subseteq w.msgs
  BY <1>1, WrittenGrows
<1>3. /\ o.id \in Ids[x] /\ body' = [body EXCEPT ![o.id] = w] /\ body[o.id] = o.seen
      /\ o.number \in Nat /\ minted \in Nat /\ called' = called
      /\ minted' = IF o.seen = None THEN minted + 1 ELSE minted
  BY <1>1 DEF Commits, Writer, IInv, BodyInv
<1>4. /\ DOMAIN body' = Ids[x] /\ body'[o.id] = w
      /\ \A i \in Ids[x] \ {o.id} : body'[i] = body[i]
  BY <1>3 DEF IInv, BodyInv
<1>5. /\ minted' \in Nat /\ minted <= minted'
      /\ o.seen = None => w.inc = minted + 1 /\ minted' = minted + 1
      /\ o.seen # None => w.inc = body[o.id].inc /\ minted' = minted
      /\ \A i \in Ids[x] : body[i] # None => body[i].inc \in Nat /\ body[i].inc <= minted
  BY <1>2, <1>3 DEF Life, IInv, BodyInv
<1>6. Grows(x)
  <2>1. ASSUME NEW i \in Ids[x], body'[i] # None
        PROVE  \/ body'[i] = body[i]
               \/ /\ body[i] # None /\ body'[i].inc = body[i].inc
                  /\ body'[i].rev = body[i].rev + 1 /\ body[i].msgs \subseteq body'[i].msgs
               \/ body'[i].inc > minted
    <3>1. CASE i # o.id BY <1>4, <3>1
    <3>2. CASE i = o.id /\ o.seen = None BY <1>3, <1>4, <1>5, <3>2
    <3>3. CASE i = o.id /\ o.seen # None BY <1>2, <1>3, <1>4, <1>5, <3>3
    <3>4. QED BY <3>1, <3>2, <3>3
  <2>2. QED BY <1>3, <1>5, <2>1 DEF Grows
<1>7. BodyInv(x)'
  <2>1. ASSUME NEW i \in Ids[x], body'[i] # None
        PROVE  /\ body'[i] \in Stored(x) /\ body'[i].id = i
               /\ body'[i].inc \in 1 .. minted' /\ body'[i].rev >= 1
    <3>1. CASE i # o.id BY <1>3, <1>4, <1>5, <2>1, <3>1 DEF IInv, BodyInv
    <3>2. CASE i = o.id /\ o.seen = None BY <1>2, <1>3, <1>4, <1>5, <3>2
    <3>3. CASE i = o.id /\ o.seen # None
      BY <1>2, <1>3, <1>4, <1>5, <3>3 DEF IInv, BodyInv, Stored
    <3>4. QED BY <3>1, <3>2, <3>3
  <2>2. ASSUME NEW i \in Ids[x], NEW j \in Ids[x], body'[i] # None, body'[j] # None,
               body'[i].inc = body'[j].inc
        PROVE  i = j
    <3>1. CASE o.seen = None BY <1>4, <1>5, <2>2, <3>1 DEF IInv, BodyInv
    <3>2. CASE o.seen # None BY <1>3, <1>4, <1>5, <2>2, <3>2 DEF IInv, BodyInv
    <3>3. QED BY <3>1, <3>2
  <2>3. clock' \in Nat BY ClockGoesOn DEF Commits, IInv
  <2>4. QED BY <1>3, <1>4, <1>5, <2>1, <2>2, <2>3 DEF IInv, BodyInv
<1>8. MineInv(x)'
  <2>1. Copy(x, w)'
    <3>2. w.inc \in 1 .. minted' /\ w.rev \in Nat /\ minted' \in Nat
      BY <1>2, <1>3, <1>5 DEF IInv, BodyInv, Stored
    <3>3. \A j \in Ids[x] : Lives(j, w)' => body'[j] = w
      <4>1. ASSUME NEW j \in Ids[x], body'[j] # None, body'[j].inc = w.inc, j # o.id PROVE FALSE
        <5>1. CASE o.seen = None BY <1>3, <1>4, <1>5, <4>1, <5>1
        <5>2. CASE o.seen # None BY <1>3, <1>4, <1>5, <4>1, <5>2 DEF IInv, BodyInv
        <5>3. QED BY <5>1, <5>2
      <4>2. QED BY <1>4, <4>1 DEF Lives
    <3>4. QED BY <1>2, <3>2, <3>3 DEF Copy, S!Unminted
  <2>2. ASSUME NEW d \in Callers[x], NEW p, p = mine'[d], p # None PROVE Copy(x, p)'
    <3>1. p = w \/ p = mine[d] BY <1>1, <2>2 DEF Commits, IInv, MineInv
    <3>2. CASE p = w BY <2>1, <3>2
    <3>3. CASE p = mine[d]
      <4>1. Copy(x, p) BY <2>2, <3>3 DEF IInv, MineInv
      <4>2. QED BY <1>6, <4>1, CopyStays DEF IInv
    <3>4. QED BY <3>1, <3>2, <3>3
  <2>3. ASSUME NEW d \in Callers[x], mine'[d] # None PROVE Copy(x, mine[d])'
    <3>1. PICK p : p = mine'[d] OBVIOUS
    <3>2. Copy(x, p)' BY <2>2, <2>3, <3>1
    <3>3. QED BY <3>1, <3>2 DEF Copy, Lives
  <2>4. DOMAIN mine' = Callers[x] BY DEF Commits, IInv, MineInv
  <2>5. QED BY <2>3, <2>4 DEF MineInv
<1>9. AckInv(x)'
  <2> DEFINE new == [inc |-> Life(o), by |-> o.number]
  <2>1. acked' = acked \cup {new} /\ new.inc = w.inc /\ new.by = o.number
    BY <1>2 DEF Commits
  <2> HIDE DEF new
  <2>2. w.inc \in 1 .. minted' BY <1>2, <1>3, <1>5 DEF IInv, BodyInv, Stored
  <2>3. ASSUME NEW a \in acked, NEW i \in Ids[x], body'[i] # None, body'[i].inc = a.inc
        PROVE  \E m \in body'[i].msgs : m.by = a.by
    <3>1. ~(a.inc > minted) /\ a.inc \in Nat BY <1>3 DEF IInv, AckInv
    <3>2. body[i] # None /\ body[i].inc = a.inc /\ body[i].msgs \subseteq body'[i].msgs
      BY <1>6, <2>3, <3>1 DEF Grows
    <3>3. QED BY <3>2 DEF IInv, AckInv, S!NoLostMessage
  <2>4. ASSUME NEW i \in Ids[x], body'[i] # None, body'[i].inc = new.inc
        PROVE  \E m \in body'[i].msgs : m.by = new.by
    <3>1. i = o.id
      <4>1. CASE o.seen = None BY <1>3, <1>4, <1>5, <2>1, <2>4, <4>1
      <4>2. CASE o.seen # None BY <1>3, <1>4, <1>5, <2>1, <2>4, <4>2 DEF IInv, BodyInv
      <4>3. QED BY <4>1, <4>2
    <3>2. QED BY <1>2, <1>4, <2>1, <3>1
  <2>5. \A a \in acked : a.inc \in 1 .. minted' BY <1>3, <1>5 DEF IInv, AckInv
  <2>6. QED BY <2>1, <2>2, <2>3, <2>4, <2>5 DEF AckInv, S!NoLostMessage
<1>10. S(x)!Done(c) BY DEF Commits
<1>11. QED BY <1>6, <1>7, <1>8, <1>9, <1>10, WriteKeeps

LEMMA CommitKeeps ==
    ASSUME NEW x \in Stores, IInv(x), NEW c \in Callers[x], S(x)!Commit(c) PROVE IInv(x)'
  BY CommitShape, CommitLoses, CommitWins

LEMMA InitKeeps == ASSUME NEW x \in Stores, S(x)!Init PROVE IInv(x)
<1>1. BodyInv(x) BY DEF S!Init, BodyInv
<1>2. MineInv(x) BY DEF S!Init, MineInv
<1>3. OpInv(x) BY IdleIsOperation DEF S!Init, OpInv
<1>4. AckInv(x) BY DEF S!Init, AckInv, S!NoLostMessage
<1>5. QED BY <1>1, <1>2, <1>3, <1>4 DEF IInv

LEMMA NextKeeps == ASSUME NEW x \in Stores, IInv(x), [S(x)!Next]_vars PROVE IInv(x)'
<1>1. ASSUME NEW c \in Callers[x], NEW id \in Ids[x], S(x)!Hold(c, S(x)!NewSession(id)) PROVE IInv(x)'
  <2>1. PICK s : s = S(x)!NewSession(id) OBVIOUS
  <2>2. Copy(x, s) BY <2>1, NewIsCopy DEF IInv
  <2>3. QED BY <1>1, <2>1, <2>2, HoldKeeps
<1>2. ASSUME NEW c \in Callers[x], NEW id \in Ids[x], body[id] # None, S(x)!Hold(c, body[id]) PROVE IInv(x)'
  <2>1. PICK s : s = body[id] OBVIOUS
  <2>2. Copy(x, s) BY <1>2, <2>1, BodyIsCopy DEF IInv
  <2>3. QED BY <1>2, <2>1, <2>2, HoldKeeps
<1>3. ASSUME NEW c \in Callers[x],
             \/ S(x)!CallSave(c) \/ S(x)!CallList(c)
             \/ \E id \in Ids[x] : S(x)!CallDelete(c, id) \/ \E u \in Updaters[x] : S(x)!CallUpdate(c, id, u)
             \/ \E t \in 2 .. clock : S(x)!CallCleanup(c, t)
      PROVE  IInv(x)'
  BY <1>3, CallSaveKeeps, CallListKeeps, CallDeleteKeeps, CallUpdateKeeps, CallCleanupKeeps
<1>4. ASSUME NEW c \in Callers[x],
             \/ \E what \in S(x)!AllThree : S(x)!Read(c, what)
             \/ S(x)!SaveDecides(c) \/ S(x)!UpdateDecides(c) \/ S(x)!UpdateReadsOrdinal(c) \/ S(x)!DeleteDecides(c)
             \/ \E id \in Ids[x] : S(x)!Scan(c, id)
      PROVE  IInv(x)'
  BY <1>4, ReadKeeps, SaveDecidesKeeps, UpdateDecidesKeeps, UpdateReadsOrdinalKeeps,
     DeleteDecidesKeeps, ScanKeeps
<1>5. ASSUME NEW c \in Callers[x],
             \/ \E id \in Ids[x] : S(x)!CleanupReads(c, id) \/ S(x)!ListLooks(c, id)
             \/ S(x)!CleanupReadsIndex(c) \/ S(x)!ListDecides(c) \/ S(x)!ListRebuilds(c) \/ S(x)!ListReads(c)
             \/ S(x)!ListRepairs(c) \/ S(x)!ListRepairReads(c)
      PROVE  IInv(x)'
  BY <1>5, CleanupReadsKeeps, ListLooksKeeps, CleanupReadsIndexKeeps, ListDecidesKeeps,
     ListRebuildsKeeps, ListReadsKeeps, ListRepairsKeeps
<1>6. ASSUME NEW c \in Callers[x], S(x)!Commit(c) \/ S(x)!DeleteSwaps(c) \/ S(x)!CleanupSwaps(c) PROVE IInv(x)'
  BY <1>6, CommitKeeps, DeleteSwapsKeeps, CleanupSwapsKeeps
<1>7. CASE UNCHANGED vars
  <2>1. UNCHANGED storeVars /\ UNCHANGED clock BY <1>7 DEF vars
  <2>2. Still BY <2>1 DEF storeVars, Still, IInv, BodyInv
  <2>3. mine' = mine /\ op' = op BY <2>1 DEF storeVars
  <2>4. Grows(x) /\ BodyInv(x)' /\ MineInv(x)' BY <2>2, <2>3, StillGrows, StillMine DEF IInv
  <2>5. ASSUME NEW d \in Callers[x] PROVE Operation(x, op[d])'
    <3>1. PICK o : o = op[d] OBVIOUS
    <3>2. Operation(x, o) BY <3>1 DEF IInv, OpInv
    <3>3. Operation(x, o)' BY <2>4, <3>2, OperationStays DEF IInv
    <3>4. QED BY <2>3, <3>1, <3>3
  <2>6. OpInv(x)' BY <2>3, <2>5 DEF IInv, OpInv
  <2>7. AckInv(x)' BY <2>1 DEF storeVars, IInv, AckInv, S!NoLostMessage
  <2>8. QED BY <2>4, <2>6, <2>7 DEF IInv
<1>8. QED BY <1>1, <1>2, <1>3, <1>4, <1>5, <1>6, <1>7 DEF S!Next

-----------------------------------------------------------------------------
(* The lives of a session.                                                 *)

LEMMA StepKeepsLives ==
    ASSUME NEW x \in Stores, IInv(x), [S(x)!Next]_vars PROVE S(x)!LifeGoesOn
<1>1. CASE body' = body BY <1>1 DEF S!LifeGoesOn
<1>2. ASSUME \A i \in Ids[x] : body'[i] # None => body'[i] = body[i] PROVE S(x)!LifeGoesOn
  BY <1>2 DEF S!LifeGoesOn
<1>3. ASSUME NEW c \in Callers[x], NEW o, Commits(x, c, o) PROVE S(x)!LifeGoesOn
  <2>1. PICK w : w = Written(x, o) OBVIOUS
  <2>2. /\ o.id \in Ids[x] /\ body[o.id] = o.seen /\ body'[o.id] = w
        /\ \A i \in Ids[x] \ {o.id} : body'[i] = body[i]
    BY <1>3, <2>1 DEF Commits, Writer, IInv, BodyInv
  <2>3. o.seen # None =>
          /\ w.inc = o.seen.inc /\ w.rev = o.seen.rev + 1
          /\ \A m \in w.msgs \ o.seen.msgs : m.base \in {S(x)!Unminted, o.seen.inc}
    BY <1>3, <2>1, WrittenGrows DEF Life
  <2>4. QED BY <2>2, <2>3 DEF S!LifeGoesOn
<1>4. ASSUME NEW c \in Callers[x], S(x)!Commit(c) PROVE S(x)!LifeGoesOn \/ body' = body
  BY <1>3, <1>4, CommitShape
<1>5. ASSUME NEW c \in Callers[x], S(x)!DeleteSwaps(c)
      PROVE  \A i \in Ids[x] : body'[i] # None => body'[i] = body[i]
  BY <1>5 DEF S!DeleteSwaps, IInv, BodyInv
<1>6. ASSUME NEW c \in Callers[x], S(x)!CleanupSwaps(c)
      PROVE  \A i \in Ids[x] : body'[i] # None => body'[i] = body[i]
  BY <1>6 DEF S!CleanupSwaps
<1>7. ASSUME NEW c \in Callers[x],
             \/ \E s : S(x)!Hold(c, s)
             \/ \E o : S(x)!Call(c, o)
             \/ \E what : S(x)!Read(c, what)
             \/ S(x)!SaveDecides(c) \/ S(x)!UpdateDecides(c) \/ S(x)!UpdateReadsOrdinal(c) \/ S(x)!DeleteDecides(c)
             \/ \E id \in Ids[x] : S(x)!Scan(c, id) \/ S(x)!CleanupReads(c, id) \/ S(x)!ListLooks(c, id)
             \/ S(x)!CleanupReadsIndex(c) \/ S(x)!ListDecides(c) \/ S(x)!ListRebuilds(c) \/ S(x)!ListReads(c)
             \/ S(x)!ListRepairs(c) \/ S(x)!ListRepairReads(c)
      PROVE  body' = body
  BY <1>7 DEF S!Hold, S!Call, S!Read, S!SaveDecides, S!UpdateDecides, S!UpdateReadsOrdinal,
     S!DeleteDecides,
     S!Scan, S!CleanupReads, S!ListLooks, S!CleanupReadsIndex, S!ListDecides, S!ListRebuilds, S!ListReads,
     S!ListRepairs, S!ListRepairReads
<1>8. ASSUME NEW c \in Callers[x],
             \/ S(x)!CallSave(c) \/ S(x)!CallList(c)
             \/ \E id \in Ids[x] : S(x)!CallDelete(c, id) \/ \E u \in Updaters[x] : S(x)!CallUpdate(c, id, u)
             \/ \E t \in 2 .. clock : S(x)!CallCleanup(c, t)
      PROVE  body' = body
  BY <1>8 DEF S!CallSave, S!CallList, S!CallDelete, S!CallUpdate, S!CallCleanup, S!Call
<1>9. UNCHANGED vars => body' = body BY DEF vars, storeVars
<1>10. QED BY <1>1, <1>2, <1>4, <1>5, <1>6, <1>7, <1>8, <1>9 DEF S!Next

-----------------------------------------------------------------------------
(* The summary index, if no two commits happen in one millisecond.         *)

\* Summaries of sessions of the past.
Table(x, f) ==
    /\ DOMAIN f \subseteq Ids[x] /\ f \in [DOMAIN f -> [at : Nat, count : Nat]]
    /\ \A i \in DOMAIN f : f[i].at < clock

\* What an operation knows of the index: the summaries it will write are those
\* it has read, or rebuilt because there was no index; and a session it has
\* found missing exists, if at all, since after its copy of the index.
Indexer(x, o) ==
    /\ o.idx # None => Table(x, o.idx)
    /\ Table(x, o.sums)
    /\ o.pc = "scan" => o.idx = None
    /\ o.pc = "swap" /\ o.idx # None => o.sums = o.idx
    /\ o.pc = "bodies" => o.name = "cleanup"
    /\ o.pc = "repair" => o.idx # None
    /\ o.name = "list" =>
         /\ o.pc \notin {"page", "recheck", "repair", "repairRead"} => o.gone = {}
         /\ o.idx # None =>
              \A i \in o.gone \cap DOMAIN o.idx : body[i] # None => o.idx[i].at < body[i].at

IndexInv(x) ==
    /\ S(x)!IndexFaithful
    /\ index # None => Table(x, index)
    /\ \A i \in Ids[x] : body[i] # None => body[i].at < clock
    /\ \A c \in Callers[x] : Indexer(x, op[c])

\* The index is as it was read, or time goes on.
Ages(x) ==
    /\ clock \in Nat /\ clock' \in Nat /\ clock <= clock'
    /\ \A i \in Ids[x] : body'[i] # None => body'[i] = body[i] \/ body'[i].at = clock

LEMMA TableStays == ASSUME NEW x \in Stores, Ages(x), NEW f, Table(x, f) PROVE Table(x, f)'
  BY DEF Ages, Table

LEMMA IndexerStays == ASSUME NEW x \in Stores, Ages(x), NEW o, Indexer(x, o) PROVE Indexer(x, o)'
<1>1. Table(x, o.sums)' /\ (o.idx # None => Table(x, o.idx)') BY TableStays DEF Indexer
<1>2. ASSUME o.name = "list", o.idx # None, NEW i \in o.gone \cap DOMAIN o.idx, body'[i] # None
      PROVE  o.idx[i].at < body'[i].at
  <2>1. i \in Ids[x] /\ o.idx[i].at < clock BY <1>2 DEF Indexer, Table
  <2>2. body[i] # None => o.idx[i].at < body[i].at BY <1>2 DEF Indexer
  <2>3. QED BY <1>2, <2>1, <2>2 DEF Ages
<1>3. QED BY <1>1, <1>2 DEF Indexer

LEMMA IndexOpMoves ==
    ASSUME NEW x \in Stores, OpInv(x), IndexInv(x), Ages(x), NEW c \in Callers[x], NEW o,
           op' = [op EXCEPT ![c] = o], Indexer(x, o)'
    PROVE  \A d \in Callers[x] : Indexer(x, op[d])'
<1>1. ASSUME NEW d \in Callers[x], NEW p, p = op'[d] PROVE Indexer(x, p)'
  <2>1. CASE d = c BY <1>1, <2>1 DEF OpInv
  <2>2. CASE d # c
    <3>1. p = op[d] BY <1>1, <2>2 DEF OpInv
    <3>2. Indexer(x, p) BY <3>1 DEF IndexInv
    <3>3. QED BY <3>2, IndexerStays
  <2>3. QED BY <2>1, <2>2
<1>2. ASSUME NEW d \in Callers[x] PROVE Indexer(x, op[d])'
  <2>1. PICK p : p = op'[d] OBVIOUS
  <2>2. Indexer(x, p)' BY <1>1, <2>1
  <2>3. QED BY <2>1, <2>2 DEF Indexer, Table
<1>3. QED BY <1>2

LEMMA SetKeepsIndex ==
    ASSUME NEW x \in Stores, IInv(x), IndexInv(x), NEW c \in Callers[x], NEW o, S(x)!Set(c, o),
           Indexer(x, o),
           UNCHANGED <<body, index, clock>>
    PROVE  IndexInv(x)'
<1>1. Ages(x) BY DEF Ages, IInv, BodyInv
<1>2. Indexer(x, o)' BY <1>1, IndexerStays
<1>3. \A d \in Callers[x] : Indexer(x, op[d])' BY <1>1, <1>2, IndexOpMoves DEF IInv, S!Set
<1>4. index' # None => Table(x, index)' BY DEF IndexInv, Table
<1>5. S(x)!IndexFaithful' BY DEF IndexInv, S!IndexFaithful
<1>6. QED BY <1>3, <1>4, <1>5 DEF IndexInv

LEMMA NoSummariesTable == ASSUME NEW x \in Stores PROVE Table(x, S(x)!NoSummaries)
  BY DEF Table, S!NoSummaries

LEMMA IdleIndexer == ASSUME NEW x \in Stores PROVE Indexer(x, S(x)!Idle)
  BY NoSummariesTable DEF Indexer, S!Idle

\* Copies of the index that are used again.
LEMMA SummariesIndexer ==
    ASSUME NEW x \in Stores, NEW o, DOMAIN o = DOMAIN S(x)!Idle, o.idx # None => Table(x, o.idx),
           o.name = "list" => o.gone = {}
    PROVE  Indexer(x, S(x)!Summaries(o))
<1> DEFINE q == S(x)!Summaries(o)
<1>1. CASE o.idx = None
  <2>1. /\ q.name = o.name /\ q.pc = "scan" /\ q.idx = None /\ q.sums = S(x)!NoSummaries
        /\ q.gone = o.gone
    BY <1>1 DEF S!Summaries, S!Idle
  <2> HIDE DEF q
  <2>2. Indexer(x, q) BY <2>1, NoSummariesTable DEF Indexer
  <2>3. QED BY <2>2 DEF q
<1>2. CASE o.idx # None
  <2>1. /\ q.name = o.name /\ q.pc = "swap" /\ q.idx = o.idx /\ q.sums = o.idx
        /\ q.gone = o.gone
    BY <1>2 DEF S!Summaries, S!Idle
  <2> HIDE DEF q
  <2>2. Indexer(x, q) BY <1>2, <2>1 DEF Indexer
  <2>3. QED BY <2>2 DEF q
<1>3. QED BY <1>1, <1>2

\* The store's Cardinality is the library's.
LEMMA StoreCardinality == \A x, T : S(x)!Cardinality(T) = Cardinality(T)
  BY DEF S!Cardinality, Cardinality

\* The summary of a stored session.
LEMMA SummaryTable ==
    ASSUME NEW x \in Stores, IInv(x), IndexInv(x), NEW id \in Ids[x], body[id] # None, NEW f,
           Table(x, f)
    PROVE  Table(x, S(x)!Including(f, id, body[id]))
<1> DEFINE s == S(x)!toSummary(body[id])
           g == S(x)!Including(f, id, body[id])
<1>1. body[id] \in Stored(x) /\ body[id].at < clock BY DEF IInv, BodyInv, IndexInv
<1>2. s \in [at : Nat, count : Nat] /\ s.at = body[id].at
  BY <1>1, FS_CardinalityType, StoreCardinality DEF S!toSummary, Stored, Messages
<1> HIDE DEF s
<1>3. DOMAIN g = DOMAIN f \cup {id} /\ \A i \in DOMAIN g : g[i] = IF i = id THEN s ELSE f[i]
  BY DEF S!Including, s
<1>4. g = [i \in DOMAIN g |-> g[i]] BY DEF S!Including
<1> HIDE DEF g
<1>5. Table(x, g) BY <1>1, <1>2, <1>3, <1>4 DEF Table
<1>6. QED BY <1>5 DEF g, s

\* An operation none of whose fields about the index change, but the place.
LEMMA SameIndexer ==
    ASSUME NEW x \in Stores, NEW o, NEW p, Indexer(x, o), p.name = o.name, p.idx = o.idx,
           p.sums = o.sums,
           p.gone = o.gone, p.pc \notin {"scan", "swap", "bodies", "repair"},
           p.name = "list" => (p.pc \in {"page", "recheck", "repair", "repairRead"} \/ o.gone = {})
    PROVE  Indexer(x, p)
  BY DEF Indexer

LEMMA ReadingKeepsIndex ==
    ASSUME NEW x \in Stores, IInv(x), IndexInv(x), NEW c \in Callers[x],
           NEW what \in S(x)!AllThree, S(x)!Read(c, what)
    PROVE  IndexInv(x)'
<1>1. PICK u : u = op[c] OBVIOUS
<1> DEFINE r == [u EXCEPT !.left = @ \ {what}]
           o == CASE what = "body" -> [r EXCEPT !.seen = body[r.id]]
                  [] what = "index" -> [r EXCEPT !.idx = index]
                  [] what = "ordinal" -> [r EXCEPT !.ord = ordinal]
<1>2. Operation(x, u) /\ Indexer(x, u) /\ u.pc = "read" /\ S(x)!Set(c, o)
  BY <1>1 DEF IInv, OpInv, IndexInv, S!Read
<1>3. /\ o.name = u.name /\ o.pc = u.pc /\ o.sums = u.sums /\ o.gone = u.gone
      /\ o.idx = IF what = "index" THEN index ELSE u.idx
  BY <1>2 DEF Operation, S!Idle, S!AllThree
<1> HIDE DEF o
<1>4. Indexer(x, o) BY <1>2, <1>3 DEF Indexer, IndexInv
<1>5. QED BY <1>2, <1>4, SetKeepsIndex DEF S!Read

LEMMA DecidingKeepsIndex ==
    ASSUME NEW x \in Stores, IInv(x), IndexInv(x), NEW c \in Callers[x],
           S(x)!SaveDecides(c) \/ S(x)!UpdateDecides(c) \/ S(x)!UpdateReadsOrdinal(c) \/ S(x)!DeleteDecides(c)
    PROVE  IndexInv(x)'
<1>1. PICK u : u = op[c] OBVIOUS
<1>2. DOMAIN u = DOMAIN S(x)!Idle /\ Indexer(x, u) BY <1>1 DEF IInv, OpInv, Operation, IndexInv
<1>3. UNCHANGED <<body, index, clock>>
  BY DEF S!SaveDecides, S!UpdateDecides, S!UpdateReadsOrdinal, S!DeleteDecides
<1>4. ASSUME S(x)!Set(c, S(x)!Summaries(u)), u.name # "list" PROVE IndexInv(x)'
  <2>1. Indexer(x, S(x)!Summaries(u)) BY <1>2, <1>4, SummariesIndexer DEF Indexer
  <2>2. QED BY <1>3, <1>4, <2>1, SetKeepsIndex
<1>5. CASE S(x)!SaveDecides(c) \/ S(x)!DeleteDecides(c)
  <2>1. u.name # "list" /\ (S(x)!Set(c, S(x)!Idle) \/ S(x)!Set(c, S(x)!Summaries(u)))
    BY <1>1, <1>5 DEF S!SaveDecides, S!DeleteDecides
  <2>2. QED BY <1>3, <1>4, <2>1, IdleIndexer, SetKeepsIndex
<1>6. CASE S(x)!UpdateReadsOrdinal(c)
  <2> DEFINE q == [u EXCEPT !.ord = ordinal]
  <2>1. /\ DOMAIN q = DOMAIN S(x)!Idle /\ q.idx = u.idx /\ q.name = u.name /\ q.gone = u.gone
        /\ u.pc = "ordinal" /\ S(x)!Set(c, S(x)!Summaries(q))
    BY <1>1, <1>2, <1>6 DEF S!Idle, S!UpdateReadsOrdinal
  <2> HIDE DEF q
  <2>2. Indexer(x, S(x)!Summaries(q)) BY <1>2, <2>1, SummariesIndexer DEF Indexer
  <2>3. QED BY <1>3, <2>1, <2>2, SetKeepsIndex
<1>7. CASE S(x)!UpdateDecides(c)
  <2>1. PICK cand : S(x)!Set(c, S(x)!Idle) \/ S(x)!Set(c, [u EXCEPT !.pc = "ordinal", !.cand = cand])
    BY <1>1, <1>7 DEF S!UpdateDecides
  <2> DEFINE q == [u EXCEPT !.pc = "ordinal", !.cand = cand]
  <2>2. /\ q.name = u.name /\ q.idx = u.idx /\ q.sums = u.sums /\ q.gone = u.gone
        /\ q.pc = "ordinal" /\ u.name = "update"
    BY <1>1, <1>2, <1>7 DEF S!Idle, S!UpdateDecides
  <2>3. S(x)!Set(c, S(x)!Idle) \/ S(x)!Set(c, q) BY <2>1
  <2> HIDE DEF q
  <2>4. Indexer(x, q) BY <1>2, <2>2, SameIndexer
  <2>5. QED BY <1>3, <2>3, <2>4, IdleIndexer, SetKeepsIndex
<1>8. QED BY <1>5, <1>6, <1>7

LEMMA ScanKeepsIndex ==
    ASSUME NEW x \in Stores, IInv(x), IndexInv(x), NEW c \in Callers[x], NEW id \in Ids[x],
           S(x)!Scan(c, id)
    PROVE  IndexInv(x)'
<1>1. PICK u : u = op[c] OBVIOUS
<1> DEFINE o == [u EXCEPT !.todo = @ \ {id}]
           p == IF body[id] = None THEN o ELSE [o EXCEPT !.sums = S(x)!Including(@, id, body[id])]
           q == IF p.todo = {} THEN [p EXCEPT !.pc = "swap"] ELSE p
<1>2. Operation(x, u) /\ Indexer(x, u) /\ u.pc = "scan" /\ S(x)!Set(c, q)
  BY <1>1 DEF IInv, OpInv, IndexInv, S!Scan
<1>3. /\ DOMAIN p = DOMAIN S(x)!Idle /\ p.name = u.name /\ p.pc = "scan" /\ p.idx = u.idx
      /\ p.gone = u.gone
      /\ p.sums = IF body[id] = None THEN u.sums ELSE S(x)!Including(u.sums, id, body[id])
  BY <1>2 DEF Operation, S!Idle
<1> HIDE DEF p
<1>4. /\ q.name = u.name /\ q.pc \in {"scan", "swap"} /\ q.idx = u.idx
      /\ q.gone = u.gone /\ q.sums = p.sums
  BY <1>3 DEF S!Idle
<1>5. Table(x, p.sums) BY <1>2, <1>3, SummaryTable DEF Indexer
<1> HIDE DEF q
<1>6. Indexer(x, q) BY <1>2, <1>4, <1>5 DEF Indexer
<1>7. QED BY <1>2, <1>6, SetKeepsIndex DEF S!Scan

LEMMA CleaningKeepsIndex ==
    ASSUME NEW x \in Stores, IInv(x), IndexInv(x), NEW c \in Callers[x],
           S(x)!CleanupReadsIndex(c) \/ \E id \in Ids[x] : S(x)!CleanupReads(c, id)
    PROVE  IndexInv(x)'
<1>1. PICK u : u = op[c] OBVIOUS
<1>2. DOMAIN u = DOMAIN S(x)!Idle /\ Indexer(x, u) BY <1>1 DEF IInv, OpInv, Operation, IndexInv
<1>3. UNCHANGED <<body, index, clock>> BY DEF S!CleanupReads, S!CleanupReadsIndex
<1>4. CASE S(x)!CleanupReadsIndex(c)
  <2> DEFINE q == [u EXCEPT !.idx = index]
  <2>1. /\ DOMAIN q = DOMAIN S(x)!Idle /\ q.idx = index /\ q.name = u.name /\ q.gone = u.gone
        /\ u.pc = "index" /\ S(x)!Set(c, S(x)!Summaries(q))
    BY <1>1, <1>2, <1>4 DEF S!Idle, S!CleanupReadsIndex
  <2> HIDE DEF q
  <2>2. Indexer(x, S(x)!Summaries(q)) BY <1>2, <2>1, SummariesIndexer DEF Indexer, IndexInv
  <2>3. QED BY <1>3, <2>1, <2>2, SetKeepsIndex
<1>5. ASSUME NEW id \in Ids[x], S(x)!CleanupReads(c, id) PROVE IndexInv(x)'
  <2> DEFINE o == [u EXCEPT !.todo = @ \ {id}, !.seen[id] = body[id]]
             old == {i \in Ids[x] : o.seen[i] # None /\ o.seen[i].at < o.cutoff}
             p == IF o.todo # {} THEN o ELSE IF old = {} THEN S(x)!Idle
                  ELSE [o EXCEPT !.pc = "index", !.gone = old]
  <2>1. S(x)!Set(c, p) /\ u.name = "cleanup" /\ u.pc = "bodies"
    BY <1>1, <1>2, <1>5 DEF S!CleanupReads, Indexer
  <2>2. /\ DOMAIN o = DOMAIN S(x)!Idle /\ o.name = u.name /\ o.pc = u.pc /\ o.idx = u.idx
        /\ o.sums = u.sums /\ o.gone = u.gone
    BY <1>2 DEF S!Idle
  <2> HIDE DEF o
  <2>3. \/ p = S(x)!Idle
        \/ p.name = "cleanup" /\ p.pc \in {"bodies", "index"} /\ p.idx = u.idx /\ p.sums = u.sums
    BY <2>1, <2>2 DEF S!Idle
  <2> HIDE DEF p
  <2>4. Indexer(x, p) BY <1>2, <2>3, IdleIndexer DEF Indexer
  <2>5. QED BY <1>3, <2>1, <2>4, SetKeepsIndex
<1>6. QED BY <1>4, <1>5

LEMMA WriteKeepsIndex ==
    ASSUME NEW x \in Stores, IInv(x), IndexInv(x), Ages(x), S(x)!IndexFaithful',
           index' # None => Table(x, index)',
           \A i \in Ids[x] : body'[i] # None => body'[i].at < clock',
           NEW c \in Callers[x], NEW o, S(x)!Set(c, o), Indexer(x, o)
    PROVE  IndexInv(x)'
<1>1. Indexer(x, o)' BY IndexerStays
<1>2. \A d \in Callers[x] : Indexer(x, op[d])' BY <1>1, IndexOpMoves DEF IInv, S!Set
<1>3. QED BY <1>2 DEF IndexInv

\* A page is read with a copy of the index, or with none.
LEMMA PageIndexer ==
    ASSUME NEW x \in Stores, NEW o, DOMAIN o = DOMAIN S(x)!Idle, Indexer(x, o), o.gone = {},
           NEW sums
    PROVE  Indexer(x, S(x)!Page(o, sums))
<1> DEFINE p == [o EXCEPT !.pc = "page", !.todo = DOMAIN sums]
<1>1. /\ p.name = o.name /\ p.pc = "page" /\ p.idx = o.idx /\ p.sums = o.sums
      /\ p.gone = o.gone
  BY DEF S!Idle
<1>2. S(x)!Page(o, sums) = S(x)!Idle \/ S(x)!Page(o, sums) = p BY DEF S!Page
<1> HIDE DEF p
<1>3. Indexer(x, p) BY <1>1, SameIndexer
<1>4. QED BY <1>2, <1>3, IdleIndexer

LEMMA ListingKeepsIndex ==
    ASSUME NEW x \in Stores, IInv(x), IndexInv(x), NEW c \in Callers[x],
           S(x)!ListDecides(c) \/ S(x)!ListReads(c)
    PROVE  IndexInv(x)'
<1>1. PICK u : u = op[c] OBVIOUS
<1>2. DOMAIN u = DOMAIN S(x)!Idle /\ Indexer(x, u) /\ u.name = "list" /\ u.pc \in {"read", "reread"}
  BY <1>1 DEF IInv, OpInv, Operation, IndexInv, S!ListDecides, S!ListReads
<1>3. u.gone = {} BY <1>2 DEF Indexer
<1>4. UNCHANGED <<body, index, clock>> BY DEF S!ListDecides, S!ListReads
<1> DEFINE q == [u EXCEPT !.idx = index]
<1>5. /\ DOMAIN q = DOMAIN S(x)!Idle /\ q.name = u.name /\ q.pc = u.pc /\ q.idx = index
      /\ q.sums = u.sums /\ q.gone = u.gone
  BY <1>2 DEF S!Idle
<1>6. \/ S(x)!Set(c, S(x)!Summaries(u)) \/ \E sums : S(x)!Set(c, S(x)!Page(u, sums))
      \/ \E sums : S(x)!Set(c, S(x)!Page(q, sums))
  BY <1>1 DEF S!ListDecides, S!ListReads
<1> HIDE DEF q
<1>7. Indexer(x, q) BY <1>2, <1>3, <1>5 DEF Indexer, IndexInv
<1>8. Indexer(x, S(x)!Summaries(u)) BY <1>2, <1>3, SummariesIndexer DEF Indexer
<1>9. CASE S(x)!Set(c, S(x)!Summaries(u)) BY <1>4, <1>8, <1>9, SetKeepsIndex
<1>10. ASSUME NEW sums, S(x)!Set(c, S(x)!Page(u, sums)) PROVE IndexInv(x)'
  <2>1. Indexer(x, S(x)!Page(u, sums)) BY <1>2, <1>3, PageIndexer
  <2>2. QED BY <1>4, <1>10, <2>1, SetKeepsIndex
<1>11. ASSUME NEW sums, S(x)!Set(c, S(x)!Page(q, sums)) PROVE IndexInv(x)'
  <2>1. Indexer(x, S(x)!Page(q, sums)) BY <1>3, <1>5, <1>7, PageIndexer
  <2>2. QED BY <1>4, <1>11, <2>1, SetKeepsIndex
<1>12. QED BY <1>6, <1>9, <1>10, <1>11

LEMMA RebuildingKeepsIndex ==
    ASSUME NEW x \in Stores, IInv(x), IndexInv(x), NEW c \in Callers[x], S(x)!ListRebuilds(c)
    PROVE  IndexInv(x)'
<1>1. PICK u : u = op[c] OBVIOUS
<1>2. DOMAIN u = DOMAIN S(x)!Idle /\ Indexer(x, u) /\ u.name = "list" /\ u.pc = "swap"
  BY <1>1 DEF IInv, OpInv, Operation, IndexInv, S!ListRebuilds
<1>3. u.gone = {} /\ Table(x, u.sums) BY <1>2 DEF Indexer
<1>4. body' = body /\ clock' = clock BY DEF S!ListRebuilds
<1>5. CASE index = u.idx
  <2> DEFINE q == [u EXCEPT !.idx = u.sums]
  <2>1. /\ DOMAIN q = DOMAIN S(x)!Idle /\ q.name = u.name /\ q.pc = u.pc /\ q.idx = u.sums
        /\ q.sums = u.sums /\ q.gone = u.gone
    BY <1>2 DEF S!Idle
  <2>2. index' = u.sums /\ S(x)!Set(c, S(x)!Page(q, u.sums))
    BY <1>1, <1>5 DEF S!ListRebuilds, S!IndexUnchanged
  <2> HIDE DEF q
  <2>3. Indexer(x, q) BY <1>2, <1>3, <2>1 DEF Indexer
  <2>4. Indexer(x, S(x)!Page(q, u.sums)) BY <1>3, <2>1, <2>3, PageIndexer
  <2>5. Ages(x) BY <1>4 DEF Ages, IInv, BodyInv
  <2>6. Table(x, index)' BY <1>3, <1>4, <2>2 DEF Table
  <2>7. S(x)!IndexFaithful'
    <3>1. CASE u.idx = None BY <1>4, <1>5, <3>1 DEF IndexInv, S!IndexFaithful
    <3>2. CASE u.idx # None BY <1>2, <1>4, <1>5, <2>2, <3>2 DEF Indexer, IndexInv, S!IndexFaithful
    <3>3. QED BY <3>1, <3>2
  <2>8. \A i \in Ids[x] : body'[i] # None => body'[i].at < clock' BY <1>4 DEF IndexInv
  <2>9. QED BY <2>2, <2>4, <2>5, <2>6, <2>7, <2>8, WriteKeepsIndex
<1>6. CASE index # u.idx
  <2> DEFINE q == [u EXCEPT !.pc = "reread"]
  <2>1. /\ q.name = u.name /\ q.pc = "reread" /\ q.idx = u.idx /\ q.sums = u.sums
        /\ q.gone = u.gone
    BY <1>2 DEF S!Idle
  <2>2. index' = index /\ S(x)!Set(c, q) BY <1>1, <1>6 DEF S!ListRebuilds, S!IndexUnchanged
  <2> HIDE DEF q
  <2>3. Indexer(x, q) BY <1>2, <1>3, <2>1, SameIndexer
  <2>4. QED BY <1>4, <2>2, <2>3, SetKeepsIndex
<1>7. QED BY <1>5, <1>6

LEMMA LookingKeepsIndex ==
    ASSUME NEW x \in Stores, IInv(x), IndexInv(x), NEW c \in Callers[x], NEW id \in Ids[x],
           S(x)!ListLooks(c, id)
    PROVE  IndexInv(x)'
<1>1. PICK u : u = op[c] OBVIOUS
<1> DEFINE o == [u EXCEPT !.todo = @ \ {id},
                          !.gone = IF body[id] = None THEN @ \cup {id} ELSE @]
           p == IF o.todo # {} THEN o
                ELSE IF o.gone = {} \/ o.idx = None THEN S(x)!Idle
                ELSE IF o.pc = "page"
                THEN [o EXCEPT !.pc = "recheck", !.todo = o.gone, !.gone = {}]
                ELSE [o EXCEPT !.pc = "repair"]
<1>2. /\ DOMAIN u = DOMAIN S(x)!Idle /\ Indexer(x, u) /\ u.pc \in {"page", "recheck"} /\ S(x)!Set(c, p)
  BY <1>1 DEF IInv, OpInv, Operation, IndexInv, S!ListLooks
<1>3. /\ DOMAIN o = DOMAIN S(x)!Idle /\ o.name = u.name /\ o.pc = u.pc /\ o.idx = u.idx
      /\ o.sums = u.sums /\ o.gone = IF body[id] = None THEN u.gone \cup {id} ELSE u.gone
  BY <1>2 DEF S!Idle
<1> HIDE DEF o
<1>4. Indexer(x, o) BY <1>2, <1>3 DEF Indexer
<1>5. \/ p = o \/ p = S(x)!Idle
      \/ /\ p.name = o.name /\ p.pc \in {"recheck", "repair"} /\ p.idx = o.idx /\ o.idx # None
         /\ p.sums = o.sums /\ p.gone \in {{}, o.gone}
  BY <1>3 DEF S!Idle
<1> HIDE DEF p
<1>6. Indexer(x, p) BY <1>4, <1>5, IdleIndexer DEF Indexer
<1>7. QED BY <1>2, <1>6, SetKeepsIndex DEF S!ListLooks

LEMMA RepairReadKeepsIndex ==
    ASSUME NEW x \in Stores, IInv(x), IndexInv(x), NEW c \in Callers[x], S(x)!ListRepairReads(c)
    PROVE  IndexInv(x)'
<1>1. PICK u : u = op[c] OBVIOUS
<1> DEFINE q == [u EXCEPT !.pc = "recheck", !.idx = index, !.tries = @ + 1,
                          !.todo = u.gone, !.gone = {}]
<1>2. DOMAIN u = DOMAIN S(x)!Idle /\ Indexer(x, u) BY <1>1 DEF IInv, OpInv, Operation, IndexInv
<1>3. q.name = u.name /\ q.pc = "recheck" /\ q.idx = index /\ q.sums = u.sums /\ q.gone = {}
  BY <1>2 DEF S!Idle
<1>4. S(x)!Set(c, S(x)!Idle) \/ S(x)!Set(c, q) BY <1>1 DEF S!ListRepairReads
<1> HIDE DEF q
<1>5. Indexer(x, q) BY <1>2, <1>3 DEF Indexer, IndexInv
<1>6. QED BY <1>4, <1>5, IdleIndexer, SetKeepsIndex DEF S!ListRepairReads

\* A part of a table is a table; and no table is taken for a missing index.
LEMMA RestrictedTable ==
    ASSUME NEW x \in Stores, S(x)!SessionStoreAssumption, NEW f, Table(x, f), NEW T
    PROVE  Table(x, S(x)!Restrict(f, DOMAIN f \ T)) /\ S(x)!Restrict(f, DOMAIN f \ T) # None
<1> DEFINE g == S(x)!Restrict(f, DOMAIN f \ T)
<1>1. DOMAIN g \subseteq DOMAIN f /\ \A i \in DOMAIN g : g[i] = f[i] BY DEF S!Restrict
<1>2. g = [i \in DOMAIN g |-> g[i]] BY DEF S!Restrict
<1> HIDE DEF g
<1>3. \A i \in DOMAIN g : g[i] \in [at : Nat, count : Nat] /\ g[i].at < clock
  BY <1>1 DEF Table
<1>4. g \in [DOMAIN g -> [at : Nat, count : Nat]] BY <1>2, <1>3
<1>5. Table(x, g) BY <1>1, <1>3, <1>4 DEF Table
<1>6. g # None BY <1>4, <1>5 DEF S!SessionStoreAssumption, Table
<1>7. QED BY <1>5, <1>6 DEF g

\* The repair drops no session that is there.
LEMMA RepairKeepsIndex ==
    ASSUME NEW x \in Stores, S(x)!SessionStoreAssumption, IInv(x), IndexInv(x),
           NEW c \in Callers[x], S(x)!ListRepairs(c)
    PROVE  IndexInv(x)'
<1>1. PICK u : u = op[c] OBVIOUS
<1>2. /\ DOMAIN u = DOMAIN S(x)!Idle /\ Indexer(x, u) /\ u.name = "list" /\ u.pc = "repair"
      /\ body' = body /\ clock' = clock
  BY <1>1 DEF IInv, OpInv, Operation, IndexInv, S!ListRepairs
<1>3. CASE index # u.idx
  <2> DEFINE q == [u EXCEPT !.pc = "repairRead"]
  <2>1. /\ q.name = u.name /\ q.pc = "repairRead" /\ q.idx = u.idx /\ q.sums = u.sums
        /\ q.gone = u.gone /\ index' = index /\ S(x)!Set(c, q)
    BY <1>1, <1>2, <1>3 DEF S!Idle, S!ListRepairs, S!IndexUnchanged
  <2> HIDE DEF q
  <2>2. Indexer(x, q) BY <1>2, <2>1, SameIndexer
  <2>3. QED BY <1>2, <2>1, <2>2, SetKeepsIndex
<1>4. CASE index = u.idx
  <2>1. index' = S(x)!Restrict(index, DOMAIN index \ u.gone) /\ S(x)!Set(c, S(x)!Idle)
    BY <1>1, <1>4 DEF S!ListRepairs, S!IndexUnchanged, S!Done
  <2>2. Ages(x) BY <1>2 DEF Ages, IInv, BodyInv
  <2>3. index # None BY <1>2, <1>4 DEF Indexer
  <2>4. \A i \in Ids[x] : body[i] # None => i \notin u.gone
    <3>1. ASSUME NEW i \in Ids[x], body[i] # None, i \in u.gone PROVE FALSE
      <4>1. i \in DOMAIN index /\ index[i] = S(x)!toSummary(body[i]) /\ body[i].at \in Nat
        BY <3>1 DEF IndexInv, S!IndexFaithful, IInv, BodyInv, Stored
      <4>2. index[i].at < body[i].at BY <1>2, <1>4, <2>3, <3>1, <4>1 DEF Indexer
      <4>3. QED BY <4>1, <4>2 DEF S!toSummary
    <3>2. QED BY <3>1
  <2>5. PICK f : f = S(x)!Restrict(index, DOMAIN index \ u.gone) OBVIOUS
  <2>6. Table(x, f) /\ f # None BY <2>3, <2>5, RestrictedTable DEF IndexInv
  <2>7. /\ DOMAIN f = DOMAIN index \ u.gone /\ \A i \in DOMAIN f : f[i] = index[i]
    BY <2>5 DEF S!Restrict
  <2>8. S(x)!IndexFaithful' BY <1>2, <2>1, <2>4, <2>5, <2>6, <2>7 DEF IndexInv, S!IndexFaithful
  <2>9. Table(x, index)'
    <3>1. Table(x, f)' BY <2>2, <2>6, TableStays
    <3>2. QED BY <2>1, <2>5, <3>1 DEF Table
  <2>10. \A i \in Ids[x] : body'[i] # None => body'[i].at < clock' BY <1>2 DEF IndexInv
  <2>11. QED BY <2>1, <2>2, <2>8, <2>9, <2>10, IdleIndexer, WriteKeepsIndex
<1>5. QED BY <1>3, <1>4

\* A call begins with no copy of the index.
LEMMA FreshIndexer ==
    ASSUME NEW x \in Stores, NEW o, o.idx = None, o.sums = S(x)!NoSummaries, o.gone = {},
           o.pc \in {"read", "bodies"}, o.pc = "bodies" => o.name = "cleanup"
    PROVE  Indexer(x, o)
  BY NoSummariesTable DEF Indexer

LEMMA CallingKeepsIndex ==
    ASSUME NEW x \in Stores, IInv(x), IndexInv(x), NEW c \in Callers[x], NEW o, S(x)!Call(c, o),
           Indexer(x, o)
    PROVE  IndexInv(x)'
<1>1. S(x)!Set(c, o) /\ UNCHANGED <<body, index, clock>> BY DEF S!Call, S!Set
<1>2. QED BY <1>1, SetKeepsIndex

LEMMA CallsKeepIndex ==
    ASSUME NEW x \in Stores, IInv(x), IndexInv(x), NEW c \in Callers[x],
           \/ S(x)!CallSave(c) \/ S(x)!CallList(c)
           \/ \E id \in Ids[x] : S(x)!CallDelete(c, id) \/ \E u \in Updaters[x] : S(x)!CallUpdate(c, id, u)
           \/ \E t \in 2 .. clock : S(x)!CallCleanup(c, t)
    PROVE  IndexInv(x)'
<1>1. CASE S(x)!CallSave(c)
  <2> DEFINE o == [S(x)!Idle EXCEPT !.name = "save", !.pc = "read", !.left = S(x)!AllThree,
                              !.id = mine[c].id, !.cand = S(x)!WithMessage(mine[c]),
                              !.number = called + 1]
  <2>1. o.idx = None /\ o.sums = S(x)!NoSummaries /\ o.gone = {} /\ o.pc = "read" BY DEF S!Idle
  <2>2. S(x)!Call(c, o) BY <1>1 DEF S!CallSave
  <2> HIDE DEF o
  <2>3. Indexer(x, o) BY <2>1, FreshIndexer
  <2>4. QED BY <2>2, <2>3, CallingKeepsIndex
<1>2. CASE S(x)!CallList(c)
  <2> DEFINE o == [S(x)!Idle EXCEPT !.name = "list", !.pc = "read", !.left = {"index"}]
  <2>1. o.idx = None /\ o.sums = S(x)!NoSummaries /\ o.gone = {} /\ o.pc = "read" BY DEF S!Idle
  <2>2. S(x)!Call(c, o) BY <1>2 DEF S!CallList
  <2> HIDE DEF o
  <2>3. Indexer(x, o) BY <2>1, FreshIndexer
  <2>4. QED BY <2>2, <2>3, CallingKeepsIndex
<1>3. ASSUME NEW id \in Ids[x], S(x)!CallDelete(c, id) PROVE IndexInv(x)'
  <2> DEFINE o == [S(x)!Idle EXCEPT !.name = "delete", !.pc = "read", !.left = S(x)!AllThree, !.id = id]
  <2>1. o.idx = None /\ o.sums = S(x)!NoSummaries /\ o.gone = {} /\ o.pc = "read" BY DEF S!Idle
  <2>2. S(x)!Call(c, o) BY <1>3 DEF S!CallDelete
  <2> HIDE DEF o
  <2>3. Indexer(x, o) BY <2>1, FreshIndexer
  <2>4. QED BY <2>2, <2>3, CallingKeepsIndex
<1>4. ASSUME NEW id \in Ids[x], NEW u, S(x)!CallUpdate(c, id, u) PROVE IndexInv(x)'
  <2> DEFINE o == [S(x)!Idle EXCEPT !.name = "update", !.pc = "read", !.left = {"body", "index"},
                              !.id = id, !.updater = u, !.number = called + 1,
                              !.cand = IF u = "held" THEN S(x)!WithMessage(mine[c]) ELSE None]
  <2>1. o.idx = None /\ o.sums = S(x)!NoSummaries /\ o.gone = {} /\ o.pc = "read" BY DEF S!Idle
  <2>2. S(x)!Call(c, o) BY <1>4 DEF S!CallUpdate
  <2> HIDE DEF o
  <2>3. Indexer(x, o) BY <2>1, FreshIndexer
  <2>4. QED BY <2>2, <2>3, CallingKeepsIndex
<1>5. ASSUME NEW t, S(x)!CallCleanup(c, t) PROVE IndexInv(x)'
  <2> DEFINE o == [S(x)!Idle EXCEPT !.name = "cleanup", !.pc = "bodies", !.cutoff = t, !.todo = Ids[x],
                              !.seen = [i \in Ids[x] |-> None]]
  <2>1. /\ o.idx = None /\ o.sums = S(x)!NoSummaries /\ o.gone = {} /\ o.pc = "bodies"
        /\ o.name = "cleanup"
    BY DEF S!Idle
  <2>2. S(x)!Call(c, o) BY <1>5 DEF S!CallCleanup
  <2> HIDE DEF o
  <2>3. Indexer(x, o) BY <2>1, FreshIndexer
  <2>4. QED BY <2>2, <2>3, CallingKeepsIndex
<1>6. QED BY <1>1, <1>2, <1>3, <1>4, <1>5

LEMMA HoldingKeepsIndex ==
    ASSUME NEW x \in Stores, IInv(x), IndexInv(x), NEW c, NEW s, S(x)!Hold(c, s) PROVE IndexInv(x)'
<1>1. UNCHANGED <<body, index, clock, op>> BY DEF S!Hold
<1>2. QED BY <1>1 DEF IndexInv, S!IndexFaithful, Table, Indexer

\* What a lost swap leaves.
LEMMA AgainIndexer ==
    ASSUME NEW x \in Stores, NEW c, DOMAIN op[c] = DOMAIN S(x)!Idle, Indexer(x, op[c]),
           op[c].name # "list"
    PROVE  Indexer(x, S(x)!Again(c))
<1> DEFINE o == op[c]
           q == [o EXCEPT !.tries = @ + 1]
           r == [q EXCEPT !.pc = "bodies", !.todo = Ids[x], !.seen = [i \in Ids[x] |-> None]]
           s == [q EXCEPT !.pc = "read",
                          !.left = IF q.name = "update" THEN {"body", "index"} ELSE S(x)!AllThree]
<1>1. /\ r.name = o.name /\ r.pc = "bodies" /\ r.idx = o.idx /\ r.sums = o.sums
      /\ s.name = o.name /\ s.pc = "read" /\ s.idx = o.idx /\ s.sums = o.sums
      /\ q.name = o.name
  BY DEF S!Idle
<1>2. S(x)!Again(c) = S(x)!Idle \/ (S(x)!Again(c) = r /\ q.name = "cleanup") \/ S(x)!Again(c) = s BY DEF S!Again
<1> HIDE DEF r, s, q
<1>3. (o.name = "cleanup" => Indexer(x, r)) /\ Indexer(x, s) BY <1>1 DEF Indexer
<1>4. QED BY <1>1, <1>2, <1>3, IdleIndexer

\* What is committed now is in the index as of now.
LEMMA IncludedTable ==
    ASSUME NEW x \in Stores, NEW f, Table(x, f), NEW id \in Ids[x], NEW w \in Stored(x),
           w.at = clock,
           clock \in Nat, clock' = clock + 1, NEW g, g = S(x)!Including(f, id, w)
    PROVE  /\ Table(x, g)' /\ id \in DOMAIN g /\ g[id] = S(x)!toSummary(w)
           /\ \A i \in DOMAIN f \ {id} : i \in DOMAIN g /\ g[i] = f[i]
<1>1. PICK s : s = S(x)!toSummary(w) OBVIOUS
<1>2. s \in [at : Nat, count : Nat] /\ s.at = clock
  BY <1>1, FS_CardinalityType, StoreCardinality DEF S!toSummary, Stored, Messages
<1>3. DOMAIN g = DOMAIN f \cup {id} /\ \A i \in DOMAIN g : g[i] = IF i = id THEN s ELSE f[i]
  BY <1>1 DEF S!Including
<1>4. g = [i \in DOMAIN g |-> g[i]] BY DEF S!Including
<1>5. \A i \in DOMAIN g : g[i] \in [at : Nat, count : Nat] /\ g[i].at < clock + 1
  BY <1>2, <1>3 DEF Table
<1>6. g \in [DOMAIN g -> [at : Nat, count : Nat]] BY <1>4, <1>5
<1>7. Table(x, g)' BY <1>3, <1>5, <1>6 DEF Table
<1>8. QED BY <1>1, <1>3, <1>7

\* A commit replaces the index by the one it has read, or rebuilt when there was
\* none and so no session either, with the session it writes.
LEMMA CommittingKeepsIndex ==
    ASSUME NEW x \in Stores, S(x)!SessionStoreAssumption, FineClock[x], IInv(x), IndexInv(x),
           NEW c \in Callers[x], S(x)!Commit(c)
    PROVE  IndexInv(x)'
<1>1. PICK o : o = op[c] OBVIOUS
<1>2. /\ DOMAIN o = DOMAIN S(x)!Idle /\ Writer(x, o) /\ Indexer(x, o) /\ o.name \in {"save", "update"}
      /\ o.pc = "swap"
  BY <1>1 DEF IInv, OpInv, Operation, IndexInv, S!Commit
<1>3. CASE body[o.id] = o.seen /\ S(x)!IndexUnchanged(c) /\ S(x)!OrdinalUnchanged(c)
  <2>1. PICK w : w = Written(x, o) OBVIOUS
  <2>2. PICK g : g = S(x)!Including(o.sums, o.id, w) OBVIOUS
  <2>3. /\ body' = [body EXCEPT ![o.id] = w] /\ index' = g /\ S(x)!NextClock /\ S(x)!Set(c, S(x)!Idle)
        /\ index = o.idx /\ Commits(x, c, o)
    BY <1>1, <1>2, <1>3, <2>1, <2>2 DEF S!Commit, Commits, Merged, Life, Written, S!Done,
       S!IndexUnchanged
  <2>4. w \in Stored(x) /\ o.id \in Ids[x] /\ clock \in Nat /\ clock' = clock + 1
    BY <1>2, <2>1, <2>3, WrittenGrows DEF Writer, S!NextClock, IInv, BodyInv
  <2>5. w.at = clock
    <3>1. DOMAIN Merged(x, o) = DOMAIN o.cand \/ DOMAIN Merged(x, o) = DOMAIN o.seen
      BY DEF Merged, S!mergeSessions
    <3>2. "at" \in DOMAIN Merged(x, o)
      <4>1. o.cand \in Stored(x) /\ (o.seen # None => o.seen \in Stored(x))
        BY <1>2 DEF Writer, Candidate, Copy
      <4>2. CASE o.seen = None BY <4>1, <4>2 DEF Merged, Stored
      <4>3. CASE o.seen # None BY <4>1, <4>3 DEF Merged, S!mergeSessions, Stored
      <4>4. QED BY <4>2, <4>3
    <3>3. QED BY <2>1, <3>2 DEF Written
  <2>6. /\ Table(x, g)' /\ o.id \in DOMAIN g /\ g[o.id] = S(x)!toSummary(w)
        /\ \A i \in DOMAIN o.sums \ {o.id} : i \in DOMAIN g /\ g[i] = o.sums[i]
    BY <1>2, <2>2, <2>4, <2>5, IncludedTable DEF Indexer
  <2>7. body'[o.id] = w /\ \A i \in Ids[x] \ {o.id} : body'[i] = body[i]
    BY <2>3, <2>4 DEF IInv, BodyInv
  <2>8. Ages(x) BY <2>4, <2>5, <2>7 DEF Ages
  <2>9. Table(x, index)' BY <2>3, <2>6 DEF Table
  <2>10. index' # None BY <2>3, <2>6 DEF S!SessionStoreAssumption, Table
  <2>11. S(x)!IndexFaithful'
    <3>1. ASSUME NEW i \in Ids[x], i # o.id, body[i] # None
          PROVE  i \in DOMAIN o.sums /\ o.sums[i] = S(x)!toSummary(body[i])
      BY <1>2, <2>3, <3>1 DEF Indexer, IndexInv, S!IndexFaithful
    <3>2. ASSUME NEW i \in Ids[x], body'[i] # None
          PROVE  i \in DOMAIN g /\ g[i] = S(x)!toSummary(body'[i])
      BY <2>6, <2>7, <3>1, <3>2
    <3>3. QED BY <2>3, <2>10, <3>2 DEF S!IndexFaithful
  <2>12. \A i \in Ids[x] : body'[i] # None => body'[i].at < clock'
    <3>1. ASSUME NEW i \in Ids[x], body'[i] # None PROVE body'[i].at < clock'
      <4>1. CASE i = o.id BY <2>4, <2>5, <2>7, <4>1
      <4>2. CASE i # o.id
        <5>1. body'[i] = body[i] BY <2>7, <4>2
        <5>2. body[i].at \in Nat /\ body[i].at < clock
          BY <3>1, <5>1 DEF IInv, BodyInv, IndexInv, Stored
        <5>3. QED BY <2>4, <5>1, <5>2
      <4>3. QED BY <4>1, <4>2
    <3>2. QED BY <3>1
  <2>13. QED BY <2>3, <2>8, <2>9, <2>11, <2>12, IdleIndexer, WriteKeepsIndex
<1>4. CASE ~(body[o.id] = o.seen /\ S(x)!IndexUnchanged(c) /\ S(x)!OrdinalUnchanged(c))
  <2>1. S(x)!Set(c, S(x)!Again(c)) /\ UNCHANGED <<body, index, clock>> BY <1>1, <1>4 DEF S!Commit
  <2>2. Indexer(x, S(x)!Again(c)) BY <1>1, <1>2, AgainIndexer
  <2>3. QED BY <2>1, <2>2, SetKeepsIndex
<1>5. QED BY <1>3, <1>4

\* Sessions are removed with their summaries: the index that is written is the
\* one that was read, or rebuilt when there was none and so no session either.
LEMMA RemovingKeepsIndex ==
    ASSUME NEW x \in Stores, S(x)!SessionStoreAssumption, FineClock[x], IInv(x), IndexInv(x),
           NEW c \in Callers[x],
           NEW o, o = op[c], Indexer(x, o), o.pc = "swap", index = o.idx, NEW ids,
           body' = [i \in Ids[x] |-> IF i \in ids THEN None ELSE body[i]],
           index' = S(x)!IndexWithout(o.sums, ids), S(x)!NextClock, S(x)!Done(c)
    PROVE  IndexInv(x)'
<1>1. clock \in Nat /\ clock' = clock + 1 BY DEF IInv, BodyInv, S!NextClock
<1>2. Ages(x) BY <1>1 DEF Ages
<1>3. PICK f : f = S(x)!Restrict(o.sums, DOMAIN o.sums \ ids) OBVIOUS
<1>4. Table(x, f) /\ f # None BY <1>3, RestrictedTable DEF Indexer
<1>5. /\ DOMAIN f = DOMAIN o.sums \ ids /\ \A i \in DOMAIN f : f[i] = o.sums[i]
  BY <1>3 DEF S!Restrict
<1>6. index' = IF DOMAIN o.sums \subseteq ids THEN None ELSE f BY <1>3 DEF S!IndexWithout
<1>7. index' # None => Table(x, index)'
  <2>1. Table(x, f)' BY <1>2, <1>4, TableStays
  <2>2. ASSUME index' # None PROVE Table(x, index)'
    <3>1. index' = f BY <1>6, <2>2
    <3>2. QED BY <2>1, <3>1 DEF Table
  <2>3. QED BY <2>2
<1>8. S(x)!IndexFaithful'
  <2>1. ASSUME NEW i \in Ids[x], body'[i] # None
        PROVE  index' # None /\ i \in DOMAIN index' /\ index'[i] = S(x)!toSummary(body'[i])
    <3>1. i \notin ids /\ body'[i] = body[i] BY <2>1
    <3>2. i \in DOMAIN o.sums /\ o.sums[i] = S(x)!toSummary(body[i])
      BY <2>1, <3>1 DEF Indexer, IndexInv, S!IndexFaithful
    <3>3. index' = f BY <1>6, <3>1, <3>2
    <3>4. QED BY <1>4, <1>5, <3>1, <3>2, <3>3
  <2>2. QED BY <2>1 DEF S!IndexFaithful
<1>9. \A i \in Ids[x] : body'[i] # None => body'[i].at < clock'
  <2>1. ASSUME NEW i \in Ids[x], body'[i] # None PROVE body'[i].at < clock'
    <3>1. body'[i] = body[i] BY <2>1
    <3>2. body[i].at \in Nat /\ body[i].at < clock
      BY <2>1, <3>1 DEF IInv, BodyInv, IndexInv, Stored
    <3>3. QED BY <1>1, <3>1, <3>2
  <2>2. QED BY <2>1
<1>10. QED BY <1>2, <1>7, <1>8, <1>9, IdleIndexer, WriteKeepsIndex DEF S!Done

LEMMA DeletingKeepsIndex ==
    ASSUME NEW x \in Stores, S(x)!SessionStoreAssumption, FineClock[x], IInv(x), IndexInv(x),
           NEW c \in Callers[x], S(x)!DeleteSwaps(c)
    PROVE  IndexInv(x)'
<1>1. PICK o : o = op[c] OBVIOUS
<1>2. DOMAIN o = DOMAIN S(x)!Idle /\ Indexer(x, o) /\ o.name = "delete" /\ o.pc = "swap"
  BY <1>1 DEF IInv, OpInv, Operation, IndexInv, S!DeleteSwaps
<1>3. CASE S(x)!Set(c, S(x)!Again(c)) /\ UNCHANGED <<body, index, clock>>
  <2>1. Indexer(x, S(x)!Again(c)) BY <1>1, <1>2, AgainIndexer
  <2>2. QED BY <1>3, <2>1, SetKeepsIndex
<1>4. CASE /\ index = o.idx /\ body' = [body EXCEPT ![o.id] = None]
           /\ index' = S(x)!IndexWithout(o.sums, {o.id}) /\ S(x)!NextClock /\ S(x)!Done(c)
  <2>1. body' = [i \in Ids[x] |-> IF i \in {o.id} THEN None ELSE body[i]]
    BY <1>4, Zenon DEF IInv, BodyInv
  <2>2. QED BY <1>1, <1>2, <1>4, <2>1, RemovingKeepsIndex
<1>5. QED BY <1>1, <1>3, <1>4 DEF S!DeleteSwaps, S!IndexUnchanged

LEMMA ExpiringKeepsIndex ==
    ASSUME NEW x \in Stores, S(x)!SessionStoreAssumption, FineClock[x], IInv(x), IndexInv(x),
           NEW c \in Callers[x], S(x)!CleanupSwaps(c)
    PROVE  IndexInv(x)'
<1>1. PICK o : o = op[c] OBVIOUS
<1>2. DOMAIN o = DOMAIN S(x)!Idle /\ Indexer(x, o) /\ o.name = "cleanup" /\ o.pc = "swap"
  BY <1>1 DEF IInv, OpInv, Operation, IndexInv, S!CleanupSwaps
<1>3. CASE S(x)!Set(c, S(x)!Again(c)) /\ UNCHANGED <<body, index, clock>>
  <2>1. Indexer(x, S(x)!Again(c)) BY <1>1, <1>2, AgainIndexer
  <2>2. QED BY <1>3, <2>1, SetKeepsIndex
<1>4. CASE /\ index = o.idx /\ body' = [i \in Ids[x] |-> IF i \in o.gone THEN None ELSE body[i]]
           /\ index' = S(x)!IndexWithout(o.sums, o.gone) /\ S(x)!NextClock /\ S(x)!Done(c)
  BY <1>1, <1>2, <1>4, RemovingKeepsIndex
<1>5. QED BY <1>1, <1>3, <1>4 DEF S!CleanupSwaps, S!IndexUnchanged

LEMMA InitIndexed == ASSUME NEW x \in Stores, S(x)!Init PROVE IndexInv(x)
  BY IdleIndexer DEF S!Init, IndexInv, S!IndexFaithful

LEMMA NextKeepsIndex ==
    ASSUME NEW x \in Stores, S(x)!SessionStoreAssumption, FineClock[x], IInv(x), IndexInv(x),
           [S(x)!Next]_vars
    PROVE  IndexInv(x)'
<1>1. ASSUME NEW c \in Callers[x],
             \/ \E id \in Ids[x] : S(x)!Hold(c, S(x)!NewSession(id)) \/ (body[id] # None /\ S(x)!Hold(c, body[id]))
             \/ S(x)!CallSave(c) \/ S(x)!CallList(c)
             \/ \E id \in Ids[x] : S(x)!CallDelete(c, id) \/ \E u \in Updaters[x] : S(x)!CallUpdate(c, id, u)
             \/ \E t \in 2 .. clock : S(x)!CallCleanup(c, t)
      PROVE  IndexInv(x)'
  <2>1. CASE \E s : S(x)!Hold(c, s) BY <2>1, HoldingKeepsIndex
  <2>2. CASE ~ \E s : S(x)!Hold(c, s) BY <1>1, <2>2, CallsKeepIndex
  <2>3. QED BY <2>1, <2>2
<1>2. ASSUME NEW c \in Callers[x],
             \/ \E what \in S(x)!AllThree : S(x)!Read(c, what)
             \/ S(x)!SaveDecides(c) \/ S(x)!UpdateDecides(c) \/ S(x)!UpdateReadsOrdinal(c) \/ S(x)!DeleteDecides(c)
             \/ \E id \in Ids[x] : S(x)!Scan(c, id) \/ S(x)!CleanupReads(c, id) \/ S(x)!ListLooks(c, id)
             \/ S(x)!CleanupReadsIndex(c)
      PROVE  IndexInv(x)'
  BY <1>2, ReadingKeepsIndex, DecidingKeepsIndex, ScanKeepsIndex, CleaningKeepsIndex,
     LookingKeepsIndex
<1>3. ASSUME NEW c \in Callers[x],
             \/ S(x)!ListDecides(c) \/ S(x)!ListRebuilds(c) \/ S(x)!ListReads(c)
             \/ S(x)!ListRepairs(c) \/ S(x)!ListRepairReads(c)
             \/ S(x)!Commit(c) \/ S(x)!DeleteSwaps(c) \/ S(x)!CleanupSwaps(c)
      PROVE  IndexInv(x)'
  BY <1>3, ListingKeepsIndex, RebuildingKeepsIndex, RepairKeepsIndex, RepairReadKeepsIndex,
     CommittingKeepsIndex, DeletingKeepsIndex, ExpiringKeepsIndex
<1>4. CASE UNCHANGED vars BY <1>4 DEF vars, storeVars, IndexInv, S!IndexFaithful, Table, Indexer
<1>5. QED BY <1>1, <1>2, <1>3, <1>4 DEF S!Next

-----------------------------------------------------------------------------
(* The outbox log and the lives it tells.                                  *)

Entry(x) == [kind : {"created", "saved", "deleted", "attachment"}, id : Ids[x], inc : Nat]

\* Deletions and cleanups: a cleanup removes sessions it has read.
Remover(x, o) ==
    /\ o.name = "delete" => o.id \in Ids[x]
    /\ o.pc = "ordinal" => o.name = "update"
    /\ o.name = "cleanup" /\ o.pc \in {"index", "scan", "swap"} =>
          \A i \in o.gone : i \in Ids[x] /\ o.seen[i] # None

\* The parts of LogTellsBodies.
AttachmentsFollow ==
    \A n \in DOMAIN log : log[n].kind = "attachment" =>
        n > 1 /\ log[n - 1].kind \in {"created", "saved"} /\ log[n - 1].inc = log[n].inc

StoriesBegin(x) ==
    \A n \in DOMAIN log : log[n].kind # "attachment" =>
        /\ log[n].kind = "created" <=> \A k \in S(x)!EntriesOf(log[n].inc) : ~(k < n)
        /\ \A k \in S(x)!EntriesOf(log[n].inc) :
              k < n => log[k].kind # "deleted" /\ log[k].id = log[n].id

RevisionsTold(x) ==
    \A i \in Ids[x] : body[i] # None =>
        Cardinality(S(x)!EntriesOf(body[i].inc)) = body[i].rev /\ body[i].inc \notin expired

EndsTold(x) ==
    \A n \in DOMAIN log :
        \/ \E k \in S(x)!EntriesOf(log[n].inc) : log[k].kind = "deleted"
        \/ log[n].inc \in expired
        \/ body[log[n].id] # None /\ body[log[n].id].inc = log[n].inc

\* The entries of a life that lasts are its own, and none is its end.
LivesLast(x) ==
    \A i \in Ids[x] : body[i] # None =>
        \A n \in S(x)!EntriesOf(body[i].inc) : log[n].id = i /\ log[n].kind # "deleted"

Past ==
    /\ expired \subseteq 1 .. minted
    /\ \A n \in DOMAIN log : log[n].inc \in 1 .. minted

LogInv(x) ==
    /\ log \in Seq(Entry(x)) /\ ordinal = Len(log)
    /\ Past /\ LivesLast(x)
    /\ AttachmentsFollow /\ StoriesBegin(x) /\ RevisionsTold(x) /\ EndsTold(x)

RemoverInv(x) == \A c \in Callers[x] : Remover(x, op[c])

LEMMA LogTells == ASSUME NEW x \in Stores PROVE LogInv(x) => S(x)!LogTellsBodies
<1>1. ASSUME StoriesBegin(x), NEW n \in DOMAIN log, log[n].kind # "attachment"
      PROVE  LET before == {k \in S(x)!EntriesOf(log[n].inc) : k < n}
             IN  /\ log[n].kind = "created" <=> before = {}
                 /\ \A k \in before : log[k].kind # "deleted" /\ log[k].id = log[n].id
  <2> DEFINE before == {k \in S(x)!EntriesOf(log[n].inc) : k < n}
  <2>1. before = {} <=> \A k \in S(x)!EntriesOf(log[n].inc) : ~(k < n) OBVIOUS
  <2>2. QED BY <1>1, <2>1 DEF StoriesBegin
<1>2. QED BY <1>1, StoreCardinality DEF LogInv, S!LogTellsBodies, AttachmentsFollow, RevisionsTold, EndsTold

LEMMA EntriesNameIds ==
    ASSUME NEW x \in Stores
    PROVE  LogInv(x) => \A n \in DOMAIN log : log[n] \in Entry(x) /\ log[n].id \in Ids[x]
<1>1. ASSUME log \in Seq(Entry(x)), NEW n \in DOMAIN log PROVE log[n] \in Entry(x) BY <1>1
<1>2. \A e \in Entry(x) : e.id \in Ids[x] BY DEF Entry
<1>3. QED BY <1>1, <1>2 DEF LogInv

\* A step that leaves the bodies and the log alone.
LEMMA StillTells ==
    ASSUME NEW x \in Stores, LogInv(x), UNCHANGED <<ordinal, log, expired>>,
           \A i \in Ids[x] : body'[i] = body[i],
           minted \in Nat, minted' \in Nat, minted <= minted'
    PROVE  LogInv(x)'
<1>1. \A n \in DOMAIN log : log[n].id \in Ids[x] BY EntriesNameIds
<1>2. \A inc : S(x)!EntriesOf(inc)' = S(x)!EntriesOf(inc) BY DEF S!EntriesOf
<1>3. Past' BY DEF LogInv, Past
<1>4. LivesLast(x)' /\ RevisionsTold(x)'
  <2>1. \A i \in Ids[x] : S(x)!EntriesOf(body[i].inc)' = S(x)!EntriesOf(body[i].inc) BY DEF S!EntriesOf
  <2>2. QED BY <2>1 DEF LogInv, LivesLast, RevisionsTold
<1>5. AttachmentsFollow' /\ StoriesBegin(x)'
  BY <1>2 DEF LogInv, AttachmentsFollow, StoriesBegin, S!EntriesOf
<1>6. EndsTold(x)' BY <1>1, <1>2 DEF LogInv, EndsTold, S!EntriesOf
<1>7. QED BY <1>3, <1>4, <1>5, <1>6 DEF LogInv

\* The log with one entry more and the attachment that came with it.
Appended(x, e) ==
    /\ e \in Entry(x) /\ e.kind # "attachment"
    /\ log' \in Seq(Entry(x)) /\ Len(log') \in {Len(log) + 1, Len(log) + 2}
    /\ \A n \in 1 .. Len(log) : log'[n] = log[n]
    /\ log'[Len(log) + 1] = e
    /\ Len(log') = Len(log) + 2 =>
          /\ log'[Len(log) + 2].kind = "attachment" /\ e.kind \in {"created", "saved"}
          /\ log'[Len(log) + 2].inc = e.inc /\ log'[Len(log) + 2].id = e.id
    /\ ordinal' = Len(log')

LEMMA EntriesGrow ==
    ASSUME NEW x \in Stores, LogInv(x), NEW e, Appended(x, e), NEW inc
    PROVE  S(x)!EntriesOf(inc)' = IF inc = e.inc THEN S(x)!EntriesOf(inc) \cup {Len(log) + 1}
                                  ELSE S(x)!EntriesOf(inc)
  BY DEF LogInv, Appended, S!EntriesOf

LEMMA EntriesAreFinite ==
    ASSUME NEW x \in Stores, LogInv(x), NEW inc
    PROVE  /\ S(x)!EntriesOf(inc) \subseteq 1 .. Len(log) /\ IsFiniteSet(S(x)!EntriesOf(inc))
           /\ Cardinality(S(x)!EntriesOf(inc) \cup {Len(log) + 1}) = Cardinality(S(x)!EntriesOf(inc)) + 1
<1>1. S(x)!EntriesOf(inc) \subseteq 1 .. Len(log) /\ Len(log) \in Nat BY DEF LogInv, S!EntriesOf
<1>2. IsFiniteSet(S(x)!EntriesOf(inc))
  <2>1. IsFiniteSet(1 .. Len(log)) BY <1>1, FS_Interval
  <2>2. QED BY <1>1, <2>1, FS_Subset
<1>3. Len(log) + 1 \notin S(x)!EntriesOf(inc) BY <1>1
<1>4. QED BY <1>1, <1>2, <1>3, FS_AddElement

\* An entry that fits the life it is of goes on with its story.
LEMMA StoryGoesOn ==
    ASSUME NEW x \in Stores, LogInv(x), NEW e, Appended(x, e),
           e.kind = "created" <=> S(x)!EntriesOf(e.inc) = {},
           \A k \in S(x)!EntriesOf(e.inc) : log[k].kind # "deleted" /\ log[k].id = e.id
    PROVE  AttachmentsFollow' /\ StoriesBegin(x)'
<1> DEFINE N == Len(log)
<1>1. N \in Nat /\ DOMAIN log = 1 .. N /\ DOMAIN log' = 1 .. Len(log')
  BY DEF LogInv, Appended
<1>2. AttachmentsFollow'
  <2>1. ASSUME NEW n \in DOMAIN log', log'[n].kind = "attachment"
        PROVE  n > 1 /\ log'[n - 1].kind \in {"created", "saved"} /\ log'[n - 1].inc = log'[n].inc
    <3>1. CASE n \in 1 .. N
      BY <1>1, <2>1, <3>1 DEF LogInv, Appended, AttachmentsFollow
    <3>2. CASE n = N + 1 BY <2>1, <3>2 DEF Appended
    <3>3. CASE n = N + 2 BY <1>1, <2>1, <3>3 DEF Appended
    <3>4. QED BY <1>1, <3>1, <3>2, <3>3 DEF Appended
  <2>2. QED BY <2>1 DEF AttachmentsFollow
<1>3. StoriesBegin(x)'
  <2>1. ASSUME NEW n \in DOMAIN log', log'[n].kind # "attachment",
               NEW T, T = S(x)!EntriesOf(log[n].inc)'
        PROVE  /\ log'[n].kind = "created" <=> \A k \in T : ~(k < n)
               /\ \A k \in T : k < n => log'[k].kind # "deleted" /\ log'[k].id = log'[n].id
    <3> PICK inc : inc = log'[n].inc OBVIOUS
    <3>1. T = S(x)!EntriesOf(inc)' BY <2>1 DEF S!EntriesOf
    <3>2. CASE n \in 1 .. N
      <4>1. log'[n] = log[n] BY <3>2 DEF Appended
      <4>2. PICK R : R = S(x)!EntriesOf(log[n].inc) OBVIOUS
      <4>3. R \subseteq 1 .. N /\ T \in {R, R \cup {N + 1}}
        BY <3>1, <4>1, <4>2, EntriesGrow, EntriesAreFinite
      <4>4. /\ log[n].kind = "created" <=> \A k \in R : ~(k < n)
            /\ \A k \in R : k < n => log[k].kind # "deleted" /\ log[k].id = log[n].id
        BY <1>1, <2>1, <3>2, <4>1, <4>2 DEF LogInv, StoriesBegin
      <4>5. ASSUME NEW k \in T, k < n PROVE k \in R /\ log'[k] = log[k]
        <5>1. k # N + 1 BY <1>1, <3>2, <4>5
        <5>2. k \in R /\ k \in 1 .. N BY <4>3, <5>1
        <5>3. QED BY <5>2 DEF Appended
      <4>6. R \subseteq T BY <4>3
      <4>7. QED BY <4>1, <4>4, <4>5, <4>6
    <3>3. CASE n = N + 1
      <4>1. log'[n] = e BY <3>3 DEF Appended
      <4>2. PICK R : R = S(x)!EntriesOf(e.inc) OBVIOUS
      <4>3. R \subseteq 1 .. N /\ T = R \cup {N + 1}
        BY <3>1, <4>1, <4>2, EntriesGrow, EntriesAreFinite
      <4>4. ASSUME NEW k \in T PROVE k < n <=> k \in R
        <5>1. N + 1 \notin 1 .. N /\ ~(N + 1 < n) /\ \A j \in 1 .. N : j < n BY <1>1, <3>3
        <5>2. QED BY <4>3, <5>1
      <4>5. \A k \in R : log'[k] = log[k] BY <4>3 DEF Appended
      <4>6. QED BY <4>1, <4>2, <4>3, <4>4, <4>5
    <3>4. CASE n = N + 2 BY <1>1, <2>1, <3>4 DEF Appended
    <3>5. QED BY <1>1, <3>2, <3>3, <3>4 DEF Appended
  <2>2. QED BY <2>1 DEF StoriesBegin
<1>4. QED BY <1>2, <1>3

\* Entries are put after the last one if the ordinal is still what was read.
LEMMA PutAppends ==
    ASSUME NEW x \in Stores, LogInv(x), NEW e \in Entry(x), e.kind # "attachment", NEW more,
           \/ more = <<>>
           \/ /\ e.kind \in {"created", "saved"}
              /\ more = <<[kind |-> "attachment", id |-> e.id, inc |-> e.inc]>>,
           NEW from, from = ordinal, S(x)!PutEntries(<<e>> \o more, from)
    PROVE  Appended(x, e)
<1> DEFINE N == Len(log)
           new == <<e>> \o more
<1>1. log \in Seq(Entry(x)) /\ from = N /\ N \in Nat BY DEF LogInv
<1>2. \/ Len(new) = 1
      \/ /\ Len(new) = 2 /\ e.kind \in {"created", "saved"}
         /\ new[2] = [kind |-> "attachment", id |-> e.id, inc |-> e.inc]
  <2>1. CASE more = <<>> BY <2>1
  <2>2. CASE /\ e.kind \in {"created", "saved"}
             /\ more = <<[kind |-> "attachment", id |-> e.id, inc |-> e.inc]>>
    <3>1. PICK a : a = [kind |-> "attachment", id |-> e.id, inc |-> e.inc] OBVIOUS
    <3>2. new = <<e>> \o <<a>> BY <2>2, <3>1
    <3>3. Len(new) = 2 /\ new[2] = a BY <3>2
    <3>4. QED BY <2>2, <3>1, <3>3
  <2>3. QED BY <2>1, <2>2
<1>3. new \in Seq(Entry(x)) /\ new[1] = e
  <2>1. [kind |-> "attachment", id |-> e.id, inc |-> e.inc] \in Entry(x)
    <3>1. e.id \in Ids[x] /\ e.inc \in Nat BY DEF Entry
    <3>2. QED BY <3>1 DEF Entry
  <2>2. more \in Seq(Entry(x))
    <3>1. \A a \in Entry(x) : <<a>> \in Seq(Entry(x)) OBVIOUS
    <3>2. <<>> \in Seq(Entry(x)) OBVIOUS
    <3>3. QED BY <2>1, <3>1, <3>2
  <2>3. <<e>> \in Seq(Entry(x)) /\ Len(<<e>>) = 1 /\ <<e>>[1] = e OBVIOUS
  <2>4. QED BY <2>2, <2>3
<1> HIDE DEF new
<1>4. SubSeq(log, 1, from) = log BY <1>1
<1>5. SubSeq(log, from + Len(new) + 1, Len(log)) = <<>> BY <1>1, <1>2
<1>6. log' = log \o new
  <2>1. log' = (log \o new) \o <<>> BY <1>4, <1>5 DEF S!PutEntries, new
  <2>2. log \o new \in Seq(Entry(x)) BY <1>1, <1>3
  <2>3. QED BY <2>1, <2>2
<1>7. log' \in Seq(Entry(x)) /\ Len(log') = N + Len(new) BY <1>1, <1>3, <1>6
<1>8. \A n \in 1 .. N : log'[n] = log[n] BY <1>1, <1>3, <1>6
<1>9. \A k \in 1 .. Len(new) : log'[N + k] = new[k] BY <1>1, <1>3, <1>6
<1>10. log'[N + 1] = e BY <1>2, <1>3, <1>9
<1>11. /\ Len(log') = N + 2 => Len(new) = 2
       /\ Len(new) = 2 => log'[N + 2] = new[2]
  BY <1>1, <1>2, <1>7, <1>9
<1>12. ordinal' = Len(log') BY <1>1, <1>7 DEF S!PutEntries, new
<1>13. Len(log') = N + 2 =>
          /\ log'[N + 2].kind = "attachment" /\ e.kind \in {"created", "saved"}
          /\ log'[N + 2].inc = e.inc /\ log'[N + 2].id = e.id
  BY <1>2, <1>11
<1>14. Len(log') \in {N + 1, N + 2} BY <1>1, <1>2, <1>7
<1>15. QED BY <1>7, <1>8, <1>10, <1>12, <1>13, <1>14 DEF Appended

\* What an appended entry leaves of the past.
LEMMA AppendedPast ==
    ASSUME NEW x \in Stores, LogInv(x), NEW e, Appended(x, e), minted \in Nat, minted' \in Nat,
           minted <= minted',
           e.inc \in 1 .. minted', expired' = expired
    PROVE  Past'
<1>1. \A n \in DOMAIN log' : n \in 1 .. Len(log) \/ log'[n].inc = e.inc
  BY DEF LogInv, Appended
<1>2. \A n \in 1 .. Len(log) : log'[n] = log[n] /\ n \in DOMAIN log BY DEF LogInv, Appended
<1>3. QED BY <1>1, <1>2 DEF LogInv, Past

\* A life whose end is told, or that lasts, is told after the entry too.
LEMMA AppendedEnds ==
    ASSUME NEW x \in Stores, LogInv(x), NEW e, Appended(x, e), expired' = expired,
           \A i \in Ids[x] \ {e.id} : body'[i] = body[i],
           \/ e.kind = "deleted"
           \/ body'[e.id] # None /\ body'[e.id].inc = e.inc,
           body[e.id] # None => body[e.id].inc = e.inc
    PROVE  EndsTold(x)'
<1>1. ASSUME NEW n \in DOMAIN log', NEW inc, inc = log'[n].inc
      PROVE  \/ \E k \in S(x)!EntriesOf(inc)' : log'[k].kind = "deleted"
             \/ inc \in expired
             \/ body'[log'[n].id] # None /\ body'[log'[n].id].inc = inc
  <2>1. CASE inc = e.inc /\ e.kind = "deleted"
    <3>1. Len(log) + 1 \in S(x)!EntriesOf(inc)' BY <2>1, EntriesGrow
    <3>2. QED BY <2>1, <3>1 DEF Appended
  <2>2. CASE n \in 1 .. Len(log) /\ ~(inc = e.inc /\ e.kind = "deleted")
    <3>1. n \in DOMAIN log /\ log'[n] = log[n] /\ log[n].id \in Ids[x]
      BY <2>2, EntriesNameIds DEF LogInv, Appended
    <3>2. CASE \E k \in S(x)!EntriesOf(inc) : log[k].kind = "deleted"
      <4>1. PICK k \in S(x)!EntriesOf(inc) : log[k].kind = "deleted" BY <3>2
      <4>2. k \in 1 .. Len(log) /\ k \in S(x)!EntriesOf(inc)'
        BY <4>1, EntriesGrow, EntriesAreFinite
      <4>3. QED BY <4>1, <4>2 DEF Appended
    <3>3. CASE body[log[n].id] # None /\ body[log[n].id].inc = inc
      <4>1. CASE log[n].id = e.id BY <2>2, <3>1, <3>3, <4>1
      <4>2. CASE log[n].id # e.id BY <3>1, <3>3, <4>2
      <4>3. QED BY <4>1, <4>2
    <3>4. QED BY <1>1, <3>1, <3>2, <3>3 DEF LogInv, EndsTold
  <2>3. CASE n \notin 1 .. Len(log) /\ ~(inc = e.inc /\ e.kind = "deleted")
    <3>1. log'[n].inc = e.inc /\ log'[n].id = e.id BY <1>1, <2>3 DEF LogInv, Appended
    <3>2. QED BY <1>1, <2>3, <3>1
  <2>4. QED BY <2>1, <2>2, <2>3
<1>2. ASSUME NEW n \in DOMAIN log'
      PROVE  \/ \E k \in S(x)!EntriesOf(log[n].inc)' : log'[k].kind = "deleted"
             \/ log'[n].inc \in expired'
             \/ body'[log'[n].id] # None /\ body'[log'[n].id].inc = log'[n].inc
  <2>1. PICK inc : inc = log'[n].inc OBVIOUS
  <2>2. S(x)!EntriesOf(log[n].inc)' = S(x)!EntriesOf(inc)' BY <2>1 DEF S!EntriesOf
  <2>3. QED BY <1>1, <2>1, <2>2
<1>3. QED BY <1>2 DEF EndsTold

LEMMA StoredIsNotNone ==
    ASSUME NEW x \in Stores, S(x)!SessionStoreAssumption, NEW s \in Stored(x) PROVE s # None
<1>1. s \in [id : Ids[x], inc : Nat, rev : Nat, msgs : SUBSET [by : Nat, base : Nat], at : Nat]
  BY DEF Stored, Messages, Message
<1>2. QED BY <1>1, Zenon DEF S!SessionStoreAssumption

\* A save or an update tells the revision it writes.
LEMMA CommittingTells ==
    ASSUME NEW x \in Stores, S(x)!SessionStoreAssumption, IInv(x), LogInv(x),
           NEW c \in Callers[x], S(x)!Commit(c)
    PROVE  LogInv(x)'
<1>1. PICK o : o = op[c] OBVIOUS
<1>2. Writer(x, o) /\ o.pc = "swap" /\ o.name \in {"save", "update"} /\ o.id \in Ids[x]
  BY <1>1 DEF IInv, OpInv, Operation, S!Commit, Writer
<1>3. minted \in Nat /\ minted' \in Nat /\ minted <= minted' /\ expired' = expired
  BY DEF IInv, BodyInv, S!Commit
<1>4. CASE ~(body[o.id] = o.seen /\ S(x)!IndexUnchanged(c) /\ S(x)!OrdinalUnchanged(c))
  <2>1. UNCHANGED <<body, log, ordinal>> BY <1>1, <1>4 DEF S!Commit
  <2>2. QED BY <1>3, <2>1, StillTells
<1>5. CASE body[o.id] = o.seen /\ S(x)!IndexUnchanged(c) /\ S(x)!OrdinalUnchanged(c)
  <2>1. PICK w : w = Written(x, o) OBVIOUS
  <2>2. PICK e : e = [kind |-> IF o.seen = None THEN "created" ELSE "saved", id |-> o.id,
                      inc |-> Life(o)]
    OBVIOUS
  <2>3. Commits(x, c, o)
    BY <1>1, <1>2, <1>5 DEF S!Commit, Commits, Merged, Life, Written
  <2>4. /\ w \in Stored(x) /\ w.inc = Life(o)
        /\ o.seen = None => w.rev = 1
        /\ o.seen # None => w.rev = o.seen.rev + 1
    BY <2>1, <2>3, WrittenGrows
  <2>5. body'[o.id] = w /\ \A i \in Ids[x] \ {o.id} : body'[i] = body[i]
    BY <1>2, <2>1, <2>3 DEF Commits, IInv, BodyInv
  <2>6. e \in Entry(x) /\ e.id = o.id /\ e.inc = w.inc /\ e.kind \in {"created", "saved"}
    <3>1. Life(o) \in Nat BY <2>4 DEF Stored
    <3>2. QED BY <1>2, <2>2, <2>4, <3>1 DEF Entry
  <2>7. Appended(x, e)
    <3>1. PICK more : more = S(x)!Attachments(o, e.inc) OBVIOUS
    <3>2. S(x)!PutEntries(<<e>> \o more, o.ord) /\ o.ord = ordinal
      BY <1>1, <1>5, <2>2, <3>1 DEF S!Commit, S!OrdinalUnchanged, Life
    <3>3. more = <<>> \/ more = <<[kind |-> "attachment", id |-> e.id, inc |-> e.inc]>>
      BY <2>6, <3>1 DEF S!Attachments
    <3>4. QED BY <2>6, <3>2, <3>3, PutAppends
  <2>8. e.inc \in 1 .. minted' /\ (o.seen = None => e.inc = minted + 1)
    BY <1>2, <1>3, <1>5, <2>2, <2>3 DEF Life, Commits, IInv, BodyInv
  <2>9. PICK T : T = S(x)!EntriesOf(e.inc) OBVIOUS
  <2>10. /\ o.seen = None => T = {} /\ e.inc \notin expired
         /\ o.seen # None => T # {} /\ e.inc \notin expired /\ e.inc = body[o.id].inc
                             /\ Cardinality(T) = o.seen.rev
    <3>1. CASE o.seen = None
      <4>1. e.inc = minted + 1 BY <2>8, <3>1
      <4>2. \A n \in DOMAIN log : log[n].inc # e.inc BY <1>3, <4>1 DEF LogInv, Past
      <4>3. QED BY <1>3, <2>9, <3>1, <4>1, <4>2 DEF S!EntriesOf, LogInv, Past
    <3>2. CASE o.seen # None
      <4>1. body[o.id] # None /\ e.inc = body[o.id].inc /\ body[o.id] = o.seen
        BY <1>5, <2>2, <3>2 DEF Life
      <4>2. Cardinality(T) = o.seen.rev /\ e.inc \notin expired
        BY <1>2, <2>9, <4>1 DEF LogInv, RevisionsTold
      <4>3. o.seen.rev >= 1 /\ o.seen.rev \in Nat BY <1>2, <4>1 DEF IInv, BodyInv, Stored
      <4>4. T # {} BY <4>2, <4>3, FS_EmptySet
      <4>5. QED BY <3>2, <4>1, <4>2, <4>4
    <3>3. QED BY <3>1, <3>2
  <2>11. \A k \in T : log[k].kind # "deleted" /\ log[k].id = e.id
    BY <1>2, <1>5, <2>6, <2>9, <2>10 DEF LogInv, LivesLast
  <2>12. AttachmentsFollow' /\ StoriesBegin(x)'
    <3>1. e.kind = "created" <=> T = {} BY <2>2, <2>10
    <3>2. QED BY <2>7, <2>9, <2>11, <3>1, StoryGoesOn
  <2>13. Past' BY <1>3, <2>7, <2>8, AppendedPast
  <2>14. EndsTold(x)'
    <3>1. body[e.id] # None => body[e.id].inc = e.inc BY <1>5, <2>6, <2>10
    <3>2. body'[e.id] # None \/ e.kind = "deleted"
      BY <2>1, <2>3, <2>4, <2>5, <2>6, StoredIsNotNone
    <3>3. QED BY <1>3, <2>5, <2>6, <2>7, <3>1, <3>2, AppendedEnds
  <2>15. ASSUME NEW i \in Ids[x], body'[i] # None, NEW R, R = S(x)!EntriesOf(body[i].inc)'
         PROVE  /\ Cardinality(R) = body'[i].rev /\ body'[i].inc \notin expired'
                /\ \A n \in R : log'[n].id = i /\ log'[n].kind # "deleted"
    <3>1. PICK inc : inc = body'[i].inc OBVIOUS
    <3>2. R = S(x)!EntriesOf(inc)' BY <2>15, <3>1 DEF S!EntriesOf
    <3>3. CASE i = o.id
      <4>1. inc = e.inc /\ R = T \cup {Len(log) + 1}
        BY <2>5, <2>6, <2>7, <2>9, <3>1, <3>2, <3>3, EntriesGrow
      <4>2. Cardinality(R) = Cardinality(T) + 1 /\ T \subseteq 1 .. Len(log)
        BY <2>9, <4>1, EntriesAreFinite
      <4>3. Cardinality(R) = body'[i].rev
        <5>1. CASE o.seen = None
          <6>1. Cardinality(T) = 0 BY <2>10, <5>1, FS_EmptySet
          <6>2. QED BY <2>4, <2>5, <3>3, <4>2, <5>1, <6>1
        <5>2. CASE o.seen # None BY <2>4, <2>5, <2>10, <3>3, <4>2, <5>2
        <5>3. QED BY <5>1, <5>2
      <4>4. \A n \in R : log'[n] = e \/ (n \in T /\ log'[n] = log[n])
        BY <2>7, <4>1, <4>2 DEF Appended
      <4>5. \A n \in R : log'[n].id = i /\ log'[n].kind # "deleted"
        BY <2>6, <2>11, <3>3, <4>4
      <4>6. QED BY <1>3, <2>10, <3>1, <4>1, <4>3, <4>5
    <3>4. CASE i # o.id
      <4>1. body'[i] = body[i] /\ body[i] # None BY <2>5, <2>15, <3>4
      <4>2. inc # e.inc
        <5>1. inc \in 1 .. minted BY <3>1, <4>1 DEF IInv, BodyInv
        <5>2. CASE o.seen = None BY <1>3, <2>8, <5>1, <5>2
        <5>3. CASE o.seen # None BY <1>2, <1>5, <2>10, <3>1, <3>4, <4>1, <5>3 DEF IInv, BodyInv
        <5>4. QED BY <5>2, <5>3
      <4>3. R = S(x)!EntriesOf(inc) /\ R \subseteq 1 .. Len(log)
        <5>1. R = S(x)!EntriesOf(inc) BY <1>3, <2>7, <3>2, <4>2, EntriesGrow
        <5>2. QED BY <1>3, <5>1, EntriesAreFinite
      <4>4. \A n \in R : log'[n] = log[n] BY <2>7, <4>3 DEF Appended
      <4>5. QED BY <1>3, <3>1, <4>1, <4>3, <4>4 DEF LogInv, RevisionsTold, LivesLast
    <3>5. QED BY <3>3, <3>4
  <2>16. LivesLast(x)' /\ RevisionsTold(x)' BY <2>15 DEF LivesLast, RevisionsTold
  <2>17. log' \in Seq(Entry(x)) /\ ordinal' = Len(log') BY <2>7 DEF Appended
  <2>18. QED BY <2>12, <2>13, <2>14, <2>16, <2>17 DEF LogInv
<1>6. QED BY <1>4, <1>5

\* A deletion is told as the end of the life it ends.
LEMMA DeletingTells ==
    ASSUME NEW x \in Stores, IInv(x), RemoverInv(x), LogInv(x), NEW c \in Callers[x],
           S(x)!DeleteSwaps(c)
    PROVE  LogInv(x)'
<1>1. PICK o : o = op[c] OBVIOUS
<1>2. o.id \in Ids[x] /\ minted' = minted /\ minted \in Nat /\ expired' = expired
  BY <1>1 DEF IInv, BodyInv, RemoverInv, Remover, S!DeleteSwaps
<1>3. CASE UNCHANGED <<body, log, ordinal>> BY <1>2, <1>3, StillTells
<1>4. CASE /\ body[o.id] = o.seen /\ o.seen = None /\ UNCHANGED <<log, ordinal>>
           /\ body' = [body EXCEPT ![o.id] = None]
  <2>1. \A i \in Ids[x] : body'[i] = body[i] BY <1>4 DEF IInv, BodyInv
  <2>2. QED BY <1>2, <1>4, <2>1, StillTells
<1>5. CASE /\ body[o.id] = o.seen /\ o.seen # None /\ ordinal = o.ord
           /\ body' = [body EXCEPT ![o.id] = None]
           /\ S(x)!PutEntries(<<[kind |-> "deleted", id |-> o.id, inc |-> o.seen.inc]>>, o.ord)
  <2>1. PICK e : e = [kind |-> "deleted", id |-> o.id, inc |-> o.seen.inc] OBVIOUS
  <2>2. e.kind = "deleted" /\ e.id = o.id /\ e.inc = body[o.id].inc BY <1>5, <2>1
  <2>3. o.seen.inc \in 1 .. minted /\ body[o.id].rev >= 1 /\ body[o.id].rev \in Nat
    BY <1>2, <1>5 DEF IInv, BodyInv, Stored
  <2>4. e \in Entry(x) BY <1>2, <1>5, <2>1, <2>3 DEF Entry
  <2>5. Appended(x, e)
    <3>1. <<e>> \o <<>> = <<e>> BY <2>4
    <3>2. S(x)!PutEntries(<<e>> \o <<>>, o.ord) BY <1>5, <2>1, <3>1
    <3>3. QED BY <1>5, <2>2, <2>4, <3>2, PutAppends
  <2>6. body'[o.id] = None /\ \A i \in Ids[x] \ {o.id} : body'[i] = body[i]
    BY <1>2, <1>5 DEF IInv, BodyInv
  <2>7. PICK T : T = S(x)!EntriesOf(e.inc) OBVIOUS
  <2>8. T # {} /\ \A k \in T : log[k].kind # "deleted" /\ log[k].id = e.id
    <3>1. Cardinality(T) = body[o.id].rev
      BY <1>2, <1>5, <2>2, <2>7 DEF LogInv, RevisionsTold
    <3>2. T # {} BY <2>3, <3>1, FS_EmptySet
    <3>3. QED BY <1>2, <1>5, <2>2, <2>7, <3>2 DEF LogInv, LivesLast
  <2>9. AttachmentsFollow' /\ StoriesBegin(x)' BY <2>2, <2>5, <2>7, <2>8, StoryGoesOn
  <2>10. Past' BY <1>2, <1>5, <2>2, <2>3, <2>5, AppendedPast
  <2>11. EndsTold(x)' BY <1>2, <2>2, <2>5, <2>6, AppendedEnds
  <2>12. ASSUME NEW i \in Ids[x], body'[i] # None, NEW R, R = S(x)!EntriesOf(body[i].inc)'
         PROVE  /\ Cardinality(R) = body'[i].rev /\ body'[i].inc \notin expired'
                /\ \A n \in R : log'[n].id = i /\ log'[n].kind # "deleted"
    <3>1. PICK inc : inc = body'[i].inc OBVIOUS
    <3>2. R = S(x)!EntriesOf(inc)' BY <2>12, <3>1 DEF S!EntriesOf
    <3>3. i # o.id /\ body'[i] = body[i] /\ body[i] # None BY <2>6, <2>12
    <3>4. inc # e.inc BY <1>2, <1>5, <2>2, <3>1, <3>3 DEF IInv, BodyInv
    <3>5. R = S(x)!EntriesOf(inc) /\ R \subseteq 1 .. Len(log)
      <4>1. R = S(x)!EntriesOf(inc) BY <2>5, <3>2, <3>4, EntriesGrow
      <4>2. QED BY <4>1, EntriesAreFinite
    <3>6. \A n \in R : log'[n] = log[n] BY <2>5, <3>5 DEF Appended
    <3>7. QED BY <1>2, <3>1, <3>3, <3>5, <3>6 DEF LogInv, RevisionsTold, LivesLast
  <2>13. LivesLast(x)' /\ RevisionsTold(x)' BY <2>12 DEF LivesLast, RevisionsTold
  <2>14. log' \in Seq(Entry(x)) /\ ordinal' = Len(log') BY <2>5 DEF Appended
  <2>15. QED BY <2>9, <2>10, <2>11, <2>13, <2>14 DEF LogInv
<1>6. QED BY <1>1, <1>2, <1>3, <1>4, <1>5 DEF S!DeleteSwaps, S!OrdinalUnchanged

\* A cleanup removes lives without a word, and they are expired.
LEMMA ExpiringTells ==
    ASSUME NEW x \in Stores, IInv(x), RemoverInv(x), LogInv(x), NEW c \in Callers[x],
           S(x)!CleanupSwaps(c)
    PROVE  LogInv(x)'
<1>1. PICK o : o = op[c] OBVIOUS
<1>2. /\ UNCHANGED <<log, ordinal, minted>> /\ minted \in Nat
      /\ \A i \in o.gone : i \in Ids[x] /\ o.seen[i] # None
  BY <1>1 DEF IInv, BodyInv, RemoverInv, Remover, S!CleanupSwaps
<1>3. CASE UNCHANGED <<body, expired>> BY <1>2, <1>3, StillTells
<1>4. CASE /\ \A i \in o.gone : body[i] = o.seen[i]
           /\ body' = [i \in Ids[x] |-> IF i \in o.gone THEN None ELSE body[i]]
           /\ expired' = expired \cup {o.seen[i].inc : i \in o.gone}
  <2>1. \A i \in Ids[x] : body'[i] = IF i \in o.gone THEN None ELSE body[i] BY <1>4
  <2>2. \A i \in o.gone : o.seen[i].inc = body[i].inc /\ body[i] # None BY <1>2, <1>4
  <2>3. \A inc : S(x)!EntriesOf(inc)' = S(x)!EntriesOf(inc) BY <1>2 DEF S!EntriesOf
  <2>4. Past'
    <3>1. \A i \in o.gone : o.seen[i].inc \in 1 .. minted BY <1>2, <2>2 DEF IInv, BodyInv
    <3>2. expired' \subseteq 1 .. minted BY <1>4, <3>1 DEF LogInv, Past
    <3>3. QED BY <1>2, <3>2 DEF LogInv, Past
  <2>5. ASSUME NEW i \in Ids[x], body'[i] # None, NEW R, R = S(x)!EntriesOf(body[i].inc)'
        PROVE  /\ Cardinality(R) = body'[i].rev /\ body'[i].inc \notin expired'
               /\ \A n \in R : log'[n].id = i /\ log'[n].kind # "deleted"
    <3>1. i \notin o.gone /\ body'[i] = body[i] /\ body[i] # None BY <2>1, <2>5
    <3>2. R = S(x)!EntriesOf(body[i].inc) BY <1>2, <2>5, <3>1 DEF S!EntriesOf
    <3>3. body[i].inc \notin expired'
      BY <1>2, <1>4, <2>2, <3>1 DEF LogInv, RevisionsTold, IInv, BodyInv
    <3>4. QED BY <1>2, <3>1, <3>2, <3>3 DEF LogInv, RevisionsTold, LivesLast
  <2>6. LivesLast(x)' /\ RevisionsTold(x)' BY <2>5 DEF LivesLast, RevisionsTold
  <2>7. AttachmentsFollow' /\ StoriesBegin(x)'
    BY <1>2, <2>3 DEF LogInv, AttachmentsFollow, StoriesBegin, S!EntriesOf
  <2>8. EndsTold(x)'
    <3>1. ASSUME NEW n \in DOMAIN log
          PROVE  \/ \E k \in S(x)!EntriesOf(log[n].inc) : log[k].kind = "deleted"
                 \/ log[n].inc \in expired'
                 \/ body'[log[n].id] # None /\ body'[log[n].id].inc = log[n].inc
      <4>1. log[n].id \in Ids[x] BY EntriesNameIds
      <4>2. CASE log[n].id \in o.gone
        BY <1>4, <2>2, <3>1, <4>2 DEF LogInv, EndsTold
      <4>3. CASE log[n].id \notin o.gone
        BY <1>4, <2>1, <3>1, <4>1, <4>3 DEF LogInv, EndsTold
      <4>4. QED BY <4>2, <4>3
    <3>2. QED BY <1>2, <3>1 DEF EndsTold, S!EntriesOf
  <2>9. QED BY <1>2, <2>4, <2>6, <2>7, <2>8 DEF LogInv
<1>5. QED BY <1>1, <1>3, <1>4 DEF S!CleanupSwaps

\* Every other step leaves the bodies and the log alone.
LEMMA OthersTell ==
    ASSUME NEW x \in Stores, IInv(x), LogInv(x), UNCHANGED <<body, ordinal, log, minted, expired>>
    PROVE  LogInv(x)'
  BY StillTells DEF IInv, BodyInv

\* What operations remove.
LEMMA RemoverMoves ==
    ASSUME NEW x \in Stores, IInv(x), RemoverInv(x), NEW c \in Callers[x], NEW o,
           op' = [op EXCEPT ![c] = o], Remover(x, o)
    PROVE  RemoverInv(x)'
<1>1. ASSUME NEW d \in Callers[x] PROVE Remover(x, op[d])'
  <2>1. op'[d] = IF d = c THEN o ELSE op[d] BY DEF IInv, OpInv
  <2>2. CASE d = c BY <2>1, <2>2 DEF Remover
  <2>3. CASE d # c BY <2>1, <2>3 DEF RemoverInv, Remover
  <2>4. QED BY <2>2, <2>3
<1>2. QED BY <1>1 DEF RemoverInv

LEMMA IdleRemover == ASSUME NEW x \in Stores PROVE Remover(x, S(x)!Idle)
  BY DEF Remover, S!Idle

LEMMA SameRemover ==
    ASSUME NEW x \in Stores, NEW o, NEW p, Remover(x, o), p.name = o.name, p.id = o.id,
           p.pc \notin {"ordinal", "index", "scan", "swap"}
    PROVE  Remover(x, p)
  BY DEF Remover

LEMMA SummariesRemover ==
    ASSUME NEW x \in Stores, NEW o, DOMAIN o = DOMAIN S(x)!Idle,
           o.name = "delete" => o.id \in Ids[x],
           o.name = "cleanup" => \A i \in o.gone : i \in Ids[x] /\ o.seen[i] # None
    PROVE  Remover(x, S(x)!Summaries(o))
<1> DEFINE p == S(x)!Summaries(o)
<1>1. /\ p.name = o.name /\ p.id = o.id /\ p.gone = o.gone /\ p.seen = o.seen
      /\ p.pc \in {"scan", "swap"}
  BY DEF S!Summaries, S!Idle
<1> HIDE DEF p
<1>2. Remover(x, p) BY <1>1 DEF Remover
<1>3. QED BY <1>2 DEF p

LEMMA CallsKeepRemovers ==
    ASSUME NEW x \in Stores, IInv(x), RemoverInv(x), NEW c \in Callers[x],
           \/ S(x)!CallSave(c) \/ S(x)!CallList(c)
           \/ \E id \in Ids[x] : S(x)!CallDelete(c, id) \/ \E u \in Updaters[x] : S(x)!CallUpdate(c, id, u)
           \/ \E t \in 2 .. clock : S(x)!CallCleanup(c, t)
    PROVE  RemoverInv(x)'
<1>1. ASSUME NEW o, op' = [op EXCEPT ![c] = o], o.pc \in {"read", "bodies"},
             o.name = "delete" => o.id \in Ids[x]
      PROVE  RemoverInv(x)'
  <2>1. Remover(x, o) BY <1>1 DEF Remover
  <2>2. QED BY <1>1, <2>1, RemoverMoves
<1>2. PICK o : /\ op' = [op EXCEPT ![c] = o] /\ o.pc \in {"read", "bodies"}
               /\ o.name = "delete" => o.id \in Ids[x]
  <2>1. CASE S(x)!CallSave(c)
    <3> DEFINE o == [S(x)!Idle EXCEPT !.name = "save", !.pc = "read", !.left = S(x)!AllThree,
                                !.id = mine[c].id, !.cand = S(x)!WithMessage(mine[c]),
                                !.number = called + 1]
    <3>1. o.name = "save" /\ o.pc = "read" BY DEF S!Idle
    <3>2. op' = [op EXCEPT ![c] = o] BY <2>1 DEF S!CallSave, S!Call
    <3> HIDE DEF o
    <3>3. QED BY <3>1, <3>2
  <2>2. CASE S(x)!CallList(c)
    <3> DEFINE o == [S(x)!Idle EXCEPT !.name = "list", !.pc = "read", !.left = {"index"}]
    <3>1. o.name = "list" /\ o.pc = "read" BY DEF S!Idle
    <3>2. op' = [op EXCEPT ![c] = o] BY <2>2 DEF S!CallList, S!Call
    <3> HIDE DEF o
    <3>3. QED BY <3>1, <3>2
  <2>3. CASE \E id \in Ids[x] : S(x)!CallDelete(c, id)
    <3> PICK id \in Ids[x] : S(x)!CallDelete(c, id) BY <2>3
    <3> DEFINE o == [S(x)!Idle EXCEPT !.name = "delete", !.pc = "read", !.left = S(x)!AllThree, !.id = id]
    <3>1. o.pc = "read" /\ o.id = id BY DEF S!Idle
    <3>2. op' = [op EXCEPT ![c] = o] BY DEF S!CallDelete, S!Call
    <3> HIDE DEF o
    <3>3. QED BY <3>1, <3>2
  <2>4. CASE \E id \in Ids[x] : \E u \in Updaters[x] : S(x)!CallUpdate(c, id, u)
    <3> PICK id \in Ids[x], u \in Updaters[x] : S(x)!CallUpdate(c, id, u) BY <2>4
    <3> DEFINE o == [S(x)!Idle EXCEPT !.name = "update", !.pc = "read", !.left = {"body", "index"},
                                !.id = id, !.updater = u, !.number = called + 1,
                                !.cand = IF u = "held" THEN S(x)!WithMessage(mine[c]) ELSE None]
    <3>1. o.name = "update" /\ o.pc = "read" BY DEF S!Idle
    <3>2. op' = [op EXCEPT ![c] = o] BY DEF S!CallUpdate, S!Call
    <3> HIDE DEF o
    <3>3. QED BY <3>1, <3>2
  <2>5. CASE \E t \in 2 .. clock : S(x)!CallCleanup(c, t)
    <3> PICK t \in 2 .. clock : S(x)!CallCleanup(c, t) BY <2>5
    <3> DEFINE o == [S(x)!Idle EXCEPT !.name = "cleanup", !.pc = "bodies", !.cutoff = t, !.todo = Ids[x],
                                !.seen = [i \in Ids[x] |-> None]]
    <3>1. o.name = "cleanup" /\ o.pc = "bodies" BY DEF S!Idle
    <3>2. op' = [op EXCEPT ![c] = o] BY DEF S!CallCleanup, S!Call
    <3> HIDE DEF o
    <3>3. QED BY <3>1, <3>2
  <2>6. QED BY <2>1, <2>2, <2>3, <2>4, <2>5
<1>3. QED BY <1>1, <1>2

\* Steps of saves, updates and deletions, and the rebuilding of an index.
LEMMA ReadsKeepRemovers ==
    ASSUME NEW x \in Stores, IInv(x), RemoverInv(x), NEW c \in Callers[x],
           \/ \E what \in S(x)!AllThree : S(x)!Read(c, what)
           \/ S(x)!SaveDecides(c) \/ S(x)!UpdateDecides(c) \/ S(x)!UpdateReadsOrdinal(c) \/ S(x)!DeleteDecides(c)
           \/ \E id \in Ids[x] : S(x)!Scan(c, id)
    PROVE  RemoverInv(x)'
<1>1. PICK u : u = op[c] OBVIOUS
<1>2. DOMAIN u = DOMAIN S(x)!Idle /\ Remover(x, u) BY <1>1 DEF IInv, OpInv, Operation, RemoverInv
<1>3. CASE \E what \in S(x)!AllThree : S(x)!Read(c, what)
  <2> PICK what \in S(x)!AllThree : S(x)!Read(c, what) BY <1>3
  <2> DEFINE r == [u EXCEPT !.left = @ \ {what}]
             o == CASE what = "body" -> [r EXCEPT !.seen = body[r.id]]
                    [] what = "index" -> [r EXCEPT !.idx = index]
                    [] what = "ordinal" -> [r EXCEPT !.ord = ordinal]
  <2>1. u.pc = "read" /\ op' = [op EXCEPT ![c] = o] BY <1>1 DEF S!Read, S!Set
  <2>2. o.name = u.name /\ o.pc = u.pc /\ o.id = u.id BY <1>2 DEF S!Idle, S!AllThree
  <2> HIDE DEF o
  <2>3. Remover(x, o) BY <1>2, <2>1, <2>2, SameRemover
  <2>4. QED BY <2>1, <2>3, RemoverMoves
<1>4. CASE S(x)!SaveDecides(c) \/ S(x)!DeleteDecides(c)
  <2>1. /\ u.name \in {"save", "delete"} /\ (S(x)!Set(c, S(x)!Idle) \/ S(x)!Set(c, S(x)!Summaries(u)))
    BY <1>1, <1>4 DEF S!SaveDecides, S!DeleteDecides
  <2>2. Remover(x, S(x)!Summaries(u)) BY <1>2, <2>1, SummariesRemover DEF Remover
  <2>3. QED BY <2>1, <2>2, IdleRemover, RemoverMoves DEF S!Set
<1>5. CASE S(x)!UpdateReadsOrdinal(c)
  <2> DEFINE q == [u EXCEPT !.ord = ordinal]
  <2>1. /\ DOMAIN q = DOMAIN S(x)!Idle /\ q.name = u.name /\ u.pc = "ordinal"
        /\ op' = [op EXCEPT ![c] = S(x)!Summaries(q)]
    BY <1>1, <1>2, <1>5 DEF S!Idle, S!UpdateReadsOrdinal, S!Set
  <2> HIDE DEF q
  <2>2. Remover(x, S(x)!Summaries(q)) BY <1>2, <2>1, SummariesRemover DEF Remover
  <2>3. QED BY <2>1, <2>2, RemoverMoves
<1>6. CASE S(x)!UpdateDecides(c)
  <2>1. PICK cand : S(x)!Set(c, S(x)!Idle) \/ S(x)!Set(c, [u EXCEPT !.pc = "ordinal", !.cand = cand])
    BY <1>1, <1>6 DEF S!UpdateDecides
  <2> DEFINE q == [u EXCEPT !.pc = "ordinal", !.cand = cand]
  <2>2. q.name = "update" BY <1>1, <1>2, <1>6 DEF S!Idle, S!UpdateDecides
  <2>3. op' = [op EXCEPT ![c] = S(x)!Idle] \/ op' = [op EXCEPT ![c] = q] BY <2>1 DEF S!Set
  <2> HIDE DEF q
  <2>4. Remover(x, q) BY <2>2 DEF Remover
  <2>5. QED BY <2>3, <2>4, IdleRemover, RemoverMoves
<1>7. CASE \E id \in Ids[x] : S(x)!Scan(c, id)
  <2> PICK id \in Ids[x] : S(x)!Scan(c, id) BY <1>7
  <2> DEFINE o == [u EXCEPT !.todo = @ \ {id}]
             p == IF body[id] = None THEN o ELSE [o EXCEPT !.sums = S(x)!Including(@, id, body[id])]
             q == IF p.todo = {} THEN [p EXCEPT !.pc = "swap"] ELSE p
  <2>1. u.pc = "scan" /\ S(x)!Set(c, q) BY <1>1 DEF S!Scan
  <2>2. /\ DOMAIN p = DOMAIN S(x)!Idle /\ p.name = u.name /\ p.pc = u.pc /\ p.id = u.id
        /\ p.gone = u.gone /\ p.seen = u.seen
    BY <1>2 DEF S!Idle
  <2> HIDE DEF p
  <2>3. /\ q.name = u.name /\ q.pc \in {"scan", "swap"} /\ q.id = u.id /\ q.gone = u.gone
        /\ q.seen = u.seen
    BY <2>1, <2>2 DEF S!Idle
  <2> HIDE DEF q
  <2>4. Remover(x, q) BY <1>2, <2>1, <2>3 DEF Remover
  <2>5. QED BY <2>1, <2>4, RemoverMoves DEF S!Set
<1>8. QED BY <1>3, <1>4, <1>5, <1>6, <1>7

LEMMA CleaningKeepsRemovers ==
    ASSUME NEW x \in Stores, IInv(x), RemoverInv(x), NEW c \in Callers[x],
           S(x)!CleanupReadsIndex(c) \/ \E id \in Ids[x] : S(x)!CleanupReads(c, id)
    PROVE  RemoverInv(x)'
<1>1. PICK u : u = op[c] OBVIOUS
<1>2. DOMAIN u = DOMAIN S(x)!Idle /\ Remover(x, u) BY <1>1 DEF IInv, OpInv, Operation, RemoverInv
<1>3. CASE S(x)!CleanupReadsIndex(c)
  <2> DEFINE q == [u EXCEPT !.idx = index]
  <2>1. /\ DOMAIN q = DOMAIN S(x)!Idle /\ q.name = u.name /\ q.id = u.id /\ q.gone = u.gone
        /\ q.seen = u.seen /\ u.pc = "index" /\ S(x)!Set(c, S(x)!Summaries(q))
    BY <1>1, <1>2, <1>3 DEF S!Idle, S!CleanupReadsIndex
  <2> HIDE DEF q
  <2>2. Remover(x, S(x)!Summaries(q)) BY <1>2, <2>1, SummariesRemover DEF Remover
  <2>3. QED BY <2>1, <2>2, RemoverMoves DEF S!Set
<1>4. CASE \E id \in Ids[x] : S(x)!CleanupReads(c, id)
  <2> PICK id \in Ids[x] : S(x)!CleanupReads(c, id) BY <1>4
  <2> DEFINE o == [u EXCEPT !.todo = @ \ {id}, !.seen[id] = body[id]]
             old == {i \in Ids[x] : o.seen[i] # None /\ o.seen[i].at < o.cutoff}
             q == [o EXCEPT !.pc = "index", !.gone = old]
             p == IF o.todo # {} THEN o ELSE IF old = {} THEN S(x)!Idle ELSE q
  <2>1. S(x)!Set(c, p) /\ u.pc = "bodies" BY <1>1 DEF S!CleanupReads
  <2>2. DOMAIN o = DOMAIN S(x)!Idle /\ o.name = u.name /\ o.pc = u.pc /\ o.id = u.id
    BY <1>2 DEF S!Idle
  <2> HIDE DEF o
  <2>3. /\ q.name = o.name /\ q.pc = "index" /\ q.id = o.id /\ q.seen = o.seen
        /\ \A i \in q.gone : i \in Ids[x] /\ o.seen[i] # None
    BY <2>2 DEF S!Idle
  <2>4. p = o \/ p = S(x)!Idle \/ p = q OBVIOUS
  <2> HIDE DEF p, q
  <2>5. Remover(x, o) /\ Remover(x, q) BY <1>2, <2>1, <2>2, <2>3 DEF Remover
  <2>6. QED BY <2>1, <2>4, <2>5, IdleRemover, RemoverMoves DEF S!Set
<1>5. QED BY <1>3, <1>4

LEMMA PageRemover ==
    ASSUME NEW x \in Stores, NEW o, DOMAIN o = DOMAIN S(x)!Idle, Remover(x, o), NEW sums
    PROVE  Remover(x, S(x)!Page(o, sums))
<1> DEFINE p == [o EXCEPT !.pc = "page", !.todo = DOMAIN sums]
<1>1. p.name = o.name /\ p.pc = "page" /\ p.id = o.id BY DEF S!Idle
<1>2. S(x)!Page(o, sums) = S(x)!Idle \/ S(x)!Page(o, sums) = p BY DEF S!Page
<1> HIDE DEF p
<1>3. QED BY <1>1, <1>2, IdleRemover, SameRemover

LEMMA ListingKeepsRemovers ==
    ASSUME NEW x \in Stores, IInv(x), RemoverInv(x), NEW c \in Callers[x],
           \/ \E id \in Ids[x] : S(x)!ListLooks(c, id)
           \/ S(x)!ListDecides(c) \/ S(x)!ListRebuilds(c) \/ S(x)!ListReads(c)
           \/ S(x)!ListRepairs(c) \/ S(x)!ListRepairReads(c)
    PROVE  RemoverInv(x)'
<1>1. PICK u : u = op[c] OBVIOUS
<1>2. DOMAIN u = DOMAIN S(x)!Idle /\ Remover(x, u) BY <1>1 DEF IInv, OpInv, Operation, RemoverInv
<1>3. CASE \E id \in Ids[x] : S(x)!ListLooks(c, id)
  <2> PICK id \in Ids[x] : S(x)!ListLooks(c, id) BY <1>3
  <2> DEFINE o == [u EXCEPT !.todo = @ \ {id},
                            !.gone = IF body[id] = None THEN @ \cup {id} ELSE @]
             p == IF o.todo # {} THEN o
                  ELSE IF o.gone = {} \/ o.idx = None THEN S(x)!Idle
                  ELSE IF o.pc = "page"
                  THEN [o EXCEPT !.pc = "recheck", !.todo = o.gone, !.gone = {}]
                  ELSE [o EXCEPT !.pc = "repair"]
  <2>1. S(x)!Set(c, p) /\ u.pc \in {"page", "recheck"} BY <1>1 DEF S!ListLooks
  <2>2. DOMAIN o = DOMAIN S(x)!Idle /\ o.name = u.name /\ o.pc = u.pc /\ o.id = u.id
    BY <1>2 DEF S!Idle
  <2> HIDE DEF o
  <2>3. p = S(x)!Idle \/ (p.name = o.name /\ p.id = o.id /\ p.pc \in {o.pc, "recheck", "repair"})
    BY <2>2 DEF S!Idle
  <2> HIDE DEF p
  <2>4. Remover(x, p) BY <1>2, <2>1, <2>2, <2>3, IdleRemover, SameRemover
  <2>5. QED BY <2>1, <2>4, RemoverMoves DEF S!Set
<1>4. CASE S(x)!ListDecides(c) \/ S(x)!ListRebuilds(c) \/ S(x)!ListReads(c)
  <2> DEFINE q(y) == [u EXCEPT !.idx = y]
             r == [u EXCEPT !.pc = "reread"]
  <2>1. \/ S(x)!Set(c, r) \/ S(x)!Set(c, S(x)!Summaries(u))
        \/ \E sums : S(x)!Set(c, S(x)!Page(u, sums)) \/ \E y : S(x)!Set(c, S(x)!Page(q(y), sums))
    BY <1>1, <1>4 DEF S!ListDecides, S!ListRebuilds, S!ListReads
  <2>2. u.name = "list" BY <1>1, <1>4 DEF S!ListDecides, S!ListRebuilds, S!ListReads
  <2>3. r.name = "list" /\ r.pc = "reread" BY <1>2, <2>2 DEF S!Idle
  <2>4. Remover(x, r) BY <2>3 DEF Remover
  <2>5. ASSUME NEW y PROVE DOMAIN q(y) = DOMAIN S(x)!Idle /\ Remover(x, q(y))
    <3>1. q(y).name = "list" /\ q(y).pc = u.pc BY <1>2, <2>2 DEF S!Idle
    <3>2. u.pc # "ordinal" BY <1>2, <2>2 DEF Remover
    <3>3. DOMAIN q(y) = DOMAIN S(x)!Idle BY <1>2
    <3> HIDE DEF q
    <3>4. QED BY <3>1, <3>2, <3>3 DEF Remover
  <2>6. Remover(x, S(x)!Summaries(u)) BY <1>2, <2>2, SummariesRemover
  <2> HIDE DEF q, r
  <2>7. QED BY <1>2, <2>1, <2>4, <2>5, <2>6, PageRemover, RemoverMoves DEF S!Set
<1>5. CASE S(x)!ListRepairs(c) \/ S(x)!ListRepairReads(c)
  <2> DEFINE p == [u EXCEPT !.pc = "repairRead"]
             q == [u EXCEPT !.pc = "recheck", !.idx = index, !.tries = @ + 1,
                            !.todo = u.gone, !.gone = {}]
  <2>1. S(x)!Set(c, S(x)!Idle) \/ S(x)!Set(c, p) \/ S(x)!Set(c, q)
    BY <1>1, <1>5 DEF S!ListRepairs, S!ListRepairReads, S!Done
  <2>2. /\ p.name = u.name /\ p.pc = "repairRead" /\ p.id = u.id
        /\ q.name = u.name /\ q.pc = "recheck" /\ q.id = u.id
    BY <1>2 DEF S!Idle
  <2> HIDE DEF p, q
  <2>3. Remover(x, p) /\ Remover(x, q) BY <1>2, <2>2, SameRemover
  <2>4. QED BY <2>1, <2>3, IdleRemover, RemoverMoves DEF S!Set
<1>6. QED BY <1>3, <1>4, <1>5

LEMMA AgainRemover ==
    ASSUME NEW x \in Stores, NEW c, DOMAIN op[c] = DOMAIN S(x)!Idle, Remover(x, op[c])
    PROVE  Remover(x, S(x)!Again(c))
<1> DEFINE o == op[c]
<1>1. \/ S(x)!Again(c) = S(x)!Idle
      \/ /\ S(x)!Again(c).name = o.name /\ S(x)!Again(c).id = o.id /\ S(x)!Again(c).pc \in {"bodies", "read"}
  BY DEF S!Again, S!Idle
<1>2. QED BY <1>1, IdleRemover, SameRemover

LEMMA WritesKeepRemovers ==
    ASSUME NEW x \in Stores, IInv(x), RemoverInv(x), NEW c \in Callers[x],
           S(x)!Commit(c) \/ S(x)!DeleteSwaps(c) \/ S(x)!CleanupSwaps(c)
    PROVE  RemoverInv(x)'
<1>1. DOMAIN op[c] = DOMAIN S(x)!Idle /\ Remover(x, op[c])
  BY DEF IInv, OpInv, Operation, RemoverInv
<1>2. S(x)!Set(c, S(x)!Idle) \/ S(x)!Set(c, S(x)!Again(c)) BY DEF S!Commit, S!DeleteSwaps, S!CleanupSwaps, S!Done
<1>3. QED BY <1>1, <1>2, AgainRemover, IdleRemover, RemoverMoves DEF S!Set

LEMMA InitTells == ASSUME NEW x \in Stores, S(x)!Init PROVE RemoverInv(x) /\ LogInv(x)
<1>1. RemoverInv(x) BY IdleRemover DEF S!Init, RemoverInv
<1>2. Past /\ LivesLast(x) /\ AttachmentsFollow /\ StoriesBegin(x) /\ RevisionsTold(x) /\ EndsTold(x)
  BY DEF S!Init, Past, LivesLast, AttachmentsFollow, StoriesBegin, RevisionsTold, EndsTold
<1>3. QED BY <1>1, <1>2 DEF S!Init, LogInv

LEMMA NextTells ==
    ASSUME NEW x \in Stores, S(x)!SessionStoreAssumption, IInv(x), RemoverInv(x), LogInv(x),
           [S(x)!Next]_vars
    PROVE  RemoverInv(x)' /\ LogInv(x)'
<1>1. ASSUME NEW c \in Callers[x],
             \E id \in Ids[x] : S(x)!Hold(c, S(x)!NewSession(id)) \/ (body[id] # None /\ S(x)!Hold(c, body[id]))
      PROVE  RemoverInv(x)' /\ LogInv(x)'
  <2>1. UNCHANGED <<op, body, ordinal, log, minted, expired>> BY <1>1 DEF S!Hold
  <2>2. QED BY <2>1, OthersTell DEF RemoverInv, Remover
<1>2. ASSUME NEW c \in Callers[x],
             \/ S(x)!CallSave(c) \/ S(x)!CallList(c)
             \/ \E id \in Ids[x] : S(x)!CallDelete(c, id) \/ \E u \in Updaters[x] : S(x)!CallUpdate(c, id, u)
             \/ \E t \in 2 .. clock : S(x)!CallCleanup(c, t)
      PROVE  RemoverInv(x)' /\ LogInv(x)'
  <2>1. UNCHANGED <<body, ordinal, log, minted, expired>>
    BY <1>2 DEF S!CallSave, S!CallList, S!CallDelete, S!CallUpdate, S!CallCleanup, S!Call
  <2>2. QED BY <1>2, <2>1, CallsKeepRemovers, OthersTell
<1>3. ASSUME NEW c \in Callers[x],
             \/ \E what \in S(x)!AllThree : S(x)!Read(c, what)
             \/ S(x)!SaveDecides(c) \/ S(x)!UpdateDecides(c) \/ S(x)!UpdateReadsOrdinal(c) \/ S(x)!DeleteDecides(c)
             \/ \E id \in Ids[x] : S(x)!Scan(c, id)
      PROVE  RemoverInv(x)' /\ LogInv(x)'
  <2>1. UNCHANGED <<body, ordinal, log, minted, expired>>
    BY <1>3 DEF S!Read, S!SaveDecides, S!UpdateDecides, S!UpdateReadsOrdinal, S!DeleteDecides,
       S!Scan
  <2>2. QED BY <1>3, <2>1, ReadsKeepRemovers, OthersTell
<1>4. ASSUME NEW c \in Callers[x],
             \/ S(x)!CleanupReadsIndex(c) \/ \E id \in Ids[x] : S(x)!CleanupReads(c, id)
      PROVE  RemoverInv(x)' /\ LogInv(x)'
  <2>1. UNCHANGED <<body, ordinal, log, minted, expired>>
    BY <1>4 DEF S!CleanupReadsIndex, S!CleanupReads
  <2>2. QED BY <1>4, <2>1, CleaningKeepsRemovers, OthersTell
<1>5. ASSUME NEW c \in Callers[x],
             \/ \E id \in Ids[x] : S(x)!ListLooks(c, id)
             \/ S(x)!ListDecides(c) \/ S(x)!ListRebuilds(c) \/ S(x)!ListReads(c)
             \/ S(x)!ListRepairs(c) \/ S(x)!ListRepairReads(c)
      PROVE  RemoverInv(x)' /\ LogInv(x)'
  <2>1. UNCHANGED <<body, ordinal, log, minted, expired>>
    BY <1>5 DEF S!ListLooks, S!ListDecides, S!ListRebuilds, S!ListReads, S!ListRepairs,
       S!ListRepairReads
  <2>2. QED BY <1>5, <2>1, ListingKeepsRemovers, OthersTell
<1>6. ASSUME NEW c \in Callers[x], S(x)!Commit(c) \/ S(x)!DeleteSwaps(c) \/ S(x)!CleanupSwaps(c)
      PROVE  RemoverInv(x)' /\ LogInv(x)'
  BY <1>6, WritesKeepRemovers, CommittingTells, DeletingTells, ExpiringTells
<1>7. CASE UNCHANGED vars
  <2>1. UNCHANGED <<op, body, ordinal, log, minted, expired>> BY <1>7 DEF vars, storeVars
  <2>2. QED BY <2>1, OthersTell DEF RemoverInv, Remover
<1>8. QED
  <2>1. CASE S(x)!Next
    <3>1. PICK c \in Callers[x] :
             \/ \E id \in Ids[x] : S(x)!Hold(c, S(x)!NewSession(id)) \/ (body[id] # None /\ S(x)!Hold(c, body[id]))
             \/ S(x)!CallSave(c) \/ S(x)!CallList(c)
             \/ \E id \in Ids[x] : S(x)!CallDelete(c, id) \/ \E u \in Updaters[x] : S(x)!CallUpdate(c, id, u)
             \/ \E t \in 2 .. clock : S(x)!CallCleanup(c, t)
             \/ \E what \in S(x)!AllThree : S(x)!Read(c, what)
             \/ S(x)!SaveDecides(c) \/ S(x)!UpdateDecides(c) \/ S(x)!UpdateReadsOrdinal(c) \/ S(x)!DeleteDecides(c)
             \/ \E id \in Ids[x] : S(x)!Scan(c, id) \/ S(x)!CleanupReads(c, id) \/ S(x)!ListLooks(c, id)
             \/ S(x)!Commit(c) \/ S(x)!DeleteSwaps(c)
             \/ S(x)!CleanupReadsIndex(c) \/ S(x)!CleanupSwaps(c)
             \/ S(x)!ListDecides(c) \/ S(x)!ListRebuilds(c) \/ S(x)!ListReads(c)
             \/ S(x)!ListRepairs(c) \/ S(x)!ListRepairReads(c)
      BY <2>1 DEF S!Next
    <3>2. QED BY <1>1, <1>2, <1>3, <1>4, <1>5, <1>6, <3>1
  <2>2. QED BY <1>7, <2>1

-----------------------------------------------------------------------------
(* Types that the rest does not give: what the index and its copies are    *)
(* about.                                                                  *)

Spans(x, o) ==
    /\ o.idx # None => DOMAIN o.idx \subseteq Ids[x]
    /\ DOMAIN o.sums \subseteq Ids[x]
    /\ o.pc = "repair" => o.idx # None

SpanInv(x) ==
    /\ called \in 0 .. MaxOperations[x]
    /\ index # None => DOMAIN index \subseteq Ids[x]
    /\ \A c \in Callers[x] : Spans(x, op[c])

LEMMA InitSpans == ASSUME NEW x \in Stores, S(x)!SessionStoreAssumption, S(x)!Init PROVE SpanInv(x)
  BY DEF S!SessionStoreAssumption, S!Init, S!Idle, S!NoSummaries, SpanInv, Spans

\* A step that sets one operation and leaves the index alone, or not.
LEMMA SpansSet ==
    ASSUME NEW x \in Stores, IInv(x), SpanInv(x), NEW c \in Callers[x], NEW o, S(x)!Set(c, o),
           Spans(x, o), called' \in 0 .. MaxOperations[x],
           index' # None => DOMAIN index' \subseteq Ids[x]
    PROVE  SpanInv(x)'
<1>1. \A d \in Callers[x] : op'[d] = o \/ op'[d] = op[d] BY DEF S!Set, IInv, OpInv
<1>2. QED BY <1>1 DEF SpanInv, Spans

LEMMA SpansKept ==
    ASSUME NEW x \in Stores, IInv(x), SpanInv(x), NEW c \in Callers[x], NEW o, S(x)!Set(c, o),
           Spans(x, o), UNCHANGED <<called, index>>
    PROVE  SpanInv(x)'
  BY SpansSet DEF SpanInv

LEMMA SummariesSpan ==
    ASSUME NEW x \in Stores, NEW o, DOMAIN o = DOMAIN S(x)!Idle,
           o.idx # None => DOMAIN o.idx \subseteq Ids[x]
    PROVE  Spans(x, S(x)!Summaries(o))
  BY DEF S!Summaries, S!NoSummaries, S!Idle, Spans

LEMMA IdleSpans == ASSUME NEW x \in Stores PROVE Spans(x, S(x)!Idle)
  BY DEF Spans, S!Idle, S!NoSummaries

LEMMA PageSpans ==
    ASSUME NEW x \in Stores, NEW o, NEW f, DOMAIN o = DOMAIN S(x)!Idle, Spans(x, o)
    PROVE  Spans(x, S(x)!Page(o, f))
  BY IdleSpans DEF S!Page, S!Idle, Spans

LEMMA AgainSpans ==
    ASSUME NEW x \in Stores, NEW c, DOMAIN op[c] = DOMAIN S(x)!Idle, Spans(x, op[c])
    PROVE  Spans(x, S(x)!Again(c))
  BY IdleSpans DEF S!Again, S!Idle, Spans

LEMMA CallsSpan ==
    ASSUME NEW x \in Stores, S(x)!SessionStoreAssumption, IInv(x), SpanInv(x), NEW c \in Callers[x],
           \/ S(x)!CallSave(c) \/ S(x)!CallList(c)
           \/ \E id \in Ids[x] : S(x)!CallDelete(c, id) \/ \E u \in Updaters[x] : S(x)!CallUpdate(c, id, u)
           \/ \E t \in 2 .. clock : S(x)!CallCleanup(c, t)
    PROVE  SpanInv(x)'
<1>1. ASSUME NEW o, S(x)!Call(c, o), o.idx = None, o.sums = S(x)!NoSummaries, o.pc # "repair"
      PROVE  SpanInv(x)'
  <2>1. Spans(x, o) BY <1>1 DEF Spans, S!NoSummaries
  <2>2. called' \in 0 .. MaxOperations[x]
    BY <1>1 DEF S!Call, SpanInv, S!SessionStoreAssumption
  <2>3. S(x)!Set(c, o) /\ index' = index BY <1>1 DEF S!Call, S!Set
  <2>4. QED BY <2>1, <2>2, <2>3, SpansSet DEF SpanInv
<1>2. CASE S(x)!CallSave(c) BY <1>1, <1>2 DEF S!CallSave, S!Idle
<1>3. CASE S(x)!CallList(c) BY <1>1, <1>3 DEF S!CallList, S!Idle
<1>4. ASSUME NEW id \in Ids[x], S(x)!CallDelete(c, id) PROVE SpanInv(x)'
  BY <1>1, <1>4 DEF S!CallDelete, S!Idle
<1>5. ASSUME NEW id \in Ids[x], NEW u \in Updaters[x], S(x)!CallUpdate(c, id, u) PROVE SpanInv(x)'
  BY <1>1, <1>5 DEF S!CallUpdate, S!Idle
<1>6. ASSUME NEW t \in 2 .. clock, S(x)!CallCleanup(c, t) PROVE SpanInv(x)'
  BY <1>1, <1>6 DEF S!CallCleanup, S!Idle
<1>7. QED BY <1>2, <1>3, <1>4, <1>5, <1>6

LEMMA ReadsSpan ==
    ASSUME NEW x \in Stores, IInv(x), SpanInv(x), NEW c \in Callers[x],
           \/ \E what \in S(x)!AllThree : S(x)!Read(c, what)
           \/ S(x)!SaveDecides(c) \/ S(x)!UpdateDecides(c) \/ S(x)!UpdateReadsOrdinal(c)
           \/ S(x)!DeleteDecides(c) \/ S(x)!CleanupReadsIndex(c)
           \/ \E id \in Ids[x] : S(x)!Scan(c, id) \/ S(x)!CleanupReads(c, id)
    PROVE  SpanInv(x)'
<1>1. PICK u : u = op[c] OBVIOUS
<1>2. DOMAIN u = DOMAIN S(x)!Idle /\ Spans(x, u) /\ (index # None => DOMAIN index \subseteq Ids[x])
  BY <1>1 DEF IInv, OpInv, Operation, SpanInv
<1>3. ASSUME NEW what \in S(x)!AllThree, S(x)!Read(c, what) PROVE SpanInv(x)'
  <2> DEFINE r == [u EXCEPT !.left = @ \ {what}]
             o == CASE what = "body" -> [r EXCEPT !.seen = body[r.id]]
                    [] what = "index" -> [r EXCEPT !.idx = index]
                    [] what = "ordinal" -> [r EXCEPT !.ord = ordinal]
  <2>1. o.sums = u.sums /\ (o.idx = u.idx \/ o.idx = index) /\ o.pc = "read"
    BY <1>1, <1>2, <1>3 DEF S!Idle, S!AllThree, S!Read
  <2>2. Spans(x, o) BY <1>2, <2>1 DEF Spans
  <2>3. S(x)!Set(c, o) /\ UNCHANGED <<called, index>> BY <1>1, <1>3 DEF S!Read
  <2>4. QED BY <2>2, <2>3, SpansKept
<1>4. ASSUME S(x)!Set(c, S(x)!Summaries(u)), UNCHANGED <<called, index>> PROVE SpanInv(x)'
  BY <1>2, <1>4, SummariesSpan, SpansKept DEF Spans
<1>5. CASE S(x)!SaveDecides(c) \/ S(x)!DeleteDecides(c)
  BY <1>1, <1>4, <1>5, IdleSpans, SpansKept DEF S!SaveDecides, S!DeleteDecides
<1>6. CASE S(x)!UpdateDecides(c)
  <2>1. PICK cand : S(x)!Set(c, S(x)!Idle) \/ S(x)!Set(c, [u EXCEPT !.pc = "ordinal", !.cand = cand])
    BY <1>1, <1>6 DEF S!UpdateDecides
  <2>2. Spans(x, [u EXCEPT !.pc = "ordinal", !.cand = cand]) BY <1>2 DEF Spans, S!Idle
  <2>3. UNCHANGED <<called, index>> BY <1>6 DEF S!UpdateDecides
  <2>4. QED BY <2>1, <2>2, <2>3, IdleSpans, SpansKept
<1>7. CASE S(x)!UpdateReadsOrdinal(c)
  <2> DEFINE o == [u EXCEPT !.ord = ordinal]
  <2>1. DOMAIN o = DOMAIN S(x)!Idle /\ o.idx = u.idx BY <1>2 DEF S!Idle
  <2>2. S(x)!Set(c, S(x)!Summaries(o)) /\ UNCHANGED <<called, index>>
    BY <1>1, <1>7 DEF S!UpdateReadsOrdinal
  <2> HIDE DEF o
  <2>3. Spans(x, S(x)!Summaries(o)) BY <1>2, <2>1, SummariesSpan DEF Spans
  <2>4. QED BY <2>2, <2>3, SpansKept
<1>8. CASE S(x)!CleanupReadsIndex(c)
  <2> DEFINE o == [u EXCEPT !.idx = index]
  <2>1. DOMAIN o = DOMAIN S(x)!Idle /\ o.idx = index BY <1>2 DEF S!Idle
  <2>2. S(x)!Set(c, S(x)!Summaries(o)) /\ UNCHANGED <<called, index>>
    BY <1>1, <1>8 DEF S!CleanupReadsIndex
  <2> HIDE DEF o
  <2>3. Spans(x, S(x)!Summaries(o)) BY <1>2, <2>1, SummariesSpan
  <2>4. QED BY <2>2, <2>3, SpansKept
<1>9. ASSUME NEW id \in Ids[x], S(x)!Scan(c, id) PROVE SpanInv(x)'
  <2> DEFINE o == [u EXCEPT !.todo = @ \ {id}]
             p == IF body[id] = None THEN o
                  ELSE [o EXCEPT !.sums = S(x)!Including(@, id, body[id])]
             q == IF p.todo = {} THEN [p EXCEPT !.pc = "swap"] ELSE p
  <2>1. /\ q.idx = u.idx
        /\ q.sums = u.sums \/ q.sums = S(x)!Including(u.sums, id, body[id])
        /\ q.pc \in {"scan", "swap"}
    BY <1>1, <1>2, <1>9 DEF S!Idle, S!Scan
  <2>2. S(x)!Set(c, q) /\ UNCHANGED <<called, index>> BY <1>1, <1>9 DEF S!Scan
  <2> HIDE DEF q
  <2>3. Spans(x, q) BY <1>2, <2>1 DEF Spans, S!Including
  <2>4. QED BY <2>2, <2>3, SpansKept
<1>10. ASSUME NEW id \in Ids[x], S(x)!CleanupReads(c, id) PROVE SpanInv(x)'
  <2> DEFINE o == [u EXCEPT !.todo = @ \ {id}, !.seen[id] = body[id]]
             old == {i \in Ids[x] : o.seen[i] # None /\ o.seen[i].at < o.cutoff}
             p == IF o.todo # {} THEN o ELSE IF old = {} THEN S(x)!Idle
                  ELSE [o EXCEPT !.pc = "index", !.gone = old]
  <2>1. S(x)!Set(c, p) /\ UNCHANGED <<called, index>> BY <1>1, <1>10 DEF S!CleanupReads
  <2>2. DOMAIN o = DOMAIN S(x)!Idle /\ o.idx = u.idx /\ o.sums = u.sums /\ o.pc = u.pc
    BY <1>2 DEF S!Idle
  <2> HIDE DEF o
  <2>3. p = S(x)!Idle \/ (p.idx = u.idx /\ p.sums = u.sums /\ p.pc \in {u.pc, "index"})
    BY <2>2 DEF S!Idle
  <2> HIDE DEF p
  <2>4. Spans(x, p) BY <1>2, <2>3, IdleSpans DEF Spans
  <2>5. QED BY <2>1, <2>4, SpansKept
<1>11. QED BY <1>3, <1>5, <1>6, <1>7, <1>8, <1>9, <1>10

LEMMA ListsSpan ==
    ASSUME NEW x \in Stores, IInv(x), SpanInv(x), NEW c \in Callers[x],
           \/ \E id \in Ids[x] : S(x)!ListLooks(c, id)
           \/ S(x)!ListDecides(c) \/ S(x)!ListRebuilds(c) \/ S(x)!ListReads(c)
           \/ S(x)!ListRepairs(c) \/ S(x)!ListRepairReads(c)
    PROVE  SpanInv(x)'
<1>1. PICK u : u = op[c] OBVIOUS
<1>2. DOMAIN u = DOMAIN S(x)!Idle /\ Spans(x, u) /\ (index # None => DOMAIN index \subseteq Ids[x])
  BY <1>1 DEF IInv, OpInv, Operation, SpanInv
<1>4. ASSUME NEW id \in Ids[x], S(x)!ListLooks(c, id) PROVE SpanInv(x)'
  <2> DEFINE o == [u EXCEPT !.todo = @ \ {id}, !.gone = IF body[id] = None THEN @ \cup {id} ELSE @]
             p == IF o.todo # {} THEN o
                  ELSE IF o.gone = {} \/ o.idx = None THEN S(x)!Idle
                  ELSE IF o.pc = "page"
                  THEN [o EXCEPT !.pc = "recheck", !.todo = o.gone, !.gone = {}]
                  ELSE [o EXCEPT !.pc = "repair"]
  <2>1. S(x)!Set(c, p) /\ UNCHANGED <<called, index>> BY <1>1, <1>4 DEF S!ListLooks
  <2>2. DOMAIN o = DOMAIN S(x)!Idle /\ o.idx = u.idx /\ o.sums = u.sums /\ o.pc = u.pc
        /\ o.pc \in {"page", "recheck"}
    BY <1>1, <1>2, <1>4 DEF S!Idle, S!ListLooks
  <2> HIDE DEF o
  <2>3. p = S(x)!Idle \/ (p.idx = u.idx /\ p.sums = u.sums /\ (p.pc = "repair" => u.idx # None))
    BY <2>2 DEF S!Idle
  <2> HIDE DEF p
  <2>4. Spans(x, p) BY <1>2, <2>3, IdleSpans DEF Spans
  <2>5. QED BY <2>1, <2>4, SpansKept
<1>5. CASE S(x)!ListDecides(c)
  <2>1. Spans(x, S(x)!Summaries(u)) /\ Spans(x, S(x)!Page(u, u.idx))
    BY <1>2, SummariesSpan, PageSpans DEF Spans
  <2>2. QED BY <1>1, <1>5, <2>1, SpansKept DEF S!ListDecides
<1>6. CASE S(x)!ListRebuilds(c)
  <2> DEFINE o == [u EXCEPT !.idx = u.sums]
  <2>1. DOMAIN o = DOMAIN S(x)!Idle /\ o.idx = u.sums /\ o.sums = u.sums /\ o.pc = "swap"
    BY <1>1, <1>2, <1>6 DEF S!Idle, S!ListRebuilds
  <2>2. Spans(x, S(x)!Page(o, u.sums))
    <3> HIDE DEF o
    <3>1. Spans(x, o) BY <1>2, <2>1 DEF Spans
    <3>2. QED BY <2>1, <3>1, PageSpans
  <2>3. Spans(x, [u EXCEPT !.pc = "reread"]) BY <1>2 DEF Spans, S!Idle
  <2>4. \/ S(x)!Set(c, S(x)!Page(o, u.sums)) /\ index' = u.sums
        \/ S(x)!Set(c, [u EXCEPT !.pc = "reread"]) /\ index' = index
    BY <1>1, <1>6 DEF S!ListRebuilds
  <2>5. called' = called BY <1>6 DEF S!ListRebuilds
  <2>6. QED BY <1>2, <2>2, <2>3, <2>4, <2>5, SpansSet DEF SpanInv, Spans
<1>7. CASE S(x)!ListReads(c)
  <2> DEFINE o == [u EXCEPT !.idx = index]
  <2>1. DOMAIN o = DOMAIN S(x)!Idle /\ o.idx = index /\ o.sums = u.sums /\ o.pc = "reread"
    BY <1>1, <1>2, <1>7 DEF S!Idle, S!ListReads
  <2>2. Spans(x, S(x)!Page(o, index)) /\ Spans(x, S(x)!Page(u, u.sums))
    <3> HIDE DEF o
    <3>1. Spans(x, o) BY <1>2, <2>1 DEF Spans
    <3>2. QED BY <1>2, <2>1, <3>1, PageSpans
  <2>3. S(x)!Set(c, S(x)!Page(o, index)) \/ S(x)!Set(c, S(x)!Page(u, u.sums))
    BY <1>1, <1>7 DEF S!ListReads
  <2>4. UNCHANGED <<called, index>> BY <1>7 DEF S!ListReads
  <2>5. QED BY <2>2, <2>3, <2>4, SpansKept
<1>8. CASE S(x)!ListRepairs(c)
  <2>1. Spans(x, [u EXCEPT !.pc = "repairRead"]) BY <1>2 DEF Spans, S!Idle
  <2>2. \/ S(x)!Set(c, S(x)!Idle)
           /\ index' = S(x)!Restrict(index, DOMAIN index \ u.gone) /\ index = u.idx
        \/ S(x)!Set(c, [u EXCEPT !.pc = "repairRead"]) /\ index' = index
    BY <1>1, <1>8 DEF S!ListRepairs, S!Done, S!IndexUnchanged
  <2>3. called' = called BY <1>8 DEF S!ListRepairs
  <2>4. index' # None => DOMAIN index' \subseteq Ids[x]
    <3>1. u.idx # None BY <1>1, <1>2, <1>8 DEF Spans, S!ListRepairs
    <3>2. CASE index' = index BY <1>2, <3>2
    <3>3. CASE index' = S(x)!Restrict(index, DOMAIN index \ u.gone) /\ index = u.idx
      <4>1. DOMAIN index' \subseteq DOMAIN index BY <3>3 DEF S!Restrict
      <4>2. QED BY <1>2, <3>1, <3>3, <4>1
    <3>4. QED BY <2>2, <3>2, <3>3
  <2>5. QED BY <2>1, <2>2, <2>3, <2>4, IdleSpans, SpansSet DEF SpanInv
<1>9. CASE S(x)!ListRepairReads(c)
  <2> DEFINE o == IF index = None \/ u.tries + 1 = MaxAttempts[x] THEN S(x)!Idle
                  ELSE [u EXCEPT !.pc = "recheck", !.idx = index, !.tries = @ + 1,
                                 !.todo = u.gone, !.gone = {}]
  <2>1. S(x)!Set(c, o) /\ UNCHANGED <<called, index>> BY <1>1, <1>9 DEF S!ListRepairReads
  <2>2. o = S(x)!Idle \/ (o.idx = index /\ o.sums = u.sums /\ o.pc = "recheck")
    BY <1>2 DEF S!Idle
  <2> HIDE DEF o
  <2>3. Spans(x, o) BY <1>2, <2>2, IdleSpans DEF Spans
  <2>4. QED BY <2>1, <2>3, SpansKept
<1>10. QED BY <1>4, <1>5, <1>6, <1>7, <1>8, <1>9

LEMMA WritesSpan ==
    ASSUME NEW x \in Stores, IInv(x), SpanInv(x), NEW c \in Callers[x],
           S(x)!Commit(c) \/ S(x)!DeleteSwaps(c) \/ S(x)!CleanupSwaps(c)
    PROVE  SpanInv(x)'
<1>1. PICK u : u = op[c] OBVIOUS
<1>2. Operation(x, u) /\ DOMAIN u = DOMAIN S(x)!Idle /\ Spans(x, u)
  BY <1>1 DEF IInv, OpInv, Operation, SpanInv
<1>3. called' = called /\ ((S(x)!Set(c, S(x)!Again(c)) /\ index' = index) \/ S(x)!Set(c, S(x)!Idle))
  BY <1>1 DEF S!Commit, S!DeleteSwaps, S!CleanupSwaps, S!Done
<1>4. index' # None => DOMAIN index' \subseteq Ids[x]
  <2>1. CASE index' = index BY <2>1 DEF SpanInv
  <2>2. ASSUME NEW w, S(x)!Commit(c), index' = S(x)!Including(u.sums, u.id, w)
        PROVE  DOMAIN index' \subseteq Ids[x]
    <3>1. u.id \in Ids[x] BY <1>1, <1>2, <2>2 DEF S!Commit, Operation, Writer
    <3>2. QED BY <1>2, <2>2, <3>1 DEF Spans, S!Including
  <2>3. ASSUME NEW R, index' = S(x)!IndexWithout(u.sums, R), index' # None
        PROVE  DOMAIN index' \subseteq Ids[x]
    BY <1>2, <2>3 DEF Spans, S!IndexWithout, S!Restrict
  <2>4. CASE S(x)!Commit(c) /\ index' # index BY <1>1, <2>2, <2>4 DEF S!Commit
  <2>5. CASE ~S(x)!Commit(c) /\ index' # index
    BY <1>1, <2>3, <2>5 DEF S!DeleteSwaps, S!CleanupSwaps
  <2>6. QED BY <2>1, <2>4, <2>5
<1>5. Spans(x, S(x)!Again(c)) BY <1>1, <1>2, AgainSpans
<1>6. QED BY <1>3, <1>4, <1>5, IdleSpans, SpansSet DEF SpanInv

LEMMA NextSpans ==
    ASSUME NEW x \in Stores, S(x)!SessionStoreAssumption, IInv(x), SpanInv(x), [S(x)!Next]_vars
    PROVE  SpanInv(x)'
<1>1. ASSUME NEW c \in Callers[x], NEW s, S(x)!Hold(c, s) PROVE SpanInv(x)'
  BY <1>1 DEF S!Hold, SpanInv, Spans
<1>2. CASE UNCHANGED vars BY <1>2 DEF vars, storeVars, SpanInv, Spans
<1>3. QED BY <1>1, <1>2, CallsSpan, ReadsSpan, ListsSpan, WritesSpan DEF S!Next

LEMMA StoreTypes ==
    ASSUME NEW x \in Stores, IInv(x), LogInv(x), SpanInv(x) PROVE S(x)!TypeOK
<1>1. ASSUME NEW i \in Ids[x], body[i] # None PROVE body[i] \in S(x)!Session /\ body[i].id = i
  <2>1. body[i] \in Stored(x) /\ body[i].id = i /\ body[i].inc \in 1 .. minted
    BY <1>1 DEF IInv, BodyInv
  <2>2. QED BY <2>1 DEF Stored, Messages, Message, S!Session
<1>2. ASSUME NEW c \in Callers[x], mine[c] # None PROVE mine[c] \in S(x)!Session
  <2>1. mine[c] \in Stored(x) /\ mine[c].inc <= minted BY <1>2 DEF IInv, MineInv, Copy
  <2>2. minted \in Nat BY DEF IInv, BodyInv
  <2>3. QED BY <2>1, <2>2 DEF Stored, Messages, Message, S!Session
<1>3. ordinal = Len(log) BY DEF LogInv
<1>4. \A n \in DOMAIN log : log[n].id \in Ids[x] BY EntriesNameIds
<1>5. QED BY <1>1, <1>2, <1>3, <1>4 DEF SpanInv, S!TypeOK

-----------------------------------------------------------------------------
(* The composition, and the theorems.                                      *)

StoreInv(x) ==
    /\ IInv(x) /\ RemoverInv(x) /\ LogInv(x) /\ SpanInv(x)
    /\ FineClock[x] => IndexInv(x)

PickedStoreInv == \A x \in Stores : instance = x => StoreInv(x)

\* The store that is picked stays picked, and takes its own steps.
LEMMA StoreMoves ==
    ASSUME [Next]_vars, NEW x \in Stores, instance = x \/ instance' = x
    PROVE  instance = x /\ instance' = x /\ [S(x)!Next]_vars
  BY Apart DEF Next, vars

LEMMA PickedStoreInvariant == Spec => []PickedStoreInv
<1>1. Init => PickedStoreInv
  <2>1. ASSUME Init, NEW x \in Stores, instance = x PROVE StoreInv(x)
    <3>1. S(x)!SessionStoreAssumption /\ S(x)!Init BY <2>1, Apart, StoreInstances DEF Init
    <3>2. QED BY <3>1, InitKeeps, InitTells, InitSpans, InitIndexed DEF StoreInv
  <2>2. QED BY <2>1 DEF PickedStoreInv
<1>2. ASSUME PickedStoreInv, [Next]_vars PROVE PickedStoreInv'
  <2>1. ASSUME NEW x \in Stores, instance' = x PROVE StoreInv(x)'
    <3>1. S(x)!SessionStoreAssumption /\ StoreInv(x) /\ [S(x)!Next]_vars
      BY <1>2, <2>1, StoreMoves, StoreInstances DEF PickedStoreInv
    <3>2. IInv(x)' BY <3>1, NextKeeps DEF StoreInv
    <3>3. RemoverInv(x)' /\ LogInv(x)' BY <3>1, NextTells DEF StoreInv
    <3>4. FineClock[x] => IndexInv(x)' BY <3>1, NextKeepsIndex DEF StoreInv
    <3>5. SpanInv(x)' BY <3>1, NextSpans DEF StoreInv
    <3>6. QED BY <3>2, <3>3, <3>4, <3>5 DEF StoreInv
  <2>2. QED BY <2>1 DEF PickedStoreInv
<1>3. QED BY <1>1, <1>2, PTL DEF Spec

\* What a save or an update has reported as written stays in the session for as
\* long as that life of it lasts, for any callers, operations, lost swaps,
\* deletions, expiries and rebuilt indexes (mergeSessions, commit).
THEOREM MessagesAreKept == Spec => []NoLostMessage
<1>1. PickedStoreInv => NoLostMessage
  BY DEF PickedStoreInv, StoreInv, IInv, AckInv, NoLostMessage
<1>2. QED BY <1>1, PickedStoreInvariant, PTL

\* list() shows every session and shows it as it is: whatever callers in any
\* number of processes rebuild, repair and write, the summary index never misses
\* a body nor keeps an earlier revision's summary, if no two commits happen in
\* one millisecond (commit, delete, cleanup, list).
THEOREM IndexIsFaithful == Spec => []IndexFaithful
<1>1. PickedStoreInv => IndexFaithful
  BY DEF PickedStoreInv, StoreInv, IndexInv, IndexFaithful
<1>2. QED BY <1>1, PickedStoreInvariant, PTL

\* The outbox tells the whole story of every life of a session: one entry per
\* revision from its creation on, its deletion exactly when it was deleted, and
\* each attachment after the revision it came with, for any callers that save,
\* update, delete, expire and list at once (commit, delete, cleanup).
THEOREM LogIsTheStory == Spec => []LogTellsBodies
<1>1. ASSUME PickedStoreInv, NEW x \in Stores, instance = x
      PROVE  S(x)!TypeOK /\ S(x)!LogTellsBodies
  <2>1. StoreInv(x) BY <1>1 DEF PickedStoreInv
  <2>2. S(x)!LogTellsBodies BY <2>1, LogTells DEF StoreInv
  <2>3. S(x)!TypeOK BY <2>1, StoreTypes DEF StoreInv
  <2>4. QED BY <2>2, <2>3
<1>2. PickedStoreInv => LogTellsBodies BY <1>1 DEF LogTellsBodies
<1>3. QED BY <1>2, PickedStoreInvariant, PTL

\* No claim of an outbox entry is shortened or taken from an owner before it has
\* run out (claim), and a stored session changes only into its own next revision
\* and takes nothing from an object of an earlier life of its id
\* (assertMatchingIncarnation).
THEOREM NothingIsTaken == Spec => NothingIsTakenBack
<1>1. ASSUME PickedStoreInv, [Next]_vars, NEW x \in Stores, instance = x
      PROVE  S(x)!LifeGoesOn
  <2>1. IInv(x) /\ [S(x)!Next]_vars BY <1>1, StoreMoves DEF PickedStoreInv, StoreInv
  <2>2. QED BY <2>1, StepKeepsLives
<1>2. PickedStoreInv /\ [Next]_vars => [\A x \in Stores : instance = x => S(x)!LifeGoesOn]_vars
  BY <1>1
<1>3. [\A x \in Outboxes : instance = x => O(x)!ClaimLasts]_vars
      /\ [\A x \in Stores : instance = x => S(x)!LifeGoesOn]_vars
      => [/\ \A x \in Outboxes : instance = x => O(x)!ClaimLasts
          /\ \A x \in Stores : instance = x => S(x)!LifeGoesOn]_vars
  OBVIOUS
<1>4. QED BY <1>2, <1>3, PickedStoreInvariant, ClaimsAreKept, PTL DEF Spec, NothingIsTakenBack
=============================================================================
