-------------------------- MODULE BackgroundProofs ---------------------------
(***************************************************************************)
(* Proofs about the services that work in the background.                  *)
(***************************************************************************)
EXTENDS Background, FiniteSetTheorems, SequenceTheorems, TLAPS

-----------------------------------------------------------------------------
(* Flow control.  The books are proved of the engine that may fail, whose  *)
(* steps include those of the engine that does not.                        *)

Everyone == Runs \cup Tasks

\* The instance counts sets as the library does.
LEMMA FlowSets ==
    ASSUME NEW S
    PROVE  /\ BrokenFlow!IsFiniteSet(S) <=> IsFiniteSet(S)
           /\ BrokenFlow!Cardinality(S) = Cardinality(S)
<1>1. BrokenFlow!IsFiniteSet(S) <=> IsFiniteSet(S)
  BY DEF BrokenFlow!IsFiniteSet, IsFiniteSet
<1>2. BrokenFlow!Cardinality(S) = Cardinality(S)
  BY <1>1 DEF BrokenFlow!Cardinality, Cardinality, BrokenFlow!IsFiniteSet, IsFiniteSet
<1> QED BY <1>1, <1>2

\* What the admission books must be for counts and claims to stay exact.
BooksTyped ==
    /\ counts \in [Keys -> Nat]
    /\ slot \in [Everyone -> {"none", "held", "free"}]
    /\ holders \in [Keys -> SUBSET Everyone]
    /\ claims \subseteq Everyone

\* Two runs that hold a claim have different singleton keys.
OneClaimPerKey ==
    \A r, s \in claims : SingletonOf[r] = SingletonOf[s] => r = s

Books ==
    /\ BooksTyped
    /\ BrokenFlow!CountsMatch /\ BrokenFlow!ClaimsMatch /\ OneClaimPerKey

Unbooked(r) == slot[r] = "none" /\ r \notin claims

\* The slots of a key after the slot of one run has changed.
LEMMA HoldingAfter ==
    ASSUME BooksTyped, NEW r \in Everyone, NEW v \in {"none", "held", "free"},
           slot' = [slot EXCEPT ![r] = v], NEW k \in Keys
    PROVE  /\ IsFiniteSet(BrokenFlow!Holding(k)) /\ Cardinality(BrokenFlow!Holding(k)) \in Nat
           /\ r \in BrokenFlow!Holding(k) <=> slot[r] = "held" /\ KeyOf[r] = k
           /\ BrokenFlow!Holding(k)' =
                IF KeyOf[r] # k THEN BrokenFlow!Holding(k)
                ELSE IF v = "held" THEN BrokenFlow!Holding(k) \cup {r}
                ELSE BrokenFlow!Holding(k) \ {r}
<1>1. IsFiniteSet(Everyone)
  BY FlowInstances, FlowSets DEF BrokenFlow!FlowAssumption, BrokenFlow!All, Everyone
<1>2. BrokenFlow!Holding(k) \subseteq Everyone
  BY DEF BrokenFlow!Holding, BrokenFlow!All, Everyone
<1>3. IsFiniteSet(BrokenFlow!Holding(k)) /\ Cardinality(BrokenFlow!Holding(k)) \in Nat
  BY <1>1, <1>2, FS_Subset, FS_CardinalityType
<1>4. r \in BrokenFlow!Holding(k) <=> slot[r] = "held" /\ KeyOf[r] = k
  BY DEF BrokenFlow!Holding, BrokenFlow!All, Everyone
<1>5. \A q : q \in BrokenFlow!Holding(k)' <=>
          q \in Everyone /\ (IF q = r THEN v = "held" ELSE slot[q] = "held") /\ KeyOf[q] = k
  BY DEF BrokenFlow!Holding, BrokenFlow!All, Everyone, BooksTyped
<1>6. \A q : q \in BrokenFlow!Holding(k) <=> q \in Everyone /\ slot[q] = "held" /\ KeyOf[q] = k
  BY DEF BrokenFlow!Holding, BrokenFlow!All, Everyone
<1> QED BY <1>3, <1>4, <1>5, <1>6

\* acquire() on a slot that is not held.
LEMMA AcquireCounts ==
    ASSUME Books, NEW r \in Everyone, slot[r] # "held",
           slot' = [slot EXCEPT ![r] = "held"], BrokenFlow!Acquire(KeyOf[r])
    PROVE  counts' \in [Keys -> Nat] /\ BrokenFlow!CountsMatch'
<1>1. KeyOf[r] \in Keys
  BY FlowInstances DEF BrokenFlow!FlowAssumption, BrokenFlow!All, Everyone
<1>2. counts' = [counts EXCEPT ![KeyOf[r]] = @ + 1] /\ counts' \in [Keys -> Nat]
  BY <1>1 DEF BrokenFlow!Acquire, Books, BooksTyped
<1>3. ASSUME NEW k \in Keys PROVE counts'[k] = Cardinality(BrokenFlow!Holding(k)')
  <2>1. counts[k] = Cardinality(BrokenFlow!Holding(k)) /\ BooksTyped
    BY FlowSets DEF Books, BrokenFlow!CountsMatch
  <2>2. CASE KeyOf[r] = k
    <3>1. /\ IsFiniteSet(BrokenFlow!Holding(k)) /\ r \notin BrokenFlow!Holding(k)
          /\ BrokenFlow!Holding(k)' = BrokenFlow!Holding(k) \cup {r}
      BY <2>1, <2>2, HoldingAfter
    <3>2. Cardinality(BrokenFlow!Holding(k)') = Cardinality(BrokenFlow!Holding(k)) + 1
      BY <3>1, FS_AddElement
    <3> QED BY <2>1, <2>2, <3>2, <1>1, <1>2 DEF BooksTyped
  <2>3. CASE KeyOf[r] # k
    <3>1. BrokenFlow!Holding(k)' = BrokenFlow!Holding(k)
      BY <2>1, <2>3, HoldingAfter
    <3> QED BY <2>1, <2>3, <3>1, <1>1, <1>2 DEF BooksTyped
  <2> QED BY <2>2, <2>3
<1> QED BY <1>2, <1>3, FlowSets DEF BrokenFlow!CountsMatch

\* release() of a slot that is held.
LEMMA ReleaseCounts ==
    ASSUME Books, NEW r \in Everyone, slot[r] = "held", NEW v \in {"none", "free"},
           slot' = [slot EXCEPT ![r] = v], BrokenFlow!Release(KeyOf[r])
    PROVE  counts' \in [Keys -> Nat] /\ BrokenFlow!CountsMatch'
<1>1. KeyOf[r] \in Keys
  BY FlowInstances DEF BrokenFlow!FlowAssumption, BrokenFlow!All, Everyone
<1>2. /\ counts' = [counts EXCEPT ![KeyOf[r]] = IF @ <= 1 THEN 0 ELSE @ - 1]
      /\ counts' \in [Keys -> Nat]
  BY <1>1 DEF BrokenFlow!Release, Books, BooksTyped
<1>3. ASSUME NEW k \in Keys PROVE counts'[k] = Cardinality(BrokenFlow!Holding(k)')
  <2>1. counts[k] = Cardinality(BrokenFlow!Holding(k)) /\ BooksTyped
    BY FlowSets DEF Books, BrokenFlow!CountsMatch
  <2>2. CASE KeyOf[r] = k
    <3>1. /\ IsFiniteSet(BrokenFlow!Holding(k)) /\ r \in BrokenFlow!Holding(k)
          /\ BrokenFlow!Holding(k)' = BrokenFlow!Holding(k) \ {r}
      BY <2>1, <2>2, HoldingAfter
    <3>2. /\ IsFiniteSet(BrokenFlow!Holding(k) \ {r})
          /\ Cardinality(BrokenFlow!Holding(k)') = Cardinality(BrokenFlow!Holding(k)) - 1
      BY <3>1, FS_RemoveElement
    <3>3. Cardinality(BrokenFlow!Holding(k)') \in Nat
      BY <3>1, <3>2, FS_CardinalityType
    <3> QED BY <2>1, <2>2, <3>2, <3>3, <1>1, <1>2 DEF BooksTyped
  <2>3. CASE KeyOf[r] # k
    <3>1. BrokenFlow!Holding(k)' = BrokenFlow!Holding(k)
      BY <2>1, <2>3, HoldingAfter
    <3> QED BY <2>1, <2>3, <3>1, <1>1, <1>2 DEF BooksTyped
  <2> QED BY <2>2, <2>3
<1> QED BY <1>2, <1>3, FlowSets DEF BrokenFlow!CountsMatch

\* Nothing happens to the counts when a slot that is not held is given up.
LEMMA FreeCounts ==
    ASSUME Books, NEW r \in Everyone, slot[r] # "held", NEW v \in {"none", "free"},
           slot' = [slot EXCEPT ![r] = v], UNCHANGED counts
    PROVE  counts' \in [Keys -> Nat] /\ BrokenFlow!CountsMatch'
<1>1. ASSUME NEW k \in Keys PROVE counts'[k] = Cardinality(BrokenFlow!Holding(k)')
  <2>1. counts[k] = Cardinality(BrokenFlow!Holding(k)) /\ BooksTyped
    BY FlowSets DEF Books, BrokenFlow!CountsMatch
  <2>2. /\ r \notin BrokenFlow!Holding(k)
        /\ BrokenFlow!Holding(k)' = IF KeyOf[r] # k THEN BrokenFlow!Holding(k)
                                    ELSE BrokenFlow!Holding(k) \ {r}
    BY <2>1, HoldingAfter
  <2>3. BrokenFlow!Holding(k)' = BrokenFlow!Holding(k)
    BY <2>2
  <2> QED BY <2>1, <2>3
<1> QED BY <1>1, FlowSets DEF BrokenFlow!CountsMatch, Books, BooksTyped

\* What the four operations of the controller leave of the books.
LEMMA Operations ==
    ASSUME Books, NEW r \in Everyone
    PROVE  /\ BrokenFlow!admit(r) /\ Unbooked(r) => Books' /\ slot' = [slot EXCEPT ![r] = "held"]
                                                      /\ claims' = claims \cup {r}
           /\ BrokenFlow!markParked(r) => Books' /\ claims' = claims
                /\ slot' = [slot EXCEPT ![r] = IF @ = "none" THEN "none" ELSE "free"]
           /\ BrokenFlow!markResumed(r) => Books' /\ claims' = claims
                /\ slot' = [slot EXCEPT ![r] = IF @ = "none" THEN "none" ELSE "held"]
           /\ BrokenFlow!settle(r) => Books' /\ claims' = claims \ {r}
                /\ slot' = [slot EXCEPT ![r] = "none"]
<1>. /\ KeyOf[r] \in Keys /\ SingletonOf[r] \in Keys
     /\ \A q \in Everyone : SingletonOf[q] \in Keys
  BY FlowInstances DEF BrokenFlow!FlowAssumption, BrokenFlow!All, Everyone
<1>. BooksTyped /\ slot[r] \in {"none", "held", "free"}
  BY DEF Books, BooksTyped
<1>1. ASSUME BrokenFlow!admit(r), Unbooked(r)
      PROVE  Books' /\ slot' = [slot EXCEPT ![r] = "held"] /\ claims' = claims \cup {r}
  <2>1. slot' = [slot EXCEPT ![r] = "held"] /\ slot[r] # "held" /\ BrokenFlow!Acquire(KeyOf[r])
    BY <1>1 DEF BrokenFlow!admit, Unbooked
  <2>2. counts' \in [Keys -> Nat] /\ BrokenFlow!CountsMatch'
    BY <2>1, AcquireCounts
  <2>3. /\ holders[SingletonOf[r]] \subseteq {r} /\ r \notin claims
        /\ holders' = [holders EXCEPT ![SingletonOf[r]] = {r}] /\ claims' = claims \cup {r}
    BY <1>1 DEF BrokenFlow!admit, BrokenFlow!Admissible, Unbooked
  <2>4. BooksTyped'
    BY <2>1, <2>2, <2>3 DEF BooksTyped
  <2>5. \A q \in claims : SingletonOf[q] # SingletonOf[r]
    BY <2>3 DEF Books, BrokenFlow!ClaimsMatch
  <2>6. BrokenFlow!ClaimsMatch'
    BY <2>3, <2>5 DEF Books, BooksTyped, BrokenFlow!ClaimsMatch
  <2>7. OneClaimPerKey'
    BY <2>3, <2>5 DEF Books, OneClaimPerKey
  <2> QED BY <2>1, <2>2, <2>3, <2>4, <2>6, <2>7 DEF Books
<1>2. ASSUME BrokenFlow!markParked(r)
      PROVE  /\ Books' /\ claims' = claims
             /\ slot' = [slot EXCEPT ![r] = IF @ = "none" THEN "none" ELSE "free"]
  <2>1. /\ slot' = [slot EXCEPT ![r] = IF @ = "none" THEN "none" ELSE "free"]
        /\ UNCHANGED <<holders, claims>>
    BY <1>2 DEF BrokenFlow!markParked, BooksTyped
  <2>2. BrokenFlow!ClaimsMatch' /\ OneClaimPerKey'
    BY <2>1 DEF Books, BrokenFlow!ClaimsMatch, OneClaimPerKey
  <2>3. counts' \in [Keys -> Nat] /\ BrokenFlow!CountsMatch'
    <3>1. CASE slot[r] = "held"
      BY <1>2, <3>1, ReleaseCounts DEF BrokenFlow!markParked
    <3>2. CASE slot[r] # "held"
      <4>1. slot' = [slot EXCEPT ![r] = slot[r]] /\ UNCHANGED counts /\ slot[r] \in {"none", "free"}
        BY <1>2, <3>2 DEF BrokenFlow!markParked, BooksTyped
      <4> QED BY <3>2, <4>1, FreeCounts
    <3> QED BY <3>1, <3>2
  <2> QED BY <2>1, <2>2, <2>3 DEF Books, BooksTyped
<1>3. ASSUME BrokenFlow!markResumed(r)
      PROVE  /\ Books' /\ claims' = claims
             /\ slot' = [slot EXCEPT ![r] = IF @ = "none" THEN "none" ELSE "held"]
  <2>1. /\ slot' = [slot EXCEPT ![r] = IF @ = "none" THEN "none" ELSE "held"]
        /\ UNCHANGED <<holders, claims>>
    BY <1>3 DEF BrokenFlow!markResumed, BooksTyped
  <2>2. BrokenFlow!ClaimsMatch' /\ OneClaimPerKey'
    BY <2>1 DEF Books, BrokenFlow!ClaimsMatch, OneClaimPerKey
  <2>3. counts' \in [Keys -> Nat] /\ BrokenFlow!CountsMatch'
    <3>1. CASE slot[r] = "free"
      BY <1>3, <3>1, AcquireCounts DEF BrokenFlow!markResumed
    <3>2. CASE slot[r] # "free"
      <4>1. UNCHANGED <<counts, slot>>
        BY <1>3, <3>2 DEF BrokenFlow!markResumed
      <4> QED BY <4>1 DEF Books, BooksTyped, BrokenFlow!CountsMatch, BrokenFlow!Holding
    <3> QED BY <3>1, <3>2
  <2> QED BY <2>1, <2>2, <2>3 DEF Books, BooksTyped
<1>4. ASSUME BrokenFlow!settle(r)
      PROVE  /\ Books' /\ claims' = claims \ {r}
             /\ slot' = [slot EXCEPT ![r] = "none"]
  <2>1. /\ slot' = [slot EXCEPT ![r] = "none"] /\ claims' = claims \ {r}
        /\ holders' = IF r \in claims THEN [holders EXCEPT ![SingletonOf[r]] = @ \ {r}] ELSE holders
    BY <1>4 DEF BrokenFlow!settle
  <2>2. BrokenFlow!ClaimsMatch' /\ OneClaimPerKey' /\ holders' \in [Keys -> SUBSET Everyone]
    <3>1. CASE r \in claims
      BY <2>1, <3>1 DEF Books, BooksTyped, BrokenFlow!ClaimsMatch, OneClaimPerKey
    <3>2. CASE r \notin claims
      BY <2>1, <3>2 DEF Books, BooksTyped, BrokenFlow!ClaimsMatch, OneClaimPerKey
    <3> QED BY <3>1, <3>2
  <2>3. counts' \in [Keys -> Nat] /\ BrokenFlow!CountsMatch'
    <3>1. CASE slot[r] = "held"
      BY <1>4, <2>1, <3>1, ReleaseCounts DEF BrokenFlow!settle
    <3>2. CASE slot[r] # "held"
      BY <1>4, <2>1, <3>2, FreeCounts DEF BrokenFlow!settle
    <3> QED BY <3>1, <3>2
  <2> QED BY <2>1, <2>2, <2>3 DEF Books, BooksTyped
<1> QED BY <1>1, <1>2, <1>3, <1>4

\* What the sliding window remembers stays a sequence of times.
LEMMA RecentTyped ==
    ASSUME NEW k \in Keys, stamps \in [Keys -> Seq(0 .. MaxNow)]
    PROVE  BrokenFlow!Recent(k) \in Seq(0 .. MaxNow)
<1> DEFINE s == stamps[k]
<1>1. s \in Seq(0 .. MaxNow) /\ DOMAIN s = 1 .. Len(s) /\ Len(s) \in Nat
  OBVIOUS
<1>2. BrokenFlow!Expired(k) \subseteq 1 .. Len(s)
  BY <1>1 DEF BrokenFlow!Expired
<1>a. \A n \in Nat : IsFiniteSet(1 .. n)
  BY FS_Interval
<1>3. IsFiniteSet(BrokenFlow!Expired(k))
  BY <1>1, <1>2, <1>a, FS_Subset
<1>4. BrokenFlow!Cardinality(BrokenFlow!Expired(k)) \in Nat
  BY <1>3, FS_CardinalityType, FlowSets
<1> DEFINE n == BrokenFlow!Cardinality(BrokenFlow!Expired(k))
<1>5. ASSUME NEW m \in Nat PROVE SubSeq(s, m + 1, Len(s)) \in Seq(0 .. MaxNow)
  <2> HIDE DEF s
  <2>1. \A i \in m + 1 .. Len(s) : i \in 1 .. Len(s)
    BY <1>1
  <2>2. \A i \in m + 1 .. Len(s) : s[i] \in 0 .. MaxNow
    BY <1>1, <2>1, ElementOfSeq
  <2> QED BY <1>1, <2>2, SubSeqProperties
<1> QED BY <1>4, <1>5 DEF BrokenFlow!Recent

\* The inductive invariant, whatever the engine does.
FlowInv ==
    /\ Books
    /\ now \in 0 .. MaxNow /\ stamps \in [Keys -> Seq(0 .. MaxNow)]
    /\ life \in [Everyone -> BrokenFlow!Lives] /\ signalled \subseteq Runs
    /\ \A r \in Everyone : life[r] = "new" => Unbooked(r)

\* The invariant includes the types.
LEMMA FlowTyped == ASSUME FlowInv PROVE BrokenFlow!TypeOK
<1>1. IsFiniteSet(Everyone)
  BY FlowInstances, FlowSets DEF BrokenFlow!FlowAssumption, BrokenFlow!All, Everyone
<1>2. ASSUME NEW k \in Keys PROVE counts[k] \in 0 .. BrokenFlow!Cardinality(Everyone)
  <2>1. BrokenFlow!Holding(k) \subseteq Everyone
    BY DEF BrokenFlow!Holding, BrokenFlow!All, Everyone
  <2>2. /\ Cardinality(BrokenFlow!Holding(k)) \in Nat /\ Cardinality(Everyone) \in Nat
        /\ Cardinality(BrokenFlow!Holding(k)) <= Cardinality(Everyone)
    BY <1>1, <2>1, FS_Subset, FS_CardinalityType
  <2>3. counts[k] = Cardinality(BrokenFlow!Holding(k))
    BY FlowSets DEF FlowInv, Books, BrokenFlow!CountsMatch
  <2> QED BY <2>2, <2>3, FlowSets
<1>3. counts \in [Keys -> 0 .. BrokenFlow!Cardinality(Everyone)]
  BY <1>2 DEF FlowInv, Books, BooksTyped
<1> QED BY <1>3 DEF FlowInv, Books, BooksTyped, BrokenFlow!TypeOK, BrokenFlow!All, Everyone

\* The controller starts with empty books.
LEMMA FlowInit == BrokenFlow!Init => FlowInv
<1> SUFFICES ASSUME BrokenFlow!Init PROVE FlowInv
  OBVIOUS
<1>1. BooksTyped /\ BrokenFlow!ClaimsMatch /\ OneClaimPerKey
  BY DEF BrokenFlow!Init, BooksTyped, BrokenFlow!ClaimsMatch, OneClaimPerKey, BrokenFlow!All, Everyone
<1>2. ASSUME NEW k \in Keys PROVE counts[k] = BrokenFlow!Cardinality(BrokenFlow!Holding(k))
  <2>1. BrokenFlow!Holding(k) = {}
    BY DEF BrokenFlow!Init, BrokenFlow!Holding
  <2> QED BY <2>1, FS_EmptySet, FlowSets DEF BrokenFlow!Init
<1>3. /\ now \in 0 .. MaxNow /\ stamps \in [Keys -> Seq(0 .. MaxNow)]
      /\ life \in [Everyone -> BrokenFlow!Lives] /\ signalled \subseteq Runs
      /\ \A r \in Everyone : Unbooked(r)
  BY FlowInstances DEF BrokenFlow!FlowAssumption, BrokenFlow!Init, BrokenFlow!All, Everyone,
     BrokenFlow!Lives, Unbooked
<1> QED BY <1>1, <1>2, <1>3 DEF FlowInv, Books, BrokenFlow!CountsMatch

\* A step that keeps the books exact and knows nobody anew keeps the invariant.
LEMMA FlowKept ==
    ASSUME FlowInv, Books', NEW r \in Everyone, NEW l \in BrokenFlow!Lives \ {"new"},
           life' = [life EXCEPT ![r] = l], signalled' \subseteq Runs, now' = now,
           stamps' \in [Keys -> Seq(0 .. MaxNow)],
           \A q \in Everyone \ {r} : Unbooked(q) => Unbooked(q)'
    PROVE  FlowInv'
BY DEF FlowInv, BrokenFlow!Lives

\* A run that is admitted leaves a stamp of now.
LEMMA AdmitTimes ==
    ASSUME FlowInv, NEW r \in Everyone, BrokenFlow!admit(r)
    PROVE  stamps' \in [Keys -> Seq(0 .. MaxNow)]
<1>1. KeyOf[r] \in Keys
  BY FlowInstances DEF BrokenFlow!FlowAssumption, BrokenFlow!All, Everyone
<1>2. BrokenFlow!Recent(KeyOf[r]) \in Seq(0 .. MaxNow)
  BY <1>1, RecentTyped DEF FlowInv
<1>3. Append(BrokenFlow!Recent(KeyOf[r]), now) \in Seq(0 .. MaxNow)
  BY <1>2 DEF FlowInv
<1> QED BY <1>1, <1>3 DEF BrokenFlow!admit, FlowInv

\* Every step of the engine that may fail keeps the books.
LEMMA FlowStep == FlowInv /\ [BrokenFlow!Next]_(BrokenFlow!vars) => FlowInv'
<1> SUFFICES ASSUME FlowInv, [BrokenFlow!Next]_(BrokenFlow!vars) PROVE FlowInv'
  OBVIOUS
<1>. Books /\ BooksTyped
  BY DEF FlowInv, Books
<1> USE DEF BrokenFlow!Become, Unbooked
<1>1. ASSUME NEW r \in Everyone, BrokenFlow!createRun(r) \/ BrokenFlow!submitSchedulerTask(r)
      PROVE  FlowInv'
  <2>1. life[r] = "new" /\ Unbooked(r) /\ now' = now /\ signalled' = signalled
    BY <1>1 DEF BrokenFlow!createRun, BrokenFlow!submitSchedulerTask, FlowInv
  <2>2. CASE BrokenFlow!Admissible(r)
    <3>1. PICK l \in {"starting", "queued"} : BrokenFlow!admit(r) /\ life' = [life EXCEPT ![r] = l]
      BY <1>1, <2>2 DEF BrokenFlow!createRun, BrokenFlow!submitSchedulerTask
    <3>2. Books' /\ slot' = [slot EXCEPT ![r] = "held"] /\ claims' = claims \cup {r}
      BY <2>1, <3>1, Operations
    <3>3. stamps' \in [Keys -> Seq(0 .. MaxNow)]
      BY <3>1, AdmitTimes
    <3> QED BY <2>1, <3>1, <3>2, <3>3, FlowKept DEF BrokenFlow!Lives, FlowInv, BooksTyped
  <2>3. CASE ~BrokenFlow!Admissible(r)
    <3>1. life' = [life EXCEPT ![r] = "rejected"] /\ UNCHANGED BrokenFlow!controller
      BY <1>1, <2>3 DEF BrokenFlow!createRun, BrokenFlow!submitSchedulerTask
    <3> QED BY <2>1, <3>1, FlowKept DEF BrokenFlow!controller, BrokenFlow!Lives, FlowInv, Books,
            BooksTyped, BrokenFlow!CountsMatch, BrokenFlow!Holding, BrokenFlow!ClaimsMatch, OneClaimPerKey
  <2> QED BY <2>2, <2>3
\* The steps of a run or a task that touch nothing of the controller.
<1>2. ASSUME NEW r \in Everyone, UNCHANGED <<now, BrokenFlow!controller>>, signalled' \subseteq Runs,
             life[r] # "new",
             \E l \in BrokenFlow!Lives \ {"new"} : life' = [life EXCEPT ![r] = l]
      PROVE  FlowInv'
  BY <1>2, FlowKept DEF BrokenFlow!controller, FlowInv, Books, BooksTyped,
     BrokenFlow!CountsMatch, BrokenFlow!Holding, BrokenFlow!ClaimsMatch, OneClaimPerKey
\* Those that call markParked, markResumed or settle.
<1>3. ASSUME NEW r \in Everyone, signalled' \subseteq Runs, now' = now, life[r] # "new",
             BrokenFlow!markParked(r) \/ BrokenFlow!markResumed(r) \/ BrokenFlow!settle(r),
             \E l \in BrokenFlow!Lives \ {"new"} : life' = [life EXCEPT ![r] = l]
      PROVE  FlowInv'
  <2>1. /\ Books' /\ stamps' = stamps
        /\ \A q \in Everyone \ {r} : Unbooked(q) => Unbooked(q)'
    BY <1>3, Operations DEF BrokenFlow!markParked, BrokenFlow!markResumed, BrokenFlow!settle, BooksTyped
  <2> QED BY <1>3, <2>1, FlowKept DEF FlowInv
<1>4. ASSUME NEW r \in Runs,
             \/ BrokenFlow!Start(r) \/ BrokenFlow!Signal(r) \/ BrokenFlow!Sleep(r)
             \/ BrokenFlow!WakeUp(r) \/ BrokenFlow!Abandon(r)
      PROVE  FlowInv'
  <2>1. /\ r \in Everyone /\ UNCHANGED <<now, BrokenFlow!controller>> /\ signalled' \subseteq Runs
        /\ life[r] # "new"
        /\ \E l \in BrokenFlow!Lives \ {"new"} : life' = [life EXCEPT ![r] = l]
    BY <1>4 DEF Everyone, BrokenFlow!Start, BrokenFlow!Signal, BrokenFlow!Sleep, BrokenFlow!WakeUp,
       BrokenFlow!Abandon, FlowInv, BrokenFlow!Lives
  <2> QED BY <2>1, <1>2
<1>5. ASSUME NEW r \in Runs,
             \/ BrokenFlow!StartFails(r) \/ BrokenFlow!AskHuman(r) \/ BrokenFlow!SignalReturns(r)
             \/ BrokenFlow!End(r)
      PROVE  FlowInv'
  <2>1. r \in Everyone
    BY DEF Everyone
  <2>2. CASE BrokenFlow!SignalReturns(r) /\ life[r] = "new"
    <3>1. Unbooked(r) /\ life' = life /\ now' = now /\ signalled' \subseteq Runs
      BY <2>1, <2>2 DEF BrokenFlow!SignalReturns, FlowInv
    <3>2. UNCHANGED BrokenFlow!controller
      BY <2>2, <3>1 DEF BrokenFlow!SignalReturns, BrokenFlow!markResumed, BrokenFlow!controller
    <3> QED BY <3>1, <3>2 DEF BrokenFlow!controller, FlowInv, Books, BooksTyped,
         BrokenFlow!CountsMatch, BrokenFlow!Holding, BrokenFlow!ClaimsMatch, OneClaimPerKey
  <2>3. CASE ~(BrokenFlow!SignalReturns(r) /\ life[r] = "new")
    <3>1. /\ signalled' \subseteq Runs /\ now' = now /\ life[r] # "new"
          /\ BrokenFlow!markParked(r) \/ BrokenFlow!markResumed(r) \/ BrokenFlow!settle(r)
          /\ \E l \in BrokenFlow!Lives \ {"new"} : life' = [life EXCEPT ![r] = l]
      BY <1>5, <2>1, <2>3 DEF BrokenFlow!StartFails, BrokenFlow!AskHuman, BrokenFlow!SignalReturns,
         BrokenFlow!End, FlowInv, BrokenFlow!Lives
    <3> QED BY <2>1, <3>1, <1>3
  <2> QED BY <2>2, <2>3
<1>6. ASSUME NEW t \in Tasks,
             \/ BrokenFlow!handleDispatchedTask(t)
             \/ \E requeued \in BOOLEAN : BrokenFlow!handlePreemptedTask(t, requeued)
             \/ BrokenFlow!settleScheduledTask(t) \/ BrokenFlow!Cancel(t) \/ BrokenFlow!SuspendFails(t)
      PROVE  FlowInv'
  <2>1. /\ t \in Everyone /\ signalled' \subseteq Runs /\ now' = now /\ life[t] # "new"
        /\ BrokenFlow!markParked(t) \/ BrokenFlow!markResumed(t) \/ BrokenFlow!settle(t)
        /\ \E l \in BrokenFlow!Lives \ {"new"} : life' = [life EXCEPT ![t] = l]
    BY <1>6 DEF Everyone, BrokenFlow!handleDispatchedTask, BrokenFlow!handlePreemptedTask,
       BrokenFlow!settleScheduledTask, BrokenFlow!Cancel, BrokenFlow!SuspendFails, FlowInv, BrokenFlow!Lives
  <2> QED BY <2>1, <1>3
<1>7. ASSUME BrokenFlow!Tick PROVE FlowInv'
  BY <1>7, FlowInstances DEF BrokenFlow!FlowAssumption, BrokenFlow!Tick, BrokenFlow!controller, FlowInv,
     Books, BooksTyped, BrokenFlow!CountsMatch, BrokenFlow!Holding, BrokenFlow!ClaimsMatch, OneClaimPerKey
<1>8. CASE UNCHANGED BrokenFlow!vars
  BY <1>8 DEF BrokenFlow!vars, FlowInv, Books, BooksTyped, BrokenFlow!CountsMatch,
     BrokenFlow!Holding, BrokenFlow!ClaimsMatch, OneClaimPerKey
<1> QED BY <1>1, <1>4, <1>5, <1>6, <1>7, <1>8 DEF BrokenFlow!Next, Everyone

\* The two instances count sets alike.
LEMMA SameSets ==
    ASSUME NEW S PROVE Flow!Cardinality(S) = BrokenFlow!Cardinality(S)
BY DEF Flow!Cardinality, BrokenFlow!Cardinality, Flow!IsFiniteSet, BrokenFlow!IsFiniteSet

\* The two engines look at the same window.
LEMMA SameWindow == \A k : Flow!Recent(k) = BrokenFlow!Recent(k)
BY SameSets DEF Flow!Recent, BrokenFlow!Recent, Flow!Expired, BrokenFlow!Expired

\* The controller does the same in both engines.
LEMMA SameController ==
    /\ \A r : Flow!Admissible(r) <=> BrokenFlow!Admissible(r)
    /\ \A r : Flow!admit(r) <=> BrokenFlow!admit(r)
    /\ \A r : Flow!markParked(r) <=> BrokenFlow!markParked(r)
    /\ \A r : Flow!markResumed(r) <=> BrokenFlow!markResumed(r)
    /\ \A r : Flow!settle(r) <=> BrokenFlow!settle(r)
<1>1. /\ \A r : Flow!Admissible(r) <=> BrokenFlow!Admissible(r)
      /\ \A r : Flow!admit(r) <=> BrokenFlow!admit(r)
  BY SameWindow DEF Flow!Admissible, BrokenFlow!Admissible, Flow!hasCapacity, BrokenFlow!hasCapacity,
     Flow!admit, BrokenFlow!admit, Flow!Acquire, BrokenFlow!Acquire
<1>2. /\ \A r : Flow!markParked(r) <=> BrokenFlow!markParked(r)
      /\ \A r : Flow!markResumed(r) <=> BrokenFlow!markResumed(r)
      /\ \A r : Flow!settle(r) <=> BrokenFlow!settle(r)
  BY DEF Flow!Acquire, BrokenFlow!Acquire, Flow!Release, BrokenFlow!Release,
     Flow!markParked, BrokenFlow!markParked, Flow!markResumed, BrokenFlow!markResumed,
     Flow!settle, BrokenFlow!settle
<1> QED BY <1>1, <1>2

\* The steps of a run, and those of a task, that an engine without faults takes.
RunStep(r) ==
    \/ BrokenFlow!createRun(r) \/ BrokenFlow!Start(r) \/ BrokenFlow!StartFails(r)
    \/ BrokenFlow!AskHuman(r) \/ BrokenFlow!Signal(r) \/ BrokenFlow!SignalReturns(r)
    \/ BrokenFlow!Sleep(r) \/ BrokenFlow!WakeUp(r) \/ BrokenFlow!End(r)
TaskStep(t) ==
    \/ BrokenFlow!submitSchedulerTask(t) \/ BrokenFlow!handleDispatchedTask(t)
    \/ \E requeued \in BOOLEAN : BrokenFlow!handlePreemptedTask(t, requeued)
    \/ BrokenFlow!settleScheduledTask(t) \/ BrokenFlow!Cancel(t)
FaultlessNext ==
    (\E r \in Runs : RunStep(r)) \/ (\E t \in Tasks : TaskStep(t)) \/ BrokenFlow!Tick

\* An engine without faults takes the steps of the other but for two.
LEMMA FlowIsFaultless == Flow!Next => FaultlessNext
<1> USE SameController DEF Flow!Become, BrokenFlow!Become, Flow!controller, BrokenFlow!controller
<1>1. ASSUME NEW r, Flow!createRun(r) PROVE BrokenFlow!createRun(r)
  BY <1>1 DEF Flow!createRun, BrokenFlow!createRun
<1>2. ASSUME NEW r, \/ Flow!Start(r) \/ Flow!StartFails(r) \/ Flow!AskHuman(r) \/ Flow!Signal(r)
                    \/ Flow!SignalReturns(r) \/ Flow!Sleep(r) \/ Flow!WakeUp(r) \/ Flow!End(r)
      PROVE RunStep(r)
  BY <1>2 DEF RunStep, Flow!Start, BrokenFlow!Start, Flow!StartFails, BrokenFlow!StartFails,
     Flow!AskHuman, BrokenFlow!AskHuman, Flow!Signal, BrokenFlow!Signal,
     Flow!SignalReturns, BrokenFlow!SignalReturns, Flow!Sleep, BrokenFlow!Sleep,
     Flow!WakeUp, BrokenFlow!WakeUp, Flow!End, BrokenFlow!End
<1>3. ASSUME NEW t, Flow!submitSchedulerTask(t) PROVE BrokenFlow!submitSchedulerTask(t)
  BY <1>3 DEF Flow!submitSchedulerTask, BrokenFlow!submitSchedulerTask
<1>4. ASSUME NEW t, \/ Flow!handleDispatchedTask(t)
                    \/ \E requeued \in BOOLEAN : Flow!handlePreemptedTask(t, requeued)
                    \/ Flow!settleScheduledTask(t) \/ Flow!Cancel(t)
      PROVE TaskStep(t)
  BY <1>4 DEF TaskStep, Flow!handleDispatchedTask, BrokenFlow!handleDispatchedTask,
     Flow!handlePreemptedTask, BrokenFlow!handlePreemptedTask,
     Flow!settleScheduledTask, BrokenFlow!settleScheduledTask, Flow!Cancel, BrokenFlow!Cancel
<1>5. \A r : ~Flow!Abandon(r) /\ ~Flow!SuspendFails(r)
  BY DEF Flow!Abandon, Flow!SuspendFails
<1>6. Flow!Tick => BrokenFlow!Tick
  BY DEF Flow!Tick, BrokenFlow!Tick
<1> QED BY <1>1, <1>2, <1>3, <1>4, <1>5, <1>6 DEF Flow!Next, FaultlessNext, RunStep, TaskStep

\* So its steps keep the books, too.
LEMMA FaultlessIsFlow == FaultlessNext => BrokenFlow!Next
BY DEF FaultlessNext, RunStep, TaskStep, BrokenFlow!Next

\* What the slot and the claim of a run say about its life.
InBooks(r) ==
    /\ BrokenFlow!Live(r) => r \in claims /\ slot[r] # "none"
    /\ life[r] \in {"starting", "queued"} => slot[r] = "held"
    /\ life[r] \in {"running", "asleep"} /\ r \notin signalled => slot[r] = "held"
    /\ life[r] \in {"new", "over", "rejected", "ending"} => Unbooked(r)
    /\ life[r] # "abandoned"

FaultlessInv == FlowInv /\ \A r \in Everyone : InBooks(r)

\* No run is live at first.
LEMMA FaultlessInit == BrokenFlow!Init => FaultlessInv
<1> SUFFICES ASSUME BrokenFlow!Init PROVE \A r \in Everyone : InBooks(r)
  BY FlowInit DEF FaultlessInv
<1> QED BY DEF BrokenFlow!Init, InBooks, Unbooked, BrokenFlow!Live, BrokenFlow!All, Everyone

\* What a step does to one run it does to no other.
LEMMA OthersInBooks ==
    ASSUME FlowInv, FaultlessInv, NEW r \in Everyone,
           \E l : life' = [life EXCEPT ![r] = l], \E v : slot' = [slot EXCEPT ![r] = v],
           claims' \ {r} = claims \ {r}, signalled' \ {r} = signalled \ {r}, InBooks(r)'
    PROVE  \A q \in Everyone : InBooks(q)'
<1> SUFFICES ASSUME NEW q \in Everyone, q # r PROVE InBooks(q)'
  OBVIOUS
<1>1. /\ life'[q] = life[q] /\ slot'[q] = slot[q]
      /\ q \in claims' <=> q \in claims /\ (q \in signalled' <=> q \in signalled)
  BY DEF FlowInv, Books, BooksTyped
<1> QED BY <1>1 DEF FaultlessInv, InBooks, Unbooked, BrokenFlow!Live

\* While the engine does what it is told, the books tell the lives of the runs.
LEMMA FaultlessStep ==
    FaultlessInv /\ (FaultlessNext \/ UNCHANGED BrokenFlow!vars) => FaultlessInv'
<1> SUFFICES ASSUME FaultlessInv, FaultlessNext \/ UNCHANGED BrokenFlow!vars
             PROVE  \A r \in Everyone : InBooks(r)'
  BY FlowStep, FaultlessIsFlow DEF FaultlessInv
<1>. FlowInv /\ Books /\ BooksTyped
  BY DEF FaultlessInv, FlowInv, Books
<1> USE DEF BrokenFlow!Become, BrokenFlow!controller, Unbooked
<1>1. ASSUME NEW r \in Runs, RunStep(r) PROVE \A q \in Everyone : InBooks(q)'
  <2>1. r \in Everyone /\ InBooks(r) /\ life[r] \in BrokenFlow!Lives /\ slot[r] \in {"none", "held", "free"}
    BY DEF Everyone, FaultlessInv, FlowInv, BooksTyped
  <2>. life \in [Everyone -> BrokenFlow!Lives] /\ slot \in [Everyone -> {"none", "held", "free"}]
    BY DEF FlowInv, BooksTyped
  <2>2. CASE BrokenFlow!createRun(r)
    <3>1. CASE BrokenFlow!Admissible(r)
      <4>1. BrokenFlow!admit(r) /\ life' = [life EXCEPT ![r] = "starting"] /\ signalled' = signalled
            /\ Unbooked(r)
        BY <2>1, <2>2, <3>1 DEF BrokenFlow!createRun, InBooks
      <4>2. slot' = [slot EXCEPT ![r] = "held"] /\ claims' = claims \cup {r}
        BY <2>1, <4>1, Operations
      <4> QED BY <2>1, <4>1, <4>2, OthersInBooks DEF InBooks, BrokenFlow!Live
    <3>2. CASE ~BrokenFlow!Admissible(r)
      <4>1. /\ life' = [life EXCEPT ![r] = "rejected"] /\ UNCHANGED <<slot, claims, signalled>>
            /\ slot' = [slot EXCEPT ![r] = slot[r]] /\ Unbooked(r)
        BY <2>1, <2>2, <3>2 DEF BrokenFlow!createRun, InBooks
      <4> QED BY <2>1, <4>1, OthersInBooks DEF InBooks, BrokenFlow!Live
    <3> QED BY <3>1, <3>2
  <2>3. CASE BrokenFlow!Start(r) \/ BrokenFlow!Signal(r) \/ BrokenFlow!Sleep(r) \/ BrokenFlow!WakeUp(r)
    <3>1. /\ UNCHANGED <<slot, claims>> /\ slot' = [slot EXCEPT ![r] = slot[r]]
          /\ \E l : life' = [life EXCEPT ![r] = l] /\ signalled' \ {r} = signalled \ {r}
      BY <2>3 DEF BrokenFlow!Start, BrokenFlow!Signal, BrokenFlow!Sleep, BrokenFlow!WakeUp
    <3>2. InBooks(r)'
      BY <2>1, <2>3 DEF BrokenFlow!Start, BrokenFlow!Signal, BrokenFlow!Sleep, BrokenFlow!WakeUp,
         InBooks, BrokenFlow!Live
    <3> QED BY <2>1, <3>1, <3>2, OthersInBooks
  <2>4. CASE BrokenFlow!StartFails(r) \/ BrokenFlow!End(r)
    <3>1. BrokenFlow!settle(r) /\ life' = [life EXCEPT ![r] = "over"] /\ signalled' = signalled
      BY <2>4 DEF BrokenFlow!StartFails, BrokenFlow!End
    <3>2. slot' = [slot EXCEPT ![r] = "none"] /\ claims' = claims \ {r}
      BY <2>1, <3>1, Operations
    <3> QED BY <2>1, <3>1, <3>2, OthersInBooks DEF InBooks, BrokenFlow!Live
  <2>5. CASE BrokenFlow!AskHuman(r)
    <3>1. /\ BrokenFlow!markParked(r) /\ life' = [life EXCEPT ![r] = "waiting"]
          /\ life[r] = "running" /\ signalled' = signalled
      BY <2>5 DEF BrokenFlow!AskHuman
    <3>2. slot' = [slot EXCEPT ![r] = IF @ = "none" THEN "none" ELSE "free"] /\ claims' = claims
      BY <2>1, <3>1, Operations
    <3>3. InBooks(r)'
      BY <2>1, <3>1, <3>2 DEF InBooks, BrokenFlow!Live
    <3> QED BY <2>1, <3>1, <3>2, <3>3, OthersInBooks
  <2>6. CASE BrokenFlow!SignalReturns(r)
    <3>1. BrokenFlow!markResumed(r) /\ life' = life /\ signalled' = signalled \ {r}
      BY <2>6 DEF BrokenFlow!SignalReturns
    <3>2. slot' = [slot EXCEPT ![r] = IF @ = "none" THEN "none" ELSE "held"] /\ claims' = claims
      BY <2>1, <3>1, Operations
    <3>3. InBooks(r)' /\ life' = [life EXCEPT ![r] = life[r]]
      BY <2>1, <3>1, <3>2 DEF InBooks, BrokenFlow!Live
    <3> QED BY <2>1, <3>1, <3>2, <3>3, OthersInBooks
  <2> QED BY <1>1, <2>2, <2>3, <2>4, <2>5, <2>6 DEF RunStep
<1>2. ASSUME NEW t \in Tasks, TaskStep(t) PROVE \A q \in Everyone : InBooks(q)'
  <2>1. t \in Everyone /\ InBooks(t) /\ life[t] \in BrokenFlow!Lives /\ slot[t] \in {"none", "held", "free"}
        /\ t \notin signalled
    BY FlowInstances DEF Everyone, FaultlessInv, FlowInv, BooksTyped, BrokenFlow!FlowAssumption
  <2>. life \in [Everyone -> BrokenFlow!Lives] /\ slot \in [Everyone -> {"none", "held", "free"}]
    BY DEF FlowInv, BooksTyped
  <2>2. CASE BrokenFlow!submitSchedulerTask(t)
    <3>1. CASE BrokenFlow!Admissible(t)
      <4>1. BrokenFlow!admit(t) /\ life' = [life EXCEPT ![t] = "queued"] /\ signalled' = signalled
            /\ Unbooked(t)
        BY <2>1, <2>2, <3>1 DEF BrokenFlow!submitSchedulerTask, InBooks
      <4>2. slot' = [slot EXCEPT ![t] = "held"] /\ claims' = claims \cup {t}
        BY <2>1, <4>1, Operations
      <4> QED BY <2>1, <4>1, <4>2, OthersInBooks DEF InBooks, BrokenFlow!Live
    <3>2. CASE ~BrokenFlow!Admissible(t)
      <4>1. /\ life' = [life EXCEPT ![t] = "rejected"] /\ UNCHANGED <<slot, claims, signalled>>
            /\ slot' = [slot EXCEPT ![t] = slot[t]] /\ Unbooked(t)
        BY <2>1, <2>2, <3>2 DEF BrokenFlow!submitSchedulerTask, InBooks
      <4> QED BY <2>1, <4>1, OthersInBooks DEF InBooks, BrokenFlow!Live
    <3> QED BY <3>1, <3>2
  <2>3. CASE BrokenFlow!handleDispatchedTask(t)
    <3>1. /\ BrokenFlow!markResumed(t) /\ life' = [life EXCEPT ![t] = "running"]
          /\ life[t] \in {"queued", "suspended"} /\ signalled' = signalled
      BY <2>3 DEF BrokenFlow!handleDispatchedTask
    <3>2. slot' = [slot EXCEPT ![t] = IF @ = "none" THEN "none" ELSE "held"] /\ claims' = claims
      BY <2>1, <3>1, Operations
    <3>3. InBooks(t)'
      BY <2>1, <3>1, <3>2 DEF InBooks, BrokenFlow!Live
    <3> QED BY <2>1, <3>1, <3>2, <3>3, OthersInBooks
  <2>4. CASE BrokenFlow!handlePreemptedTask(t, TRUE)
    <3>1. /\ BrokenFlow!markParked(t) /\ life' = [life EXCEPT ![t] = "suspended"]
          /\ life[t] = "running" /\ signalled' = signalled
      BY <2>4 DEF BrokenFlow!handlePreemptedTask
    <3>2. slot' = [slot EXCEPT ![t] = IF @ = "none" THEN "none" ELSE "free"] /\ claims' = claims
      BY <2>1, <3>1, Operations
    <3>3. InBooks(t)'
      BY <2>1, <3>1, <3>2 DEF InBooks, BrokenFlow!Live
    <3> QED BY <2>1, <3>1, <3>2, <3>3, OthersInBooks
  <2>5. CASE \/ BrokenFlow!handlePreemptedTask(t, FALSE) \/ BrokenFlow!settleScheduledTask(t)
             \/ BrokenFlow!Cancel(t)
    <3>1. /\ BrokenFlow!settle(t) /\ signalled' = signalled
          /\ \E l \in {"over", "ending"} : life' = [life EXCEPT ![t] = l]
      BY <2>5 DEF BrokenFlow!handlePreemptedTask, BrokenFlow!settleScheduledTask, BrokenFlow!Cancel
    <3>2. slot' = [slot EXCEPT ![t] = "none"] /\ claims' = claims \ {t}
      BY <2>1, <3>1, Operations
    <3>3. InBooks(t)'
      BY <2>1, <3>1, <3>2 DEF InBooks, BrokenFlow!Live
    <3> QED BY <2>1, <3>1, <3>2, <3>3, OthersInBooks
  <2> QED BY <1>2, <2>2, <2>3, <2>4, <2>5 DEF TaskStep
<1>3. CASE BrokenFlow!Tick \/ UNCHANGED BrokenFlow!vars
  BY <1>3 DEF BrokenFlow!Tick, BrokenFlow!vars, FaultlessInv, InBooks, BrokenFlow!Live
<1> QED BY <1>1, <1>2, <1>3 DEF FaultlessNext

\* What the books tell is what the policies promise.
LEMMA FaultlessSafe ==
    ASSUME FaultlessInv
    PROVE  Flow!TypeOK /\ Flow!OneLivePerKey /\ Flow!CountedWhileRunning
<1>1. BrokenFlow!TypeOK /\ FlowInv /\ OneClaimPerKey
  BY FlowTyped DEF FaultlessInv, FlowInv, Books
<1>2. Flow!TypeOK
  BY <1>1, SameSets DEF Flow!TypeOK, BrokenFlow!TypeOK, Flow!All, BrokenFlow!All, Flow!Lives,
     BrokenFlow!Lives
<1>3. Flow!OneLivePerKey
  BY <1>1 DEF FaultlessInv, InBooks, OneClaimPerKey, Flow!OneLivePerKey, Flow!All, Everyone, Flow!Live,
     BrokenFlow!Live
<1>4. Flow!CountedWhileRunning
  BY DEF FaultlessInv, InBooks, Unbooked, Flow!CountedWhileRunning, Flow!All, Everyone
<1> QED BY <1>2, <1>3, <1>4

-----------------------------------------------------------------------------
(* Heartbeats.                                                             *)

\* Loops, ticks and failures, whoever starts a heartbeat: a loop that was not
\* started has no tick, and there are no more failures than ticks.
Submitted == {x \in Restarts!Tickers : tick[x] = "submitted"}

\* The failures and the submissions that may yet fail are all ticks.
FailuresBounded ==
    failures \in Nat /\ failures + Cardinality(Submitted) <= ticks

BeatTyped ==
    /\ running \in BOOLEAN /\ aborted \in BOOLEAN
    /\ resolver \in Restarts!Loops \cup {Restarts!None}
    /\ resolver # Restarts!None => loop[resolver] \in {"sleeping", "woken"}
    /\ loop \in [Restarts!Loops -> {"none", "sleeping", "woken", "ticking", "ended"}]
    /\ tick \in [Restarts!Tickers -> {"none", "submitted", "callback"}]
    /\ starts \in 0 .. MaxStarts /\ ticks \in Nat /\ ticks <= MaxTicks + starts
    /\ stopping \in {"no", "waiting", "returned"} /\ awaited \subseteq Restarts!Tickers
    /\ \A l \in Restarts!Loops : l > starts => loop[l] = "none"
    /\ \A l \in Restarts!Loops : tick[l] # "none" => loop[l] = "ticking"

\* stop() has seen every tick of a loop that is in flight, until start() is
\* called again.
StopSees ==
    /\ stopping # "no" => ~running
    /\ stopping = "waiting" => Restarts!InFlight \subseteq awaited \cup {Restarts!Manual}
    /\ stopping = "returned" => Restarts!InFlight \subseteq {Restarts!Manual}

RestartsInv == BeatTyped /\ FailuresBounded /\ StopSees

\* The loops are numbered, and the manual ticks stand for none of them.
LEMMA BeatConstants ==
    /\ MaxStarts \in Nat /\ MaxTicks \in Nat /\ maxConsecutiveFailures \in Nat \ {0}
    /\ Restarts!Loops = 1 .. MaxStarts /\ Restarts!Manual = 0 /\ Restarts!None = -1
    /\ Restarts!Tickers = Restarts!Loops \cup {0}
    /\ Restarts!None \notin Restarts!Loops /\ Restarts!Manual \notin Restarts!Loops
BY BeatInstances DEF Restarts!HeartbeatAssumption, Restarts!Loops, Restarts!Manual, Restarts!None,
   Restarts!Tickers

\* The ticks that are submitted can be counted.
LEMMA SubmittedFinite == IsFiniteSet(Submitted) /\ Cardinality(Submitted) \in Nat
<1>1. IsFiniteSet(0 .. MaxStarts)
  BY BeatConstants, FS_Interval
<1>2. Submitted \subseteq 0 .. MaxStarts
  BY BeatConstants DEF Submitted
<1> QED BY <1>1, <1>2, FS_Subset, FS_CardinalityType

\* What one tick does to the number of submissions.
LEMMA SubmittedAfter ==
    ASSUME BeatTyped, NEW x \in Restarts!Tickers, NEW v \in {"none", "submitted", "callback"},
           tick' = [tick EXCEPT ![x] = v]
    PROVE  /\ tick[x] # "submitted" /\ v = "submitted" => Cardinality(Submitted') = Cardinality(Submitted) + 1
           /\ tick[x] = "submitted" /\ v # "submitted" => Cardinality(Submitted') = Cardinality(Submitted) - 1
           /\ tick[x] # "submitted" /\ v # "submitted" => Submitted' = Submitted
<1>1. /\ x \in Submitted <=> tick[x] = "submitted"
      /\ Submitted' = IF v = "submitted" THEN Submitted \cup {x} ELSE Submitted \ {x}
  BY DEF BeatTyped, Submitted
<1>2. x \notin Submitted => Cardinality(Submitted \cup {x}) = Cardinality(Submitted) + 1
  BY SubmittedFinite, FS_AddElement
<1>3. x \in Submitted => Cardinality(Submitted \ {x}) = Cardinality(Submitted) - 1
  BY SubmittedFinite, FS_RemoveElement
<1> QED BY <1>1, <1>2, <1>3

\* A heartbeat starts with no loop.
LEMMA RestartsInit == Restarts!Init => RestartsInv
<1> SUFFICES ASSUME Restarts!Init PROVE RestartsInv
  OBVIOUS
<1>a. StopSees
  BY DEF Restarts!Init, StopSees
<1>b. BeatTyped
  <2>1. /\ loop \in [Restarts!Loops -> {"none", "sleeping", "woken", "ticking", "ended"}]
        /\ tick \in [Restarts!Tickers -> {"none", "submitted", "callback"}]
        /\ \A l \in Restarts!Loops : loop[l] = "none" /\ tick[l] = "none"
    BY BeatConstants DEF Restarts!Init
  <2>2. starts \in 0 .. MaxStarts /\ ticks \in Nat /\ ticks <= MaxTicks + starts
    BY BeatConstants DEF Restarts!Init
  <2> QED BY <2>1, <2>2 DEF Restarts!Init, BeatTyped
<1>1. BeatTyped /\ StopSees
  BY <1>a, <1>b
<1>2. Submitted = {}
  BY DEF Restarts!Init, Submitted
<1>3. FailuresBounded
  BY <1>2, FS_EmptySet DEF Restarts!Init, FailuresBounded
<1> QED BY <1>1, <1>3 DEF RestartsInv

\* Every step of a heartbeat keeps its books, whenever it is started again.
LEMMA RestartsStep == RestartsInv /\ [Restarts!Next]_(Restarts!vars) => RestartsInv'
<1> SUFFICES ASSUME RestartsInv, [Restarts!Next]_(Restarts!vars) PROVE RestartsInv'
  OBVIOUS
<1>. BeatTyped /\ FailuresBounded /\ StopSees
  BY DEF RestartsInv
<1> USE BeatConstants, SubmittedFinite
<1>1. ASSUME Restarts!start PROVE RestartsInv'
  <2> DEFINE l == starts + 1
  <2>1. l \in Restarts!Loops /\ l \in Restarts!Tickers /\ loop[l] = "none" /\ tick[l] = "none" /\ resolver # l
    BY <1>1 DEF Restarts!start, BeatTyped
  <2>2. BeatTyped'
    BY <1>1, <2>1 DEF Restarts!start, BeatTyped
  <2>3. StopSees'
    BY <1>1 DEF Restarts!start, StopSees
  <2>4. FailuresBounded'
    <3>1. CASE RunImmediately["restarts"]
      <4>1. tick' = [tick EXCEPT ![l] = "submitted"] /\ ticks' = ticks + 1 /\ failures' = failures
        BY <1>1, <3>1 DEF Restarts!start
      <4>2. Cardinality(Submitted') = Cardinality(Submitted) + 1
        BY <2>1, <4>1, SubmittedAfter
      <4> QED BY <4>1, <4>2 DEF FailuresBounded, BeatTyped
    <3>2. CASE ~RunImmediately["restarts"]
      BY <1>1, <3>2 DEF Restarts!start, FailuresBounded, Submitted
    <3> QED BY <3>1, <3>2
  <2> QED BY <2>2, <2>3, <2>4 DEF RestartsInv
<1>2. ASSUME NEW l \in Restarts!Loops, Restarts!SleepOver(l) \/ Restarts!AfterTick(l)
      PROVE  RestartsInv'
  <2>1. /\ UNCHANGED <<running, failures, tick, starts, ticks, stopping, awaited, aborted>>
        /\ \/ /\ loop[l] = "sleeping" /\ loop' = [loop EXCEPT ![l] = "woken"]
              /\ resolver' = resolver
           \/ /\ loop[l] = "ticking" /\ tick[l] = "none"
              /\ \/ loop' = [loop EXCEPT ![l] = "sleeping"] /\ resolver' = l
                 \/ loop' = [loop EXCEPT ![l] = "ended"] /\ resolver' = resolver
    BY <1>2 DEF Restarts!SleepOver, Restarts!AfterTick
  <2>2. BeatTyped'
    BY <2>1 DEF BeatTyped
  <2>3. StopSees' /\ FailuresBounded'
    BY <2>1 DEF StopSees, FailuresBounded, Submitted, Restarts!InFlight
  <2> QED BY <2>2, <2>3 DEF RestartsInv
<1>3. ASSUME NEW l \in Restarts!Loops, Restarts!Awake(l) PROVE RestartsInv'
  <2>1. l \in Restarts!Tickers /\ tick[l] = "none"
    BY <1>3 DEF Restarts!Awake, BeatTyped
  <2>2. BeatTyped'
    BY <1>3, <2>1 DEF Restarts!Awake, BeatTyped
  <2>3. StopSees'
    BY <1>3 DEF Restarts!Awake, Restarts!Goes, StopSees, Restarts!InFlight
  <2>4. FailuresBounded'
    <3>1. CASE Restarts!Goes
      <4>1. tick' = [tick EXCEPT ![l] = "submitted"] /\ ticks' = ticks + 1 /\ failures' = failures
        BY <1>3, <3>1 DEF Restarts!Awake
      <4>2. Cardinality(Submitted') = Cardinality(Submitted) + 1
        BY <2>1, <4>1, SubmittedAfter
      <4> QED BY <4>1, <4>2 DEF FailuresBounded, BeatTyped
    <3>2. CASE ~Restarts!Goes
      BY <1>3, <3>2 DEF Restarts!Awake, FailuresBounded, Submitted
    <3> QED BY <3>1, <3>2
  <2> QED BY <2>2, <2>3, <2>4 DEF RestartsInv
<1>4. ASSUME Restarts!tickNow PROVE RestartsInv'
  <2>1. BeatTyped'
    BY <1>4 DEF Restarts!tickNow, BeatTyped
  <2>2. StopSees'
    BY <1>4 DEF Restarts!tickNow, StopSees, Restarts!InFlight, BeatTyped
  <2>3. /\ 0 \in Restarts!Tickers /\ tick[0] # "submitted" /\ tick' = [tick EXCEPT ![0] = "submitted"]
        /\ ticks' = ticks + 1 /\ failures' = failures
    BY <1>4 DEF Restarts!tickNow
  <2>4. Cardinality(Submitted') = Cardinality(Submitted) + 1
    BY <2>3, SubmittedAfter
  <2>5. FailuresBounded'
    BY <2>3, <2>4 DEF FailuresBounded, BeatTyped
  <2> QED BY <2>1, <2>2, <2>5 DEF RestartsInv
<1>5. ASSUME NEW x \in Restarts!Tickers, NEW o \in Restarts!Outcomes, Restarts!Settle(x, o)
      PROVE  RestartsInv'
  <2>1. /\ tick[x] = "submitted" /\ UNCHANGED <<starts, ticks, stopping, awaited, aborted>>
        /\ \E v \in {"none", "callback"} : tick' = [tick EXCEPT ![x] = v]
        /\ failures' \in {0, failures, failures + 1}
        /\ Restarts!Trip \/ UNCHANGED <<running, loop, resolver>>
    BY <1>5 DEF Restarts!Settle, Restarts!Outcomes
  <2>2. BeatTyped'
    <3>1. CASE Restarts!Trip
      <4>1. /\ running' = FALSE /\ resolver' = Restarts!None
            /\ loop' \in [Restarts!Loops -> {"none", "sleeping", "woken", "ticking", "ended"}]
            /\ \A l \in Restarts!Loops :
                 /\ loop[l] = "none" => loop'[l] = "none"
                 /\ loop[l] = "ticking" => loop'[l] = "ticking"
        BY <3>1 DEF BeatTyped, Restarts!Trip, Restarts!Wake
      <4>2. \A l \in Restarts!Loops : tick'[l] # "none" => tick[l] # "none"
        BY <2>1 DEF BeatTyped
      <4>3. /\ \A l \in Restarts!Loops : l > starts' => loop'[l] = "none"
            /\ \A l \in Restarts!Loops : tick'[l] # "none" => loop'[l] = "ticking"
        BY <2>1, <4>1, <4>2 DEF BeatTyped
      <4>4. tick' \in [Restarts!Tickers -> {"none", "submitted", "callback"}]
        BY <2>1 DEF BeatTyped
      <4> QED BY <2>1, <4>1, <4>3, <4>4 DEF BeatTyped
    <3>2. CASE UNCHANGED <<running, loop, resolver>>
      BY <2>1, <3>2 DEF BeatTyped
    <3> QED BY <2>1, <3>1, <3>2
  <2>3. StopSees'
    BY <2>1 DEF StopSees, Restarts!InFlight, Restarts!Trip, BeatTyped
  <2>4. Cardinality(Submitted') = Cardinality(Submitted) - 1
    BY <2>1, SubmittedAfter
  <2>5. FailuresBounded'
    BY <2>1, <2>4 DEF FailuresBounded, BeatTyped
  <2> QED BY <2>2, <2>3, <2>5 DEF RestartsInv
<1>6. ASSUME NEW x \in Restarts!Tickers, Restarts!fireOnTick(x) PROVE RestartsInv'
  <2>1. BeatTyped' /\ StopSees'
    BY <1>6 DEF Restarts!fireOnTick, BeatTyped, StopSees, Restarts!InFlight
  <2>2. Submitted' = Submitted
    BY <1>6, SubmittedAfter DEF Restarts!fireOnTick
  <2> QED BY <1>6, <2>1, <2>2 DEF RestartsInv, FailuresBounded, Restarts!fireOnTick
<1>7. ASSUME Restarts!stop \/ Restarts!Stopped \/ Restarts!Abort PROVE RestartsInv'
  <2>1. BeatTyped'
    BY <1>7 DEF Restarts!stop, Restarts!Stopped, Restarts!Abort, BeatTyped, Restarts!Wake, Restarts!InFlight
  <2>2. StopSees'
    BY <1>7 DEF Restarts!stop, Restarts!Stopped, Restarts!Abort, StopSees, Restarts!InFlight
  <2>3. FailuresBounded'
    BY <1>7 DEF Restarts!stop, Restarts!Stopped, Restarts!Abort, FailuresBounded, Submitted
  <2> QED BY <2>1, <2>2, <2>3 DEF RestartsInv
<1>8. CASE UNCHANGED Restarts!vars
  BY <1>8 DEF Restarts!vars, RestartsInv, BeatTyped, FailuresBounded, Submitted, StopSees, Restarts!InFlight
<1> QED BY <1>1, <1>2, <1>3, <1>4, <1>5, <1>6, <1>7, <1>8
        DEF Restarts!Next, Restarts!Step, Restarts!LoopGoesOn, Restarts!TickGoesOn

\* A heartbeat that has stopped does not tick.
LEMMA RestartsSafe == ASSUME RestartsInv PROVE Restarts!TypeOK /\ Restarts!StopIsABoundary
<1>1. failures \in 0 .. MaxTicks + MaxStarts /\ ticks \in 0 .. MaxTicks + MaxStarts
  BY BeatConstants, SubmittedFinite DEF RestartsInv, BeatTyped, FailuresBounded
<1> QED BY <1>1 DEF RestartsInv, BeatTyped, StopSees, Restarts!TypeOK, Restarts!StopIsABoundary

\* With a start() that waits for the last loop: one loop lives, and if it sleeps
\* it is the one that the resolver wakes.
OneLoop ==
    /\ running \in BOOLEAN
    /\ loop \in [Patiently!Loops -> {"none", "sleeping", "woken", "ticking", "ended"}]
    /\ resolver \in Patiently!Loops \cup {Patiently!None}
    /\ resolver # Patiently!None => loop[resolver] \in {"sleeping", "woken"}
    /\ starts \in Nat
    /\ \A l \in Patiently!Loops : l > starts => loop[l] = "none"
    /\ \A l, m \in Patiently!LiveLoops : l = m
    /\ \A l \in Patiently!Loops : loop[l] = "sleeping" => resolver = l
    /\ Patiently!StopWakes

\* The same numbers, of the heartbeat that waits.
LEMMA PatientConstants ==
    /\ MaxStarts \in Nat /\ Patiently!Loops = 1 .. MaxStarts /\ Patiently!None = -1
    /\ Patiently!None \notin Patiently!Loops
BY BeatInstances DEF Patiently!HeartbeatAssumption, Patiently!Loops, Patiently!None

\* It starts with no loop.
LEMMA PatientInit == Patiently!Init => OneLoop
<1> SUFFICES ASSUME Patiently!Init PROVE OneLoop
  OBVIOUS
<1>1. Patiently!LiveLoops = {}
  BY DEF Patiently!Init, Patiently!LiveLoops
<1> QED BY <1>1, PatientConstants DEF Patiently!Init, OneLoop, Patiently!StopWakes

\* It keeps to one loop.
LEMMA PatientStep == OneLoop /\ [Patiently!Next]_(Patiently!vars) => OneLoop'
<1> SUFFICES ASSUME OneLoop, [Patiently!Next]_(Patiently!vars) PROVE OneLoop'
  OBVIOUS
<1> USE PatientConstants DEF OneLoop, Patiently!LiveLoops, Patiently!StopWakes
<1>1. ASSUME Patiently!start PROVE OneLoop'
  <2> DEFINE l == starts + 1
  <2>1. /\ l \in Patiently!Loops /\ \A m \in Patiently!Loops : loop[m] \in {"none", "ended"}
        /\ resolver = Patiently!None /\ running' = TRUE /\ starts' = starts + 1
        /\ \E v \in {"ticking", "sleeping", "ended"} :
              loop' = [loop EXCEPT ![l] = v] /\ resolver' = IF v = "sleeping" THEN l ELSE resolver
    <3>1. l \in Patiently!Loops /\ \A m \in Patiently!Loops : loop[m] \in {"none", "ended"}
      BY <1>1 DEF Patiently!start
    <3>2. resolver = Patiently!None
      BY <3>1
    <3> QED BY <1>1, <3>1, <3>2 DEF Patiently!start
  <2>2. /\ \A m \in Patiently!Loops : m # l => loop'[m] = loop[m]
        /\ loop' \in [Patiently!Loops -> {"none", "sleeping", "woken", "ticking", "ended"}]
    BY <2>1
  <2> QED BY <2>1, <2>2
<1>2. ASSUME NEW l \in Patiently!Loops, Patiently!SleepOver(l) \/ Patiently!Awake(l) \/ Patiently!AfterTick(l)
      PROVE  OneLoop'
  <2>1. CASE Patiently!SleepOver(l)
    BY <2>1 DEF Patiently!SleepOver
  <2>2. CASE Patiently!Awake(l)
    BY <2>2 DEF Patiently!Awake
  <2>3. CASE Patiently!AfterTick(l)
    BY <2>3 DEF Patiently!AfterTick, Patiently!Goes
  <2> QED BY <1>2, <2>1, <2>2, <2>3
<1>3. ASSUME running' = FALSE, loop' = Patiently!Wake, resolver' = Patiently!None, UNCHANGED starts
      PROVE  OneLoop'
  <2>1. running' = FALSE /\ loop' = Patiently!Wake /\ resolver' = Patiently!None
    BY <1>3
  <2>2. CASE resolver = Patiently!None
    BY <1>3, <2>1, <2>2 DEF Patiently!Wake
  <2>3. CASE resolver # Patiently!None
    <3>1. /\ loop' = [loop EXCEPT ![resolver] = "woken"]
          /\ \A l \in Patiently!Loops : loop'[l] # "sleeping"
          /\ loop' \in [Patiently!Loops -> {"none", "sleeping", "woken", "ticking", "ended"}]
          /\ \A l \in Patiently!Loops :
               /\ loop'[l] \in {"none", "ended"} <=> loop[l] \in {"none", "ended"}
               /\ loop[l] = "none" => loop'[l] = "none"
      BY <2>1, <2>3 DEF Patiently!Wake
    <3> QED BY <1>3, <2>1, <3>1
  <2> QED BY <2>2, <2>3
<1>6. ASSUME UNCHANGED <<running, loop, resolver, starts>> PROVE OneLoop'
  BY <1>6
<1>4. ASSUME NEW x, NEW o, Patiently!Settle(x, o) PROVE OneLoop'
  <2>1. UNCHANGED starts /\ (Patiently!Trip \/ UNCHANGED <<running, loop, resolver>>)
    BY <1>4 DEF Patiently!Settle
  <2>2. CASE Patiently!Trip
    <3>1. running' = FALSE /\ loop' = Patiently!Wake /\ resolver' = Patiently!None
      BY <2>2 DEF Patiently!Trip
    <3> QED BY <2>1, <3>1, <1>3
  <2>3. CASE UNCHANGED <<running, loop, resolver>>
    BY <2>1, <2>3, <1>6
  <2> QED BY <2>1, <2>2, <2>3
<1>5. ASSUME Patiently!stop PROVE OneLoop'
  <2>1. /\ UNCHANGED starts /\ running' = FALSE
        /\ \/ UNCHANGED <<running, loop, resolver>>
           \/ loop' = Patiently!Wake /\ resolver' = Patiently!None
    BY <1>5 DEF Patiently!stop
  <2> QED BY <2>1, <1>3, <1>6
<1>7. ASSUME \/ Patiently!tickNow \/ Patiently!Abort \/ Patiently!Stopped
             \/ (\E x : Patiently!fireOnTick(x)) \/ UNCHANGED Patiently!vars
      PROVE  OneLoop'
  BY <1>7, <1>6 DEF Patiently!tickNow, Patiently!Abort, Patiently!Stopped, Patiently!fireOnTick, Patiently!vars
<1> QED BY <1>1, <1>2, <1>4, <1>5, <1>7
        DEF Patiently!Next, Patiently!Step, Patiently!LoopGoesOn, Patiently!TickGoesOn

\* One loop is no stack, and stop() wakes it.
LEMMA PatientSafe == ASSUME OneLoop PROVE Patiently!NoTickStacking /\ Patiently!StopWakes
<1>1. \A S : Patiently!Cardinality(S) = Cardinality(S)
  BY DEF Patiently!Cardinality, Cardinality, Patiently!IsFiniteSet, IsFiniteSet
<1>2. CASE Patiently!LiveLoops = {}
  BY <1>1, <1>2, FS_EmptySet DEF OneLoop, Patiently!NoTickStacking
<1>3. CASE Patiently!LiveLoops # {}
  <2>1. PICK l : Patiently!LiveLoops = {l}
    BY <1>3 DEF OneLoop
  <2>2. Cardinality(Patiently!LiveLoops) = 1
    BY <2>1, FS_Singleton
  <2> QED BY <1>1, <2>2 DEF OneLoop, Patiently!NoTickStacking
<1> QED BY <1>2, <1>3

-----------------------------------------------------------------------------
(* Chunked tasks.  The proofs are about chunks that go on when they are    *)
(* preempted; those that give up take some of the same steps.              *)

\* Where the work stands: what the chunk returned is kept until it is stored.
Working == pc \in {"submitted", "processing", "back"}

ChunkControl ==
    /\ Working => stateForChunk = currentState
    /\ pc = "next" \/ Working => retries <= maxPreemptionRetries
    /\ pc \in {"submitted", "processing"} => chunkResult = Stubborn!None /\ ~chunkError
    /\ pc = "back" /\ chunkResult # Stubborn!None => chunkResult = currentState + 1 /\ ~chunkError
    /\ pc = "back" /\ submitted = "run" /\ ~chunkError => chunkResult # Stubborn!None

\* The chunks that are still to be carried out.
ToDo(c) == c > currentState \/ (c = currentState /\ ~(pc = "back" /\ chunkResult # Stubborn!None))

ChunkProgress ==
    pc = "next" \/ Working => \A c \in Stubborn!States : ToDo(c) => processed[c] = 0

ChunkInv == Stubborn!TypeOK /\ ChunkControl /\ ChunkProgress /\ Stubborn!EachChunkOnce

\* The states of a job are numbers.
LEMMA ChunkConstants ==
    /\ Chunks \in Nat \ {0} /\ maxPreemptionRetries \in Nat /\ MaxPreemptions \in Nat
    /\ Stubborn!States = 0 .. Chunks + MaxPreemptions /\ Stubborn!None = Chunks + MaxPreemptions + 1
BY ChunkInstances DEF Stubborn!ChunkAssumption, Stubborn!States, Stubborn!None

\* A job starts with nothing done.
LEMMA ChunkInit == Stubborn!Init => ChunkInv
<1> SUFFICES ASSUME Stubborn!Init PROVE ChunkInv
  OBVIOUS
<1> USE DEF Stubborn!Init
<1>1. tries \in [Stubborn!States -> Nat] /\ processed \in [Stubborn!States -> Nat]
  OBVIOUS
<1>2. 0 \in Stubborn!States /\ 0 \in 0 .. maxPreemptionRetries + 1 /\ 0 \in 0 .. MaxPreemptions
  BY ChunkConstants
<1>3. Stubborn!TypeOK
  BY <1>1, <1>2 DEF Stubborn!TypeOK
<1>4. ChunkControl
  BY ChunkConstants DEF ChunkControl, Working
<1>5. ChunkProgress /\ Stubborn!EachChunkOnce
  BY DEF ChunkProgress, Stubborn!EachChunkOnce
<1> QED BY <1>3, <1>4, <1>5 DEF ChunkInv

\* Every step of a chunked job keeps its books.
LEMMA ChunkStep == ChunkInv /\ [Stubborn!Next]_(Stubborn!vars) => ChunkInv'
<1> SUFFICES ASSUME ChunkInv, [Stubborn!Next]_(Stubborn!vars) PROVE ChunkInv'
  OBVIOUS
<1> USE ChunkConstants DEF ChunkInv, Stubborn!TypeOK, ChunkControl, Working
<1>1. CASE Stubborn!submit
  <2> USE <1>1 DEF Stubborn!submit
  <2>0. tries' \in [Stubborn!States -> Nat]
    BY DEF Stubborn!TypeOK
  <2>1. Stubborn!TypeOK'
    BY <2>0
  <2>2. ChunkControl'
    OBVIOUS
  <2>3. ChunkProgress'
    BY DEF ChunkProgress, ToDo
  <2>4. Stubborn!EachChunkOnce'
    BY DEF Stubborn!EachChunkOnce, ChunkProgress, ToDo
  <2> QED BY <2>1, <2>2, <2>3, <2>4
<1>2. CASE Stubborn!Drop \/ Stubborn!Dispatch \/ Stubborn!Preempt
  <2> USE <1>2 DEF Stubborn!Drop, Stubborn!Dispatch, Stubborn!Preempt
  <2>a. tries' \in [Stubborn!States -> Nat] /\ processed' \in [Stubborn!States -> Nat]
    OBVIOUS
  <2>b. preempted' \in 0 .. MaxPreemptions
    <3>1. preempted \in 0 .. MaxPreemptions /\ MaxPreemptions \in Nat
      OBVIOUS
    <3>2. preempted' = preempted \/ (preempted < MaxPreemptions /\ preempted' = preempted + 1)
      OBVIOUS
    <3> HIDE <1>2 DEF ChunkInv, Stubborn!TypeOK, ChunkControl
    <3> QED BY <3>1, <3>2
  <2>1. Stubborn!TypeOK'
    BY <2>a, <2>b
  <2>2. ChunkControl'
    <3>1. CASE Stubborn!Drop
      BY <3>1
    <3>2. CASE Stubborn!Dispatch
      BY <3>2
    <3>3. CASE Stubborn!Preempt
      BY <3>3
    <3> QED BY <3>1, <3>2, <3>3
  <2>3. ChunkProgress'
    BY DEF ChunkProgress, ToDo
  <2>4. Stubborn!EachChunkOnce'
    BY DEF Stubborn!EachChunkOnce, ChunkProgress, ToDo
  <2> QED BY <2>1, <2>2, <2>3, <2>4
<1>3. CASE Stubborn!Processed
  <2> USE <1>3 DEF Stubborn!Processed
  <2>0. processed' \in [Stubborn!States -> Nat]
    BY DEF Stubborn!TypeOK
  <2>1. Stubborn!TypeOK'
    BY <2>0
  <2>2. ChunkControl'
    OBVIOUS
  <2>3. ChunkProgress'
    BY DEF ChunkProgress, ToDo
  <2>4. Stubborn!EachChunkOnce'
    <3>1. processed[stateForChunk] = 0
      BY DEF ChunkProgress, ToDo
    <3>2. \A c \in Stubborn!States : processed'[c] <= 1
      BY <3>1 DEF Stubborn!EachChunkOnce
    <3> QED BY <3>2 DEF Stubborn!EachChunkOnce, Stubborn!States
  <2> QED BY <2>1, <2>2, <2>3, <2>4
<1>4. CASE Stubborn!Threw
  <2> USE <1>4 DEF Stubborn!Threw
  <2>1. Stubborn!TypeOK'
    OBVIOUS
  <2>2. ChunkControl'
    OBVIOUS
  <2>3. ChunkProgress'
    BY DEF ChunkProgress, ToDo
  <2>4. Stubborn!EachChunkOnce'
    BY DEF Stubborn!EachChunkOnce, ChunkProgress, ToDo
  <2> QED BY <2>1, <2>2, <2>3, <2>4
<1>5. CASE Stubborn!OnNull
  <2> USE <1>5 DEF Stubborn!OnNull
  <2>1. Stubborn!TypeOK'
    OBVIOUS
  <2>2. ChunkControl'
    OBVIOUS
  <2>3. ChunkProgress'
    BY DEF ChunkProgress, ToDo
  <2>4. Stubborn!EachChunkOnce'
    BY DEF Stubborn!EachChunkOnce, ChunkProgress, ToDo
  <2> QED BY <2>1, <2>2, <2>3, <2>4
<1>6. CASE Stubborn!OnResult
  <2> USE <1>6 DEF Stubborn!OnResult, Stubborn!done
  <2>1. Stubborn!TypeOK'
    OBVIOUS
  <2>2. ChunkControl'
    OBVIOUS
  <2>3. ChunkProgress'
    BY DEF ChunkProgress, ToDo
  <2>4. Stubborn!EachChunkOnce'
    BY DEF Stubborn!EachChunkOnce, ChunkProgress, ToDo
  <2> QED BY <2>1, <2>2, <2>3, <2>4
<1>7. CASE UNCHANGED Stubborn!vars
  <2> USE <1>7 DEF Stubborn!vars
  <2>1. Stubborn!TypeOK'
    OBVIOUS
  <2>2. ChunkControl'
    OBVIOUS
  <2>3. ChunkProgress'
    BY DEF ChunkProgress, ToDo
  <2>4. Stubborn!EachChunkOnce'
    BY DEF Stubborn!EachChunkOnce, ChunkProgress, ToDo
  <2> QED BY <2>1, <2>2, <2>3, <2>4
<1> QED BY <1>1, <1>2, <1>3, <1>4, <1>5, <1>6, <1>7 DEF Stubborn!Next

\* Chunks that give up make no progress that a preemption could hide, so the
\* submissions for a state are at least the retries it has used up.
HeedfulInv ==
    /\ ChunkInv
    /\ pc = "back" /\ chunkResult # Stubborn!None => submitted = "run"
    /\ pc = "next" \/ Working => currentState < Chunks
    /\ \A c \in Stubborn!States : c >= Chunks => processed[c] = 0
    /\ pc = "next" => tries[currentState] >= retries
    /\ Working => tries[currentState] >= retries + 1
    /\ pc = "failed" /\ ~chunkError => tries[currentState] > maxPreemptionRetries

\* Chunks that give up take no step that the others cannot take.
LEMMA HeedfulSteps == [Heedful!Next]_(Heedful!vars) => [Stubborn!Next]_(Stubborn!vars)
BY DEF Heedful!Next, Stubborn!Next, Heedful!vars, Stubborn!vars, Heedful!submit, Stubborn!submit,
   Heedful!Drop, Stubborn!Drop, Heedful!Dispatch, Stubborn!Dispatch, Heedful!Preempt, Stubborn!Preempt,
   Heedful!Processed, Stubborn!Processed, Heedful!Threw, Stubborn!Threw, Heedful!OnNull, Stubborn!OnNull,
   Heedful!OnResult, Stubborn!OnResult, Heedful!done, Stubborn!done, Heedful!None, Stubborn!None

\* They start with nothing tried.
LEMMA HeedfulInit == Heedful!Init => HeedfulInv
<1>1. Heedful!Init => Stubborn!Init
  BY DEF Heedful!Init, Stubborn!Init, Heedful!None, Stubborn!None, Heedful!States, Stubborn!States
<1> QED BY <1>1, ChunkInit, ChunkConstants DEF Stubborn!Init, HeedfulInv, Working

\* Every step keeps the count of the submissions.
LEMMA HeedfulStep == HeedfulInv /\ [Heedful!Next]_(Heedful!vars) => HeedfulInv'
<1> SUFFICES ASSUME HeedfulInv, [Heedful!Next]_(Heedful!vars) PROVE HeedfulInv'
  OBVIOUS
<1>. ChunkInv'
  BY ChunkStep, HeedfulSteps DEF HeedfulInv
<1> USE ChunkConstants DEF HeedfulInv, ChunkInv, Stubborn!TypeOK, ChunkControl, Working, Heedful!None, Stubborn!None
<1>1. CASE Heedful!submit
  BY <1>1 DEF Heedful!submit
<1>2. CASE Heedful!Drop \/ Heedful!Dispatch \/ Heedful!Preempt
  BY <1>2 DEF Heedful!Drop, Heedful!Dispatch, Heedful!Preempt
<1>3. CASE Heedful!Processed
  BY <1>3 DEF Heedful!Processed
<1>4. CASE Heedful!Threw
  BY <1>4 DEF Heedful!Threw
<1>5. CASE Heedful!OnNull
  BY <1>5 DEF Heedful!OnNull
<1>6. CASE Heedful!OnResult
  <2> USE <1>6 DEF Heedful!OnResult, Heedful!done
  <2>1. CASE chunkError
    BY <2>1
  <2>2. CASE ~chunkError
    <3>1. currentState' \in Stubborn!States /\ retries' = 0 /\ tries' = tries /\ processed' = processed
      BY <2>2
    <3>2. tries'[currentState'] \in Nat
      BY <3>1
    <3>3. pc' = IF chunkResult >= Chunks THEN "complete" ELSE "next"
      BY <2>2
    <3> QED BY <2>2, <3>1, <3>2, <3>3
  <2> QED BY <2>1, <2>2
<1>7. CASE UNCHANGED Heedful!vars
  BY <1>7 DEF Heedful!vars
<1> QED BY <1>1, <1>2, <1>3, <1>4, <1>5, <1>6, <1>7 DEF Heedful!Next

\* Past the end nothing is carried out, and a job that is given up has a chunk
\* to show for it.
LEMMA HeedfulSafe == ASSUME HeedfulInv PROVE Heedful!DoneIsTheEnd /\ Heedful!RetriesPerChunk
BY DEF HeedfulInv, ChunkInv, Stubborn!TypeOK, Heedful!DoneIsTheEnd, Heedful!RetriesPerChunk,
   Heedful!States, Stubborn!States

-----------------------------------------------------------------------------
(* Webhooks.                                                               *)

Stages == {"idle", "checking", "saving", "looping", "posting", "backoff", "auditing", "ended"}
\* Where a delivery has found no record of its id, and has not ended.
Sending == {"saving", "looping", "posting", "backoff", "auditing"}

HookControl ==
    /\ \A i \in Ids :
         /\ pc[i] = "idle" <=> i \notin claimed
         /\ pc[i] \in {"idle", "checking"} => attempt[i] = 0
         /\ pc[i] = "saving" => saving[i] # "none"
         /\ pc[i] \in {"looping", "backoff"} => attempt[i] < maxAttempts
         /\ pc[i] = "saving" /\ saving[i] = "pending" => attempt[i] < maxAttempts
    /\ \A i \in caught : aborted /\ pc[i] \notin {"idle", "checking"}

\* What the store tells of a delivery, while it works: whoever has sent
\* something has left a record, and the one that sends is this process.
HookRecord(i) ==
    /\ posters[i] # {} => record[i] # "absent"
    /\ \A p, q \in posters[i] : p = q
    /\ pc[i] \in Sending => posters[i] \subseteq {crashes}
    /\ pc[i] \in {"looping", "posting", "backoff", "auditing"} => record[i] # "absent"
    /\ pc[i] = "auditing" => record[i] = "exhausted"
    /\ i \in caught /\ pc[i] = "ended" => record[i] # "pending"

HookInv == Hooks!TypeOK /\ HookControl /\ (faults = 0 => \A i \in Ids : HookRecord(i))

\* The bounds of the notifier are numbers.
LEMMA HookConstants == maxAttempts \in Nat \ {0} /\ MaxCrashes \in Nat /\ MaxFaults \in Nat
BY HookInstances DEF Hooks!WebhookAssumption

\* The notifier starts with no delivery and no record.
LEMMA HookInit == Hooks!Init => HookInv
<1> SUFFICES ASSUME Hooks!Init PROVE HookInv
  OBVIOUS
<1> USE HookConstants DEF Hooks!Init
<1>a. /\ record \in [Ids -> Hooks!Statuses] /\ pc \in [Ids -> Stages]
      /\ saving \in [Ids -> {"none"} \cup (Hooks!Statuses \ {"absent"})]
  BY DEF Hooks!Statuses, Stages
<1>b. attempt \in [Ids -> 0 .. maxAttempts] /\ posters \in [Ids -> SUBSET (0 .. MaxCrashes)]
  OBVIOUS
<1>c. crashes \in 0 .. MaxCrashes /\ faults \in 0 .. MaxFaults
  OBVIOUS
<1>1. Hooks!TypeOK
  BY <1>a, <1>b, <1>c DEF Hooks!TypeOK, Stages
<1>2. HookControl
  BY DEF HookControl
<1>3. \A i \in Ids : HookRecord(i)
  BY DEF HookRecord, Sending
<1> QED BY <1>1, <1>2, <1>3 DEF HookInv

\* A step of one delivery: what it puts in the place of its stage, its record,
\* its attempts, the status it is about to write, and its posters.
Moves(i, s, r, n, v, P) ==
    /\ pc' = [pc EXCEPT ![i] = s] /\ record' = [record EXCEPT ![i] = r]
    /\ attempt' = [attempt EXCEPT ![i] = n] /\ saving' = [saving EXCEPT ![i] = v]
    /\ posters' = [posters EXCEPT ![i] = P]
    /\ UNCHANGED <<aborted, disposed, awaited, disposal, caught, crashes>>
    /\ claimed' \in {claimed, claimed \cup {i}} /\ accepted' \subseteq Ids /\ audited' \subseteq Ids
    /\ faults' \in faults .. MaxFaults

\* What there is to say of the delivery itself, after the step.
Lands(i, s, r, n, v, P) ==
    /\ s \in Stages /\ r \in Hooks!Statuses /\ n \in 0 .. maxAttempts
    /\ v \in {"none"} \cup (Hooks!Statuses \ {"absent"}) /\ P \in SUBSET (0 .. MaxCrashes)
    /\ s # "idle" /\ i \in claimed'
    /\ s = "checking" => n = 0 /\ i \notin caught
    /\ s = "saving" => v # "none"
    /\ s \in {"looping", "backoff"} => n < maxAttempts
    /\ s = "saving" /\ v = "pending" => n < maxAttempts

LandsTrue(i, s, r, P) ==
    /\ P # {} => r # "absent"
    /\ \A p, q \in P : p = q
    /\ s \in Sending => P \subseteq {crashes}
    /\ s \in {"looping", "posting", "backoff", "auditing"} => r # "absent"
    /\ s = "auditing" => r = "exhausted"
    /\ i \in caught /\ s = "ended" => r # "pending"

\* A step of one delivery leaves the others alone: it is enough to look at the
\* delivery that has taken it.
LEMMA OneDelivery ==
    ASSUME HookInv, NEW i \in Ids, NEW s, NEW r, NEW n, NEW v, NEW P,
           Moves(i, s, r, n, v, P), Lands(i, s, r, n, v, P),
           faults' = 0 => LandsTrue(i, s, r, P)
    PROVE  HookInv'
<1> USE HookConstants DEF Moves, Lands
<1>1. faults' = 0 => faults = 0
  BY DEF HookInv, Hooks!TypeOK
<1>2. Hooks!TypeOK'
  BY DEF HookInv, Hooks!TypeOK, Stages
<1>3. HookControl'
  BY DEF HookInv, HookControl, Hooks!TypeOK, Stages
<1>4. ASSUME faults' = 0, NEW k \in Ids PROVE HookRecord(k)'
  <2>1. CASE k = i
    <3>1. pc'[i] = s /\ record'[i] = r /\ posters'[i] = P /\ caught' = caught /\ crashes' = crashes
      BY DEF HookInv, Hooks!TypeOK
    <3> HIDE DEF Moves, Lands
    <3> QED BY <1>4, <2>1, <3>1 DEF HookRecord, LandsTrue
  <2>2. CASE k # i
    <3>1. pc'[k] = pc[k] /\ record'[k] = record[k] /\ posters'[k] = posters[k]
          /\ caught' = caught /\ crashes' = crashes
      BY <2>2 DEF HookInv, Hooks!TypeOK
    <3> HIDE DEF Moves, Lands
    <3> QED BY <1>1, <1>4, <3>1 DEF HookInv, HookRecord
  <2> QED BY <2>1, <2>2
<1> QED BY <1>2, <1>3, <1>4 DEF HookInv

\* Every step of the notifier keeps the records true.
LEMMA HookStep == HookInv /\ [Hooks!Next]_(Hooks!vars) => HookInv'
<1> SUFFICES ASSUME HookInv, [Hooks!Next]_(Hooks!vars) PROVE HookInv'
  OBVIOUS
<1>. Hooks!TypeOK /\ HookControl /\ (faults = 0 => \A i \in Ids : HookRecord(i))
  BY DEF HookInv
<1>. \A i \in Ids : /\ record[i] \in Hooks!Statuses /\ attempt[i] \in 0 .. maxAttempts
                    /\ saving[i] \in {"none"} \cup (Hooks!Statuses \ {"absent"})
                    /\ posters[i] \in SUBSET (0 .. MaxCrashes)
  BY DEF Hooks!TypeOK
<1>. /\ pc \in [Ids -> Stages] /\ record \in [Ids -> Hooks!Statuses]
     /\ attempt \in [Ids -> 0 .. maxAttempts]
     /\ saving \in [Ids -> {"none"} \cup (Hooks!Statuses \ {"absent"})]
     /\ posters \in [Ids -> SUBSET (0 .. MaxCrashes)]
  BY DEF Hooks!TypeOK, Stages
<1>. faults \in faults .. MaxFaults /\ crashes \in 0 .. MaxCrashes /\ faults \in 0 .. MaxFaults
     /\ audited \subseteq Ids /\ accepted \subseteq Ids /\ claimed \subseteq Ids
  BY HookConstants DEF Hooks!TypeOK
<1>1. ASSUME NEW i \in Ids, Hooks!fireReview(i) \/ Hooks!notifyExternal(i) PROVE HookInv'
  <2>1. /\ pc' = [pc EXCEPT ![i] = "checking"] /\ record' = [record EXCEPT ![i] = record[i]]
        /\ attempt' = [attempt EXCEPT ![i] = attempt[i]] /\ saving' = [saving EXCEPT ![i] = saving[i]]
        /\ posters' = [posters EXCEPT ![i] = posters[i]]
        /\ UNCHANGED <<aborted, disposed, awaited, disposal, caught, crashes>>
        /\ claimed' = claimed \cup {i} /\ accepted' = accepted /\ audited' = audited /\ faults' = faults
    BY <1>1 DEF Hooks!fireReview, Hooks!notifyExternal, Hooks!claim, Hooks!Goto, Hooks!shutdown, Hooks!outside
  <2>2. pc[i] = "idle" /\ attempt[i] = 0 /\ i \notin caught
    BY <1>1 DEF Hooks!fireReview, Hooks!notifyExternal, Hooks!claim, HookControl
  <2>3. faults = 0 => HookRecord(i)
    OBVIOUS
  <2>4. "checking" \in Stages
    BY DEF Stages
  <2>5. Moves(i, "checking", record[i], attempt[i], saving[i], posters[i])
    BY <2>1 DEF Moves
  <2>6. Lands(i, "checking", record[i], attempt[i], saving[i], posters[i])
    BY <2>1, <2>2, <2>4 DEF Lands
  <2>7. faults' = 0 => LandsTrue(i, "checking", record[i], posters[i])
    BY <2>1, <2>3 DEF LandsTrue, HookRecord, Sending
  <2> QED BY <2>5, <2>6, <2>7, OneDelivery
<1>2. ASSUME NEW i \in Ids, NEW ok \in BOOLEAN, Hooks!Check(i, ok) PROVE HookInv'
  <2> DEFINE s == IF ok /\ record[i] = "absent" THEN "saving" ELSE "ended"
             v == IF ok /\ record[i] = "absent" THEN "pending" ELSE saving[i]
  <2>1. /\ pc' = [pc EXCEPT ![i] = s] /\ record' = [record EXCEPT ![i] = record[i]]
        /\ attempt' = [attempt EXCEPT ![i] = attempt[i]] /\ saving' = [saving EXCEPT ![i] = v]
        /\ posters' = [posters EXCEPT ![i] = posters[i]]
        /\ UNCHANGED <<aborted, disposed, awaited, disposal, caught, crashes>>
        /\ claimed' = claimed /\ accepted' = accepted /\ audited' = audited
    BY <1>2 DEF Hooks!Check, Hooks!Goto, Hooks!Save, Hooks!shutdown, Hooks!outside
  <2>2. faults' \in faults .. MaxFaults /\ (faults' = 0 => ok /\ faults = 0)
    BY <1>2, HookConstants DEF Hooks!Check
  <2>3. pc[i] = "checking" /\ attempt[i] = 0 /\ i \notin caught /\ i \in claimed
    BY <1>2 DEF Hooks!Check, HookControl
  <2>4. faults = 0 => HookRecord(i)
    OBVIOUS
  <2>5. s \in Stages /\ v \in {"none"} \cup (Hooks!Statuses \ {"absent"}) /\ s # "idle" /\ s # "checking"
    BY DEF Stages, Hooks!Statuses
  <2>6. s = "saving" => v = "pending" /\ record[i] = "absent"
    OBVIOUS
  <2>7. s \in {"saving", "ended"}
    OBVIOUS
  <2>8. faults' = 0 =>
             /\ posters[i] # {} => record[i] # "absent"
             /\ \A p, q \in posters[i] : p = q
             /\ s \in Sending => posters[i] \subseteq {crashes}
    BY <2>2, <2>4, <2>6, <2>7 DEF HookRecord, Sending
  <2> HIDE DEF s, v
  <2>9. Moves(i, s, record[i], attempt[i], v, posters[i])
    BY <2>1, <2>2 DEF Moves
  <2>10. Lands(i, s, record[i], attempt[i], v, posters[i])
    BY <2>1, <2>3, <2>5, <2>6, <2>7, HookConstants DEF Lands
  <2>11. faults' = 0 => LandsTrue(i, s, record[i], posters[i])
    BY <2>3, <2>7, <2>8 DEF LandsTrue
  <2> QED BY <2>9, <2>10, <2>11, OneDelivery
<1>3. ASSUME NEW i \in Ids, NEW ok \in BOOLEAN, Hooks!persist(i, ok) PROVE HookInv'
  <2> DEFINE s == Hooks!AfterSave(i)
             r == IF ok THEN saving[i] ELSE record[i]
  <2>1. /\ pc' = [pc EXCEPT ![i] = s] /\ record' = [record EXCEPT ![i] = r]
        /\ attempt' = [attempt EXCEPT ![i] = attempt[i]] /\ saving' = [saving EXCEPT ![i] = saving[i]]
        /\ posters' = [posters EXCEPT ![i] = posters[i]]
        /\ UNCHANGED <<aborted, disposed, awaited, disposal, caught, crashes>>
        /\ claimed' = claimed /\ accepted' = accepted /\ audited' = audited
    BY <1>3 DEF Hooks!persist, Hooks!Goto, Hooks!shutdown, Hooks!outside
  <2>2. faults' \in faults .. MaxFaults /\ (faults' = 0 => ok /\ faults = 0)
    BY <1>3, HookConstants DEF Hooks!persist
  <2>3. pc[i] = "saving" /\ saving[i] # "none" /\ i \in claimed
    BY <1>3 DEF Hooks!persist, HookControl
  <2>4. faults = 0 => HookRecord(i)
    OBVIOUS
  <2>5. saving[i] \in {"pending", "delivered", "exhausted", "aborted"}
    BY <2>3 DEF Hooks!Statuses
  <2>6. /\ s \in {"looping", "backoff", "auditing", "ended"}
        /\ s \in {"looping", "backoff"} => saving[i] = "pending"
        /\ s = "auditing" => saving[i] = "exhausted"
        /\ s = "ended" => saving[i] # "pending"
    BY <2>5 DEF Hooks!AfterSave
  <2>7. s \in {"looping", "backoff"} => attempt[i] < maxAttempts
    BY <2>3, <2>6 DEF HookControl
  <2>8. faults' = 0 => posters[i] \subseteq {crashes} /\ r = saving[i]
    BY <2>2, <2>3, <2>4 DEF HookRecord, Sending
  <2>9. s \in Stages /\ r \in Hooks!Statuses
    BY <2>5, <2>6 DEF Stages, Hooks!Statuses
  <2> HIDE DEF s, r
  <2>10. Moves(i, s, r, attempt[i], saving[i], posters[i])
    BY <2>1, <2>2 DEF Moves
  <2>11. Lands(i, s, r, attempt[i], saving[i], posters[i])
    BY <2>1, <2>3, <2>5, <2>6, <2>7, <2>9 DEF Lands
  <2>12. faults' = 0 => LandsTrue(i, s, r, posters[i])
    BY <2>3, <2>5, <2>6, <2>8 DEF LandsTrue, Sending
  <2> QED BY <2>10, <2>11, <2>12, OneDelivery
<1>4. ASSUME NEW i \in Ids, Hooks!Attempt(i) PROVE HookInv'
  <2>1. /\ record' = [record EXCEPT ![i] = record[i]]
        /\ UNCHANGED <<aborted, disposed, awaited, disposal, caught, crashes>>
        /\ claimed' = claimed /\ accepted' = accepted /\ audited' = audited /\ faults' = faults
    BY <1>4 DEF Hooks!Attempt, Hooks!shutdown
  <2>2. pc[i] = "looping" /\ i \in claimed /\ attempt[i] < maxAttempts
    BY <1>4 DEF Hooks!Attempt, HookControl
  <2>3. faults = 0 => HookRecord(i)
    OBVIOUS
  <2>4. CASE aborted
    <3>1. /\ pc' = [pc EXCEPT ![i] = "saving"] /\ saving' = [saving EXCEPT ![i] = "aborted"]
          /\ attempt' = [attempt EXCEPT ![i] = attempt[i]] /\ posters' = [posters EXCEPT ![i] = posters[i]]
      BY <1>4, <2>4 DEF Hooks!Attempt, Hooks!Save, Hooks!Goto
    <3>2. "saving" \in Stages /\ "aborted" \in {"none"} \cup (Hooks!Statuses \ {"absent"})
      BY DEF Stages, Hooks!Statuses
    <3>3. Moves(i, "saving", record[i], attempt[i], "aborted", posters[i])
      BY <2>1, <3>1 DEF Moves
    <3>4. Lands(i, "saving", record[i], attempt[i], "aborted", posters[i])
      BY <2>1, <2>2, <3>2 DEF Lands
    <3>5. faults' = 0 => LandsTrue(i, "saving", record[i], posters[i])
      BY <2>1, <2>2, <2>3 DEF LandsTrue, HookRecord, Sending
    <3> QED BY <3>3, <3>4, <3>5, OneDelivery
  <2>5. CASE ~aborted /\ disposed
    <3>1. /\ pc' = [pc EXCEPT ![i] = "ended"] /\ saving' = [saving EXCEPT ![i] = saving[i]]
          /\ attempt' = [attempt EXCEPT ![i] = attempt[i]] /\ posters' = [posters EXCEPT ![i] = posters[i]]
      BY <1>4, <2>5 DEF Hooks!Attempt, Hooks!Goto
    <3>2. "ended" \in Stages /\ i \notin caught
      BY <2>5 DEF Stages, HookControl
    <3>3. Moves(i, "ended", record[i], attempt[i], saving[i], posters[i])
      BY <2>1, <3>1 DEF Moves
    <3>4. Lands(i, "ended", record[i], attempt[i], saving[i], posters[i])
      BY <2>1, <2>2, <3>2 DEF Lands
    <3>5. faults' = 0 => LandsTrue(i, "ended", record[i], posters[i])
      BY <2>1, <2>3, <3>2 DEF LandsTrue, HookRecord, Sending
    <3> QED BY <3>3, <3>4, <3>5, OneDelivery
  <2>6. CASE ~aborted /\ ~disposed
    <3>1. /\ pc' = [pc EXCEPT ![i] = "posting"] /\ saving' = [saving EXCEPT ![i] = saving[i]]
          /\ attempt' = [attempt EXCEPT ![i] = attempt[i] + 1]
          /\ posters' = [posters EXCEPT ![i] = posters[i] \cup {crashes}]
      BY <1>4, <2>6 DEF Hooks!Attempt, Hooks!Post, Hooks!Goto
    <3>2. "posting" \in Stages /\ attempt[i] + 1 \in 0 .. maxAttempts
          /\ posters[i] \cup {crashes} \in SUBSET (0 .. MaxCrashes)
      BY <2>2, HookConstants DEF Stages
    <3>3. faults = 0 => posters[i] \cup {crashes} = {crashes} /\ record[i] # "absent"
      BY <2>2, <2>3 DEF HookRecord, Sending
    <3>4. Moves(i, "posting", record[i], attempt[i] + 1, saving[i], posters[i] \cup {crashes})
      BY <2>1, <3>1 DEF Moves
    <3>5. Lands(i, "posting", record[i], attempt[i] + 1, saving[i], posters[i] \cup {crashes})
      BY <2>1, <2>2, <3>2 DEF Lands
    <3>6. faults' = 0 => LandsTrue(i, "posting", record[i], posters[i] \cup {crashes})
      BY <2>1, <3>3 DEF LandsTrue
    <3> QED BY <3>4, <3>5, <3>6, OneDelivery
  <2> QED BY <2>4, <2>5, <2>6
<1>5. ASSUME NEW i \in Ids, NEW ok \in BOOLEAN, NEW reached \in BOOLEAN, Hooks!Respond(i, ok, reached)
      PROVE HookInv'
  <2> DEFINE v == CASE ok -> "delivered"
                 [] ~ok /\ aborted -> "aborted"
                 [] ~ok /\ ~aborted /\ attempt[i] >= maxAttempts -> "exhausted"
                 [] ~ok /\ ~aborted /\ attempt[i] < maxAttempts -> "pending"
  <2>1. /\ pc' = [pc EXCEPT ![i] = "saving"] /\ record' = [record EXCEPT ![i] = record[i]]
        /\ attempt' = [attempt EXCEPT ![i] = attempt[i]] /\ saving' = [saving EXCEPT ![i] = v]
        /\ posters' = [posters EXCEPT ![i] = posters[i]]
        /\ UNCHANGED <<aborted, disposed, awaited, disposal, caught, crashes>>
        /\ claimed' = claimed /\ accepted' \subseteq Ids /\ audited' = audited /\ faults' = faults
    BY <1>5 DEF Hooks!Respond, Hooks!Goto, Hooks!Save, Hooks!shutdown
  <2>2. pc[i] = "posting" /\ i \in claimed
    BY <1>5 DEF Hooks!Respond, HookControl
  <2>3. faults = 0 => HookRecord(i)
    OBVIOUS
  <2>4. v \in {"delivered", "aborted", "exhausted", "pending"} /\ (v = "pending" => attempt[i] < maxAttempts)
    BY HookConstants
  <2>5. "saving" \in Stages /\ v \in {"none"} \cup (Hooks!Statuses \ {"absent"})
    BY <2>4 DEF Stages, Hooks!Statuses
  <2>6. faults = 0 => posters[i] \subseteq {crashes} /\ record[i] # "absent"
    BY <2>2, <2>3 DEF HookRecord, Sending
  <2> HIDE DEF v
  <2>7. Moves(i, "saving", record[i], attempt[i], v, posters[i])
    BY <2>1 DEF Moves
  <2>8. Lands(i, "saving", record[i], attempt[i], v, posters[i])
    BY <2>1, <2>2, <2>4, <2>5 DEF Lands
  <2>9. faults' = 0 => LandsTrue(i, "saving", record[i], posters[i])
    BY <2>1, <2>6 DEF LandsTrue
  <2> QED BY <2>7, <2>8, <2>9, OneDelivery
<1>6. ASSUME NEW i \in Ids, Hooks!markExhausted(i) \/ Hooks!Wake(i) PROVE HookInv'
  <2> DEFINE s == IF pc[i] = "backoff" THEN "looping" ELSE "ended"
  <2>1. /\ pc' = [pc EXCEPT ![i] = s] /\ record' = [record EXCEPT ![i] = record[i]]
        /\ attempt' = [attempt EXCEPT ![i] = attempt[i]] /\ saving' = [saving EXCEPT ![i] = saving[i]]
        /\ posters' = [posters EXCEPT ![i] = posters[i]]
        /\ UNCHANGED <<aborted, disposed, awaited, disposal, caught, crashes>>
        /\ claimed' = claimed /\ accepted' = accepted /\ audited' \subseteq Ids /\ faults' = faults
    BY <1>6 DEF Hooks!markExhausted, Hooks!Wake, Hooks!Goto, Hooks!shutdown, Hooks!outside
  <2>2. pc[i] \in {"backoff", "auditing"} /\ i \in claimed
    BY <1>6 DEF Hooks!markExhausted, Hooks!Wake, HookControl
  <2>3. faults = 0 => HookRecord(i)
    OBVIOUS
  <2>4. s \in {"looping", "ended"} /\ s \in Stages /\ (s = "looping" => attempt[i] < maxAttempts)
        /\ (s = "ended" => pc[i] = "auditing")
    BY <2>2 DEF Stages, HookControl
  <2>5. faults = 0 => posters[i] \subseteq {crashes} /\ record[i] # "absent"
                      /\ (s = "ended" => record[i] # "pending")
    BY <2>2, <2>3, <2>4 DEF HookRecord, Sending
  <2> HIDE DEF s
  <2>6. Moves(i, s, record[i], attempt[i], saving[i], posters[i])
    BY <2>1 DEF Moves
  <2>7. Lands(i, s, record[i], attempt[i], saving[i], posters[i])
    BY <2>1, <2>2, <2>4 DEF Lands
  <2>8. faults' = 0 => LandsTrue(i, s, record[i], posters[i])
    BY <2>1, <2>4, <2>5 DEF LandsTrue
  <2> QED BY <2>6, <2>7, <2>8, OneDelivery
<1>7. CASE Hooks!Abort
  <2>1. caught' \subseteq Ids /\ \A i \in caught' : pc[i] \notin {"idle", "checking", "ended"}
    BY <1>7 DEF Hooks!Abort, Hooks!Active
  <2>2. Hooks!TypeOK' /\ HookControl'
    BY <1>7, <2>1 DEF Hooks!Abort, Hooks!TypeOK, HookControl, Hooks!outside
  <2>3. faults' = 0 => \A i \in Ids : HookRecord(i)'
    BY <1>7, <2>1 DEF Hooks!Abort, HookRecord, Hooks!outside
  <2> QED BY <2>2, <2>3 DEF HookInv
<1>8. CASE Hooks!dispose \/ Hooks!Disposed
  <2>1. Hooks!TypeOK' /\ HookControl'
    BY <1>8 DEF Hooks!dispose, Hooks!Disposed, Hooks!Active, Hooks!TypeOK, HookControl, Hooks!outside
  <2>2. faults' = 0 => \A i \in Ids : HookRecord(i)'
    BY <1>8 DEF Hooks!dispose, Hooks!Disposed, HookRecord, Hooks!outside
  <2> QED BY <2>1, <2>2 DEF HookInv
<1>9. CASE Hooks!Crash
  <2>a. pc' \in [Ids -> Stages] /\ saving' \in [Ids -> {"none"} \cup (Hooks!Statuses \ {"absent"})]
    BY <1>9 DEF Hooks!Crash, Stages
  <2>b. attempt' \in [Ids -> 0 .. maxAttempts] /\ crashes' \in 0 .. MaxCrashes
    BY <1>9, HookConstants DEF Hooks!Crash
  <2>1. Hooks!TypeOK'
    BY <1>9, <2>a, <2>b DEF Hooks!Crash, Hooks!TypeOK, Stages
  <2>2. HookControl'
    BY <1>9 DEF Hooks!Crash, HookControl
  <2>3. faults' = 0 => \A i \in Ids : HookRecord(i)'
    BY <1>9 DEF Hooks!Crash, HookRecord, Sending
  <2> QED BY <2>1, <2>2, <2>3 DEF HookInv
<1>10. CASE UNCHANGED Hooks!vars
  <2>1. Hooks!TypeOK' /\ HookControl'
    BY <1>10 DEF Hooks!vars, Hooks!TypeOK, HookControl
  <2>2. faults' = 0 => \A i \in Ids : HookRecord(i)'
    BY <1>10 DEF Hooks!vars, HookRecord
  <2> QED BY <2>1, <2>2 DEF HookInv
<1> QED BY <1>1, <1>2, <1>3, <1>4, <1>5, <1>6, <1>7, <1>8, <1>9, <1>10 DEF Hooks!Next, Hooks!DeliverStep

\* A set with no two members has one at most.
LEMMA AtMostOne ==
    ASSUME NEW S, \A p, q \in S : p = q
    PROVE  Hooks!Cardinality(S) <= 1
<1>1. Hooks!Cardinality(S) = Cardinality(S)
  BY DEF Hooks!Cardinality, Cardinality, Hooks!IsFiniteSet, IsFiniteSet
<1>2. CASE S = {}
  BY <1>1, <1>2, FS_EmptySet
<1>3. CASE S # {}
  <2>1. PICK p \in S : TRUE
    BY <1>3
  <2>2. S = {p}
    BY <2>1
  <2> QED BY <1>1, <2>2, FS_Singleton
<1> QED BY <1>2, <1>3

\* What the records say is what the notifier promises.
LEMMA HookSafe ==
    ASSUME HookInv PROVE Hooks!TypeOK /\ Hooks!NotifiedByOneProcess /\ Hooks!AbortIsRecorded
<1>1. Hooks!NotifiedByOneProcess
  BY AtMostOne DEF HookInv, HookRecord, Hooks!NotifiedByOneProcess
<1>2. Hooks!AbortIsRecorded
  BY DEF HookInv, HookRecord, Hooks!AbortIsRecorded, Hooks!TypeOK
<1> QED BY <1>1, <1>2 DEF HookInv

-----------------------------------------------------------------------------
(* Compaction.  The invariant is stated of the state s that settle and     *)
(* queue work on, and of the job f whose candidate is in flight, so that   *)
(* it can be followed through their compositions.                          *)

Ends == Compaction!Outcomes
Places == {"queued", "joins", "boundary", "running", "settled"}
Tallies == Ends \cup {"requested", "rescheduled"}
JobRecord == [at : Places, reason : BOOLEAN, candidates : 0 .. maxStaleRetries + 1,
              outcome : Ends \cup {"none"}]

With(s, o) == {j \in DOMAIN s.jobs : s.jobs[j].outcome = o}

Phases == Ends \cup {"idle", "pending", "running"}
WorkRecord == [jobs : Seq(JobRecord), job : Nat, windows : SUBSET Nat, phase : Phases,
               counts : [Tallies -> Nat]]

WorkTyped(s) ==
    /\ s \in WorkRecord
    /\ Len(s.jobs) <= MaxJobs
    /\ s.job \in 0 .. Len(s.jobs) /\ s.windows \subseteq 1 .. Len(s.jobs)

Totals(s) ==
    /\ s.counts["requested"] = Len(s.jobs)
    /\ \A o \in Ends \ {"discarded"} : s.counts[o] = Cardinality(With(s, o))
    /\ s.counts["discarded"] >= Cardinality(With(s, "discarded")) + s.counts["rescheduled"]

Joinable(s) ==
    s.job # 0 => s.job = Len(s.jobs) /\ s.jobs[s.job].outcome = "none" /\ ~s.jobs[s.job].reason

JobOK(s, f, k) ==
    /\ s.jobs[k].at = "settled" <=> s.jobs[k].outcome # "none"
    /\ s.jobs[k].at = "running" <=> f = k
    /\ s.jobs[k].at \in {"queued", "joins", "boundary"} => s.jobs[k].candidates <= maxStaleRetries
    /\ s.jobs[k].reason /\ s.jobs[k].outcome = "none" => s.jobs[k].at = "running"
    /\ k \in s.windows => s.jobs[k].at \in {"queued", "settled"}
    /\ s.jobs[k].outcome = "none" /\ ~s.jobs[k].reason => s.job = k

WorkInv(s, f) ==
    /\ WorkTyped(s) /\ Totals(s) /\ Joinable(s)
    /\ f \in 0 .. Len(s.jobs)
    /\ \A k \in 1 .. Len(s.jobs) : JobOK(s, f, k)

Candidate == [stage : {"none", "summarizing", "returned"}, base : Nat, covers : Nat,
              result : {"none", "error", "no-op", "discarded", "committed"}]

\* A summary that is being written covers the history that it started from,
\* which has not changed if the revision has not.
Summaries ==
    /\ candidate \in [1 .. MaxJobs -> Candidate]
    /\ \A j \in 1 .. MaxJobs :
         /\ candidate[j].stage # "none" <=> inFlight = j
         /\ candidate[j].stage = "summarizing" =>
              /\ candidate[j].result = "none" /\ candidate[j].base <= revision
              /\ candidate[j].base = revision => candidate[j].covers = history
    /\ {revision, written} \subseteq Nat /\ history = written

CompactionInv == WorkInv(Compaction!State, inFlight) /\ Summaries

\* The bounds are numbers.
LEMMA CompactionConstants == maxStaleRetries \in Nat /\ MaxJobs \in Nat /\ MaxWrites \in Nat
BY CompactionInstance DEF Compaction!CompactionAssumption

\* The state of the scheduler, field by field.
LEMMA StateFields ==
    /\ Compaction!State.jobs = jobs /\ Compaction!State.job = job
    /\ Compaction!State.windows = windows /\ Compaction!State.phase = phase
    /\ Compaction!State.counts = counts
BY DEF Compaction!State

\* The jobs with an outcome can be counted.
LEMMA WithFinite ==
    ASSUME NEW s, s.jobs \in Seq(JobRecord), NEW o
    PROVE  IsFiniteSet(With(s, o)) /\ Cardinality(With(s, o)) \in Nat
<1>1. Len(s.jobs) \in Nat /\ DOMAIN s.jobs = 1 .. Len(s.jobs)
  BY LenProperties
<1>a. 1 \in Int /\ Len(s.jobs) \in Int
  BY <1>1
<1>2. IsFiniteSet(1 .. Len(s.jobs))
  BY <1>a, FS_Interval, Zenon
<1>3. With(s, o) \subseteq 1 .. Len(s.jobs)
  BY <1>1 DEF With
<1> QED BY <1>2, <1>3, FS_Subset, FS_CardinalityType

\* A record of a job stays one.
LEMMA JobRecordAt ==
    ASSUME NEW s, WorkTyped(s), NEW j \in 1 .. Len(s.jobs)
    PROVE  s.jobs[j] \in JobRecord /\ DOMAIN s.jobs = 1 .. Len(s.jobs) /\ Len(s.jobs) \in Nat
BY LenProperties, ElementOfSeq DEF WorkTyped, WorkRecord

\* What the invariant asks of all jobs but one.
AllBut(s, f, j) ==
    /\ WorkTyped(s) /\ Totals(s) /\ Joinable(s)
    /\ f \in 0 .. Len(s.jobs) /\ f # j
    /\ j \in 1 .. Len(s.jobs) /\ s.jobs[j].outcome = "none"
    /\ \A k \in 1 .. Len(s.jobs) \ {j} : JobOK(s, f, k)

\* #settle leaves the books in order: one more job with the outcome, counted once.
LEMMA SettleKeeps ==
    ASSUME NEW s, NEW f, NEW j, NEW o \in Ends, AllBut(s, f, j)
    PROVE  WorkInv(Compaction!settle(s, j, o), f)
<1> DEFINE t == Compaction!settle(s, j, o)
           r == [s.jobs[j] EXCEPT !.outcome = o, !.at = "settled"]
<1>1. s.jobs[j] \in JobRecord /\ DOMAIN s.jobs = 1 .. Len(s.jobs) /\ Len(s.jobs) \in Nat
  BY JobRecordAt DEF AllBut
<1>2. r \in JobRecord /\ r.outcome = o /\ r.at = "settled" /\ o # "none"
  BY <1>1 DEF JobRecord, Places, Ends, Compaction!Outcomes
<1>3. /\ t.jobs = [s.jobs EXCEPT ![j] = r]
      /\ t.job = (IF s.job = j THEN 0 ELSE s.job)
      /\ t.windows = s.windows
      /\ t.phase = (IF s.job \in {0, j} THEN o ELSE s.phase)
      /\ t.counts = [s.counts EXCEPT ![o] = @ + 1]
  BY DEF Compaction!settle, Compaction!Add, AllBut, WorkTyped, WorkRecord
<1>b. s.jobs \in Seq(JobRecord) /\ s.job \in Nat /\ s.windows \in SUBSET Nat
      /\ s.phase \in Phases /\ s.counts \in [Tallies -> Nat]
  BY DEF AllBut, WorkTyped, WorkRecord
<1>4. /\ t.jobs \in Seq(JobRecord) /\ Len(t.jobs) = Len(s.jobs) /\ DOMAIN t.jobs = 1 .. Len(s.jobs)
      /\ t.jobs[j] = r /\ \A k \in 1 .. Len(s.jobs) \ {j} : t.jobs[k] = s.jobs[k]
  <2>1. j \in 1 .. Len(s.jobs)
    BY DEF AllBut
  <2> HIDE DEF t, r
  <2> QED BY <1>1, <1>2, <1>3, <1>b, <2>1, ExceptSeq, LenProperties
<1>a. t.counts \in [Tallies -> Nat] /\ \A x \in Tallies : t.counts[x] = IF x = o THEN s.counts[x] + 1 ELSE s.counts[x]
  <2>1. o \in Tallies
    BY DEF Tallies
  <2> HIDE DEF t, r
  <2> QED BY <1>3, <1>b, <2>1
<1>5. WorkTyped(t)
  <2>1. t = [jobs |-> t.jobs, job |-> t.job, windows |-> t.windows, phase |-> t.phase, counts |-> t.counts]
    <3>1. DOMAIN s = {"jobs", "job", "windows", "phase", "counts"}
      BY DEF AllBut, WorkTyped, WorkRecord
    <3>2. DOMAIN t = DOMAIN s
      BY DEF Compaction!settle
    <3>3. t = [x \in DOMAIN t |-> t[x]]
      BY DEF Compaction!settle
    <3> HIDE DEF t, r
    <3> QED BY <3>1, <3>2, <3>3
  <2>2. t.phase \in Phases /\ t.job \in Nat
    BY <1>3, <1>b DEF Phases
  <2> HIDE DEF t, r
  <2>3. t \in WorkRecord
    BY <1>3, <1>4, <1>a, <1>b, <2>1, <2>2 DEF WorkRecord
  <2> QED BY <1>1, <1>3, <1>4, <2>3 DEF AllBut, WorkTyped
<1>6. Joinable(t)
  BY <1>1, <1>3, <1>4 DEF AllBut, WorkTyped, Joinable
<1>7. Totals(t)
  <2>1. With(t, o) = With(s, o) \cup {j} /\ j \notin With(s, o)
    BY <1>1, <1>2, <1>4 DEF With, AllBut
  <2>2. \A x \in Ends \ {o} : With(t, x) = With(s, x)
    BY <1>1, <1>2, <1>4 DEF With, AllBut, Ends, Compaction!Outcomes
  <2>3. IsFiniteSet(With(s, o)) /\ \A x : Cardinality(With(s, x)) \in Nat
    BY WithFinite, <1>b
  <2>4. Cardinality(With(t, o)) = Cardinality(With(s, o)) + 1
    BY <2>1, <2>3, FS_AddElement
  <2>5. \A x \in Ends : x \in Tallies /\ x # "requested" /\ x # "rescheduled"
    BY DEF Ends, Tallies, Compaction!Outcomes
  <2>6. \A x \in Ends : s.counts[x] \in Nat /\ s.counts["rescheduled"] \in Nat
    BY <1>b, <2>5 DEF Tallies
  <2>7. t.counts["requested"] = Len(t.jobs) /\ t.counts["rescheduled"] = s.counts["rescheduled"]
    BY <1>4, <1>a, <2>5 DEF Totals, AllBut, Tallies
  <2>8. \A x \in Ends \ {"discarded"} : t.counts[x] = Cardinality(With(t, x))
    BY <1>a, <2>2, <2>4, <2>5 DEF Totals, AllBut
  <2>9. "discarded" \in Ends
    BY DEF Ends, Compaction!Outcomes
  <2>10. t.counts["discarded"] >= Cardinality(With(t, "discarded")) + t.counts["rescheduled"]
    <3>1. s.counts["discarded"] >= Cardinality(With(s, "discarded")) + s.counts["rescheduled"]
      BY DEF Totals, AllBut
    <3>2. CASE o = "discarded"
      BY <1>a, <2>3, <2>4, <2>5, <2>6, <2>7, <2>9, <3>1, <3>2
    <3>3. CASE o # "discarded"
      BY <1>a, <2>2, <2>5, <2>7, <2>9, <3>1, <3>3
    <3> QED BY <3>2, <3>3
  <2> QED BY <2>7, <2>8, <2>10 DEF Totals
<1>8. \A k \in 1 .. Len(t.jobs) : JobOK(t, f, k)
  BY <1>1, <1>2, <1>3, <1>4 DEF AllBut, JobOK
<1> QED BY <1>4, <1>5, <1>6, <1>7, <1>8 DEF WorkInv, AllBut

\* #queue: the adapter holds the task, or the job has failed.
LEMMA QueueKeeps ==
    ASSUME NEW s, NEW f, NEW j, AllBut(s, f, j), s.job = j, ~s.jobs[j].reason,
           s.jobs[j].candidates <= maxStaleRetries, NEW t \in Compaction!queue(s, j)
    PROVE  WorkInv(t, f)
<1>0. s.jobs[j] \in JobRecord /\ DOMAIN s.jobs = 1 .. Len(s.jobs) /\ Len(s.jobs) \in Nat
  BY JobRecordAt DEF AllBut
<1>1. CASE t = Compaction!settle(s, j, "failed")
  BY <1>1, SettleKeeps DEF Ends, Compaction!Outcomes
<1>2. CASE t = [s EXCEPT !.jobs[j].at = "queued", !.windows = @ \cup {j}]
  <2> DEFINE r == [s.jobs[j] EXCEPT !.at = "queued"]
  <2>1. /\ t.jobs = [s.jobs EXCEPT ![j] = r] /\ t.windows = s.windows \cup {j}
        /\ t.job = s.job /\ t.phase = s.phase /\ t.counts = s.counts
        /\ t = [jobs |-> t.jobs, job |-> t.job, windows |-> t.windows, phase |-> t.phase, counts |-> t.counts]
    BY <1>2 DEF AllBut, WorkTyped, WorkRecord
  <2>a. s.jobs \in Seq(JobRecord) /\ s.job \in Nat /\ s.windows \in SUBSET Nat
        /\ s.phase \in Phases /\ s.counts \in [Tallies -> Nat] /\ j \in 1 .. Len(s.jobs)
    BY DEF AllBut, WorkTyped, WorkRecord
  <2>2. /\ r \in JobRecord /\ r.at = "queued" /\ r.outcome = s.jobs[j].outcome
        /\ r.reason = s.jobs[j].reason /\ r.candidates = s.jobs[j].candidates
    BY <1>0 DEF JobRecord, Places
  <2>3. /\ t.jobs \in Seq(JobRecord) /\ Len(t.jobs) = Len(s.jobs) /\ DOMAIN t.jobs = 1 .. Len(s.jobs)
        /\ t.jobs[j] = r /\ \A k \in 1 .. Len(s.jobs) \ {j} : t.jobs[k] = s.jobs[k]
    BY <1>0, <2>1, <2>2, <2>a, ExceptSeq, LenProperties
  <2>4. \A o : With(t, o) = With(s, o)
    <3> HIDE DEF r
    <3> QED BY <1>0, <2>2, <2>3, <2>a DEF With
  <2>5. WorkTyped(t)
    <3>1. t \in WorkRecord
      BY <2>1, <2>3, <2>a DEF WorkRecord
    <3> HIDE DEF r
    <3> QED BY <1>0, <2>1, <2>3, <2>a, <3>1 DEF AllBut, WorkTyped
  <2>6. Totals(t)
    BY <2>1, <2>3, <2>4 DEF AllBut, Totals
  <2>7. Joinable(t)
    BY <1>0, <2>1, <2>2, <2>3 DEF AllBut, WorkTyped, Joinable
  <2>8. \A k \in 1 .. Len(t.jobs) : JobOK(t, f, k)
    BY <1>0, <2>1, <2>2, <2>3 DEF AllBut, JobOK
  <2> QED BY <2>3, <2>5, <2>6, <2>7, <2>8 DEF AllBut, WorkInv
<1> QED BY <1>1, <1>2 DEF Compaction!queue

\* The scheduler takes on a state that was worked out.
LEMMA BecomesKeeps ==
    ASSUME NEW t, Compaction!Becomes(t), WorkInv(t, inFlight')
    PROVE  WorkInv(Compaction!State, inFlight)'
<1>1. /\ Compaction!State'.jobs = t.jobs /\ Compaction!State'.job = t.job
      /\ Compaction!State'.windows = t.windows /\ Compaction!State'.phase = t.phase
      /\ Compaction!State'.counts = t.counts
  BY DEF Compaction!State, Compaction!Becomes
<1>2. WorkTyped(Compaction!State') /\ Totals(Compaction!State') /\ Joinable(Compaction!State')
  <2>1. Compaction!State' = [jobs |-> t.jobs, job |-> t.job, windows |-> t.windows, phase |-> t.phase, counts |-> t.counts]
    BY DEF Compaction!State, Compaction!Becomes
  <2>2. t = [jobs |-> t.jobs, job |-> t.job, windows |-> t.windows, phase |-> t.phase, counts |-> t.counts]
    BY DEF WorkInv, WorkTyped, WorkRecord
  <2>3. Compaction!State' = t
    BY <2>1, <2>2
  <2> QED BY <2>3 DEF WorkInv
<1>3. \A k \in 1 .. Len(t.jobs) : JobOK(Compaction!State', inFlight', k)
  BY <1>1 DEF WorkInv, JobOK
<1> QED BY <1>1, <1>2, <1>3 DEF WorkInv

\* compact() has taken its snapshot for job j, which nothing else was running.
LEMMA StartKeeps ==
    ASSUME NEW s, NEW j \in 1 .. Len(s.jobs), WorkInv(s, 0), j \notin s.windows,
           s.jobs[j].at \in {"queued", "joins", "boundary"}
    PROVE  WorkInv([s EXCEPT !.jobs[j].at = "running", !.jobs[j].candidates = @ + 1,
                             !.phase = "running"], j)
<1> DEFINE t == [s EXCEPT !.jobs[j].at = "running", !.jobs[j].candidates = @ + 1,
                          !.phase = "running"]
           r == [s.jobs[j] EXCEPT !.at = "running", !.candidates = @ + 1]
<1>1. s.jobs[j] \in JobRecord /\ DOMAIN s.jobs = 1 .. Len(s.jobs) /\ Len(s.jobs) \in Nat
  BY JobRecordAt DEF WorkInv
<1>2. s.jobs[j].candidates <= maxStaleRetries /\ s.jobs[j].outcome = "none" /\ ~s.jobs[j].reason
  BY <1>1 DEF WorkInv, JobOK, JobRecord
<1>3. /\ r \in JobRecord /\ r.at = "running" /\ r.outcome = "none" /\ ~r.reason
  <2>1. s.jobs[j].candidates + 1 \in 0 .. maxStaleRetries + 1
    BY <1>1, <1>2, CompactionConstants DEF JobRecord
  <2>2. "running" \in Places
    BY DEF Places
  <2> QED BY <1>1, <1>2, <2>1, <2>2 DEF JobRecord
<1>4. /\ t.jobs = [s.jobs EXCEPT ![j] = r] /\ t.windows = s.windows
      /\ t.job = s.job /\ t.phase = "running" /\ t.counts = s.counts
      /\ t = [jobs |-> t.jobs, job |-> t.job, windows |-> t.windows, phase |-> t.phase, counts |-> t.counts]
  <2>a. DOMAIN s = {"jobs", "job", "windows", "phase", "counts"}
    BY DEF WorkInv, WorkTyped, WorkRecord
  <2>b. DOMAIN t = DOMAIN s
    BY Zenon
  <2>c. t = [x \in DOMAIN t |-> t[x]]
    BY Zenon
  <2>1. DOMAIN s = {"jobs", "job", "windows", "phase", "counts"} /\ DOMAIN t = DOMAIN s
        /\ t = [x \in DOMAIN t |-> t[x]]
    BY <2>a, <2>b, <2>c
  <2>2. /\ t.windows = s.windows /\ t.job = s.job /\ t.phase = "running" /\ t.counts = s.counts
    BY <2>1
  <2>3. t.jobs = [s.jobs EXCEPT ![j] = r]
    <3>1. /\ DOMAIN t.jobs = DOMAIN s.jobs /\ t.jobs = [k \in DOMAIN s.jobs |-> t.jobs[k]]
          /\ \A k \in DOMAIN s.jobs : t.jobs[k] = IF k = j THEN r ELSE s.jobs[k]
      BY <1>1, <2>1 DEF JobRecord
    <3> HIDE DEF t, r
    <3> QED BY <3>1
  <2> HIDE DEF t, r
  <2> QED BY <2>1, <2>2, <2>3
<1>5. s.jobs \in Seq(JobRecord) /\ s.job \in Nat /\ s.windows \in SUBSET Nat
      /\ s.counts \in [Tallies -> Nat] /\ "running" \in Phases
  BY DEF WorkInv, WorkTyped, WorkRecord, Phases
<1> HIDE DEF t
<1>6. /\ t.jobs \in Seq(JobRecord) /\ Len(t.jobs) = Len(s.jobs) /\ DOMAIN t.jobs = 1 .. Len(s.jobs)
      /\ t.jobs[j] = r /\ \A k \in 1 .. Len(s.jobs) \ {j} : t.jobs[k] = s.jobs[k]
  <2> HIDE DEF r
  <2> QED BY <1>1, <1>3, <1>4, <1>5, ExceptSeq, LenProperties
<1> HIDE DEF r
<1>7. \A o : With(t, o) = With(s, o)
  BY <1>1, <1>2, <1>3, <1>6 DEF With
<1>8. WorkTyped(t)
  <2>1. t \in WorkRecord
    BY <1>4, <1>5, <1>6 DEF WorkRecord
  <2> QED BY <1>1, <1>4, <1>6, <2>1 DEF WorkInv, WorkTyped
<1>9. Totals(t)
  BY <1>4, <1>6, <1>7 DEF WorkInv, Totals
<1>10. Joinable(t)
  BY <1>1, <1>3, <1>4, <1>5, <1>6 DEF WorkInv, WorkTyped, Joinable
<1>11. \A k \in 1 .. Len(t.jobs) : JobOK(t, j, k)
  <2>1. s.job = j
    BY <1>2 DEF WorkInv, JobOK
  <2> QED BY <1>1, <1>3, <1>4, <1>6, <2>1 DEF WorkInv, JobOK
<1>12. j \in 0 .. Len(t.jobs)
  BY <1>1, <1>6
<1> QED BY <1>8, <1>9, <1>10, <1>11, <1>12 DEF WorkInv, t

\* A job waits somewhere else: for the candidate in flight, or for a boundary.
LEMMA WaitKeeps ==
    ASSUME NEW s, NEW f, NEW j \in 1 .. Len(s.jobs), WorkInv(s, f), j \notin s.windows,
           s.jobs[j].at \in {"queued", "joins", "boundary"}, NEW p \in {"joins", "boundary"}
    PROVE  WorkInv([s EXCEPT !.jobs[j].at = p], f)
<1> DEFINE t == [s EXCEPT !.jobs[j].at = p]
           r == [s.jobs[j] EXCEPT !.at = p]
<1>1. s.jobs[j] \in JobRecord /\ DOMAIN s.jobs = 1 .. Len(s.jobs) /\ Len(s.jobs) \in Nat
  BY JobRecordAt DEF WorkInv
<1>2. /\ s.jobs[j].candidates <= maxStaleRetries /\ s.jobs[j].outcome = "none" /\ ~s.jobs[j].reason
      /\ f # j
  BY <1>1 DEF WorkInv, JobOK, JobRecord
<1>3. /\ r \in JobRecord /\ r.at = p /\ r.outcome = "none" /\ ~r.reason
      /\ r.candidates = s.jobs[j].candidates
  BY <1>1, <1>2 DEF JobRecord, Places
<1>4. /\ t.jobs = [s.jobs EXCEPT ![j] = r] /\ t.windows = s.windows
      /\ t.job = s.job /\ t.phase = s.phase /\ t.counts = s.counts
      /\ t = [jobs |-> t.jobs, job |-> t.job, windows |-> t.windows, phase |-> t.phase, counts |-> t.counts]
  <2>1. DOMAIN s = {"jobs", "job", "windows", "phase", "counts"} /\ DOMAIN t = DOMAIN s
        /\ t = [x \in DOMAIN t |-> t[x]]
    BY DEF WorkInv, WorkTyped, WorkRecord
  <2>2. /\ t.jobs = [s.jobs EXCEPT ![j] = r] /\ t.windows = s.windows
        /\ t.job = s.job /\ t.phase = s.phase /\ t.counts = s.counts
    BY DEF WorkInv, WorkTyped, WorkRecord
  <2> HIDE DEF t, r
  <2> QED BY <2>1, <2>2
<1>5. s.jobs \in Seq(JobRecord) /\ s.job \in Nat /\ s.windows \in SUBSET Nat
      /\ s.counts \in [Tallies -> Nat] /\ s.phase \in Phases
  BY DEF WorkInv, WorkTyped, WorkRecord
<1> HIDE DEF t
<1>6. /\ t.jobs \in Seq(JobRecord) /\ Len(t.jobs) = Len(s.jobs) /\ DOMAIN t.jobs = 1 .. Len(s.jobs)
      /\ t.jobs[j] = r /\ \A k \in 1 .. Len(s.jobs) \ {j} : t.jobs[k] = s.jobs[k]
  <2> HIDE DEF r
  <2> QED BY <1>1, <1>3, <1>4, <1>5, ExceptSeq, LenProperties
<1> HIDE DEF r
<1>7. \A o : With(t, o) = With(s, o)
  BY <1>1, <1>2, <1>3, <1>6 DEF With
<1>8. WorkTyped(t)
  <2>1. t \in WorkRecord
    BY <1>4, <1>5, <1>6 DEF WorkRecord
  <2> QED BY <1>1, <1>4, <1>6, <2>1 DEF WorkInv, WorkTyped
<1>9. Totals(t)
  BY <1>4, <1>6, <1>7 DEF WorkInv, Totals
<1>10. Joinable(t)
  BY <1>1, <1>3, <1>4, <1>5, <1>6 DEF WorkInv, WorkTyped, Joinable
<1>11. \A k \in 1 .. Len(t.jobs) : JobOK(t, f, k)
  <2>1. s.job = j
    BY <1>2 DEF WorkInv, JobOK
  <2> QED BY <1>1, <1>2, <1>3, <1>4, <1>6, <2>1 DEF WorkInv, JobOK
<1>12. f \in 0 .. Len(t.jobs)
  BY <1>6 DEF WorkInv
<1> QED BY <1>8, <1>9, <1>10, <1>11, <1>12 DEF WorkInv, t

\* Taking a task from the adapter changes nothing else.
LEMMA WithdrawKeeps ==
    ASSUME NEW s, NEW f, NEW j, WorkInv(s, f)
    PROVE  WorkInv([s EXCEPT !.windows = @ \ {j}], f)
<1> DEFINE t == [s EXCEPT !.windows = @ \ {j}]
<1>1. /\ t.jobs = s.jobs /\ t.windows = s.windows \ {j}
      /\ t.job = s.job /\ t.phase = s.phase /\ t.counts = s.counts /\ t \in WorkRecord
  BY DEF WorkInv, WorkTyped, WorkRecord
<1> HIDE DEF t
<1>2. WorkTyped(t) /\ Totals(t) /\ Joinable(t)
  BY <1>1 DEF WorkInv, WorkTyped, Totals, With, Joinable
<1>3. \A k \in 1 .. Len(t.jobs) : JobOK(t, f, k)
  BY <1>1 DEF WorkInv, JobOK
<1> QED BY <1>1, <1>2, <1>3 DEF WorkInv, t

\* Summaries and what has been written do not change: no step but those of a
\* candidate touches them.
LEMMA SummariesStay ==
    ASSUME Summaries, UNCHANGED <<candidate, inFlight, revision, written, history>>
    PROVE  Summaries'
BY DEF Summaries

\* #run, on a state in which the job can run, or was settled.
LEMMA RunKeeps ==
    ASSUME NEW s, NEW j \in 1 .. Len(s.jobs), WorkInv(s, inFlight), Summaries, s.jobs = jobs,
           j \notin s.windows, s.jobs[j].at \in {"queued", "joins", "settled"},
           Compaction!run(j, s), UNCHANGED <<revision, written, history>>
    PROVE  CompactionInv'
<1>1. CASE Compaction!Settled(j)
  <2>1. Compaction!Becomes(s) /\ UNCHANGED <<inFlight, candidate>>
    BY <1>1 DEF Compaction!run
  <2> QED BY <2>1, BecomesKeeps, SummariesStay DEF CompactionInv
<1>2. CASE ~Compaction!Settled(j)
  <2>0. s.jobs[j].at \in {"queued", "joins"}
    BY <1>2 DEF Compaction!Settled, WorkInv, JobOK
  <2>1. CASE inFlight # 0
    <3>1. Compaction!Becomes([s EXCEPT !.jobs[j].at = "joins"]) /\ UNCHANGED <<inFlight, candidate>>
      BY <1>2, <2>1 DEF Compaction!run
    <3>2. WorkInv([s EXCEPT !.jobs[j].at = "joins"], inFlight')
      BY <2>0, <3>1, WaitKeeps
    <3> QED BY <3>1, <3>2, BecomesKeeps, SummariesStay DEF CompactionInv
  <2>2. CASE inFlight = 0 /\ ~boundary
    <3>1. Compaction!Becomes([s EXCEPT !.jobs[j].at = "boundary"]) /\ UNCHANGED <<inFlight, candidate>>
      BY <1>2, <2>2 DEF Compaction!run
    <3>2. WorkInv([s EXCEPT !.jobs[j].at = "boundary"], inFlight')
      BY <2>0, <3>1, WaitKeeps
    <3> QED BY <3>1, <3>2, BecomesKeeps, SummariesStay DEF CompactionInv
  <2>3. CASE inFlight = 0 /\ boundary
    <3>1. Compaction!starts(j, s)
      BY <1>2, <2>3 DEF Compaction!run
    <3>2. WorkInv([s EXCEPT !.jobs[j].at = "running", !.jobs[j].candidates = @ + 1,
                            !.phase = "running"], inFlight')
      BY <2>0, <2>3, <3>1, StartKeeps DEF Compaction!starts
    <3>3. WorkInv(Compaction!State, inFlight)'
      BY <3>1, <3>2, BecomesKeeps DEF Compaction!starts
    <3>4. Summaries'
      <4> DEFINE c == [stage |-> "summarizing", base |-> revision, covers |-> history, result |-> "none"]
      <4>1. candidate' = [candidate EXCEPT ![j] = c] /\ inFlight' = j
        BY <3>1 DEF Compaction!starts
      <4>2. j \in 1 .. MaxJobs
        BY JobRecordAt, CompactionConstants DEF WorkInv, WorkTyped
      <4>3. c \in Candidate /\ c.stage = "summarizing" /\ c.result = "none" /\ c.base = revision /\ c.covers = history
        BY DEF Candidate, Summaries
      <4> HIDE DEF c
      <4>4. \A k \in 1 .. MaxJobs : candidate'[k] = IF k = j THEN c ELSE candidate[k]
        BY <4>1, <4>2 DEF Summaries
      <4>5. \A k \in 1 .. MaxJobs : candidate[k].stage = "none"
        BY <2>3 DEF Summaries
      <4>6. candidate' \in [1 .. MaxJobs -> Candidate]
        BY <4>1, <4>2, <4>3 DEF Summaries
      <4>7. \A k \in 1 .. MaxJobs :
              /\ candidate'[k].stage # "none" <=> inFlight' = k
              /\ candidate'[k].stage = "summarizing" =>
                   /\ candidate'[k].result = "none" /\ candidate'[k].base <= revision'
                   /\ candidate'[k].base = revision' => candidate'[k].covers = history'
        BY <4>1, <4>3, <4>4, <4>5 DEF Summaries
      <4> QED BY <4>6, <4>7 DEF Summaries
    <3> QED BY <3>3, <3>4 DEF CompactionInv
  <2> QED BY <2>1, <2>2, <2>3
<1> QED BY <1>1, <1>2

\* A new job, which no one has counted or queued yet.
LEMMA AppendKeeps ==
    ASSUME NEW s, NEW f, WorkInv(s, f), s.job = 0, Len(s.jobs) < MaxJobs, NEW j, j = Len(s.jobs) + 1,
           NEW t, t = [s EXCEPT !.jobs = Append(@, [at |-> "queued", reason |-> FALSE,
                                                    candidates |-> 0, outcome |-> "none"]),
                                !.job = j, !.phase = "pending",
                                !.counts = Compaction!Add(@, "requested")]
    PROVE  AllBut(t, f, j) /\ t.job = j /\ ~t.jobs[j].reason /\ t.jobs[j].candidates <= maxStaleRetries
<1> DEFINE r == [at |-> "queued", reason |-> FALSE, candidates |-> 0, outcome |-> "none"]
<1>1. s.jobs \in Seq(JobRecord) /\ s.job \in Nat /\ s.windows \in SUBSET Nat
      /\ s.counts \in [Tallies -> Nat] /\ "pending" \in Phases /\ s.phase \in Phases
  BY DEF WorkInv, WorkTyped, WorkRecord, Phases
<1>2. Len(s.jobs) \in Nat /\ DOMAIN s.jobs = 1 .. Len(s.jobs) /\ MaxJobs \in Nat
  BY <1>1, LenProperties, CompactionConstants
<1>3. r \in JobRecord
  BY CompactionConstants DEF JobRecord, Places
<1>4. /\ t.jobs = Append(s.jobs, r) /\ t.windows = s.windows
      /\ t.job = j /\ t.phase = "pending" /\ t.counts = [s.counts EXCEPT !["requested"] = @ + 1]
  BY DEF WorkInv, WorkTyped, WorkRecord, Compaction!Add
<1>a. t = [jobs |-> t.jobs, job |-> t.job, windows |-> t.windows, phase |-> t.phase, counts |-> t.counts]
  <2>a. DOMAIN s = {"jobs", "job", "windows", "phase", "counts"}
    BY DEF WorkInv, WorkTyped, WorkRecord
  <2>b. DOMAIN t = DOMAIN s
    BY Zenon
  <2>c. t = [x \in DOMAIN t |-> t[x]]
    BY Zenon
  <2> QED BY <2>a, <2>b, <2>c
<1>5. /\ t.jobs \in Seq(JobRecord) /\ Len(t.jobs) = Len(s.jobs) + 1
      /\ t.jobs[j] = r /\ \A k \in 1 .. Len(s.jobs) : t.jobs[k] = s.jobs[k]
  <2> HIDE DEF r
  <2>1. /\ Append(s.jobs, r) \in Seq(JobRecord) /\ Len(Append(s.jobs, r)) = Len(s.jobs) + 1
        /\ Append(s.jobs, r)[Len(s.jobs) + 1] = r
        /\ \A k \in 1 .. Len(s.jobs) : Append(s.jobs, r)[k] = s.jobs[k]
    BY <1>1, <1>3, AppendProperties
  <2>2. t.jobs = Append(s.jobs, r)
    BY <1>4
  <2> HIDE <1>4
  <2> QED BY <2>1, <2>2
<1>6. DOMAIN t.jobs = 1 .. j
  BY <1>2, <1>5, LenProperties
<1>7. \A o : o # "none" => With(t, o) = With(s, o)
  BY <1>2, <1>5, <1>6 DEF With
<1>8. /\ t.counts \in [Tallies -> Nat] /\ t.counts["requested"] = s.counts["requested"] + 1
      /\ \A x \in Tallies \ {"requested"} : t.counts[x] = s.counts[x]
  BY <1>1, <1>4 DEF Tallies
<1>9. WorkTyped(t)
  <2>1. t \in WorkRecord
    <3>1. t.job \in Nat /\ t.windows \in SUBSET Nat /\ t.phase \in Phases
      BY <1>1, <1>2, <1>4
    <3> QED BY <1>5, <1>8, <1>a, <3>1 DEF WorkRecord
  <2>2. s.windows \subseteq 1 .. Len(s.jobs)
    BY DEF WorkInv, WorkTyped
  <2> QED BY <1>2, <1>4, <1>5, <2>1, <2>2 DEF WorkTyped
<1>10. Totals(t)
  <2>1. \A x \in Ends \cup {"rescheduled"} : x \in Tallies \ {"requested"} /\ x # "none"
    BY DEF Ends, Tallies, Compaction!Outcomes
  <2>2. "discarded" \in Ends
    BY DEF Ends, Compaction!Outcomes
  <2> QED BY <1>5, <1>7, <1>8, <2>1, <2>2 DEF WorkInv, Totals
<1>11. Joinable(t)
  BY <1>4, <1>5 DEF Joinable
<1>12. \A k \in 1 .. Len(t.jobs) \ {j} : JobOK(t, f, k)
  <2> TAKE k \in 1 .. Len(t.jobs) \ {j}
  <2>1. k \in 1 .. Len(s.jobs) /\ k # 0
    BY <1>2, <1>5
  <2>2. JobOK(s, f, k) /\ t.jobs[k] = s.jobs[k]
    BY <1>5, <2>1 DEF WorkInv
  <2> QED BY <1>4, <2>1, <2>2 DEF JobOK
<1>13. f \in 0 .. Len(t.jobs) /\ f # j /\ j \in 1 .. Len(t.jobs)
  BY <1>2, <1>5 DEF WorkInv
<1>14. t.job = j /\ ~t.jobs[j].reason /\ t.jobs[j].candidates <= maxStaleRetries /\ t.jobs[j].outcome = "none"
  BY <1>4, <1>5, CompactionConstants
<1> QED BY <1>9, <1>10, <1>11, <1>12, <1>13, <1>14 DEF AllBut

\* One candidate more that was discarded, and whether its job is queued again.
Discards(s) ==
    {[s.counts EXCEPT !["discarded"] = @ + 1],
     [[s.counts EXCEPT !["discarded"] = @ + 1] EXCEPT !["rescheduled"] = @ + 1]}

\* Counting candidates that were discarded is no harm.
LEMMA CountKeeps ==
    ASSUME NEW s, NEW f, NEW j, AllBut(s, f, j), NEW p \in Phases, NEW c \in Discards(s),
           NEW t, t = [s EXCEPT !.counts = c, !.phase = p]
    PROVE  AllBut(t, f, j) /\ t.jobs = s.jobs /\ t.job = s.job
<1>1. s.jobs \in Seq(JobRecord) /\ s.job \in Nat /\ s.windows \in SUBSET Nat
      /\ s.counts \in [Tallies -> Nat] /\ {"discarded", "rescheduled"} \subseteq Tallies
  BY DEF AllBut, WorkTyped, WorkRecord, Tallies, Ends, Compaction!Outcomes
<1>2. /\ t.jobs = s.jobs /\ t.windows = s.windows /\ t.job = s.job /\ t.phase = p /\ t.counts = c
      /\ DOMAIN t = DOMAIN s /\ t = [x \in DOMAIN t |-> t[x]]
  BY DEF AllBut, WorkTyped, WorkRecord
<1>3. c \in [Tallies -> Nat]
  BY <1>1 DEF Discards
<1>4. /\ c["rescheduled"] \in {s.counts["rescheduled"], s.counts["rescheduled"] + 1}
      /\ c["discarded"] = s.counts["discarded"] + 1
      /\ \A x \in Tallies \ {"discarded", "rescheduled"} : c[x] = s.counts[x]
  BY <1>1 DEF Discards
<1>5. t \in WorkRecord
  <2>1. DOMAIN t = {"jobs", "job", "windows", "phase", "counts"}
    BY <1>2 DEF AllBut, WorkTyped, WorkRecord
  <2>2. t = [jobs |-> t.jobs, job |-> t.job, windows |-> t.windows, phase |-> t.phase, counts |-> t.counts]
    BY <1>2, <2>1
  <2> QED BY <1>1, <1>2, <1>3, <2>2 DEF WorkRecord
<1>6. WorkTyped(t) /\ Joinable(t)
  BY <1>2, <1>5 DEF AllBut, WorkTyped, Joinable
<1>7. Totals(t)
  <2>1. \A x \in Ends \ {"discarded"} : x \in Tallies \ {"discarded", "rescheduled"}
    BY DEF Ends, Tallies, Compaction!Outcomes
  <2>2. "requested" \in Tallies \ {"discarded", "rescheduled"}
    BY DEF Tallies
  <2>3. \A o : With(t, o) = With(s, o)
    BY <1>2 DEF With
  <2>4. Cardinality(With(s, "discarded")) \in Nat /\ s.counts["discarded"] \in Nat /\ s.counts["rescheduled"] \in Nat
    BY <1>1, WithFinite
  <2>5. c["discarded"] >= Cardinality(With(s, "discarded")) + c["rescheduled"]
    <3>1. s.counts["discarded"] >= Cardinality(With(s, "discarded")) + s.counts["rescheduled"]
      BY DEF AllBut, Totals
    <3>2. c["rescheduled"] = s.counts["rescheduled"] \/ c["rescheduled"] = s.counts["rescheduled"] + 1
      BY <1>4
    <3>3. c["discarded"] = s.counts["discarded"] + 1
      BY <1>4
    <3> QED BY <2>4, <3>1, <3>2, <3>3
  <2>6. \A x \in Ends \ {"discarded"} : t.counts[x] = Cardinality(With(t, x))
    BY <1>2, <1>4, <2>1, <2>3 DEF AllBut, Totals
  <2>7. t.counts["requested"] = Len(t.jobs)
    BY <1>2, <1>4, <2>2 DEF AllBut, Totals
  <2> QED BY <1>2, <2>3, <2>5, <2>6, <2>7 DEF Totals
<1>8. \A k \in 1 .. Len(t.jobs) \ {j} : JobOK(t, f, k)
  BY <1>2 DEF AllBut, JobOK
<1> QED BY <1>2, <1>6, <1>7, <1>8 DEF AllBut

\* cancelJob: a running candidate is told, other work is over.
LEMMA CancelKeeps ==
    ASSUME CompactionInv, job # 0, NEW t \in Compaction!cancelJob(Compaction!State, job)
    PROVE  WorkInv(t, inFlight)
<1> DEFINE s == Compaction!State
           told == [s EXCEPT !.jobs[job].reason = TRUE, !.job = 0]
           r == [jobs[job] EXCEPT !.reason = TRUE]
<1>1. /\ s.jobs = jobs /\ s.job = job /\ s.windows = windows /\ s.phase = phase /\ s.counts = counts
      /\ WorkInv(s, inFlight)
  BY StateFields DEF CompactionInv
<1> HIDE DEF s
<1>2. /\ jobs \in Seq(JobRecord) /\ windows \in SUBSET Nat /\ counts \in [Tallies -> Nat] /\ phase \in Phases
      /\ job \in 1 .. Len(jobs)
  BY <1>1 DEF WorkInv, WorkTyped, WorkRecord
<1>3. jobs[job] \in JobRecord /\ DOMAIN jobs = 1 .. Len(jobs) /\ Len(jobs) \in Nat
  BY <1>2, LenProperties, ElementOfSeq
<1>4. job = Len(jobs) /\ jobs[job].outcome = "none" /\ ~jobs[job].reason
  BY <1>1 DEF WorkInv, Joinable
<1>5. /\ r \in JobRecord /\ r.at = jobs[job].at /\ r.outcome = "none" /\ r.reason
      /\ r.candidates = jobs[job].candidates
  BY <1>3, <1>4 DEF JobRecord
<1>6. /\ told.jobs = [jobs EXCEPT ![job] = r] /\ told.windows = windows /\ told.job = 0
      /\ told.phase = phase /\ told.counts = counts
      /\ DOMAIN told = DOMAIN s /\ told = [x \in DOMAIN told |-> told[x]]
  BY <1>1 DEF WorkInv, WorkTyped, WorkRecord
<1>7. told = [jobs |-> told.jobs, job |-> told.job, windows |-> told.windows, phase |-> told.phase,
              counts |-> told.counts]
  <2>1. DOMAIN s = {"jobs", "job", "windows", "phase", "counts"}
    BY <1>1 DEF WorkInv, WorkTyped, WorkRecord
  <2> HIDE DEF told
  <2> QED BY <1>6, <2>1
<1>t. t = told \/ t = Compaction!settle(told, job, "cancelled")
      \/ t = [Compaction!settle(told, job, "cancelled") EXCEPT !.windows = @ \ {job}]
  BY DEF Compaction!cancelJob, s
<1>r. t = told => jobs[job].at = "running" \/ t = Compaction!settle(told, job, "cancelled")
      \/ t = [Compaction!settle(told, job, "cancelled") EXCEPT !.windows = @ \ {job}]
  BY DEF Compaction!cancelJob, s
<1>n. jobs[job].at = "running" => t = told
  BY DEF Compaction!cancelJob, s
<1> HIDE DEF told, r
<1>8. /\ told.jobs \in Seq(JobRecord) /\ Len(told.jobs) = Len(jobs) /\ DOMAIN told.jobs = 1 .. Len(jobs)
      /\ told.jobs[job] = r /\ \A k \in 1 .. Len(jobs) \ {job} : told.jobs[k] = jobs[k]
  BY <1>2, <1>3, <1>5, <1>6, ExceptSeq, LenProperties
<1>9. \A o : With(told, o) = With(s, o)
  <2>1. \A k \in 1 .. Len(jobs) : told.jobs[k].outcome = s.jobs[k].outcome
    BY <1>1, <1>4, <1>5, <1>8
  <2>2. DOMAIN told.jobs = 1 .. Len(jobs) /\ DOMAIN s.jobs = 1 .. Len(jobs)
    BY <1>1, <1>3, <1>8
  <2> QED BY <2>1, <2>2 DEF With
<1>10. WorkTyped(told) /\ Joinable(told)
  <2>1. told \in WorkRecord
    BY <1>2, <1>6, <1>7, <1>8 DEF WorkRecord
  <2> QED BY <1>1, <1>3, <1>6, <1>8, <2>1 DEF WorkInv, WorkTyped, Joinable
<1>11. Totals(told)
  BY <1>1, <1>6, <1>8, <1>9 DEF WorkInv, Totals
<1>12. \A k \in 1 .. Len(jobs) \ {job} : JobOK(told, inFlight, k)
  <2> TAKE k \in 1 .. Len(jobs) \ {job}
  <2>1. JobOK(s, inFlight, k) /\ told.jobs[k] = s.jobs[k] /\ s.job # k
    BY <1>1, <1>8 DEF WorkInv
  <2> QED BY <1>1, <1>6, <2>1 DEF JobOK
<1>13. inFlight \in 0 .. Len(jobs)
  BY <1>1 DEF WorkInv
<1>14. JobOK(s, inFlight, job)
  BY <1>1, <1>2 DEF WorkInv
<1>15. CASE jobs[job].at = "running"
  <2>1. JobOK(told, inFlight, job)
    BY <1>1, <1>4, <1>5, <1>6, <1>8, <1>14, <1>15 DEF JobOK
  <2> QED BY <1>8, <1>10, <1>11, <1>12, <1>13, <1>15, <1>n, <2>1 DEF WorkInv
<1>16. CASE jobs[job].at # "running"
  <2>1. AllBut(told, inFlight, job)
    BY <1>1, <1>2, <1>5, <1>8, <1>10, <1>11, <1>12, <1>13, <1>14, <1>16 DEF AllBut, JobOK
  <2>2. WorkInv(Compaction!settle(told, job, "cancelled"), inFlight)
    BY <2>1, SettleKeeps DEF Ends, Compaction!Outcomes
  <2>3. WorkInv([Compaction!settle(told, job, "cancelled") EXCEPT !.windows = @ \ {job}], inFlight)
    BY <2>2, WithdrawKeeps
  <2> QED BY <1>16, <1>t, <1>r, <2>2, <2>3
<1> QED BY <1>15, <1>16

\* No job, no candidate, nothing written.
LEMMA CompactionInit == Compaction!Init => CompactionInv
<1> SUFFICES ASSUME Compaction!Init PROVE CompactionInv
  OBVIOUS
<1> DEFINE s == Compaction!State
<1>1. /\ s.jobs = <<>> /\ s.job = 0 /\ s.windows = {} /\ s.phase = "idle" /\ inFlight = 0
      /\ s.counts = [o \in Compaction!Outcomes \cup {"requested", "rescheduled"} |-> 0]
      /\ s = [jobs |-> s.jobs, job |-> s.job, windows |-> s.windows, phase |-> s.phase, counts |-> s.counts]
  BY DEF Compaction!Init, Compaction!State
<1> HIDE DEF s
<1>2. <<>> \in Seq(JobRecord) /\ Len(<<>>) = 0 /\ 1 .. 0 = {}
  BY EmptySeq
<1>3. s.counts \in [Tallies -> Nat] /\ \A x \in Tallies : s.counts[x] = 0
  BY <1>1 DEF Tallies, Ends
<1>4. WorkTyped(s)
  <2>1. s \in WorkRecord
    BY <1>1, <1>2, <1>3 DEF WorkRecord, Phases
  <2> QED BY <1>1, <1>2, <2>1, CompactionConstants DEF WorkTyped
<1>5. Totals(s)
  <2>1. \A o : With(s, o) = {}
    BY <1>1 DEF With
  <2>2. Ends \subseteq Tallies /\ {"requested", "rescheduled", "discarded"} \subseteq Tallies
    BY DEF Tallies, Ends, Compaction!Outcomes
  <2>3. \A o : Cardinality(With(s, o)) = 0
    BY <2>1, FS_EmptySet
  <2>4. \A x \in Ends : s.counts[x] = 0
    BY <1>3, <2>2
  <2>5. s.counts["requested"] = 0 /\ s.counts["rescheduled"] = 0 /\ s.counts["discarded"] = 0
    BY <1>3, <2>2
  <2> QED BY <1>1, <1>2, <2>3, <2>4, <2>5 DEF Totals
<1>6. WorkInv(s, inFlight)
  BY <1>1, <1>2, <1>4, <1>5 DEF WorkInv, Joinable
<1>7. Summaries
  <2>1. Compaction!NoCandidate \in Candidate /\ Compaction!NoCandidate.stage = "none"
    BY DEF Compaction!NoCandidate, Candidate
  <2>2. candidate = [j \in 1 .. MaxJobs |-> Compaction!NoCandidate] /\ inFlight = 0
        /\ revision = 0 /\ written = 0 /\ history = 0
    BY DEF Compaction!Init
  <2> QED BY <2>1, <2>2 DEF Summaries
<1> QED BY <1>6, <1>7 DEF CompactionInv, s

\* compact() comes back: what it publishes has not been overtaken.
LEMMA OwnedKeeps ==
    ASSUME CompactionInv, NEW j \in 1 .. MaxJobs, Compaction!compactOwned(j) PROVE CompactionInv'
<1>1. UNCHANGED <<jobs, job, windows, inFlight, phase, counts, written>> /\ candidate[j].stage = "summarizing"
  BY DEF Compaction!compactOwned
<1>2. WorkInv(Compaction!State, inFlight)'
  <2>1. Compaction!Becomes(Compaction!State)
    BY <1>1, StateFields DEF Compaction!Becomes
  <2>2. WorkInv(Compaction!State, inFlight')
    BY <1>1 DEF CompactionInv
  <2> QED BY <2>1, <2>2, BecomesKeeps
<1>. Summaries
  BY DEF CompactionInv
<1>3. candidate \in [1 .. MaxJobs -> Candidate] /\ candidate[j] \in Candidate
  BY DEF Summaries
<1>4. PICK x \in {"error", "no-op", "discarded", "committed"} :
         candidate' = [candidate EXCEPT ![j] = [@ EXCEPT !.stage = "returned", !.result = x]]
  BY DEF Compaction!compactOwned, Compaction!Returned
<1>5. \/ UNCHANGED <<revision, history>>
      \/ revision' = revision + 1 /\ history' = candidate[j].covers /\ revision = candidate[j].base
  BY DEF Compaction!compactOwned, Compaction!commitAtRevision
<1>6. history' = history /\ revision' \in {revision, revision + 1}
  BY <1>1, <1>5 DEF Summaries
<1> DEFINE c == [candidate[j] EXCEPT !.stage = "returned", !.result = x]
<1>7. c \in Candidate /\ c.stage = "returned"
  BY <1>3 DEF Candidate
<1> HIDE DEF c
<1>8. \A k \in 1 .. MaxJobs : candidate'[k] = IF k = j THEN c ELSE candidate[k]
  BY <1>3, <1>4 DEF c
<1>9. candidate' \in [1 .. MaxJobs -> Candidate]
  BY <1>3, <1>4, <1>7 DEF c
<1>10. inFlight' = inFlight /\ inFlight = j
  BY <1>1 DEF Summaries
<1>11. \A k \in 1 .. MaxJobs : candidate'[k].stage # "none" <=> inFlight' = k
  BY <1>7, <1>8, <1>10 DEF Summaries
<1>12. \A k \in 1 .. MaxJobs : candidate'[k].stage # "summarizing"
  BY <1>7, <1>8, <1>10 DEF Summaries
<1>13. Summaries'
  BY <1>1, <1>6, <1>9, <1>11, <1>12 DEF Summaries
<1> QED BY <1>2, <1>13 DEF CompactionInv

\* The result of a candidate is put to its job, which is settled or goes stale.
LEMMA AttemptKeeps ==
    ASSUME CompactionInv, NEW j \in 1 .. MaxJobs, Compaction!attempt(j) PROVE CompactionInv'
<1> DEFINE s == Compaction!State
<1>1. /\ s.jobs = jobs /\ s.job = job /\ s.windows = windows /\ s.phase = phase /\ s.counts = counts
      /\ WorkInv(s, inFlight) /\ Summaries
  BY StateFields DEF CompactionInv
<1>2. /\ candidate[j].stage = "returned" /\ inFlight' = 0
      /\ candidate' = [candidate EXCEPT ![j] = Compaction!NoCandidate]
      /\ UNCHANGED <<revision, written, history>>
  BY DEF Compaction!attempt, Compaction!conversationVars
<1>3. inFlight = j /\ j \in 1 .. Len(jobs)
  BY <1>1, <1>2 DEF Summaries, WorkInv
<1>4. JobOK(s, j, j) /\ jobs[j].at = "running" /\ jobs[j].outcome = "none"
  BY <1>1, <1>3 DEF WorkInv, JobOK
<1>5. AllBut(s, 0, j)
  <2>1. \A k \in 1 .. Len(jobs) \ {j} : JobOK(s, 0, k)
    <3> TAKE k \in 1 .. Len(jobs) \ {j}
    <3>1. JobOK(s, j, k) /\ k # 0 /\ k # j
      BY <1>1, <1>3 DEF WorkInv
    <3> HIDE DEF s
    <3> QED BY <3>1 DEF JobOK
  <2>2. 0 \in 0 .. Len(jobs) /\ j # 0
    BY <1>3
  <2> HIDE DEF s
  <2> QED BY <1>1, <1>3, <1>4, <2>1, <2>2 DEF WorkInv, AllBut
<1>6. ~jobs[j].reason => job = j
  BY <1>1, <1>4 DEF JobOK
<1>7. Summaries'
  <2>1. Compaction!NoCandidate \in Candidate /\ Compaction!NoCandidate.stage = "none"
    BY DEF Compaction!NoCandidate, Candidate
  <2>2. \A k \in 1 .. MaxJobs : candidate'[k] = IF k = j THEN Compaction!NoCandidate ELSE candidate[k]
    BY <1>1, <1>2 DEF Summaries
  <2>3. \A k \in 1 .. MaxJobs : candidate'[k].stage = "none"
    BY <1>1, <1>3, <2>1, <2>2 DEF Summaries
  <2>4. candidate' \in [1 .. MaxJobs -> Candidate]
    BY <1>1, <1>2, <2>1 DEF Summaries
  <2> QED BY <1>1, <1>2, <2>3, <2>4 DEF Summaries
<1>8. \E t : Compaction!Becomes(t) /\ WorkInv(t, 0)
  <2> DEFINE result == candidate[j].result
             d == [s EXCEPT !.counts = [s.counts EXCEPT !["discarded"] = @ + 1], !.phase = s.phase]
             again == [s EXCEPT !.counts = [[s.counts EXCEPT !["discarded"] = @ + 1]
                                               EXCEPT !["rescheduled"] = @ + 1], !.phase = "pending"]
  <2>0. s.phase \in Phases /\ "pending" \in Phases
    BY <1>1 DEF WorkInv, WorkTyped, WorkRecord, Phases
  <2>a. AllBut(d, 0, j)
    <3>1. [s.counts EXCEPT !["discarded"] = @ + 1] \in Discards(s)
      BY DEF Discards
    <3> QED BY <1>5, <2>0, <3>1, CountKeeps
  <2>b. AllBut(again, 0, j) /\ again.jobs = s.jobs /\ again.job = s.job
    <3> DEFINE c == [[s.counts EXCEPT !["discarded"] = @ + 1] EXCEPT !["rescheduled"] = @ + 1]
    <3>1. again = [s EXCEPT !.counts = c, !.phase = "pending"]
      OBVIOUS
    <3>2. c \in Discards(s)
      BY DEF Discards
    <3> HIDE DEF c, again, s
    <3>3. ASSUME NEW x \in Discards(s)
          PROVE  AllBut([s EXCEPT !.counts = x, !.phase = "pending"], 0, j)
      BY <1>5, <2>0, CountKeeps
    <3>4. AllBut(again, 0, j)
      BY <3>1, <3>2, <3>3
    <3>5. again.jobs = s.jobs /\ again.job = s.job
      <4>1. s \in WorkRecord
        BY <1>5 DEF AllBut, WorkTyped
      <4> QED BY <3>1, <4>1 DEF WorkRecord
    <3> QED BY <3>4, <3>5
  <2>c. [s EXCEPT !.counts = Compaction!Add(counts, "discarded")] = d
    BY <1>1 DEF Compaction!Add, Compaction!State
  <2>d. [s EXCEPT !.phase = "pending", !.counts = Compaction!Add(Compaction!Add(counts, "discarded"), "rescheduled")]
          = again
    BY <1>1 DEF Compaction!Add, Compaction!State
  <2> HIDE DEF d, again
  <2>1. CASE result \in {"committed", "no-op"} /\ Compaction!Becomes(Compaction!settle(s, j, result))
    BY <1>5, <2>1, SettleKeeps DEF Ends, Compaction!Outcomes
  <2>2. CASE \E o \in {"cancelled", "failed"} : Compaction!Becomes(Compaction!settle(s, j, o))
    BY <1>5, <2>2, SettleKeeps DEF Ends, Compaction!Outcomes
  <2>3. CASE Compaction!Becomes(Compaction!settle(d, j, "cancelled"))
    BY <2>a, <2>3, SettleKeeps DEF Ends, Compaction!Outcomes
  <2>4. CASE Compaction!Becomes(Compaction!settle(s, j, "discarded"))
    BY <1>5, <2>4, SettleKeeps DEF Ends, Compaction!Outcomes
  <2>5. CASE /\ ~jobs[j].reason /\ jobs[j].candidates <= maxStaleRetries
             /\ \E t \in Compaction!queue(again, j) : Compaction!Becomes(t)
    <3>1. again.job = j /\ ~again.jobs[j].reason /\ again.jobs[j].candidates <= maxStaleRetries
      BY <1>1, <1>6, <2>5, <2>b
    <3> QED BY <2>5, <2>b, <3>1, QueueKeeps
  <2>6. \/ result \in {"committed", "no-op"} /\ Compaction!Becomes(Compaction!settle(s, j, result))
        \/ \E o \in {"cancelled", "failed"} : Compaction!Becomes(Compaction!settle(s, j, o))
        \/ Compaction!Becomes(Compaction!settle([s EXCEPT !.counts = Compaction!Add(counts, "discarded")], j, "cancelled"))
        \/ Compaction!Becomes(Compaction!settle(s, j, "discarded"))
        \/ /\ ~jobs[j].reason /\ jobs[j].candidates <= maxStaleRetries
           /\ \E t \in Compaction!queue([s EXCEPT !.phase = "pending",
                 !.counts = Compaction!Add(Compaction!Add(counts, "discarded"), "rescheduled")], j) :
                Compaction!Becomes(t)
    <3> HIDE DEF s
    <3> QED BY DEF Compaction!attempt, s
  <2> HIDE DEF s, result
  <2> QED BY <2>1, <2>2, <2>3, <2>4, <2>5, <2>6, <2>c, <2>d
<1> QED BY <1>2, <1>7, <1>8, BecomesKeeps DEF CompactionInv

\* Every step of the scheduler and of the conversation keeps the books.
LEMMA CompactionStep == CompactionInv /\ [Compaction!Next]_(Compaction!vars) => CompactionInv'
<1> SUFFICES ASSUME CompactionInv, [Compaction!Next]_(Compaction!vars) PROVE CompactionInv'
  OBVIOUS
<1> DEFINE s == Compaction!State
<1>0. /\ s.jobs = jobs /\ s.job = job /\ s.windows = windows /\ s.phase = phase /\ s.counts = counts
      /\ WorkInv(s, inFlight) /\ Summaries
  BY StateFields DEF CompactionInv
<1> HIDE DEF s
<1>z. /\ jobs \in Seq(JobRecord) /\ windows \subseteq 1 .. Len(jobs) /\ Len(jobs) \in Nat
      /\ DOMAIN jobs = 1 .. Len(jobs)
  BY <1>0, LenProperties DEF WorkInv, WorkTyped, WorkRecord
<1>1. CASE Compaction!startJob
  <2>1. PICK t \in Compaction!queue([s EXCEPT
                   !.jobs = Append(@, [at |-> "queued", reason |-> FALSE, candidates |-> 0,
                                       outcome |-> "none"]),
                   !.job = Len(jobs) + 1, !.phase = "pending",
                   !.counts = Compaction!Add(@, "requested")], Len(jobs) + 1) : Compaction!Becomes(t)
    BY <1>1 DEF Compaction!startJob, s
  <2>2. job = 0 /\ Len(jobs) < MaxJobs /\ UNCHANGED <<inFlight, candidate, revision, written, history>>
    BY <1>1 DEF Compaction!startJob, Compaction!conversationVars
  <2> DEFINE n == [s EXCEPT
                   !.jobs = Append(@, [at |-> "queued", reason |-> FALSE, candidates |-> 0,
                                       outcome |-> "none"]),
                   !.job = Len(jobs) + 1, !.phase = "pending",
                   !.counts = Compaction!Add(@, "requested")]
  <2>a. /\ AllBut(n, inFlight, Len(jobs) + 1) /\ n.job = Len(jobs) + 1
        /\ ~n.jobs[Len(jobs) + 1].reason /\ n.jobs[Len(jobs) + 1].candidates <= maxStaleRetries
    <3>1. Len(jobs) + 1 = Len(s.jobs) + 1 /\ s.job = 0 /\ Len(s.jobs) < MaxJobs /\ WorkInv(s, inFlight)
      BY <1>0, <2>2
    <3>2. \A k, r : k = Len(s.jobs) + 1 /\ r = [s EXCEPT
                   !.jobs = Append(@, [at |-> "queued", reason |-> FALSE, candidates |-> 0,
                                       outcome |-> "none"]),
                   !.job = k, !.phase = "pending",
                   !.counts = Compaction!Add(@, "requested")] =>
            AllBut(r, inFlight, k) /\ r.job = k /\ ~r.jobs[k].reason /\ r.jobs[k].candidates <= maxStaleRetries
      BY <3>1, AppendKeeps, Zenon
    <3> QED BY <3>1, <3>2, Zenon
  <2>b. t \in Compaction!queue(n, Len(jobs) + 1)
    BY <2>1
  <2> HIDE DEF n
  <2>3. WorkInv(t, inFlight')
    BY <2>2, <2>a, <2>b, QueueKeeps
  <2> QED BY <1>0, <2>1, <2>2, <2>3, BecomesKeeps, SummariesStay DEF CompactionInv
<1>2. CASE Compaction!cancel
  <2>1. PICK t \in Compaction!cancelJob(s, job) : Compaction!Becomes(t)
    BY <1>2 DEF Compaction!cancel, s
  <2>2. job # 0 /\ UNCHANGED <<inFlight, candidate, revision, written, history>>
    BY <1>2 DEF Compaction!cancel, Compaction!conversationVars
  <2>3. WorkInv(t, inFlight')
    BY <2>1, <2>2, CancelKeeps DEF s
  <2> QED BY <1>0, <2>1, <2>2, <2>3, BecomesKeeps, SummariesStay DEF CompactionInv
<1>3. ASSUME Compaction!Disposes, UNCHANGED <<revision, written, history>> PROVE CompactionInv'
  <2>1. UNCHANGED <<inFlight, candidate>>
    BY <1>3 DEF Compaction!Disposes
  <2>2. CASE job = 0
    <3>1. Compaction!Becomes(s)
      BY <1>3, <2>2 DEF Compaction!Disposes, s
    <3> QED BY <1>0, <1>3, <2>1, <3>1, BecomesKeeps, SummariesStay DEF CompactionInv
  <2>3. CASE job # 0
    <3>1. PICK t \in Compaction!cancelJob(s, job) : Compaction!Becomes(t)
      BY <1>3, <2>3 DEF Compaction!Disposes, s
    <3>2. WorkInv(t, inFlight')
      BY <2>1, <2>3, <3>1, CancelKeeps DEF s
    <3> QED BY <1>0, <1>3, <2>1, <3>1, <3>2, BecomesKeeps, SummariesStay DEF CompactionInv
  <2> QED BY <2>2, <2>3
<1>u. ASSUME UNCHANGED Compaction!schedulerVars, UNCHANGED <<revision, written, history>> PROVE CompactionInv'
  <2>1. Compaction!Becomes(s) /\ UNCHANGED <<inFlight, candidate>>
    BY <1>0, <1>u DEF Compaction!schedulerVars, Compaction!Becomes
  <2> QED BY <1>0, <1>u, <2>1, BecomesKeeps, SummariesStay DEF CompactionInv
<1>4. CASE Compaction!dispose \/ Compaction!closeConversation
  <2>1. UNCHANGED <<revision, written, history>> /\ (Compaction!Disposes \/ UNCHANGED Compaction!schedulerVars)
    BY <1>4 DEF Compaction!dispose, Compaction!closeConversation, Compaction!conversationVars
  <2> QED BY <1>3, <1>u, <2>1
<1>5. ASSUME NEW j \in 1 .. MaxJobs, Compaction!WindowOpens(j) PROVE CompactionInv'
  <2> DEFINE w == [s EXCEPT !.windows = @ \ {j}]
  <2>1. /\ j \in windows /\ Compaction!run(j, w) /\ UNCHANGED <<revision, written, history>>
    BY <1>5 DEF Compaction!WindowOpens, Compaction!conversationVars, s
  <2>2. WorkInv(w, inFlight)
    BY <1>0, WithdrawKeeps
  <2>3. w.jobs = jobs /\ w.windows = windows \ {j}
    BY <1>0 DEF WorkInv, WorkTyped, WorkRecord
  <2>4. j \in 1 .. Len(jobs) /\ jobs[j].at \in {"queued", "settled"}
    BY <1>0, <1>z, <2>1 DEF WorkInv, JobOK
  <2> HIDE DEF w
  <2> QED BY <1>0, <2>1, <2>2, <2>3, <2>4, RunKeeps
<1>6. ASSUME NEW j \in 1 .. MaxJobs, Compaction!JoinedRuns(j) PROVE CompactionInv'
  <2>1. /\ j \in 1 .. Len(jobs) /\ jobs[j].at = "joins" /\ Compaction!run(j, s)
        /\ UNCHANGED <<revision, written, history>>
    BY <1>6, <1>z DEF Compaction!JoinedRuns, Compaction!conversationVars, s
  <2>2. j \notin windows
    BY <1>0, <2>1 DEF WorkInv, JobOK
  <2> QED BY <1>0, <2>1, <2>2, RunKeeps
<1>7. ASSUME NEW j \in 1 .. MaxJobs, Compaction!compactOwned(j) \/ Compaction!attempt(j) PROVE CompactionInv'
  BY <1>7, OwnedKeeps, AttemptKeeps
<1>8. ASSUME NEW b \in BOOLEAN, Compaction!commit(b) PROVE CompactionInv'
  <2>1. /\ revision' = revision + 1 /\ written' = written + 1 /\ history' = history + 1
        /\ UNCHANGED <<inFlight, candidate>>
    BY <1>8 DEF Compaction!commit
  <2>2. Summaries'
    <3>1. \A k \in 1 .. MaxJobs : candidate[k] \in Candidate
      BY <1>0 DEF Summaries
    <3>2. revision \in Nat /\ written \in Nat /\ history = written
      BY <1>0 DEF Summaries
    <3>3. \A k \in 1 .. MaxJobs : candidate[k].stage = "summarizing" =>
             candidate[k].base <= revision' /\ candidate[k].base # revision'
      BY <1>0, <2>1, <3>1, <3>2 DEF Summaries, Candidate
    <3>4. {revision', written'} \subseteq Nat /\ history' = written'
      BY <2>1, <3>2
    <3> QED BY <1>0, <2>1, <3>3, <3>4 DEF Summaries
  <2>3. CASE Compaction!Becomes(s)
    BY <1>0, <2>1, <2>2, <2>3, BecomesKeeps DEF CompactionInv
  <2>4. ASSUME NEW j \in DOMAIN jobs, jobs[j].at = "boundary", NEW t \in Compaction!queue(s, j),
               Compaction!Becomes(t) PROVE CompactionInv'
    <3>1. j \in 1 .. Len(jobs) /\ JobOK(s, inFlight, j)
      BY <1>0, <1>z DEF WorkInv
    <3>2. /\ jobs[j].outcome = "none" /\ ~jobs[j].reason /\ job = j
          /\ jobs[j].candidates <= maxStaleRetries /\ inFlight # j
      <4>1. jobs[j] \in JobRecord
        BY <1>z, <3>1, ElementOfSeq
      <4> QED BY <1>0, <2>4, <3>1, <4>1 DEF JobOK, JobRecord
    <3>3. AllBut(s, inFlight, j)
      BY <1>0, <3>1, <3>2 DEF WorkInv, AllBut
    <3>4. WorkInv(t, inFlight')
      BY <1>0, <2>1, <2>4, <3>2, <3>3, QueueKeeps
    <3> QED BY <2>2, <2>4, <3>4, BecomesKeeps DEF CompactionInv
  <2>5. \/ Compaction!Becomes(s)
        \/ \E j \in DOMAIN jobs : jobs[j].at = "boundary" /\ \E t \in Compaction!queue(s, j) : Compaction!Becomes(t)
    BY <1>8 DEF Compaction!commit, s
  <2> QED BY <2>3, <2>4, <2>5
<1>9. CASE UNCHANGED Compaction!vars
  BY <1>9, <1>u DEF Compaction!vars, Compaction!conversationVars
<1> QED BY <1>1, <1>2, <1>4, <1>5, <1>6, <1>7, <1>8, <1>9 DEF Compaction!Next, Compaction!JobStep

\* What the books say is what compaction promises.
LEMMA CompactionSafe ==
    ASSUME CompactionInv
    PROVE  /\ Compaction!TypeOK /\ Compaction!OneSummaryAtATime /\ Compaction!CountsAddUp
           /\ Compaction!JoinsALiveJob /\ Compaction!NoWriteIsLost
<1>1. WorkInv(Compaction!State, inFlight) /\ Summaries
  BY DEF CompactionInv
<1>2. /\ jobs \in Seq(JobRecord) /\ DOMAIN jobs = 1 .. Len(jobs) /\ job \in 0 .. Len(jobs)
      /\ windows \subseteq 1 .. Len(jobs) /\ phase \in Phases /\ inFlight \in 0 .. Len(jobs)
      /\ \A k \in 1 .. Len(jobs) : jobs[k] \in JobRecord
  BY <1>1, StateFields, LenProperties, ElementOfSeq DEF WorkInv, WorkTyped, WorkRecord
<1>3. Compaction!TypeOK
  BY <1>2 DEF Compaction!TypeOK, JobRecord, Places, Phases, Ends
<1>4. Compaction!OneSummaryAtATime
  BY <1>1 DEF Summaries, Compaction!OneSummaryAtATime
<1>5. Compaction!JoinsALiveJob
  BY <1>1, <1>2, StateFields DEF WorkInv, Joinable, JobOK, Compaction!JoinsALiveJob, Compaction!Settled
<1>6. Compaction!CountsAddUp
  <2>1. \A S : Compaction!Cardinality(S) = Cardinality(S)
    BY DEF Compaction!Cardinality, Cardinality, Compaction!IsFiniteSet, IsFiniteSet
  <2>2. \A o : With(Compaction!State, o) = {j \in DOMAIN jobs : jobs[j].outcome = o}
    BY StateFields DEF With
  <2>3. /\ counts["requested"] = Len(jobs)
        /\ \A o \in Ends \ {"discarded"} : counts[o] = Cardinality({j \in DOMAIN jobs : jobs[j].outcome = o})
        /\ counts["discarded"] >= Cardinality({j \in DOMAIN jobs : jobs[j].outcome = "discarded"}) + counts["rescheduled"]
    <3>1. Totals(Compaction!State)
      BY <1>1 DEF WorkInv
    <3> QED BY <2>2, <3>1, StateFields DEF Totals
  <2> QED BY <2>1, <2>3 DEF Compaction!CountsAddUp, Ends
<1>7. Compaction!NoWriteIsLost
  BY <1>1 DEF Summaries, Compaction!NoWriteIsLost
<1> QED BY <1>3, <1>4, <1>5, <1>6, <1>7

\* A summary is only published while its request and the conversation live.
LEMMA CompactionActs ==
    CompactionInv /\ [Compaction!Next]_(Compaction!vars) => Compaction!PublishesInTime
<1> SUFFICES ASSUME CompactionInv, [Compaction!Next]_(Compaction!vars), NEW j \in 1 .. MaxJobs,
                    candidate'[j].result = "committed", candidate[j].stage = "summarizing"
             PROVE  open /\ ~jobs[j].reason
  BY DEF Compaction!PublishesInTime
<1>1. candidate[j].result = "none" /\ inFlight = j /\ candidate \in [1 .. MaxJobs -> Candidate]
  BY DEF CompactionInv, Summaries
<1>2. candidate' # candidate
  BY <1>1
<1>3. PICK k \in 1 .. MaxJobs : Compaction!JobStep(k)
  BY <1>2 DEF Compaction!Next, Compaction!vars, Compaction!schedulerVars, Compaction!startJob,
     Compaction!cancel, Compaction!dispose, Compaction!closeConversation, Compaction!Disposes,
     Compaction!commit
<1>5. CASE Compaction!WindowOpens(k) \/ Compaction!JoinedRuns(k)
  <2>1. \E s : Compaction!run(k, s)
    BY <1>5 DEF Compaction!WindowOpens, Compaction!JoinedRuns
  <2>2. UNCHANGED candidate
    BY <1>1, <2>1 DEF Compaction!run
  <2> QED BY <1>2, <2>2
<1>6. CASE Compaction!compactOwned(k)
  <2>1. k = j
    BY <1>1, <1>6 DEF CompactionInv, Summaries, Compaction!compactOwned
  <2>2. Compaction!compactionActive(j)
    <3>1. \A x : Compaction!Returned(j, x) => x = "committed"
      <4> SUFFICES ASSUME NEW x, Compaction!Returned(j, x) PROVE x = "committed"
        OBVIOUS
      <4>1. candidate'[j].result = [candidate[j] EXCEPT !.stage = "returned", !.result = x].result
        BY <1>1 DEF Compaction!Returned
      <4>2. candidate[j] \in Candidate
        BY <1>1
      <4> QED BY <4>1, <4>2 DEF Candidate
    <3>2. ~Compaction!Returned(j, "error")
      BY <3>1
    <3> QED BY <1>6, <2>1, <3>2 DEF Compaction!compactOwned
  <2> QED BY <2>2 DEF Compaction!compactionActive
<1>7. CASE Compaction!attempt(k)
  <2>1. k = j /\ candidate[k].stage = "returned"
    BY <1>1, <1>7 DEF CompactionInv, Summaries, Compaction!attempt
  <2> QED BY <2>1
<1> QED BY <1>3, <1>5, <1>6, <1>7 DEF Compaction!JobStep

-----------------------------------------------------------------------------
(* All of them: the service that the initial state has picked keeps its    *)
(* invariant, since no other moves.                                        *)

BackgroundInv ==
    /\ instance = "flow" => FaultlessInv
    /\ instance = "brokenFlow" => FlowInv
    /\ instance = "restarts" => RestartsInv
    /\ instance = "patient" => OneLoop
    /\ instance = "stubborn" => ChunkInv
    /\ instance = "heedful" => HeedfulInv
    /\ instance = "hooks" => HookInv
    /\ instance = "compaction" => CompactionInv

\* The service stays the same, and takes its own steps.
LEMMA Turns ==
    ASSUME [Next]_vars
    PROVE  /\ instance' = instance
           /\ instance = "flow" => FaultlessNext \/ UNCHANGED BrokenFlow!vars
           /\ instance = "brokenFlow" => [BrokenFlow!Next]_(BrokenFlow!vars)
           /\ instance = "restarts" => [Restarts!Next]_(Restarts!vars)
           /\ instance = "patient" => [Patiently!Next]_(Patiently!vars)
           /\ instance = "stubborn" => [Stubborn!Next]_(Stubborn!vars)
           /\ instance = "heedful" => [Heedful!Next]_(Heedful!vars)
           /\ instance = "hooks" => [Hooks!Next]_(Hooks!vars)
           /\ instance = "compaction" => [Compaction!Next]_(Compaction!vars)
<1>1. CASE Next
  BY <1>1, FlowIsFaultless
  DEF Next, flowStays, beatStays, chunkStays, hookStays, drainStays, compactStays
<1>2. CASE UNCHANGED vars
  <2>1. UNCHANGED instance
    BY <1>2 DEF vars
  <2>2. UNCHANGED BrokenFlow!vars
    BY <1>2 DEF vars, flowVars, BrokenFlow!vars, BrokenFlow!controller
  <2>3. UNCHANGED Restarts!vars /\ UNCHANGED Patiently!vars
    BY <1>2 DEF vars, beatVars, Restarts!vars, Patiently!vars
  <2>4. UNCHANGED Stubborn!vars /\ UNCHANGED Heedful!vars
    BY <1>2 DEF vars, chunkVars, Stubborn!vars, Heedful!vars
  <2>5. UNCHANGED Hooks!vars
    BY <1>2 DEF vars, hookVars, Hooks!vars
  <2>6. UNCHANGED Compaction!vars
    BY <1>2 DEF vars, compactVars, Compaction!vars, Compaction!schedulerVars, Compaction!conversationVars
  <2> QED BY <2>1, <2>2, <2>3, <2>4, <2>5, <2>6
<1> QED BY <1>1, <1>2

\* The two engines start alike.
LEMMA FlowStarts == Flow!Init => BrokenFlow!Init
BY DEF Flow!Init, BrokenFlow!Init, Flow!All, BrokenFlow!All

\* Every service starts in its invariant.
LEMMA BackgroundInit == Init => BackgroundInv
<1>1. /\ Init /\ instance = "flow" => FaultlessInv
      /\ Init /\ instance = "brokenFlow" => FlowInv
  BY FlowStarts, FaultlessInit, FlowInit DEF Init
<1>2. /\ Init /\ instance = "restarts" => RestartsInv
      /\ Init /\ instance = "patient" => OneLoop
  BY RestartsInit, PatientInit DEF Init
<1>3. /\ Init /\ instance = "stubborn" => ChunkInv
      /\ Init /\ instance = "heedful" => HeedfulInv
  BY ChunkInit, HeedfulInit DEF Init
<1>4. /\ Init /\ instance = "hooks" => HookInv
      /\ Init /\ instance = "compaction" => CompactionInv
  BY HookInit, CompactionInit DEF Init
<1> QED BY <1>1, <1>2, <1>3, <1>4 DEF BackgroundInv

\* Every step keeps it.
LEMMA BackgroundStep == BackgroundInv /\ [Next]_vars => BackgroundInv'
<1> SUFFICES ASSUME BackgroundInv, [Next]_vars PROVE BackgroundInv'
  OBVIOUS
<1> USE Turns DEF BackgroundInv
<1>1. instance = "flow" => FaultlessInv'
  BY FaultlessStep
<1>2. instance = "brokenFlow" => FlowInv'
  BY FlowStep
<1>3. instance = "restarts" => RestartsInv'
  BY RestartsStep
<1>4. instance = "patient" => OneLoop'
  BY PatientStep
<1>5. instance = "stubborn" => ChunkInv'
  BY ChunkStep
<1>6. instance = "heedful" => HeedfulInv'
  BY HeedfulStep
<1>7. instance = "hooks" => HookInv'
  BY HookStep
<1>8. instance = "compaction" => CompactionInv'
  BY CompactionStep
<1> QED BY <1>1, <1>2, <1>3, <1>4, <1>5, <1>6, <1>7, <1>8

\* The invariants hold in every behaviour.
LEMMA BackgroundAlways == Spec => []BackgroundInv
BY BackgroundInit, BackgroundStep, PTL DEF Spec

\* The counters of the flow controller are the runs that hold a slot, also when
\* the engine fails to suspend runs and abandons them; and while it does not,
\* two runs with one singleton key are never live at once, and what executes is
\* counted (create-flow-controller.ts, with the calls of create-bureau.ts).
THEOREM CountsAreRight == Spec => []CountsMatch
<1>1. BackgroundInv => CountsMatch
  <2>1. BrokenFlow!TypeOK /\ FlowInv => BrokenFlow!CountsMatch /\ BrokenFlow!ClaimsMatch
    BY DEF FlowInv, Books
  <2> QED BY <2>1, FaultlessSafe, FlowTyped DEF BackgroundInv, CountsMatch
<1> QED BY <1>1, BackgroundAlways, PTL

\* When the promise of stop() has resolved no tick is in flight until start() is
\* called again, and while start() waits for the last loop there is one loop at
\* most (create-heartbeat.ts).
THEOREM StopsAreBoundaries == Spec => []StopIsABoundary
<1>1. BackgroundInv => StopIsABoundary
  BY RestartsSafe, PatientSafe DEF BackgroundInv, StopIsABoundary
<1> QED BY <1>1, BackgroundAlways, PTL

\* No chunk is carried out twice, however often the job is preempted; and when
\* the chunks heed their signal the job ends where it was done, or after one
\* chunk has used up its retries (create-chunked-task.ts).
THEOREM ChunksAreDoneOnce == Spec => []EachChunkOnce
<1>1. ChunkInv => Stubborn!TypeOK /\ Stubborn!EachChunkOnce
  BY DEF ChunkInv
<1>2. BackgroundInv => EachChunkOnce
  BY <1>1, HeedfulSafe DEF BackgroundInv, EachChunkOnce
<1> QED BY <1>2, BackgroundAlways, PTL

\* Wherever a process dies, and however often it is started again: while the
\* store works a subject is posted by the process that has written its record
\* and by no other; and what the owner's signal has caught under way does not
\* stay pending (webhook-notifier.ts).
THEOREM NotifiedOnce == Spec => []NotifiedByOneProcess
<1>1. BackgroundInv => NotifiedByOneProcess
  BY HookSafe DEF BackgroundInv, NotifiedByOneProcess
<1> QED BY <1>1, BackgroundAlways, PTL

\* There is one candidate at a time, also after cancellations; every request is
\* settled and counted once; and new requests join a job that can be cancelled
\* (compaction-scheduler.ts).
THEOREM SummariesDoNotOverlap == Spec => []OneSummaryAtATime
<1>1. BackgroundInv => OneSummaryAtATime
  BY CompactionSafe DEF BackgroundInv, OneSummaryAtATime
<1> QED BY <1>1, BackgroundAlways, PTL

\* No summary takes the place of a write that it does not cover, and none is
\* published for a request that was cancelled or a conversation that was closed
\* (compactOwned in history-compaction.ts, commitAtRevision in
\* history-transaction.ts).
THEOREM SummariesAreFresh == Spec => PublishesOnlyFresh
<1> DEFINE Fresh == instance = "compaction" => Compaction!PublishesInTime /\ Compaction!NoWriteIsLost'
<1>1. BackgroundInv /\ [Next]_vars => Fresh
  <2> SUFFICES ASSUME BackgroundInv, [Next]_vars, instance = "compaction" PROVE Fresh
    OBVIOUS
  <2>1. CompactionInv /\ [Compaction!Next]_(Compaction!vars)
    BY Turns DEF BackgroundInv
  <2>2. CompactionInv'
    BY <2>1, CompactionStep
  <2>3. Compaction!NoWriteIsLost'
    BY <2>2 DEF CompactionInv, Summaries, Compaction!NoWriteIsLost
  <2> QED BY <2>1, <2>3, CompactionActs
<1> QED BY <1>1, BackgroundAlways, PTL DEF PublishesOnlyFresh, Spec
=============================================================================
