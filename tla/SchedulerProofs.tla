--------------------------- MODULE SchedulerProofs ---------------------------
(***************************************************************************)
(* Theorems about the scheduler, for any number of tasks, submissions,     *)
(* requeues, dispatches and stop() calls, with or without a durable        *)
(* engine, and whichever engine calls reject.                              *)
(***************************************************************************)
EXTENDS Scheduler, SequenceTheorems, WellFoundedInduction, TLAPS

-----------------------------------------------------------------------------
(* What the queue's operators keep, for queues of any length: their items    *)
(* and their order.                                                          *)

(* A non-empty set of naturals has a least element, and Min names it. *)
LEMMA MinIsLeast ==
  ASSUME NEW S, S \subseteq Nat, S # {}
  PROVE  Min(S) \in S /\ \A y \in S : Min(S) <= y
<1>0. IsWellFoundedOn(OpToRel(<, Nat), Nat)
  BY NatLessThanWellFounded, Zenon
<1>1. PICK x \in S : \A y \in S : <<y, x>> \notin OpToRel(<, Nat)
  BY <1>0, WFMin, Zenon
<1>2. \A y \in S : x <= y
  <2> SUFFICES ASSUME NEW y \in S PROVE x <= y
    OBVIOUS
  <2>1. <<y, x>> \in Nat \X Nat
    OBVIOUS
  <2>2. ~(y < x)
    BY <1>1, <2>1, Zenon DEF OpToRel
  <2> QED BY <2>2
<1> QED BY <1>1, <1>2 DEF Min

(* Items whose priorities are known have a weight that is a number. *)
LEMMA WeightType ==
  ASSUME NEW item, item.priority \in SchedulerPriority
  PROVE  WeightOf(item) \in Nat
BY DEF WeightOf, PRIORITY_WEIGHT, SchedulerPriority

(* q is items with one item more, at this slot: what is behind it has moved by  *)
(* one, what is in front of it stands where it stood.                           *)
Inserted(q, items, at, item) ==
  /\ at \in 1..(Len(items) + 1)
  /\ Len(q) = Len(items) + 1
  /\ \A k \in 1..(Len(items) + 1) :
       q[k] = IF k < at THEN items[k] ELSE IF k = at THEN item ELSE items[k - 1]

(* enqueue() inserts the item at its insertion point. *)
LEMMA EnqueueProperties ==
  ASSUME NEW S, NEW items \in Seq(S), NEW item \in S
  PROVE  /\ enqueue(items, item) \in Seq(S)
         /\ Inserted(enqueue(items, item), items, InsertionPoint(items, item), item)
<1> DEFINE at == InsertionPoint(items, item)
           front == SubSeq(items, 1, at - 1)
           back == SubSeq(items, at, Len(items))
<1>1. at \in 1..(Len(items) + 1)
  <2>1. CASE LowerSlots(items, item) = {}
    BY <2>1 DEF InsertionPoint
  <2>2. CASE LowerSlots(items, item) # {}
    <3>1. LowerSlots(items, item) \subseteq 1..Len(items)
      BY DEF LowerSlots
    <3>2. Min(LowerSlots(items, item)) \in 1..Len(items)
      BY <2>2, <3>1, MinIsLeast, LowerSlots(items, item) \subseteq Nat
    <3> QED BY <2>2, <3>2 DEF InsertionPoint
  <2> QED BY <2>1, <2>2
<1> HIDE DEF at
<1>2. /\ front \in Seq(S) /\ Len(front) = at - 1
      /\ \A i \in 1..(at - 1) : front[i] = items[i]
  <2>1. \A i \in 1..(at - 1) : items[i] \in S
    BY <1>1, ElementOfSeq
  <2> QED BY <1>1, <2>1, SubSeqProperties
<1>3. /\ back \in Seq(S) /\ Len(back) = Len(items) - at + 1
      /\ \A i \in 1..(Len(items) - at + 1) : back[i] = items[at + i - 1]
  <2>1. \A i \in at..Len(items) : items[i] \in S
    BY <1>1, ElementOfSeq
  <2> QED BY <1>1, <2>1, SubSeqProperties
<1> HIDE DEF front, back
<1>4. /\ <<item>> \in Seq(S) /\ Len(<<item>>) = 1 /\ <<item>>[1] = item
  OBVIOUS
<1>5. /\ front \o <<item>> \in Seq(S)
      /\ Len(front \o <<item>>) = at
      /\ \A i \in 1..at : (front \o <<item>>)[i] = IF i < at THEN items[i] ELSE item
  BY <1>1, <1>2, <1>4, ConcatProperties
<1> DEFINE head == front \o <<item>>
<1> HIDE DEF head
<1>6. /\ head \o back \in Seq(S)
      /\ Len(head \o back) = Len(items) + 1
      /\ \A i \in 1..(Len(items) + 1) :
           (head \o back)[i] = IF i <= at THEN head[i] ELSE back[i - at]
  <2>1. head \in Seq(S) /\ Len(head) = at
    BY <1>5 DEF head
  <2> QED BY <2>1, <1>1, <1>3, ConcatProperties
<1>7. \A k \in 1..(Len(items) + 1) :
        (head \o back)[k] = IF k < at THEN items[k] ELSE IF k = at THEN item ELSE items[k - 1]
  <2> SUFFICES ASSUME NEW k \in 1..(Len(items) + 1)
               PROVE  (head \o back)[k] =
                        IF k < at THEN items[k] ELSE IF k = at THEN item ELSE items[k - 1]
    OBVIOUS
  <2>1. CASE k <= at
    <3>1. k \in 1..at
      BY <1>1, <2>1
    <3> QED BY <1>1, <1>5, <1>6, <2>1, <3>1 DEF head
  <2>2. CASE k > at
    <3>1. k - at \in 1..(Len(items) - at + 1) /\ at + (k - at) - 1 = k - 1
      BY <1>1, <2>2
    <3>2. back[k - at] = items[k - 1]
      BY <1>3, <3>1
    <3> QED BY <1>1, <1>6, <2>2, <3>2
  <2>3. k <= at \/ k > at
    BY <1>1
  <2> QED BY <2>1, <2>2, <2>3
<1>8. enqueue(items, item) = head \o back
  BY DEF enqueue, InsertAt, head, back, front, at
<1> QED BY <1>1, <1>6, <1>7, <1>8 DEF at, Inserted

(* An item of the queue has a priority. *)
Item(S) == \A item \in S : item.priority \in SchedulerPriority

(* The insertion point separates: nothing in front of it is of lower priority  *)
(* than the item, and what is behind it, in an ordered queue, is.              *)
LEMMA InsertionPointSeparates ==
  ASSUME NEW S, Item(S), NEW items \in Seq(S), NEW item \in S, Ordered(items)
  PROVE  LET at == InsertionPoint(items, item)
         IN  /\ \A k \in 1..Len(items) : k < at => WeightOf(items[k]) <= WeightOf(item)
             /\ \A k \in 1..Len(items) : k >= at => WeightOf(items[k]) > WeightOf(item)
<1> DEFINE lower == LowerSlots(items, item)
           at == InsertionPoint(items, item)
<1>1. WeightOf(item) \in Nat /\ \A k \in 1..Len(items) : WeightOf(items[k]) \in Nat
  BY WeightType, ElementOfSeq DEF Item
<1>2. CASE lower = {}
  <2>1. at = Len(items) + 1
    BY <1>2 DEF InsertionPoint
  <2>2. \A k \in 1..Len(items) : ~(WeightOf(items[k]) > WeightOf(item))
    BY <1>2 DEF LowerSlots
  <2> QED BY <1>1, <2>1, <2>2
<1>3. CASE lower # {}
  <2>1. lower \subseteq 1..Len(items)
    BY DEF LowerSlots
  <2>2. at = Min(lower)
    BY <1>3 DEF InsertionPoint
  <2>3. at \in lower /\ \A y \in lower : at <= y
    BY <1>3, <2>1, <2>2, MinIsLeast, lower \subseteq Nat
  <2>4. at \in 1..Len(items) /\ WeightOf(items[at]) > WeightOf(item)
    BY <2>3 DEF LowerSlots
  <2> HIDE DEF at
  <2>5. ASSUME NEW k \in 1..Len(items), k < at
        PROVE  WeightOf(items[k]) <= WeightOf(item)
    <3>1. k \notin lower
      BY <2>3, <2>4, <2>5
    <3>2. ~(WeightOf(items[k]) > WeightOf(item))
      BY <3>1 DEF LowerSlots
    <3> QED BY <1>1, <3>2
  <2>6. ASSUME NEW k \in 1..Len(items), k >= at
        PROVE  WeightOf(items[k]) > WeightOf(item)
    <3>1. WeightOf(items[at]) <= WeightOf(items[k])
      <4>1. CASE k = at
        BY <1>1, <2>4, <4>1
      <4>2. CASE at < k
        BY <2>4, <4>2 DEF Ordered
      <4> QED BY <2>4, <2>6, <4>1, <4>2
    <3> QED BY <1>1, <2>4, <3>1
  <2> QED BY <2>5, <2>6 DEF at
<1> QED BY <1>2, <1>3

(* enqueue() keeps the queue in order, whatever the lanes of its items. *)
THEOREM EnqueueKeepsOrder ==
  ASSUME NEW S, Item(S), NEW items \in Seq(S), NEW item \in S, Ordered(items)
  PROVE  Ordered(enqueue(items, item))
<1>0. Inserted(enqueue(items, item), items, InsertionPoint(items, item), item)
  BY EnqueueProperties
<1> DEFINE at == InsertionPoint(items, item)
           q == enqueue(items, item)
           n == Len(items)
<1>1. /\ at \in 1..(n + 1) /\ Len(q) = n + 1
      /\ \A k \in 1..(n + 1) :
           q[k] = IF k < at THEN items[k] ELSE IF k = at THEN item ELSE items[k - 1]
  BY <1>0 DEF Inserted
<1>2. /\ \A k \in 1..n : k < at => WeightOf(items[k]) <= WeightOf(item)
      /\ \A k \in 1..n : k >= at => WeightOf(items[k]) > WeightOf(item)
  BY InsertionPointSeparates
<1>3. WeightOf(item) \in Nat /\ \A k \in 1..n : WeightOf(items[k]) \in Nat
  BY WeightType, ElementOfSeq DEF Item
<1>4. \A i, j \in 1..n : i < j => WeightOf(items[i]) <= WeightOf(items[j])
  BY DEF Ordered
<1>5. n \in Nat
  BY LenProperties
<1> HIDE DEF at, q, n
<1>6. SUFFICES ASSUME NEW i \in 1..(n + 1), NEW j \in 1..(n + 1), i < j
               PROVE  WeightOf(q[i]) <= WeightOf(q[j])
  BY <1>1 DEF Ordered, q
<1>7. CASE j < at
  BY <1>1, <1>4, <1>5, <1>6, <1>7
<1>8. CASE j = at
  BY <1>1, <1>2, <1>5, <1>6, <1>8
<1>9. CASE j > at /\ i < at
  <2>1. q[i] = items[i] /\ q[j] = items[j - 1] /\ i \in 1..n /\ j - 1 \in 1..n /\ j - 1 >= at
    BY <1>1, <1>5, <1>6, <1>9
  <2>2. WeightOf(items[i]) <= WeightOf(item) /\ WeightOf(items[j - 1]) > WeightOf(item)
    BY <1>2, <1>9, <2>1
  <2> QED BY <1>3, <2>1, <2>2
<1>10. CASE j > at /\ i = at
  <2>1. q[i] = item /\ q[j] = items[j - 1] /\ j - 1 \in 1..n /\ j - 1 >= at
    BY <1>1, <1>5, <1>6, <1>10
  <2> QED BY <1>2, <1>3, <2>1
<1>11. CASE j > at /\ i > at
  <2>1. /\ q[i] = items[i - 1] /\ q[j] = items[j - 1]
        /\ i - 1 \in 1..n /\ j - 1 \in 1..n /\ i - 1 < j - 1
    BY <1>1, <1>5, <1>6, <1>11
  <2> QED BY <1>4, <2>1
<1> QED BY <1>1, <1>5, <1>6, <1>7, <1>8, <1>9, <1>10, <1>11

(* dequeue() keeps the queue in order. *)
LEMMA TailKeepsOrder ==
  ASSUME NEW S, NEW items \in Seq(S), items # <<>>, Ordered(items)
  PROVE  Ordered(Tail(items))
<1>1. /\ Len(Tail(items)) = Len(items) - 1
      /\ \A i \in 1..Len(Tail(items)) : Tail(items)[i] = items[i + 1]
  BY HeadTailProperties
<1>2. Len(items) \in Nat
  BY LenProperties
<1> QED BY <1>1, <1>2 DEF Ordered

(* remove() drops one slot, or none. *)
LEMMA RemoveProperties ==
  ASSUME NEW S, NEW items \in Seq(S), NEW id
  PROVE  LET at == FirstWithId(items, id)
             q == remove(items, id)
         IN  /\ at \in 0..Len(items)
             /\ at # 0 => items[at].id = id
             /\ at = 0 => \A k \in 1..Len(items) : items[k].id # id
             /\ q \in Seq(S)
             /\ at = 0 => q = items
             /\ at # 0 => /\ Len(q) = Len(items) - 1
                          /\ \A k \in 1..(Len(items) - 1) :
                               q[k] = IF k < at THEN items[k] ELSE items[k + 1]
<1> DEFINE I == {i \in 1..Len(items) : items[i].id = id}
           at == FirstWithId(items, id)
           front == SubSeq(items, 1, at - 1)
           back == SubSeq(items, at + 1, Len(items))
<1>1. at = IF I # {} THEN Min(I) ELSE 0
  BY DEF FirstWithId, SelectInSeq
<1>2. I # {} => Min(I) \in I
  BY MinIsLeast, I \subseteq Nat
<1>3. /\ at \in 0..Len(items)
      /\ at # 0 => at \in 1..Len(items) /\ items[at].id = id
      /\ at = 0 => \A k \in 1..Len(items) : items[k].id # id
  <2>1. CASE I = {}
    <3>1. at = 0
      BY <1>1, <2>1
    <3>2. \A k \in 1..Len(items) : items[k].id # id
      BY <2>1
    <3> QED BY <3>1, <3>2, LenProperties
  <2>2. CASE I # {}
    <3>1. at \in I
      BY <1>1, <1>2, <2>2
    <3> QED BY <3>1, LenProperties
  <2> QED BY <2>1, <2>2
<1> HIDE DEF at, I
<1>4. CASE at = 0
  BY <1>3, <1>4 DEF remove, at
<1>5. CASE at # 0
  <2>1. at \in 1..Len(items) /\ Len(items) \in Nat
    BY <1>3, <1>5, LenProperties
  <2>2. /\ front \in Seq(S) /\ Len(front) = at - 1
        /\ \A i \in 1..(at - 1) : front[i] = items[i]
    <3>1. \A i \in 1..(at - 1) : items[i] \in S
      BY <2>1, ElementOfSeq
    <3> QED BY <2>1, <3>1, SubSeqProperties
  <2>3. /\ back \in Seq(S) /\ Len(back) = Len(items) - at
        /\ \A i \in 1..(Len(items) - at) : back[i] = items[at + i]
    <3>1. \A i \in (at + 1)..Len(items) : items[i] \in S
      BY <2>1, ElementOfSeq
    <3> QED BY <2>1, <3>1, SubSeqProperties
  <2>4. remove(items, id) = front \o back
    BY <1>5 DEF remove, RemoveAt, at
  <2> HIDE DEF front, back
  <2>5. /\ front \o back \in Seq(S)
        /\ Len(front \o back) = Len(items) - 1
        /\ \A k \in 1..(Len(items) - 1) :
             (front \o back)[k] = IF k <= at - 1 THEN front[k] ELSE back[k - (at - 1)]
    <3>1. /\ front \o back \in Seq(S)
          /\ Len(front \o back) = Len(front) + Len(back)
          /\ \A k \in 1..(Len(front) + Len(back)) :
               (front \o back)[k] = IF k <= Len(front) THEN front[k] ELSE back[k - Len(front)]
      BY <2>2, <2>3, ConcatProperties, Zenon
    <3>2. Len(front) = at - 1 /\ Len(front) + Len(back) = Len(items) - 1
      BY <2>1, <2>2, <2>3
    <3> QED BY <3>1, <3>2
  <2>6. ASSUME NEW k \in 1..(Len(items) - 1)
        PROVE  (front \o back)[k] = IF k < at THEN items[k] ELSE items[k + 1]
    <3>1. CASE k < at
      <4>1. k \in 1..(at - 1)
        BY <2>1, <3>1
      <4> QED BY <2>1, <2>2, <2>5, <3>1, <4>1
    <3>2. CASE k >= at
      <4>1. k - (at - 1) \in 1..(Len(items) - at) /\ at + (k - (at - 1)) = k + 1
        BY <2>1, <3>2
      <4>2. back[k - (at - 1)] = items[k + 1]
        BY <2>3, <4>1
      <4>3. ~(k <= at - 1) /\ ~(k < at)
        BY <2>1, <3>2
      <4>4. (front \o back)[k] = back[k - (at - 1)]
        BY <2>5, <4>3
      <4> QED BY <4>2, <4>3, <4>4
    <3>3. k < at \/ k >= at
      BY <2>1
    <3> QED BY <3>1, <3>2, <3>3
  <2> QED BY <1>3, <1>5, <2>4, <2>5, <2>6 DEF at
<1> QED BY <1>4, <1>5

(* remove() keeps the queue in order. *)
LEMMA RemoveKeepsOrder ==
  ASSUME NEW S, Item(S), NEW items \in Seq(S), NEW id, Ordered(items)
  PROVE  Ordered(remove(items, id))
<1> DEFINE at == FirstWithId(items, id)
           q == remove(items, id)
<1>1. CASE at = 0
  BY <1>1, RemoveProperties
<1>2. CASE at # 0
  <2>1. /\ at \in 0..Len(items) /\ Len(q) = Len(items) - 1
        /\ \A k \in 1..(Len(items) - 1) : q[k] = IF k < at THEN items[k] ELSE items[k + 1]
    BY <1>2, RemoveProperties
  <2>2. Len(items) \in Nat
    BY LenProperties
  <2>3. \A i, j \in 1..Len(items) : i < j => WeightOf(items[i]) <= WeightOf(items[j])
    BY DEF Ordered
  <2> HIDE DEF at, q
  <2>4. ASSUME NEW i \in 1..(Len(items) - 1), NEW j \in 1..(Len(items) - 1), i < j
        PROVE  WeightOf(q[i]) <= WeightOf(q[j])
    <3>1. CASE j < at
      BY <2>1, <2>2, <2>3, <2>4, <3>1
    <3>2. CASE j >= at /\ i < at
      BY <2>1, <2>2, <2>3, <2>4, <3>2
    <3>3. CASE i >= at
      BY <2>1, <2>2, <2>3, <2>4, <3>3
    <3> QED BY <2>1, <2>4, <3>1, <3>2, <3>3
  <2> QED BY <2>1, <2>4 DEF Ordered, q
<1> QED BY <1>1, <1>2

(* The head of an ordered queue is outranked by nothing in it: comparing the   *)
(* head alone, as hasHigherPriority() does, decides whether any queued task    *)
(* outranks the active one.                                                    *)
THEOREM HeadDecides ==
  ASSUME NEW S, Item(S), NEW items \in Seq(S), Ordered(items),
         NEW than \in SchedulerPriority
  PROVE  hasHigherPriority(items, than)
           <=> \E k \in 1..Len(items) : isHigherPriority(items[k].priority, than)
<1>1. Len(items) \in Nat /\ (items # <<>> => Head(items) = items[1] /\ 1 \in 1..Len(items))
  BY LenProperties, EmptySeq
<1>2. PRIORITY_WEIGHT[than] \in Nat
  BY DEF PRIORITY_WEIGHT, SchedulerPriority
<1>3. \A k \in 1..Len(items) : WeightOf(items[k]) \in Nat
  BY WeightType, ElementOfSeq DEF Item
<1>4. ASSUME NEW k \in 1..Len(items), isHigherPriority(items[k].priority, than)
      PROVE  hasHigherPriority(items, than)
  <2>1. items # <<>> /\ 1 \in 1..Len(items)
    BY <1>1
  <2>2. WeightOf(items[1]) <= WeightOf(items[k])
    <3>1. CASE k = 1
      BY <1>3, <3>1
    <3>2. CASE 1 < k
      BY <2>1, <3>2 DEF Ordered
    <3> QED BY <3>1, <3>2
  <2>3. WeightOf(items[k]) < PRIORITY_WEIGHT[than]
    BY <1>4 DEF isHigherPriority, WeightOf
  <2>4. WeightOf(items[1]) < PRIORITY_WEIGHT[than]
    BY <1>2, <1>3, <2>1, <2>2, <2>3
  <2> QED BY <1>1, <2>1, <2>4 DEF hasHigherPriority, isHigherPriority, WeightOf
<1>5. ASSUME hasHigherPriority(items, than)
      PROVE  \E k \in 1..Len(items) : isHigherPriority(items[k].priority, than)
  BY <1>1, <1>5 DEF hasHigherPriority
<1> QED BY <1>4, <1>5
-----------------------------------------------------------------------------
(* The items that are in the queue.                                          *)

Members(items) == {items[k] : k \in 1..Len(items)}

(* enqueue() adds the item and loses none. *)
LEMMA EnqueueMembers ==
  ASSUME NEW S, NEW items \in Seq(S), NEW item \in S
  PROVE  Members(enqueue(items, item)) = Members(items) \cup {item}
<1> DEFINE at == InsertionPoint(items, item)
           q == enqueue(items, item)
           n == Len(items)
<1>1. /\ at \in 1..(n + 1) /\ Len(q) = n + 1
      /\ \A k \in 1..(n + 1) :
           q[k] = IF k < at THEN items[k] ELSE IF k = at THEN item ELSE items[k - 1]
  BY EnqueueProperties DEF Inserted
<1>2. n \in Nat
  BY LenProperties
<1> HIDE DEF at, q, n
<1>3. ASSUME NEW k \in 1..(n + 1)
      PROVE  q[k] \in {items[j] : j \in 1..n} \cup {item}
  <2>1. CASE k < at
    BY <1>1, <1>2, <2>1
  <2>2. CASE k = at
    BY <1>1, <1>2, <2>2
  <2>3. CASE k > at
    <3>1. q[k] = items[k - 1] /\ k - 1 \in 1..n
      BY <1>1, <1>2, <2>3
    <3> QED BY <3>1
  <2> QED BY <1>1, <2>1, <2>2, <2>3
<1>4. item \in {q[k] : k \in 1..(n + 1)}
  BY <1>1
<1>5. ASSUME NEW k \in 1..n
      PROVE  items[k] \in {q[j] : j \in 1..(n + 1)}
  <2>1. CASE k < at
    <3>1. k \in 1..(n + 1) /\ q[k] = items[k]
      BY <1>1, <1>2, <2>1
    <3> QED BY <3>1
  <2>2. CASE k >= at
    <3>1. k + 1 \in 1..(n + 1) /\ q[k + 1] = items[(k + 1) - 1] /\ (k + 1) - 1 = k
      BY <1>1, <1>2, <2>2
    <3> QED BY <3>1
  <2> QED BY <1>1, <2>1, <2>2
<1>6. {q[k] : k \in 1..(n + 1)} = {items[j] : j \in 1..n} \cup {item}
  BY <1>3, <1>4, <1>5
<1>7. Members(items) = {items[j] : j \in 1..n} /\ Members(q) = {q[k] : k \in 1..(n + 1)}
  BY <1>1 DEF Members, n, q
<1> QED BY <1>6, <1>7 DEF q

(* dequeue() takes the head and leaves the others. *)
LEMMA TailMembers ==
  ASSUME NEW S, NEW items \in Seq(S), items # <<>>
  PROVE  Members(items) = {Head(items)} \cup Members(Tail(items))
<1> DEFINE n == Len(items)
           t == Tail(items)
<1>1. /\ Head(items) = items[1] /\ Len(t) = n - 1
      /\ \A i \in 1..(n - 1) : t[i] = items[i + 1]
  BY HeadTailProperties
<1>2. n \in Nat /\ n >= 1
  BY LenProperties, EmptySeq
<1> HIDE DEF n, t
<1>3. ASSUME NEW k \in 1..n
      PROVE  items[k] \in {items[1]} \cup {t[i] : i \in 1..(n - 1)}
  <2>1. CASE k > 1
    <3>1. k - 1 \in 1..(n - 1) /\ t[k - 1] = items[(k - 1) + 1] /\ (k - 1) + 1 = k
      BY <1>1, <1>2, <2>1
    <3> QED BY <3>1
  <2>2. CASE k = 1
    BY <2>2
  <2> QED BY <2>1, <2>2
<1>4. ASSUME NEW i \in 1..(n - 1)
      PROVE  t[i] \in {items[k] : k \in 1..n}
  <2>1. i + 1 \in 1..n /\ t[i] = items[i + 1]
    BY <1>1, <1>2
  <2> QED BY <2>1
<1>5. items[1] \in {items[k] : k \in 1..n}
  BY <1>2
<1>6. {items[k] : k \in 1..n} = {items[1]} \cup {t[i] : i \in 1..(n - 1)}
  BY <1>3, <1>4, <1>5
<1> QED BY <1>1, <1>6 DEF Members, n, t

(* remove() takes the item it found and leaves the others. *)
LEMMA RemoveMembers ==
  ASSUME NEW S, NEW items \in Seq(S), NEW id, FirstWithId(items, id) # 0
  PROVE  LET found == items[FirstWithId(items, id)]
         IN  /\ found \in S /\ found.id = id
             /\ Members(items) = {found} \cup Members(remove(items, id))
<1> DEFINE n == Len(items)
           at == FirstWithId(items, id)
           q == remove(items, id)
<1>1. /\ at \in 1..n /\ n \in Nat /\ items[at].id = id /\ Len(q) = n - 1
      /\ \A k \in 1..(n - 1) : q[k] = IF k < at THEN items[k] ELSE items[k + 1]
  BY RemoveProperties, LenProperties
<1>2. items[at] \in S
  BY <1>1, ElementOfSeq
<1> HIDE DEF n, at, q
<1>3. ASSUME NEW k \in 1..n
      PROVE  items[k] \in {items[at]} \cup {q[i] : i \in 1..(n - 1)}
  <2>1. CASE k < at
    <3>1. k \in 1..(n - 1) /\ q[k] = items[k]
      BY <1>1, <2>1
    <3> QED BY <3>1
  <2>2. CASE k > at
    <3>1. k - 1 \in 1..(n - 1) /\ q[k - 1] = items[(k - 1) + 1] /\ (k - 1) + 1 = k
      BY <1>1, <2>2
    <3> QED BY <3>1
  <2> QED BY <1>1, <2>1, <2>2
<1>4. ASSUME NEW i \in 1..(n - 1)
      PROVE  q[i] \in {items[k] : k \in 1..n}
  <2>1. i \in 1..n /\ i + 1 \in 1..n /\ q[i] \in {items[i], items[i + 1]}
    BY <1>1
  <2> QED BY <2>1
<1>5. items[at] \in {items[k] : k \in 1..n}
  BY <1>1
<1>6. {items[k] : k \in 1..n} = {items[at]} \cup {q[i] : i \in 1..(n - 1)}
  BY <1>3, <1>4, <1>5
<1> QED BY <1>1, <1>2, <1>6 DEF Members, n, q, at

-----------------------------------------------------------------------------
(* Types.                                                                    *)

(* Wherever the loop looks into its entry, it has one. *)
HoldsEntry == pc \notin {"off", "head", "wait"} => cur # NoEntry

(* Of the tasks, only the one the loop is at is in the `running` map. *)
RunningIsHeld ==
  \A id \in running \cap Tasks :
    id = cur.id /\ pc \in {"race", "suspend", "get", "got", "abort", "dead"}

(* Without start() there is no loop. *)
OffUnlessStarted == ~started => pc = "off"

(* The signal aborts only if there is one. *)
SignalIsWired == signalled => Signal \in Stoppers

(* The inductive invariant behind TypeOK: StopSync reads the run of the loop's  *)
(* entry off the `running` map, so types rest on where the loop is.             *)
TypeInv == TypeOK /\ HoldsEntry /\ RunningIsHeld /\ OffUnlessStarted /\ SignalIsWired

(* The entries are items of the queue. *)
LEMMA EntryIsItem == Item(Entry)
BY DEF Item, Entry

(* The run of a queued entry is one of the modelled runs. *)
LEMMA RunOfEntry ==
  ASSUME NEW entry \in Entry
  PROVE  RunOf(entry) \in Runs
BY BoundsAssumption DEF RunOf, Entry, Runs, Attempts

(* While the loop dispatches, `cur` is an entry and its run is one of the *)
(* modelled runs.                                                         *)
LEMMA EntryInHand ==
  ASSUME TypeInv, pc \notin {"off", "head", "wait"}
  PROVE  cur \in Entry /\ cur.id \in Tasks /\ cur.sub \in Submissions /\ RunOf(cur) \in Runs
<1>1. cur \in Entry
  BY DEF TypeInv, TypeOK, HoldsEntry
<1> QED BY <1>1, RunOfEntry DEF Entry

(* Settling changes promises to an outcome and nothing else about them. *)
LEMMA SettleType ==
  ASSUME TypeOK, NEW ids, NEW outcome \in Outcome, settleTask(ids, outcome)
  PROVE  /\ resolvers' \in [Tasks -> 0..MaxSubmits]
         /\ settled' \in [Submissions -> {"none", "pending"} \cup Outcome]
         /\ retained' \in [Tasks -> {"none", "tombstone"} \cup Outcome]
         /\ waiters' \subseteq Tasks
BY BoundsAssumption DEF TypeOK, settleTask

(* A preempted task that may be requeued is a queue entry again: its *)
(* requeue count stays within maxRequeues.                           *)
LEMMA RequeuedType ==
  ASSUME NEW entry \in Entry, shouldRequeueOnPreempt(entry)
  PROVE  Requeued(entry) \in Entry
<1>1. entry.requeues + 1 \in Attempts
  BY BoundsAssumption DEF Entry, shouldRequeueOnPreempt, Attempts
<1> QED BY <1>1, SwitchAssumption DEF Entry, Requeued

(* trackCallback() adds the callback of an entry, or nothing. *)
LEMMA TrackType ==
  ASSUME TypeOK, NEW entry \in Entry, NEW kind \in {"complete", "preempted"},
         trackCallback(entry, kind)
  PROVE  callbacks' \subseteq Callback
BY DEF TypeOK, trackCallback, Callback, Entry

(* The ids in the `running` map name modelled runs. *)
LEMMA RunningRunsType ==
  ASSUME TypeInv, NEW ids \in SUBSET running
  PROVE  RunningRuns(ids) \subseteq Runs
<1>1. \A id \in ids \cap Tasks : RunOf(cur) \in Runs
  BY EntryInHand DEF TypeInv, RunningIsHeld
<1> QED BY <1>1 DEF RunningRuns, Runs

(* The suspended runs that the queue points to are modelled runs. *)
LEMMA ResumeRunsType ==
  ASSUME TypeOK
  PROVE  ResumeRuns \subseteq Runs
BY RunOfEntry DEF TypeOK, ResumeRuns

(* What stop() leaves behind at its first await. *)
StopSyncTyped ==
  /\ stopping' = TRUE /\ queue' \in Seq(Entry)
  /\ resolvers' \in [Tasks -> 0..MaxSubmits]
  /\ settled' \in [Submissions -> {"none", "pending"} \cup Outcome]
  /\ retained' \in [Tasks -> {"none", "tombstone"} \cup Outcome]
  /\ waiters' \subseteq Tasks /\ marks' \subseteq Tasks
  /\ cancels' \subseteq Runs /\ aborts' \subseteq Runs
  /\ wake' \in {"none", "armed", "fired"}
  /\ stops' \in [Stoppers -> StopCall]
  /\ UNCHANGED <<seen, recent, running, owned, callbacks, runs, lost, completions, submits>>

(* What stop() does before its first await keeps the types. *)
LEMMA StopSyncType ==
  ASSUME TypeInv, NEW s \in Stoppers, StopSync(s)
  PROVE  StopSyncTyped
<1> DEFINE victims == {id \in running : ~IsImmediate(id)}
           cancelled == ResumeRuns \cup (IF Durable THEN RunningRuns(victims) ELSE {})
<1>1. TypeOK
  BY DEF TypeInv
<1>2. victims \subseteq Tasks /\ victims \subseteq running
  BY <1>1 DEF TypeOK, IsImmediate
<1>3. RunningRuns(victims) \subseteq Runs /\ RunningRuns(running) \subseteq Runs
  BY <1>2, RunningRunsType
<1>4. cancelled \subseteq Runs
  BY <1>1, <1>3, ResumeRunsType
<1>5. /\ cancels' = cancels \cup cancelled
      /\ marks' = (IF Durable THEN marks \cup victims ELSE marks)
      /\ aborts' = (IF Durable THEN aborts ELSE aborts \cup RunningRuns(victims))
      /\ stops' = [stops EXCEPT ![s] = [at |-> "results", results |-> RunningRuns(running),
                                        cancels |-> cancelled, callbacks |-> {}]]
  BY DEF StopSync
<1>6. cancels' \subseteq Runs /\ marks' \subseteq Tasks /\ aborts' \subseteq Runs
  BY <1>1, <1>2, <1>3, <1>4, <1>5 DEF TypeOK
<1>7. stops' \in [Stoppers -> StopCall]
  <2> HIDE DEF cancelled
  <2>1. [at |-> "results", results |-> RunningRuns(running), cancels |-> cancelled,
         callbacks |-> {}] \in StopCall
    BY <1>3, <1>4 DEF StopCall
  <2> QED BY <1>1, <1>5, <2>1 DEF TypeOK
<1>8. settleTask(QueuedIds, "null")
  BY DEF StopSync
<1>9. wake' \in {"none", "armed", "fired"}
  BY <1>1 DEF StopSync, wakeLoop, TypeOK
<1>10. queue' \in Seq(Entry)
  BY EmptySeq DEF StopSync
<1> QED BY <1>1, <1>6, <1>7, <1>8, <1>9, <1>10, SettleType DEF StopSync, StopSyncTyped, Outcome

(* Every step keeps the types. *)
LEMMA TypeStep ==
  ASSUME TypeInv, [Next]_vars
  PROVE  TypeInv'
<1> USE DEF TypeInv, TypeOK, HoldsEntry, RunningIsHeld, OffUnlessStarted, SignalIsWired,
            loopVars, promiseVars, lifeVars, engineVars, LoopPC
<1>1. CASE UNCHANGED vars
  BY <1>1 DEF vars
<1>2. ASSUME NEW id \in Tasks, submit(id) PROVE TypeInv'
  <2>1. submits + 1 \in Submissions
    BY <1>2, BoundsAssumption DEF submit, Submissions
  <2> DEFINE entry == [id |-> id, priority |-> Priority[id], sub |-> submits + 1,
                       requeues |-> 0, resume |-> FALSE]
  <2>2. entry \in Entry
    BY <2>1, TasksAssumption, BoundsAssumption DEF Entry, Attempts
  <2>3. queue' \in Seq(Entry)
    BY <1>2, <2>2, EnqueueProperties DEF submit
  <2> QED BY <1>2, <2>1, <2>3, BoundsAssumption DEF submit, wakeLoop, Submissions
<1>3. ASSUME NEW id \in Tasks, awaitTask(id) PROVE TypeInv'
  BY <1>3 DEF awaitTask
<1>4. ASSUME NEW id \in Tasks, cancelQueued(id) PROVE TypeInv'
  <2>1. queue' \in Seq(Entry)
    BY <1>4, RemoveProperties DEF cancelQueued
  <2>2. cancels' \subseteq Runs
    <3> DEFINE at == FirstWithId(queue, id)
    <3>1. at \in 1..Len(queue)
      BY <1>4, RemoveProperties DEF cancelQueued
    <3>2. queue[at] \in Entry
      BY <3>1, ElementOfSeq
    <3> QED BY <1>4, <3>2, RunOfEntry DEF cancelQueued
  <2>3. settleTask({id}, "null")
    BY <1>4 DEF cancelQueued
  <2> QED BY <1>4, <2>1, <2>2, <2>3, SettleType DEF cancelQueued, wakeLoop, Outcome
<1>5. ASSUME NEW id \in Tasks \cup Dispatches, cancelRunning(id) PROVE TypeInv'
  <2>1. id \in Tasks => RunOf(cur) \in Runs
    BY <1>5, EntryInHand DEF cancelRunning
  <2>2. RunningRuns({id}) \subseteq Runs
    BY <1>5, RunningRunsType DEF cancelRunning
  <2> QED BY <1>5, <2>1, <2>2 DEF cancelRunning, wakeLoop
<1>6. ASSUME NEW d \in Dispatches, dispatchMethod(d) PROVE TypeInv'
  BY <1>6, TasksAssumption DEF dispatchMethod, RunStatus, Executing
<1>7. ASSUME NEW d \in Dispatches, DispatchSettles(d) PROVE TypeInv'
  BY <1>7 DEF DispatchSettles, wakeLoop
<1>8. CASE LoopExit
  BY <1>8 DEF LoopExit
<1>9. CASE LoopWait
  BY <1>9 DEF LoopWait
<1>10. CASE LoopWakes
  BY <1>10 DEF LoopWakes
<1>11. CASE LoopDelays
  <2>1. Head(queue) \in Entry
    BY <1>11, HeadTailProperties DEF LoopDelays
  <2> QED BY <1>11, <2>1, NoEntryAssumption DEF LoopDelays
<1>12. CASE LoopLooksAgain
  BY <1>12 DEF LoopLooksAgain
<1>13. CASE DispatchFresh
  <2>1. Head(queue) \in Entry /\ Tail(queue) \in Seq(Entry)
    BY <1>13, HeadTailProperties DEF DispatchFresh, MayDequeue
  <2> QED BY <1>13, <2>1, NoEntryAssumption DEF DispatchFresh, MayDequeue
<1>14. CASE DispatchResume
  <2>1. Head(queue) \in Entry /\ Tail(queue) \in Seq(Entry)
    BY <1>14, HeadTailProperties DEF DispatchResume, MayDequeue
  <2>2. Head(queue).id \in Tasks
    BY <2>1 DEF Entry
  <2>3. running \cap Tasks = {}
    BY <1>14 DEF DispatchResume, MayDequeue
  <2>4. runs' \in [Runs -> RunStatus]
    BY <1>14 DEF DispatchResume, RunStatus, Executing
  <2> QED BY <1>14, <2>1, <2>2, <2>3, <2>4, NoEntryAssumption, TasksAssumption
          DEF DispatchResume, MayDequeue
<1>15. CASE CreateRunAnswers
  <2>1. cur.id \in Tasks
    BY <1>15, EntryInHand DEF CreateRunAnswers
  <2> QED BY <1>15, <2>1 DEF CreateRunAnswers, RunStatus, Executing
<1>16. CASE failDispatch
  <2>1. settleTask({cur.id}, "error") /\ "error" \in Outcome
    BY <1>16 DEF failDispatch, Outcome
  <2> QED BY <1>16, <2>1, SettleType DEF failDispatch, ToHead
<1>17. CASE RaceSettles
  BY <1>17 DEF RaceSettles
<1>18. CASE RaceAgain
  BY <1>18 DEF RaceAgain
<1>19. CASE Preempt
  BY <1>19, EntryInHand DEF Preempt
<1>20. CASE PreemptedInMemory
  <2>1. cur \in Entry
    BY <1>20, EntryInHand DEF PreemptedInMemory
  <2>2. callbacks' \subseteq Callback
    BY <1>20, <2>1, TrackType DEF PreemptedInMemory
  <2>3. running' \cap Tasks = {}
    BY <1>20 DEF PreemptedInMemory
  <2>4. CASE shouldRequeueOnPreempt(cur)
    <3>1. queue' \in Seq(Entry)
      BY <1>20, <2>1, <2>4, RequeuedType, EnqueueProperties DEF PreemptedInMemory
    <3> QED BY <1>20, <2>2, <2>3, <2>4, <3>1 DEF PreemptedInMemory, ToHead
  <2>5. CASE ~shouldRequeueOnPreempt(cur)
    <3>1. settleTask({cur.id}, "null") /\ "null" \in Outcome
      BY <1>20, <2>5 DEF PreemptedInMemory, Outcome
    <3> QED BY <1>20, <2>2, <2>3, <2>5, <3>1, SettleType DEF PreemptedInMemory, ToHead
  <2> QED BY <2>4, <2>5
<1>21. CASE SuspendAnswers
  BY <1>21 DEF SuspendAnswers, RunStatus
<1>22. CASE SuspendFails
  BY <1>22 DEF SuspendFails
<1>23. CASE GetAnswers
  BY <1>23 DEF GetAnswers
<1>24. CASE GetFails
  BY <1>24 DEF GetFails
<1>25. CASE NotSuspended
  BY <1>25 DEF NotSuspended
<1>26. CASE DetachRequeues
  <2>1. cur \in Entry
    BY <1>26, EntryInHand DEF DetachRequeues
  <2>2. callbacks' \subseteq Callback
    BY <1>26, <2>1, TrackType DEF DetachRequeues
  <2>3. queue' \in Seq(Entry)
    BY <1>26, <2>1, RequeuedType, EnqueueProperties DEF DetachRequeues, MayRequeue
  <2> QED BY <1>26, <2>2, <2>3 DEF DetachRequeues, ToHead
<1>27. CASE DetachDrops
  BY <1>27, EntryInHand DEF DetachDrops
<1>28. CASE DropAnswers
  <2>1. cur \in Entry
    BY <1>28, EntryInHand DEF DropAnswers
  <2>2. callbacks' \subseteq Callback
    BY <1>28, <2>1, TrackType DEF DropAnswers
  <2>3. settleTask({cur.id}, "null") /\ "null" \in Outcome
    BY <1>28 DEF DropAnswers, Outcome
  <2> QED BY <1>28, <2>2, <2>3, SettleType DEF DropAnswers, ToHead
<1>29. CASE FinishCompleted
  <2>1. cur \in Entry
    BY <1>29, EntryInHand DEF FinishCompleted
  <2>2. callbacks' \subseteq Callback
    BY <1>29, <2>1, TrackType DEF FinishCompleted
  <2>3. settleTask({cur.id}, "result") /\ "result" \in Outcome
    BY <1>29 DEF FinishCompleted, Outcome
  <2>4. completions' \in [Submissions -> Nat]
    BY <1>29, EntryInHand DEF FinishCompleted
  <2> QED BY <1>29, <2>2, <2>3, <2>4, SettleType DEF FinishCompleted, ToHead
<1>30. CASE FinishAborted
  <2>1. settleTask({cur.id}, "null") /\ "null" \in Outcome
    BY <1>30 DEF FinishAborted, Outcome
  <2> QED BY <1>30, <2>1, SettleType DEF FinishAborted, ToHead
<1>31. CASE FinishRejected
  <2>1. PICK outcome \in Outcome : settleTask({cur.id}, outcome)
    BY <1>31 DEF FinishRejected, Outcome
  <2> QED BY <1>31, <2>1, SettleType DEF FinishRejected, ToHead
<1>32. CASE start
  <2>1. running \cap Tasks = {}
    BY <1>32 DEF start
  <2>2. CASE signalled
    <3>1. StopSyncTyped
      BY <1>32, <2>2, StopSyncType DEF start
    <3> QED BY <1>32, <2>1, <3>1 DEF start, StopSyncTyped
  <2>3. CASE ~signalled
    BY <1>32, <2>1, <2>3 DEF start
  <2> QED BY <2>2, <2>3
<1>33. CASE stopNotStarted
  BY <1>33 DEF stopNotStarted, Purge
<1>34. CASE ExternalAbort
  <2>1. CASE started
    <3>1. StopSyncTyped
      BY <1>34, <2>1, StopSyncType DEF ExternalAbort
    <3> QED BY <1>34, <2>1, <3>1 DEF ExternalAbort, StopSyncTyped
  <2>2. CASE ~started
    BY <1>34, <2>2 DEF ExternalAbort, Purge
  <2> QED BY <2>1, <2>2
<1>35. ASSUME NEW s \in Stoppers, stop(s) PROVE TypeInv'
  <2>1. StopSyncTyped
    BY <1>35, StopSyncType DEF stop
  <2> QED BY <1>35, <2>1 DEF stop, StopSyncTyped
<1>36. ASSUME NEW s \in Stoppers, StopResults(s) PROVE TypeInv'
  BY <1>36 DEF StopResults, StopCall
<1>37. ASSUME NEW s \in Stoppers, StopCancels(s) PROVE TypeInv'
  <2>1. settleTask(Tasks, "null") /\ "null" \in Outcome
    BY <1>37 DEF StopCancels, Outcome
  <2>2. stops' \in [Stoppers -> StopCall]
    BY <1>37 DEF StopCancels, StopCall, NotStopping
  <2> QED BY <1>37, <2>1, <2>2, SettleType DEF StopCancels
<1>38. CASE StopReturns
  BY <1>38 DEF StopReturns, StopsReturned, AtLoop, NotStopping, StopCall, Purge
<1>39. CASE StopRejects
  BY <1>39 DEF StopRejects, StopsReturned, AtLoop, NotStopping, StopCall
<1>40. ASSUME NEW r \in Runs, RunSettles(r) PROVE TypeInv'
  BY <1>40 DEF RunSettles, RunStatus, Terminal
<1>41. ASSUME NEW r \in Runs, CancelAnswers(r) PROVE TypeInv'
  BY <1>41 DEF CancelAnswers, RunStatus, Terminal
<1>42. ASSUME NEW r \in Runs, CancelFails(r) PROVE TypeInv'
  BY <1>42 DEF CancelFails
<1>43. ASSUME NEW c \in Callback, CallbackSettles(c) PROVE TypeInv'
  BY <1>43 DEF CallbackSettles
<1>44. CASE TimePasses
  BY <1>44 DEF TimePasses
<1>45. ASSUME NEW id \in Tasks, RetentionTimer(id) PROVE TypeInv'
  BY <1>45 DEF RetentionTimer
<1> QED BY <1>1, <1>2, <1>3, <1>4, <1>5, <1>6, <1>7, <1>8, <1>9, <1>10, <1>11, <1>12,
        <1>13, <1>14, <1>15, <1>16, <1>17, <1>18, <1>19, <1>20, <1>21, <1>22, <1>23,
        <1>24, <1>25, <1>26, <1>27, <1>28, <1>29, <1>30, <1>31, <1>32, <1>33, <1>34,
        <1>35, <1>36, <1>37, <1>38, <1>39, <1>40, <1>41, <1>42, <1>43, <1>44, <1>45 DEF
        Next, LoopStep, StopStep

(* A new scheduler satisfies the type invariant and its strengthening. *)
LEMMA InitTypes == Init => TypeInv
<1> SUFFICES ASSUME Init PROVE TypeInv
  OBVIOUS
<1>1. queue \in Seq(Entry) /\ stops \in [Stoppers -> StopCall]
  BY EmptySeq DEF Init, NotStopping, StopCall
<1>2. resolvers \in [Tasks -> 0..MaxSubmits] /\ submits \in 0..MaxSubmits
  BY BoundsAssumption DEF Init
<1>3. /\ settled \in [Submissions -> {"none", "pending"} \cup Outcome]
      /\ retained \in [Tasks -> {"none", "tombstone"} \cup Outcome]
      /\ runs \in [Runs -> RunStatus]
      /\ completions \in [Submissions -> Nat]
  BY DEF Init, RunStatus
<1>4. TypeOK
  BY <1>1, <1>2, <1>3 DEF Init, TypeOK, LoopPC
<1> QED BY <1>4
        DEF Init, TypeInv, HoldsEntry, RunningIsHeld, OffUnlessStarted, SignalIsWired

(* TypeOK holds in every reachable state. *)
THEOREM TypeCorrect == Spec => []TypeOK
<1>1. Init => TypeInv
  BY InitTypes
<1>2. TypeInv /\ [Next]_vars => TypeInv'
  BY TypeStep
<1>3. TypeInv => TypeOK
  BY DEF TypeInv
<1> QED BY <1>1, <1>2, <1>3, PTL DEF Spec

-----------------------------------------------------------------------------
(* The order of the queue.                                                   *)

(* A stop() is called, by whomever. *)
StopBegins(s) ==
  /\ StopSync(s)
  /\ \/ stop(s)
     \/ s = Signal /\ ((start /\ signalled) \/ (ExternalAbort /\ started))

(* The steps that touch the queue. *)
QueueStep ==
  \/ \E id \in Tasks : submit(id) \/ cancelQueued(id)
  \/ DispatchFresh \/ DispatchResume \/ PreemptedInMemory \/ DetachRequeues
  \/ \E s \in {Signal} \cup Stoppers : StopBegins(s)

(* A step outside QueueSteps leaves the queue alone. *)
LEMMA OtherStepsKeepQueue ==
  ASSUME [Next]_vars, ~QueueStep
  PROVE  queue' = queue
BY DEF QueueStep, StopBegins, Next, LoopStep, StopStep, vars, loopVars, promiseVars, lifeVars, engineVars,
       LoopExit, LoopWait, LoopWakes, LoopDelays, LoopLooksAgain, DispatchFresh,
       DispatchResume, CreateRunAnswers, failDispatch, RaceSettles, RaceAgain,
       Preempt, PreemptedInMemory, SuspendAnswers, SuspendFails, GetAnswers,
       GetFails, NotSuspended, DetachRequeues, DetachDrops, DropAnswers,
       FinishCompleted, FinishAborted, FinishRejected, submit, awaitTask,
       cancelQueued, cancelRunning, dispatchMethod, DispatchSettles, start,
       stopNotStarted, ExternalAbort, stop, StopSync, StopResults, StopCancels,
       StopReturns, StopRejects, RunSettles, CancelAnswers, CancelFails,
       CallbackSettles, TimePasses, RetentionTimer

(* Every step keeps the queue in order. *)
LEMMA OrderStep ==
  ASSUME TypeInv, QueueOrdered, [Next]_vars
  PROVE  QueueOrdered'
<1> USE EntryIsItem DEF QueueOrdered
<1>0. queue \in Seq(Entry)
  BY DEF TypeInv, TypeOK
<1>1. ASSUME NEW id \in Tasks, submit(id) PROVE QueueOrdered'
  <2> DEFINE entry == [id |-> id, priority |-> Priority[id], sub |-> submits + 1,
                       requeues |-> 0, resume |-> FALSE]
  <2>1. submits + 1 \in Submissions
    BY <1>1, BoundsAssumption DEF submit, Submissions, TypeInv, TypeOK
  <2>2. entry \in Entry
    BY <2>1, TasksAssumption, BoundsAssumption DEF Entry, Attempts
  <2>3. queue' = enqueue(queue, entry)
    BY <1>1 DEF submit
  <2> HIDE DEF entry
  <2> QED BY <1>0, <2>2, <2>3, EnqueueKeepsOrder
<1>2. ASSUME NEW id \in Tasks, cancelQueued(id) PROVE QueueOrdered'
  BY <1>0, <1>2, RemoveKeepsOrder DEF cancelQueued
<1>3. CASE DispatchFresh \/ DispatchResume
  <2>1. queue # <<>> /\ queue' = Tail(queue)
    BY <1>3 DEF DispatchFresh, DispatchResume, MayDequeue
  <2> QED BY <1>0, <2>1, TailKeepsOrder
<1>4. CASE PreemptedInMemory \/ DetachRequeues
  <2>1. cur \in Entry
    BY <1>4, EntryInHand DEF PreemptedInMemory, DetachRequeues
  <2>2. CASE shouldRequeueOnPreempt(cur)
    <3>1. queue' = enqueue(queue, Requeued(cur))
      BY <1>4, <2>2 DEF PreemptedInMemory, DetachRequeues
    <3>2. Requeued(cur) \in Entry
      BY <2>1, <2>2, RequeuedType
    <3> QED BY <1>0, <3>1, <3>2, EnqueueKeepsOrder
  <2>3. CASE ~shouldRequeueOnPreempt(cur)
    BY <1>4, <2>3 DEF PreemptedInMemory, DetachRequeues, MayRequeue
  <2> QED BY <2>2, <2>3
<1>5. ASSUME NEW s, StopBegins(s) PROVE QueueOrdered'
  BY <1>5, EmptySeq DEF StopBegins, StopSync, Ordered
<1>6. CASE ~QueueStep
  BY <1>6, OtherStepsKeepQueue
<1> QED BY <1>1, <1>2, <1>3, <1>4, <1>5, <1>6 DEF QueueStep

(* The queue is ordered in every reachable state, so that peek() and           *)
(* hasHigherPriority(), which look at the head alone, see the task that        *)
(* outranks the others.                                                        *)
THEOREM QueueStaysOrdered == Spec => []QueueOrdered
<1>1. Init => TypeInv /\ QueueOrdered
  BY InitTypes, EmptySeq DEF Init, QueueOrdered, Ordered
<1>2. TypeInv /\ QueueOrdered /\ [Next]_vars => (TypeInv /\ QueueOrdered)'
  BY TypeStep, OrderStep
<1> QED BY <1>1, <1>2, PTL DEF Spec

-----------------------------------------------------------------------------
(* One run at a time.                                                        *)

(* SerialExecution is not inductive: the loop may drop its entry at several    *)
(* places, and at each the run must be known to have stopped. So it is         *)
(* strengthened by where the loop may be while a task's run executes.          *)
SerialInv ==
  \A r \in Runs \ Dispatches :
    runs[r] = "running" => r = RunOf(cur) /\ pc \in {"race", "suspend", "abort", "finish"}

(* The steps that move the loop or change a run. *)
RunStep ==
  \/ LoopStep \/ start
  \/ \E d \in Dispatches : dispatchMethod(d)
  \/ \E r \in Runs : RunSettles(r) \/ CancelAnswers(r)

(* A step outside RunSteps leaves the runs, and the entry of a dispatch in *)
(* progress, alone.                                                        *)
LEMMA OtherStepsKeepRuns ==
  ASSUME [Next]_vars, ~RunStep
  PROVE  pc' = pc /\ cur' = cur /\ runs' = runs
BY DEF RunStep, Next, StopStep, vars, loopVars, promiseVars, lifeVars, engineVars, submit,
       awaitTask, cancelQueued, cancelRunning, dispatchMethod, DispatchSettles,
       start, stopNotStarted, ExternalAbort, stop, StopSync, StopResults,
       StopCancels, StopReturns, StopRejects, RunSettles, CancelAnswers,
       CancelFails, CallbackSettles, TimePasses, RetentionTimer

(* Every step keeps the loop serial. *)
LEMMA SerialStep ==
  ASSUME TypeInv, SerialInv, [Next]_vars
  PROVE  SerialInv'
<1> USE DEF SerialInv
<1>0. runs \in [Runs -> RunStatus]
  BY DEF TypeInv, TypeOK
<1>1. CASE LoopExit
  BY <1>1 DEF LoopExit, engineVars
<1>2. CASE LoopWait
  BY <1>2 DEF LoopWait, engineVars
<1>3. CASE LoopWakes
  BY <1>3 DEF LoopWakes, engineVars
<1>4. CASE LoopDelays
  BY <1>4 DEF LoopDelays, engineVars
<1>5. CASE LoopLooksAgain
  BY <1>5 DEF LoopLooksAgain, engineVars
<1>6. CASE DispatchFresh
  BY <1>6 DEF DispatchFresh, MayDequeue, engineVars
<1>7. CASE DispatchResume
  BY <1>7, <1>0 DEF DispatchResume, MayDequeue
<1>8. CASE CreateRunAnswers
  BY <1>8, <1>0 DEF CreateRunAnswers
<1>9. CASE failDispatch
  BY <1>9 DEF failDispatch, ToHead, engineVars
<1>10. CASE RaceSettles
  BY <1>10 DEF RaceSettles, engineVars
<1>11. CASE RaceAgain
  BY <1>11 DEF RaceAgain, engineVars
<1>12. CASE Preempt
  BY <1>12 DEF Preempt
<1>13. CASE PreemptedInMemory
  BY <1>13 DEF PreemptedInMemory, Settled, Terminal, ToHead, engineVars
<1>14. CASE SuspendAnswers
  BY <1>14, <1>0 DEF SuspendAnswers
<1>15. CASE SuspendFails
  BY <1>15 DEF SuspendFails, engineVars
<1>16. CASE GetAnswers
  BY <1>16 DEF GetAnswers, engineVars
<1>17. CASE GetFails
  BY <1>17 DEF GetFails, engineVars
<1>18. CASE NotSuspended
  BY <1>18 DEF NotSuspended, engineVars
<1>19. CASE DetachRequeues
  BY <1>19 DEF DetachRequeues, ToHead, engineVars
<1>20. CASE DropAnswers
  BY <1>20 DEF DropAnswers, ToHead, engineVars
<1>21. CASE FinishCompleted
  BY <1>21 DEF FinishCompleted, ToHead, engineVars
<1>22. CASE FinishAborted
  BY <1>22 DEF FinishAborted, ToHead, engineVars
<1>23. CASE FinishRejected
  BY <1>23 DEF FinishRejected, ToHead, engineVars
<1>24. CASE DetachDrops
  BY <1>24 DEF DetachDrops
<1>25. CASE start
  BY <1>25 DEF start, StopSync, engineVars, TypeInv, OffUnlessStarted
<1>26. ASSUME NEW d \in Dispatches, dispatchMethod(d) PROVE SerialInv'
  BY <1>26, <1>0 DEF dispatchMethod, loopVars
<1>27. ASSUME NEW r \in Runs, RunSettles(r) PROVE SerialInv'
  BY <1>27, <1>0 DEF RunSettles, loopVars
<1>28. ASSUME NEW r \in Runs, CancelAnswers(r) PROVE SerialInv'
  BY <1>28, <1>0 DEF CancelAnswers, loopVars
<1>29. CASE ~RunStep
  BY <1>29, OtherStepsKeepRuns
<1> QED BY <1>1, <1>2, <1>3, <1>4, <1>5, <1>6, <1>7, <1>8, <1>9, <1>10, <1>11, <1>12,
        <1>13, <1>14, <1>15, <1>16, <1>17, <1>18, <1>19, <1>20, <1>21, <1>22, <1>23,
        <1>24, <1>25, <1>26, <1>27, <1>28, <1>29 DEF RunStep, LoopStep

(* In every reachable state, the only run of a submitted task that executes is *)
(* the one the loop is at: neither a preemption, a cancellation, stop() nor a  *)
(* rejecting engine call ever leaves a run behind that executes unattended.    *)
THEOREM LoopIsSerial == Spec => []SerialExecution
<1>1. Init => TypeInv /\ SerialInv
  BY InitTypes DEF Init, SerialInv
<1>2. TypeInv /\ SerialInv /\ [Next]_vars => (TypeInv /\ SerialInv)'
  BY TypeStep, SerialStep
<1>3. TypeInv /\ SerialInv => SerialExecution
  BY EntryInHand, NoEntryAssumption DEF SerialInv, SerialExecution
<1> QED BY <1>1, <1>2, <1>3, PTL DEF Spec

-----------------------------------------------------------------------------
(* The entries in play: those that are queued, and the one that the loop has   *)
(* taken off the queue.                                                        *)

InPlay == Members(queue) \cup ({InHand} \ {NoEntry})

(* No two slots of the queue hold the same submission. *)
Distinct(q) == \A k, l \in 1..Len(q) : q[k].sub = q[l].sub => k = l

(* A submission is in play once at most: neither a requeue nor a new          *)
(* submission ever duplicates it.                                             *)
PlayInv ==
  /\ \A e \in InPlay : e.sub <= submits
  /\ Distinct(queue)
  /\ InHand # NoEntry => \A e \in Members(queue) : e.sub # InHand.sub

(* A submission that is not queued yet may be queued. *)
LEMMA EnqueueDistinct ==
  ASSUME NEW q \in Seq(Entry), NEW e \in Entry, Distinct(q),
         \A x \in Members(q) : x.sub # e.sub
  PROVE  Distinct(enqueue(q, e))
<1> DEFINE at == InsertionPoint(q, e)
           r == enqueue(q, e)
           n == Len(q)
<1>0. Inserted(enqueue(q, e), q, InsertionPoint(q, e), e)
  BY EnqueueProperties
<1>1. /\ at \in 1..(n + 1) /\ Len(r) = n + 1
      /\ \A k \in 1..(n + 1) :
           r[k] = IF k < at THEN q[k] ELSE IF k = at THEN e ELSE q[k - 1]
  BY <1>0 DEF Inserted
<1>2. n \in Nat /\ \A k \in 1..n : q[k].sub # e.sub
  BY LenProperties DEF Members
<1>3. \A k, l \in 1..n : q[k].sub = q[l].sub => k = l
  BY DEF Distinct
<1> HIDE DEF at, r, n
<1>4. SUFFICES ASSUME NEW k \in 1..(n + 1), NEW l \in 1..(n + 1), r[k].sub = r[l].sub
               PROVE  k = l
  BY <1>1 DEF Distinct, r
<1> DEFINE Old(x) == IF x < at THEN x ELSE x - 1
<1>5. \A x \in 1..(n + 1) : x # at => Old(x) \in 1..n /\ r[x] = q[Old(x)]
  BY <1>1, <1>2
<1>6. CASE k = at \/ l = at
  BY <1>1, <1>2, <1>4, <1>5, <1>6
<1>7. CASE k # at /\ l # at
  <2>1. Old(k) = Old(l)
    BY <1>3, <1>4, <1>5, <1>7
  <2> QED BY <1>1, <1>2, <1>7, <2>1
<1> QED BY <1>6, <1>7

(* What is behind the head is not the head's submission. *)
LEMMA TailDistinct ==
  ASSUME NEW q \in Seq(Entry), q # <<>>, Distinct(q)
  PROVE  Distinct(Tail(q)) /\ \A x \in Members(Tail(q)) : x.sub # Head(q).sub
<1> DEFINE t == Tail(q)
           n == Len(q)
<1>1. /\ Head(q) = q[1] /\ Len(t) = n - 1
      /\ \A i \in 1..(n - 1) : t[i] = q[i + 1]
  BY HeadTailProperties
<1>2. n \in Nat /\ n >= 1
  BY LenProperties, EmptySeq
<1>3. \A k, l \in 1..n : q[k].sub = q[l].sub => k = l
  BY DEF Distinct
<1> HIDE DEF n, t
<1>4. \A i \in 1..(n - 1) : i + 1 \in 1..n /\ i + 1 # 1 /\ 1 \in 1..n
  BY <1>2
<1>5. \A i \in 1..(n - 1) : t[i].sub # q[1].sub
  BY <1>1, <1>3, <1>4
<1>6. ASSUME NEW i \in 1..(n - 1), NEW j \in 1..(n - 1), t[i].sub = t[j].sub
      PROVE  i = j
  <2>1. i + 1 = j + 1
    BY <1>1, <1>3, <1>4, <1>6
  <2> QED BY <2>1
<1> QED BY <1>1, <1>5, <1>6 DEF Distinct, Members, t

(* What is left of the queue is not the removed submission. *)
LEMMA RemoveDistinct ==
  ASSUME NEW q \in Seq(Entry), NEW id, FirstWithId(q, id) # 0, Distinct(q)
  PROVE  /\ Distinct(remove(q, id))
         /\ \A x \in Members(remove(q, id)) : x.sub # q[FirstWithId(q, id)].sub
<1> DEFINE n == Len(q)
           at == FirstWithId(q, id)
           r == remove(q, id)
<1>1. /\ at \in 1..n /\ n \in Nat /\ Len(r) = n - 1
      /\ \A k \in 1..(n - 1) : r[k] = IF k < at THEN q[k] ELSE q[k + 1]
  BY RemoveProperties, LenProperties
<1>2. \A k, l \in 1..n : q[k].sub = q[l].sub => k = l
  BY DEF Distinct
<1> HIDE DEF n, at, r
<1> DEFINE Old(x) == IF x < at THEN x ELSE x + 1
<1>3. \A x \in 1..(n - 1) : Old(x) \in 1..n /\ Old(x) # at /\ r[x] = q[Old(x)]
  BY <1>1
<1>4. \A x \in 1..(n - 1) : r[x].sub # q[at].sub
  BY <1>1, <1>2, <1>3
<1>5. ASSUME NEW x \in 1..(n - 1), NEW y \in 1..(n - 1), r[x].sub = r[y].sub
      PROVE  x = y
  <2>1. Old(x) = Old(y)
    BY <1>2, <1>3, <1>5
  <2> QED BY <1>1, <2>1
<1> QED BY <1>1, <1>4, <1>5 DEF Distinct, Members, r, at

(* The members of the queue are entries. *)
LEMMA MembersAreEntries ==
  ASSUME NEW q \in Seq(Entry)
  PROVE  Members(q) \subseteq Entry
BY ElementOfSeq DEF Members

(* Every other step than those on the queue at most lets go of the entry in hand. *)
LEMMA OtherStepsLetGo ==
  ASSUME TypeInv, [Next]_vars, ~QueueStep
  PROVE  queue' = queue /\ submits' = submits /\ InHand' \in {InHand, NoEntry}
<1>1. queue' = queue
  BY OtherStepsKeepQueue
<1>2. submits' = submits
  BY DEF QueueStep, Next, LoopStep, StopStep, vars, loopVars, promiseVars, lifeVars, engineVars,
       LoopExit, LoopWait, LoopWakes, LoopDelays, LoopLooksAgain, DispatchFresh,
       DispatchResume, CreateRunAnswers, failDispatch, RaceSettles, RaceAgain,
       Preempt, PreemptedInMemory, SuspendAnswers, SuspendFails, GetAnswers,
       GetFails, NotSuspended, DetachRequeues, DetachDrops, DropAnswers,
       FinishCompleted, FinishAborted, FinishRejected, submit, awaitTask,
       cancelQueued, cancelRunning, dispatchMethod, DispatchSettles, start,
       stopNotStarted, ExternalAbort, stop, StopSync, StopResults, StopCancels,
       StopReturns, StopRejects, RunSettles, CancelAnswers, CancelFails,
       CallbackSettles, TimePasses, RetentionTimer
<1>3. InHand' \in {InHand, NoEntry}
  <2> USE DEF InHand, ToHead
  <2>1. CASE LoopStep
    BY <2>1 DEF LoopStep, QueueStep, engineVars,
       LoopExit, LoopWait, LoopWakes, LoopDelays, LoopLooksAgain, CreateRunAnswers, failDispatch,
       RaceSettles, RaceAgain, Preempt, SuspendAnswers, SuspendFails, GetAnswers,
       GetFails, NotSuspended, DetachDrops, DropAnswers, FinishCompleted, FinishAborted,
       FinishRejected
  <2>2. CASE start
    BY <2>2 DEF start, TypeInv, OffUnlessStarted
  <2>3. CASE ~RunStep
    BY <2>3, OtherStepsKeepRuns
  <2>4. ASSUME NEW d \in Dispatches, dispatchMethod(d) PROVE InHand' = InHand
    BY <2>4 DEF dispatchMethod, loopVars
  <2>5. ASSUME NEW r \in Runs, RunSettles(r) \/ CancelAnswers(r) PROVE InHand' = InHand
    BY <2>5 DEF RunSettles, CancelAnswers, loopVars
  <2> QED BY <2>1, <2>2, <2>3, <2>4, <2>5 DEF RunStep
<1> QED BY <1>1, <1>2, <1>3
(* The entry in hand is an entry, and the one of the loop. *)
LEMMA HandType ==
  ASSUME TypeInv
  PROVE  /\ queue \in Seq(Entry) /\ InHand \in Entry \cup {NoEntry}
         /\ InPlay \subseteq Entry
         /\ InHand # NoEntry => InHand = cur
<1>1. queue \in Seq(Entry) /\ cur \in Entry \cup {NoEntry}
  BY DEF TypeInv, TypeOK
<1>2. InHand \in Entry \cup {NoEntry} /\ (InHand # NoEntry => InHand = cur)
  BY <1>1 DEF InHand
<1> QED BY <1>1, <1>2, MembersAreEntries DEF InPlay

(* What the steps that touch the queue do to the entries in play. *)
LEMMA SubmitPlays ==
  ASSUME TypeInv, NEW id \in Tasks, submit(id)
  PROVE  \E e \in Entry :
           /\ e.id = id /\ e.sub = submits + 1 /\ e.requeues = 0 /\ ~e.resume
           /\ queue' = enqueue(queue, e) /\ InHand' = InHand
           /\ InPlay' = InPlay \cup {e}
           /\ submits' = submits + 1 /\ submits + 1 \in Submissions
<1> DEFINE e == [id |-> id, priority |-> Priority[id], sub |-> submits + 1,
                 requeues |-> 0, resume |-> FALSE]
<1>1. submits + 1 \in Submissions
  BY BoundsAssumption DEF submit, Submissions, TypeInv, TypeOK
<1>2. e \in Entry
  BY <1>1, TasksAssumption, BoundsAssumption DEF Entry, Attempts
<1>3. queue' = enqueue(queue, e) /\ pc' = pc /\ cur' = cur /\ submits' = submits + 1
  BY DEF submit
<1>4. e.id = id /\ e.sub = submits + 1 /\ e.requeues = 0 /\ ~e.resume
  OBVIOUS
<1> HIDE DEF e
<1>5. InHand' = InHand
  BY <1>3 DEF InHand
<1>6. Members(queue') = Members(queue) \cup {e}
  BY <1>2, <1>3, HandType, EnqueueMembers
<1>7. InPlay' = InPlay \cup {e}
  BY <1>5, <1>6 DEF InPlay
<1> QED BY <1>1, <1>2, <1>3, <1>4, <1>5, <1>7

(* cancel() takes one entry with that id out of play. *)
LEMMA CancelQueuedPlays ==
  ASSUME TypeInv, NEW id \in Tasks, cancelQueued(id)
  PROVE  LET found == queue[FirstWithId(queue, id)]
         IN  /\ found \in Entry /\ found.id = id
             /\ Members(queue) = {found} \cup Members(queue')
             /\ InHand' = InHand
<1>1. FirstWithId(queue, id) # 0 /\ queue' = remove(queue, id) /\ pc' = pc /\ cur' = cur
  BY DEF cancelQueued
<1>2. InHand' = InHand
  BY <1>1 DEF InHand
<1> QED BY <1>1, <1>2, HandType, RemoveMembers

(* A dispatch takes the head of the queue in hand. *)
LEMMA DispatchPlays ==
  ASSUME TypeInv, DispatchFresh \/ DispatchResume
  PROVE  /\ queue # <<>> /\ queue' = Tail(queue) /\ InHand = NoEntry
         /\ InHand' = Head(queue) /\ Head(queue) \in Entry
         /\ Members(queue) = {Head(queue)} \cup Members(queue')
         /\ InPlay' = InPlay /\ submits' = submits
<1>1. /\ queue # <<>> /\ queue' = Tail(queue) /\ pc \in {"head", "delay"}
      /\ pc' \in {"create", "race"} /\ cur' = Head(queue) /\ submits' = submits
  BY DEF DispatchFresh, DispatchResume, MayDequeue
<1>2. Head(queue) \in Entry
  BY <1>1, HandType, HeadTailProperties
<1>3. InHand = NoEntry /\ InHand' = Head(queue)
  BY <1>1 DEF InHand
<1>4. Members(queue) = {Head(queue)} \cup Members(queue')
  BY <1>1, HandType, TailMembers
<1>5. InPlay' = InPlay
  BY <1>2, <1>3, <1>4, NoEntryAssumption DEF InPlay
<1> QED BY <1>1, <1>2, <1>3, <1>4, <1>5

(* A requeue puts the entry in hand back, with one requeue more. *)
LEMMA RequeuePlays ==
  ASSUME TypeInv, (PreemptedInMemory /\ shouldRequeueOnPreempt(cur)) \/ DetachRequeues
  PROVE  /\ InHand = cur /\ cur \in Entry /\ Requeued(cur) \in Entry
         /\ queue' = enqueue(queue, Requeued(cur)) /\ InHand' = NoEntry
         /\ InPlay' = Members(queue) \cup {Requeued(cur)}
         /\ UNCHANGED <<promiseVars, completions, submits>>
<1>1. cur \in Entry /\ cur # NoEntry
  BY EntryInHand, NoEntryAssumption DEF PreemptedInMemory, DetachRequeues
<1>2. shouldRequeueOnPreempt(cur)
  BY DEF DetachRequeues, MayRequeue
<1>3. Requeued(cur) \in Entry
  BY <1>1, <1>2, RequeuedType
<1>4. /\ queue' = enqueue(queue, Requeued(cur)) /\ pc' = "head" /\ pc \in {"abort", "got"}
      /\ UNCHANGED <<promiseVars, completions, submits>>
  BY <1>2 DEF PreemptedInMemory, DetachRequeues, ToHead
<1>5. InHand = cur /\ InHand' = NoEntry
  BY <1>4 DEF InHand
<1>6. Members(queue') = Members(queue) \cup {Requeued(cur)}
  BY <1>3, <1>4, HandType, EnqueueMembers
<1> QED BY <1>1, <1>3, <1>4, <1>5, <1>6 DEF InPlay

(* stop() takes the queue out of play. *)
LEMMA StopPlays ==
  ASSUME TypeInv, NEW s, StopBegins(s)
  PROVE  /\ queue' = <<>> /\ Members(queue') = {} /\ InHand' = InHand
         /\ submits' = submits /\ completions' = completions
<1>1. queue' = <<>> /\ submits' = submits /\ completions' = completions
  BY DEF StopBegins, StopSync
<1>2. Members(queue') = {}
  BY <1>1, EmptySeq DEF Members
<1>3. InHand' = InHand
  BY DEF StopBegins, start, ExternalAbort, stop, InHand, TypeInv, OffUnlessStarted
<1> QED BY <1>1, <1>2, <1>3
(* Every step keeps the submissions in play distinct. *)
LEMMA PlayStep ==
  ASSUME TypeInv, PlayInv, [Next]_vars
  PROVE  PlayInv'
<1>0. queue \in Seq(Entry) /\ submits \in Nat
  BY BoundsAssumption DEF TypeInv, TypeOK
<1>1. ASSUME NEW id \in Tasks, submit(id) PROVE PlayInv'
  <2>1. PICK e \in Entry :
           /\ e.sub = submits + 1
           /\ queue' = enqueue(queue, e) /\ InHand' = InHand
           /\ InPlay' = InPlay \cup {e}
           /\ submits' = submits + 1
    BY <1>1, SubmitPlays
  <2>2. \A x \in InPlay : x.sub \in Nat /\ x.sub <= submits
    BY HandType, BoundsAssumption DEF PlayInv, Entry, Submissions
  <2>3. \A x \in InPlay : x.sub # e.sub /\ x.sub <= submits + 1
    BY <1>0, <2>1, <2>2
  <2>4. Members(queue') = Members(queue) \cup {e}
    BY <1>0, <2>1, EnqueueMembers
  <2>5. Distinct(queue')
    BY <1>0, <2>1, <2>3, EnqueueDistinct DEF PlayInv, InPlay
  <2>6. InHand # NoEntry => \A x \in Members(queue) \cup {e} : x.sub # InHand.sub
    BY <2>3 DEF PlayInv, InPlay
  <2> QED BY <1>0, <2>1, <2>3, <2>4, <2>5, <2>6 DEF PlayInv
<1>2. ASSUME NEW id \in Tasks, cancelQueued(id) PROVE PlayInv'
  <2>1. /\ Members(queue') \subseteq Members(queue)
        /\ InHand' = InHand
    BY <1>2, CancelQueuedPlays
  <2>2. Distinct(queue') /\ submits' = submits
    BY <1>0, <1>2, RemoveDistinct DEF PlayInv, cancelQueued
  <2> QED BY <2>1, <2>2 DEF PlayInv, InPlay
<1>3. CASE DispatchFresh \/ DispatchResume
  <2>1. /\ queue # <<>> /\ queue' = Tail(queue) /\ InHand' = Head(queue)
        /\ InPlay' = InPlay /\ submits' = submits
    BY <1>3, DispatchPlays
  <2>2. Distinct(queue') /\ \A x \in Members(queue') : x.sub # Head(queue).sub
    BY <1>0, <2>1, TailDistinct DEF PlayInv
  <2> QED BY <2>1, <2>2 DEF PlayInv
<1>4. CASE (PreemptedInMemory /\ shouldRequeueOnPreempt(cur)) \/ DetachRequeues
  <2>1. /\ InHand = cur /\ cur \in Entry /\ Requeued(cur) \in Entry /\ submits' = submits
        /\ queue' = enqueue(queue, Requeued(cur)) /\ InHand' = NoEntry
        /\ InPlay' = Members(queue) \cup {Requeued(cur)}
    BY <1>4, RequeuePlays
  <2>2. Requeued(cur).sub = cur.sub /\ cur \in InPlay
    BY <2>1, NoEntryAssumption DEF Requeued, InPlay
  <2>3. \A x \in Members(queue) : x.sub # Requeued(cur).sub
    BY <2>1, <2>2, NoEntryAssumption DEF PlayInv
  <2>4. Distinct(queue')
    BY <1>0, <2>1, <2>3, EnqueueDistinct DEF PlayInv
  <2>5. \A x \in InPlay' : x.sub <= submits'
    BY <2>1, <2>2 DEF PlayInv, InPlay
  <2> QED BY <2>1, <2>4, <2>5 DEF PlayInv
<1>5. ASSUME NEW s, StopBegins(s) PROVE PlayInv'
  <2>1. Distinct(queue')
    BY <1>5, StopPlays, EmptySeq DEF Distinct
  <2> QED BY <1>5, <2>1, StopPlays DEF PlayInv, InPlay
<1>6. ASSUME queue' = queue, submits' = submits, InHand' \in {InHand, NoEntry}
      PROVE  PlayInv'
  BY <1>6 DEF PlayInv, InPlay
<1>7. CASE PreemptedInMemory /\ ~shouldRequeueOnPreempt(cur)
  <2>1. queue' = queue /\ submits' = submits /\ InHand' = NoEntry
    BY <1>7 DEF PreemptedInMemory, ToHead, InHand
  <2> QED BY <1>6, <2>1
<1>8. CASE ~QueueStep
  BY <1>6, <1>8, OtherStepsLetGo
<1> QED BY <1>1, <1>2, <1>3, <1>4, <1>5, <1>7, <1>8 DEF QueueStep

(* At first nothing is in play. *)
LEMMA InitPlay == Init => PlayInv
<1> SUFFICES ASSUME Init PROVE PlayInv
  OBVIOUS
<1>1. queue = <<>> /\ Members(queue) = {} /\ InHand = NoEntry
  BY EmptySeq DEF Init, Members, InHand
<1> QED BY <1>1, EmptySeq DEF PlayInv, InPlay, Distinct

-----------------------------------------------------------------------------
(* First come, first served.                                                 *)

(* Tasks of one priority have one weight. *)
LEMMA SamePrioritySameWeight ==
  ASSUME NEW a, NEW b, a.priority = b.priority
  PROVE  WeightOf(a) = WeightOf(b)
BY DEF WeightOf

(* In line: what FirstComeFirstServed says of a queue. *)
InLine(q) ==
  \A i, j \in 1..Len(q) :
    (i < j /\ q[i].priority = q[j].priority /\ q[i].requeues + q[j].requeues = 0)
      => q[i].sub < q[j].sub

(* A newcomer, or a task that was preempted before, leaves the others in line. *)
LEMMA EnqueueInLine ==
  ASSUME NEW q \in Seq(Entry), Ordered(q), InLine(q), NEW e \in Entry,
         e.requeues = 0 => \A x \in Members(q) : x.sub < e.sub
  PROVE  InLine(enqueue(q, e))
<1> DEFINE at == InsertionPoint(q, e)
           r == enqueue(q, e)
           n == Len(q)
<1>0. Inserted(enqueue(q, e), q, InsertionPoint(q, e), e)
  BY EnqueueProperties
<1>1. /\ at \in 1..(n + 1) /\ Len(r) = n + 1
      /\ \A k \in 1..(n + 1) :
           r[k] = IF k < at THEN q[k] ELSE IF k = at THEN e ELSE q[k - 1]
  BY <1>0 DEF Inserted
<1>2. /\ n \in Nat /\ e.requeues \in Nat
      /\ \A k \in 1..n : q[k].requeues \in Nat /\ q[k].sub \in Nat
      /\ e.requeues = 0 => \A k \in 1..n : q[k].sub < e.sub
  <2>1. n \in Nat /\ \A k \in 1..n : q[k] \in Entry
    BY LenProperties, ElementOfSeq
  <2>2. \A x \in Entry : x.requeues \in Nat /\ x.sub \in Nat
    BY BoundsAssumption DEF Entry, Attempts, Submissions
  <2> QED BY <2>1, <2>2 DEF Members
<1>3. \A i, j \in 1..n :
        (i < j /\ q[i].priority = q[j].priority /\ q[i].requeues + q[j].requeues = 0)
          => q[i].sub < q[j].sub
  BY DEF InLine
<1>4. \A k \in 1..n : k >= at => q[k].priority # e.priority
  <2>1. \A k \in 1..n : k >= at => WeightOf(q[k]) > WeightOf(e)
    BY EntryIsItem, InsertionPointSeparates
  <2>2. WeightOf(e) \in Nat
    BY WeightType DEF Entry
  <2>3. \A k \in 1..n : k >= at => WeightOf(q[k]) # WeightOf(e)
    BY <2>1, <2>2
  <2> QED BY <2>3, SamePrioritySameWeight
<1> HIDE DEF at, r, n
<1>5. SUFFICES ASSUME NEW i \in 1..(n + 1), NEW j \in 1..(n + 1), i < j,
                      r[i].priority = r[j].priority, r[i].requeues + r[j].requeues = 0
               PROVE  r[i].sub < r[j].sub
  BY <1>1 DEF InLine, r
<1> DEFINE Old(x) == IF x < at THEN x ELSE x - 1
<1>6. \A x \in 1..(n + 1) : x # at => Old(x) \in 1..n /\ r[x] = q[Old(x)]
  BY <1>1, <1>2
<1>7. CASE i = at
  <2>1. Old(j) \in 1..n /\ Old(j) >= at /\ r[j] = q[Old(j)] /\ r[i] = e
    BY <1>1, <1>2, <1>5, <1>6, <1>7
  <2> QED BY <1>4, <1>5, <2>1
<1>8. CASE j = at
  <2>1. Old(i) \in 1..n /\ r[i] = q[Old(i)] /\ r[j] = e
    BY <1>1, <1>2, <1>5, <1>6, <1>8
  <2>2. e.requeues = 0
    BY <1>2, <1>5, <2>1
  <2> QED BY <1>2, <2>1, <2>2
<1>9. CASE i # at /\ j # at
  <2>1. Old(i) < Old(j)
    BY <1>1, <1>2, <1>5, <1>9
  <2> HIDE DEF Old
  <2> QED BY <1>3, <1>5, <1>6, <1>9, <2>1
<1> QED BY <1>7, <1>8, <1>9

(* Taking an entry out of the line leaves the others in it. *)
LEMMA ShrinkInLine ==
  ASSUME NEW q \in Seq(Entry), InLine(q)
  PROVE  /\ q # <<>> => InLine(Tail(q))
         /\ \A id : InLine(remove(q, id))
<1>1. Len(q) \in Nat
  BY LenProperties
<1>2. ASSUME q # <<>> PROVE InLine(Tail(q))
  <2>1. /\ Len(Tail(q)) = Len(q) - 1
        /\ \A i \in 1..(Len(q) - 1) : Tail(q)[i] = q[i + 1]
    BY <1>2, HeadTailProperties
  <2> DEFINE t == Tail(q)
  <2> HIDE DEF t
  <2>2. SUFFICES ASSUME NEW i \in 1..(Len(q) - 1), NEW j \in 1..(Len(q) - 1), i < j,
                        t[i].priority = t[j].priority, t[i].requeues + t[j].requeues = 0
                 PROVE  t[i].sub < t[j].sub
    BY <2>1 DEF InLine, t
  <2>3. i + 1 \in 1..Len(q) /\ j + 1 \in 1..Len(q) /\ i + 1 < j + 1
    BY <1>1, <2>2
  <2>4. t[i] = q[i + 1] /\ t[j] = q[j + 1]
    BY <2>1 DEF t
  <2> QED BY <2>2, <2>3, <2>4 DEF InLine
<1>3. ASSUME NEW id PROVE InLine(remove(q, id))
  <2> DEFINE at == FirstWithId(q, id)
             r == remove(q, id)
             n == Len(q)
  <2>1. CASE at = 0
    BY <2>1, RemoveProperties
  <2>2. CASE at # 0
    <3>1. /\ at \in 0..n /\ Len(r) = n - 1
          /\ \A k \in 1..(n - 1) : r[k] = IF k < at THEN q[k] ELSE q[k + 1]
      BY <2>2, RemoveProperties
    <3> HIDE DEF at, r
    <3> DEFINE Old(x) == IF x < at THEN x ELSE x + 1
    <3>2. SUFFICES ASSUME NEW i \in 1..(n - 1), NEW j \in 1..(n - 1), i < j,
                          r[i].priority = r[j].priority, r[i].requeues + r[j].requeues = 0
                   PROVE  r[i].sub < r[j].sub
      BY <3>1 DEF InLine, r
    <3>3. /\ Old(i) \in 1..n /\ Old(j) \in 1..n /\ Old(i) < Old(j)
          /\ r[i] = q[Old(i)] /\ r[j] = q[Old(j)]
      BY <1>1, <3>1, <3>2
    <3> QED BY <3>2, <3>3 DEF InLine
  <2> QED BY <2>1, <2>2
<1> QED BY <1>2, <1>3

(* Every step leaves the queue in line. *)
LEMMA InLineStep ==
  ASSUME TypeInv, PlayInv, QueueOrdered, InLine(queue), [Next]_vars
  PROVE  InLine(queue')
<1>0. queue \in Seq(Entry) /\ submits \in Nat /\ Ordered(queue)
  BY BoundsAssumption DEF TypeInv, TypeOK, QueueOrdered
<1>1. ASSUME NEW id \in Tasks, submit(id) PROVE InLine(queue')
  <2>1. PICK e \in Entry : e.sub = submits + 1 /\ queue' = enqueue(queue, e)
    BY <1>1, SubmitPlays
  <2>2. \A x \in Members(queue) : x.sub \in Nat /\ x.sub <= submits
    BY HandType, BoundsAssumption DEF PlayInv, InPlay, Entry, Submissions
  <2>3. \A x \in Members(queue) : x.sub < e.sub
    BY <1>0, <2>1, <2>2
  <2> QED BY <1>0, <2>1, <2>3, EnqueueInLine
<1>2. ASSUME NEW id \in Tasks, cancelQueued(id) PROVE InLine(queue')
  BY <1>0, <1>2, ShrinkInLine DEF cancelQueued
<1>3. CASE DispatchFresh \/ DispatchResume
  BY <1>0, <1>3, ShrinkInLine, DispatchPlays
<1>4. CASE (PreemptedInMemory /\ shouldRequeueOnPreempt(cur)) \/ DetachRequeues
  <2>1. cur \in Entry /\ Requeued(cur) \in Entry /\ queue' = enqueue(queue, Requeued(cur))
    BY <1>4, RequeuePlays
  <2>2. Requeued(cur).requeues # 0
    BY <2>1, BoundsAssumption DEF Requeued, Entry, Attempts
  <2> QED BY <1>0, <2>1, <2>2, EnqueueInLine
<1>5. ASSUME NEW s, StopBegins(s) PROVE InLine(queue')
  BY <1>5, StopPlays, EmptySeq DEF InLine
<1>6. CASE PreemptedInMemory /\ ~shouldRequeueOnPreempt(cur)
  BY <1>6 DEF PreemptedInMemory
<1>7. CASE ~QueueStep
  BY <1>7, OtherStepsKeepQueue
<1> QED BY <1>1, <1>2, <1>3, <1>4, <1>5, <1>6, <1>7 DEF QueueStep

(* In every reachable state, tasks of one priority that were never preempted   *)
(* stand in the queue in the order of their submission, whatever is cancelled, *)
(* preempted and requeued around them.                                         *)
THEOREM QueueIsFair == Spec => []FirstComeFirstServed
<1> DEFINE Inv == TypeInv /\ PlayInv /\ QueueOrdered /\ InLine(queue)
<1>1. Init => Inv
  <2>1. Init => QueueOrdered /\ InLine(queue)
    BY EmptySeq DEF Init, QueueOrdered, Ordered, InLine
  <2> QED BY <2>1, InitTypes, InitPlay
<1>2. Inv /\ [Next]_vars => Inv'
  BY TypeStep, PlayStep, OrderStep, InLineStep
<1>3. Inv => FirstComeFirstServed
  BY DEF InLine, FirstComeFirstServed
<1> HIDE DEF Inv
<1> QED BY <1>1, <1>2, <1>3, PTL DEF Spec
-----------------------------------------------------------------------------
(* What a step does to the promises.  The 45 actions make seven moves, and the *)
(* proofs about promises go by the moves.                                      *)

(* Nothing happens to a promise, and no entry comes or goes. *)
Kept == InPlay' = InPlay /\ UNCHANGED <<promiseVars, completions, submits>>

(* A stop() begins or has awaited the cancellations. *)
StopSettles ==
  \/ \E s \in {Signal} \cup Stoppers : StopBegins(s)
  \/ \E s \in Stoppers : StopCancels(s)

(* The promises of some ids settle, and only their entries go out of play: one *)
(* entry, or what a stop() finds.                                              *)
Released(ids, outcome) ==
  /\ settleTask(ids, outcome) /\ outcome # "result"
  /\ InPlay' \subseteq InPlay
  /\ \A e \in InPlay : e.id \notin ids => e \in InPlay'
  /\ StopSettles \/ \E f \in InPlay : ids = {f.id} /\ \A e \in InPlay' : e.sub # f.sub
  /\ UNCHANGED <<completions, submits>>

(* The entry in hand goes back to the queue. *)
Requeues == (PreemptedInMemory /\ shouldRequeueOnPreempt(cur)) \/ DetachRequeues

(* Retained outcomes are forgotten. *)
Forgotten ==
  /\ InPlay' = InPlay
  /\ Purge \/ \E id \in Tasks : RetentionTimer(id)
  /\ UNCHANGED <<resolvers, settled, waiters, completions, submits>>

Move ==
  \/ Kept \/ FinishCompleted \/ Requeues \/ Forgotten
  \/ \E id \in Tasks : submit(id) \/ awaitTask(id)
  \/ \E ids \in SUBSET Tasks, outcome \in Outcome : Released(ids, outcome)

(* The loop settles the promise of the entry in hand and lets go of it. *)
LEMMA HandReleases ==
  ASSUME TypeInv, PlayInv, NEW outcome \in Outcome, outcome # "result",
         pc \notin {"off", "head", "wait", "delay"}, pc' = "head", queue' = queue,
         settleTask({cur.id}, outcome), UNCHANGED <<completions, submits>>
  PROVE  \E ids \in SUBSET Tasks : Released(ids, outcome)
<1>1. cur \in Entry /\ cur.id \in Tasks
  BY EntryInHand
<1>2. InHand = cur /\ InHand' = NoEntry
  BY DEF InHand
<1>3. InPlay' = Members(queue) /\ InPlay = Members(queue) \cup {cur}
  BY <1>1, <1>2, NoEntryAssumption DEF InPlay
<1>4. \A e \in Members(queue) : e.sub # cur.sub
  BY <1>1, <1>2, NoEntryAssumption DEF PlayInv
<1>5. Released({cur.id}, outcome)
  BY <1>3, <1>4 DEF Released
<1> QED BY <1>1, <1>5

(* A stop() settles what is queued. *)
LEMMA StopReleases ==
  ASSUME TypeInv, NEW s \in {Signal} \cup Stoppers, StopBegins(s)
  PROVE  \E ids \in SUBSET Tasks : Released(ids, "null")
<1>1. settleTask(QueuedIds, "null")
  BY DEF StopBegins, StopSync
<1>2. QueuedIds \subseteq Tasks /\ \A e \in Members(queue) : e.id \in QueuedIds
  <2>1. Members(queue) \subseteq Entry
    BY HandType, MembersAreEntries
  <2>2. \A i \in 1..Len(queue) : queue[i].id \in Tasks
    BY <2>1 DEF Members, Entry
  <2> QED BY <2>2 DEF QueuedIds, Members
<1>3. InPlay' = {InHand} \ {NoEntry} /\ UNCHANGED <<completions, submits>>
  BY StopPlays DEF InPlay
<1>4. Released(QueuedIds, "null")
  BY <1>1, <1>2, <1>3 DEF Released, InPlay, StopSettles
<1> QED BY <1>2, <1>4

(* A step that leaves the queue and the promises alone, and the loop where it  *)
(* had no entry in hand or has the same one, keeps everything.                 *)
LEMMA LoopKeeps ==
  ASSUME UNCHANGED <<queue, promiseVars, completions, submits>>, InHand' = InHand
  PROVE  Move
BY DEF Move, Kept, InPlay

(* Every step of the scheduler is one of the moves. *)
LEMMA StepMoves ==
  ASSUME TypeInv, PlayInv, [Next]_vars
  PROVE  Move
<1> USE DEF loopVars, promiseVars, lifeVars, engineVars
<1>1. CASE UNCHANGED vars
  BY <1>1, LoopKeeps DEF vars, InHand
<1>2. ASSUME NEW id \in Tasks, submit(id) \/ awaitTask(id) PROVE Move
  BY <1>2 DEF Move
<1>3. ASSUME NEW id \in Tasks, cancelQueued(id) PROVE Move
  <2>1. settleTask({id}, "null") /\ UNCHANGED <<completions, submits>>
    BY <1>3 DEF cancelQueued
  <2>2. /\ InPlay' \subseteq InPlay
        /\ \A e \in InPlay : e.id # id => e \in InPlay'
    BY <1>3, CancelQueuedPlays DEF InPlay
  <2>3. PICK f \in InPlay : f.id = id /\ \A e \in InPlay' : e.sub # f.sub
    <3> DEFINE f == queue[FirstWithId(queue, id)]
    <3>1. /\ f \in Members(queue) /\ f.id = id /\ InHand' = InHand
          /\ Members(queue') \subseteq Members(queue)
      BY <1>3, CancelQueuedPlays
    <3>2. \A e \in Members(queue') : e.sub # f.sub
      BY <1>3, HandType, RemoveDistinct DEF PlayInv, cancelQueued
    <3>3. InHand # NoEntry => InHand.sub # f.sub
      BY <3>1 DEF PlayInv
    <3> HIDE DEF f
    <3> QED BY <3>1, <3>2, <3>3 DEF InPlay
  <2>4. Released({id}, "null")
    BY <2>1, <2>2, <2>3 DEF Released
  <2> QED BY <2>4 DEF Move, Outcome
<1>4. ASSUME NEW id \in Tasks \cup Dispatches, cancelRunning(id) PROVE Move
  BY <1>4, LoopKeeps DEF cancelRunning, InHand
<1>5. ASSUME NEW d \in Dispatches, dispatchMethod(d) \/ DispatchSettles(d) PROVE Move
  BY <1>5, LoopKeeps DEF dispatchMethod, DispatchSettles, InHand
<1>6. CASE LoopExit \/ LoopWait \/ LoopWakes \/ LoopDelays \/ LoopLooksAgain
  BY <1>6, LoopKeeps DEF LoopExit, LoopWait, LoopWakes, LoopDelays, LoopLooksAgain, InHand
<1>7. CASE DispatchFresh \/ DispatchResume
  BY <1>7, DispatchPlays DEF DispatchFresh, DispatchResume, Move, Kept
<1>8. CASE \/ CreateRunAnswers \/ RaceSettles \/ RaceAgain \/ Preempt \/ SuspendAnswers
           \/ SuspendFails \/ GetAnswers \/ GetFails \/ NotSuspended \/ DetachDrops
  BY <1>8, LoopKeeps DEF CreateRunAnswers, RaceSettles, RaceAgain, Preempt, SuspendAnswers,
     SuspendFails, GetAnswers, GetFails, NotSuspended, DetachDrops, InHand
<1>9. CASE failDispatch
  BY <1>9, HandReleases DEF failDispatch, ToHead, Outcome, Move
<1>10. CASE PreemptedInMemory /\ ~shouldRequeueOnPreempt(cur)
  BY <1>10, HandReleases DEF PreemptedInMemory, ToHead, Outcome, Move
<1>11. CASE DropAnswers
  BY <1>11, HandReleases DEF DropAnswers, ToHead, Outcome, Move
<1>12. CASE FinishAborted
  BY <1>12, HandReleases DEF FinishAborted, ToHead, Outcome, Move
<1>13. CASE FinishRejected
  <2>1. PICK outcome \in {"null", "error"} : settleTask({cur.id}, outcome)
    BY <1>13 DEF FinishRejected
  <2> QED BY <1>13, <2>1, HandReleases DEF FinishRejected, ToHead, Outcome, Move
<1>14. CASE FinishCompleted \/ Requeues
  BY <1>14 DEF Move
<1>15. ASSUME NEW s \in {Signal} \cup Stoppers, StopBegins(s) PROVE Move
  BY <1>15, StopReleases DEF Move, Outcome
<1>16. CASE start /\ ~signalled
  BY <1>16, LoopKeeps DEF start, InHand, TypeInv, OffUnlessStarted
<1>17. CASE stopNotStarted
  BY <1>17 DEF stopNotStarted, Move, Forgotten, InPlay, InHand
<1>18. CASE ExternalAbort /\ ~started
  <2>1. InPlay' = InPlay
    BY <1>18 DEF ExternalAbort, InPlay, InHand
  <2> QED BY <1>18, <2>1 DEF ExternalAbort, Move, Forgotten, Kept
<1>19. ASSUME NEW s \in Stoppers, StopResults(s) PROVE Move
  BY <1>19, LoopKeeps DEF StopResults, InHand
<1>20. ASSUME NEW s \in Stoppers, StopCancels(s) PROVE Move
  <2>1. Released(Tasks, "null")
    <3>1. InPlay' = InPlay
      BY <1>20 DEF StopCancels, InPlay, InHand
    <3>2. settleTask(Tasks, "null") /\ UNCHANGED <<completions, submits>>
      BY <1>20 DEF StopCancels
    <3> QED BY <1>20, <3>1, <3>2 DEF Released, StopSettles
  <2> QED BY <2>1 DEF Move, Outcome
<1>21. CASE StopReturns
  BY <1>21 DEF StopReturns, Move, Forgotten, InPlay, InHand
<1>22. CASE StopRejects
  BY <1>22, LoopKeeps DEF StopRejects, InHand
<1>23. ASSUME NEW r \in Runs, RunSettles(r) \/ CancelAnswers(r) \/ CancelFails(r) PROVE Move
  BY <1>23, LoopKeeps DEF RunSettles, CancelAnswers, CancelFails, InHand
<1>24. ASSUME NEW c \in Callback, CallbackSettles(c) PROVE Move
  BY <1>24, LoopKeeps DEF CallbackSettles, InHand
<1>25. CASE TimePasses
  BY <1>25, LoopKeeps DEF TimePasses, InHand
<1>26. ASSUME NEW id \in Tasks, RetentionTimer(id) PROVE Move
  BY <1>26 DEF RetentionTimer, Move, Forgotten, InPlay, InHand
<1>27. start => (start /\ ~signalled) \/ StopBegins(Signal)
  BY DEF start, StopBegins
<1>28. ExternalAbort => (ExternalAbort /\ ~started) \/ StopBegins(Signal)
  BY DEF ExternalAbort, StopBegins
<1>29. \A s : stop(s) => StopBegins(s)
  BY DEF stop, StopBegins
<1>30. PreemptedInMemory \/ DetachRequeues
         => (PreemptedInMemory /\ ~shouldRequeueOnPreempt(cur)) \/ Requeues
  BY DEF Requeues
<1> QED BY <1>1, <1>2, <1>3, <1>4, <1>5, <1>6, <1>7, <1>8, <1>9, <1>10, <1>11, <1>12, <1>13,
        <1>14, <1>15, <1>16, <1>17, <1>18, <1>19, <1>20, <1>21, <1>22, <1>23, <1>24, <1>25,
        <1>26, <1>27, <1>28, <1>29, <1>30 DEF Next, LoopStep, StopStep
-----------------------------------------------------------------------------
(* No promise is forgotten, and none settles twice.                          *)

(* A registered resolver belongs to a pending promise whose task is in play,  *)
(* and nothing is retained about its id.                                      *)
RegisteredInv ==
  \A id \in Tasks : resolvers[id] # 0 =>
    /\ settled[resolvers[id]] = "pending"
    /\ retained[id] = "none"
    /\ \E e \in InPlay : e.id = id /\ e.sub = resolvers[id]

(* Two ids never share a submission. *)
ResolversDiffer ==
  \A a, b \in Tasks : resolvers[a] # 0 /\ resolvers[a] = resolvers[b] => a = b

(* A pending promise has its resolver registered. *)
PendingInv ==
  \A s \in Submissions : settled[s] = "pending" => \E id \in Tasks : resolvers[id] = s

(* Nothing is known of a submission that was not made. *)
FutureInv == \A s \in Submissions : s > submits => settled[s] = "none"

WaitersInv == \A id \in waiters : resolvers[id] # 0

(* The inductive invariant behind NoOrphanedPromise and SettledForGood: each   *)
(* clause is what another one needs when settleTask() takes a resolver away.   *)
PromiseInv == RegisteredInv /\ ResolversDiffer /\ PendingInv /\ FutureInv /\ WaitersInv

(* The types that the proofs about promises use. *)
LEMMA PromiseTypes ==
  ASSUME TypeInv
  PROVE  /\ submits \in Nat /\ waiters \subseteq Tasks
         /\ resolvers \in [Tasks -> 0..MaxSubmits]
         /\ \A id \in Tasks : resolvers[id] # 0 => resolvers[id] \in Submissions
         /\ settled \in [Submissions -> {"none", "pending"} \cup Outcome]
         /\ retained \in [Tasks -> {"none", "tombstone"} \cup Outcome]
         /\ \A s \in Submissions : s \in Nat
BY BoundsAssumption DEF TypeInv, TypeOK, Submissions

(* Settling the promises of some ids keeps the invariant, if only entries of   *)
(* these ids leave play.                                                       *)
LEMMA SettleKeepsPromises ==
  ASSUME TypeInv, PromiseInv, NEW ids \in SUBSET Tasks, NEW outcome \in Outcome,
         settleTask(ids, outcome), submits' = submits,
         \A e \in InPlay : e.id \notin ids => e \in InPlay'
  PROVE  PromiseInv'
<1> USE PromiseTypes
<1> DEFINE registered == {id \in ids : resolvers[id] # 0}
<1>1. /\ settled' = [s \in Submissions |->
                       IF \E id \in registered : resolvers[id] = s THEN outcome ELSE settled[s]]
      /\ resolvers' = [id \in Tasks |-> IF id \in ids THEN 0 ELSE resolvers[id]]
      /\ retained' = [id \in Tasks |-> IF id \in registered THEN outcome ELSE retained[id]]
      /\ waiters' = waiters \ registered
  BY DEF settleTask
<1>2. ASSUME NEW id \in Tasks, resolvers'[id] # 0
      PROVE  /\ settled'[resolvers'[id]] = "pending"
             /\ retained'[id] = "none"
             /\ \E e \in InPlay' : e.id = id /\ e.sub = resolvers'[id]
  <2>1. id \notin ids /\ resolvers'[id] = resolvers[id] /\ resolvers[id] # 0
    BY <1>1, <1>2
  <2>2. \A a \in registered : resolvers[a] # resolvers[id]
    BY <2>1 DEF PromiseInv, ResolversDiffer
  <2>3. settled'[resolvers[id]] = settled[resolvers[id]]
    BY <1>1, <2>1, <2>2
  <2> QED BY <1>1, <2>1, <2>3 DEF PromiseInv, RegisteredInv
<1>3. RegisteredInv'
  BY <1>2 DEF RegisteredInv
<1>4. ResolversDiffer'
  BY <1>1 DEF PromiseInv, ResolversDiffer
<1>5. PendingInv'
  <2> SUFFICES ASSUME NEW s \in Submissions, settled'[s] = "pending"
               PROVE  \E id \in Tasks : resolvers'[id] = s
    BY DEF PendingInv
  <2>1. settled[s] = "pending" /\ ~\E id \in registered : resolvers[id] = s
    BY <1>1 DEF Outcome
  <2>2. PICK id \in Tasks : resolvers[id] = s
    BY <2>1 DEF PromiseInv, PendingInv
  <2>3. resolvers[id] # 0
    BY <2>2, BoundsAssumption DEF Submissions
  <2>4. id \notin ids
    BY <2>1, <2>2, <2>3
  <2> QED BY <1>1, <2>2, <2>4
<1>6. FutureInv'
  <2> SUFFICES ASSUME NEW s \in Submissions, s > submits
               PROVE  settled'[s] = "none"
    BY DEF FutureInv
  <2>1. settled[s] = "none"
    BY DEF PromiseInv, FutureInv
  <2>2. \A id \in Tasks : resolvers[id] # s
    BY <2>1, BoundsAssumption DEF PromiseInv, RegisteredInv, Submissions
  <2> QED BY <1>1, <2>1, <2>2
<1>7. WaitersInv'
  BY <1>1 DEF PromiseInv, WaitersInv
<1> QED BY <1>3, <1>4, <1>5, <1>6, <1>7 DEF PromiseInv

(* Every move keeps the promises. *)
LEMMA PromiseStep ==
  ASSUME TypeInv, PlayInv, PromiseInv, [Next]_vars
  PROVE  PromiseInv'
<1> USE PromiseTypes
<1>0. Move
  BY StepMoves
<1>1. CASE Kept
  BY <1>1 DEF Kept, promiseVars, PromiseInv, RegisteredInv, ResolversDiffer, PendingInv,
     FutureInv, WaitersInv
<1>2. CASE FinishCompleted
  <2>1. cur.id \in Tasks /\ settleTask({cur.id}, "result") /\ submits' = submits
    BY <1>2, EntryInHand DEF FinishCompleted
  <2>2. InHand = cur /\ queue' = queue
    BY <1>2 DEF FinishCompleted, InHand
  <2>3. \A e \in InPlay : e.id \notin {cur.id} => e \in InPlay'
    BY <2>2 DEF InPlay
  <2> QED BY <2>1, <2>3, SettleKeepsPromises DEF Outcome
<1>3. CASE Requeues
  <2>1. /\ InHand = cur /\ cur \in Entry
        /\ InPlay' = Members(queue) \cup {Requeued(cur)}
        /\ UNCHANGED <<promiseVars, completions, submits>>
    BY <1>3, RequeuePlays DEF Requeues
  <2>2. Requeued(cur).id = cur.id /\ Requeued(cur).sub = cur.sub
    BY DEF Requeued
  <2>3. \A e \in InPlay : \E f \in InPlay' : f.id = e.id /\ f.sub = e.sub
    BY <2>1, <2>2 DEF InPlay
  <2>4. RegisteredInv'
    BY <2>1, <2>3 DEF PromiseInv, RegisteredInv, promiseVars
  <2> QED BY <2>1, <2>4 DEF promiseVars, PromiseInv, ResolversDiffer, PendingInv,
          FutureInv, WaitersInv
<1>4. CASE Forgotten
  <2>1. \A id \in Tasks : retained[id] = "none" => retained'[id] = "none"
    BY <1>4 DEF Forgotten, Purge, RetentionTimer
  <2> QED BY <1>4, <2>1 DEF Forgotten, PromiseInv, RegisteredInv, ResolversDiffer, PendingInv,
          FutureInv, WaitersInv
<1>5. ASSUME NEW id \in Tasks, submit(id) PROVE PromiseInv'
  <2>1. PICK e \in Entry :
          /\ e.id = id /\ e.sub = submits + 1 /\ InPlay' = InPlay \cup {e}
          /\ submits' = submits + 1 /\ submits + 1 \in Submissions
    BY <1>5, SubmitPlays
  <2>2. /\ resolvers' = [resolvers EXCEPT ![id] = submits + 1]
        /\ settled' = [settled EXCEPT ![submits + 1] = "pending"]
        /\ retained' = [retained EXCEPT ![id] = "none"]
        /\ waiters' = waiters
    BY <1>5 DEF submit
  <2>3. settled[submits + 1] = "none"
    BY <2>1 DEF PromiseInv, FutureInv
  <2>4. \A a \in Tasks : resolvers[a] # submits + 1
    BY <2>1, <2>3, BoundsAssumption DEF PromiseInv, RegisteredInv, Submissions
  <2>5. RegisteredInv'
    BY <2>1, <2>2, <2>4 DEF PromiseInv, RegisteredInv
  <2>6. ResolversDiffer'
    BY <2>2, <2>4 DEF PromiseInv, ResolversDiffer
  <2>7. PendingInv'
    <3> SUFFICES ASSUME NEW s \in Submissions, settled'[s] = "pending"
                 PROVE  \E a \in Tasks : resolvers'[a] = s
      BY DEF PendingInv
    <3>1. CASE s = submits + 1
      BY <2>2, <3>1
    <3>2. CASE s # submits + 1
      <4>1. PICK a \in Tasks : resolvers[a] = s
        BY <2>2, <3>2 DEF PromiseInv, PendingInv
      <4>2. resolvers[id] = 0 /\ s # 0
        BY <1>5, BoundsAssumption DEF submit, Submissions
      <4> QED BY <2>2, <4>1, <4>2
    <3> QED BY <3>1, <3>2
  <2>8. FutureInv'
    BY <2>1, <2>2 DEF PromiseInv, FutureInv
  <2>9. WaitersInv'
    BY <2>2 DEF PromiseInv, WaitersInv
  <2> QED BY <2>5, <2>6, <2>7, <2>8, <2>9 DEF PromiseInv
<1>6. ASSUME NEW id \in Tasks, awaitTask(id) PROVE PromiseInv'
  <2>1. InPlay' = InPlay
    BY <1>6 DEF awaitTask, loopVars, InPlay, InHand
  <2> QED BY <1>6, <2>1 DEF awaitTask, PromiseInv, RegisteredInv, ResolversDiffer,
          PendingInv, FutureInv, WaitersInv
<1>7. ASSUME NEW ids \in SUBSET Tasks, NEW outcome \in Outcome, Released(ids, outcome)
      PROVE  PromiseInv'
  BY <1>7, SettleKeepsPromises DEF Released
<1> QED BY <1>0, <1>1, <1>2, <1>3, <1>4, <1>5, <1>6, <1>7 DEF Move

(* A new scheduler has no promises. *)
LEMMA InitPromises == Init => PromiseInv
BY BoundsAssumption DEF Init, PromiseInv, RegisteredInv, ResolversDiffer, PendingInv, FutureInv,
   WaitersInv, Submissions

(* The invariant says what NoOrphanedPromise asks for. *)
LEMMA PromisesAreKept ==
  ASSUME PromiseInv
  PROVE  NoOrphanedPromise
<1>1. ASSUME NEW s \in Submissions, settled[s] = "pending"
      PROVE  /\ \E id \in Tasks : resolvers[id] = s
             /\ \/ \E i \in 1..Len(queue) : queue[i].sub = s
                \/ InHand # NoEntry /\ InHand.sub = s
  <2>1. PICK id \in Tasks : resolvers[id] = s
    BY <1>1 DEF PromiseInv, PendingInv
  <2>2. resolvers[id] # 0
    BY <2>1, BoundsAssumption DEF Submissions
  <2>3. PICK e \in InPlay : e.sub = s
    BY <2>1, <2>2 DEF PromiseInv, RegisteredInv
  <2> QED BY <2>1, <2>3 DEF InPlay, Members
<1> QED BY <1>1 DEF NoOrphanedPromise, PromiseInv, WaitersInv

(* A promise that is pending has its resolver registered, and its task is      *)
(* queued or in the hands of the loop: no preemption, cancellation, requeue,   *)
(* stop() or failing engine call ever drops a task and forgets its promise.    *)
THEOREM NoPromiseIsOrphaned == Spec => []NoOrphanedPromise
<1> DEFINE Inv == TypeInv /\ PlayInv /\ PromiseInv
<1>1. Init => Inv
  BY InitTypes, InitPlay, InitPromises
<1>2. Inv /\ [Next]_vars => Inv'
  BY TypeStep, PlayStep, PromiseStep
<1>3. Inv => NoOrphanedPromise
  BY PromisesAreKept
<1> HIDE DEF Inv
<1> QED BY <1>1, <1>2, <1>3, PTL DEF Spec

(* One step never changes a settled promise or exchanges a retained outcome. *)
LEMMA StepKeepsSettled ==
  ASSUME TypeInv, PlayInv, PromiseInv, [Next]_vars
  PROVE  /\ \A s \in Submissions : settled[s] \in Outcome => settled'[s] = settled[s]
         /\ \A id \in Tasks : retained[id] \in Outcome =>
              retained'[id] \in {retained[id], "tombstone", "none"}
<1> USE PromiseTypes DEF Outcome
<1>0. Move
  BY StepMoves
<1>1. ASSUME NEW ids \in SUBSET Tasks, NEW outcome, settleTask(ids, outcome)
      PROVE  /\ \A s \in Submissions : settled[s] \in Outcome => settled'[s] = settled[s]
             /\ \A id \in Tasks : retained[id] \in Outcome => retained'[id] = retained[id]
  <2>1. \A id \in Tasks :
          resolvers[id] # 0 => settled[resolvers[id]] = "pending" /\ retained[id] = "none"
    BY DEF PromiseInv, RegisteredInv
  <2>2. \A s \in Submissions : settled[s] \in Outcome => \A id \in Tasks : resolvers[id] # s
    BY <2>1, BoundsAssumption DEF Submissions
  <2> QED BY <1>1, <2>1, <2>2 DEF settleTask
<1>2. CASE Kept
  BY <1>2 DEF Kept, promiseVars
<1>3. CASE FinishCompleted
  BY <1>1, <1>3, EntryInHand DEF FinishCompleted
<1>4. CASE Requeues
  BY <1>4, RequeuePlays DEF Requeues, promiseVars
<1>5. CASE Forgotten
  BY <1>5 DEF Forgotten, Purge, RetentionTimer
<1>6. ASSUME NEW id \in Tasks, submit(id)
      PROVE  /\ \A s \in Submissions : settled[s] \in Outcome => settled'[s] = settled[s]
             /\ \A a \in Tasks : retained[a] \in Outcome => retained'[a] \in {retained[a], "none"}
  <2>1. submits + 1 \in Submissions /\ settled[submits + 1] = "none"
    BY <1>6, SubmitPlays DEF PromiseInv, FutureInv
  <2> QED BY <1>6, <2>1 DEF submit
<1>7. ASSUME NEW id \in Tasks, awaitTask(id) PROVE UNCHANGED <<settled, retained>>
  BY <1>7 DEF awaitTask
<1>8. ASSUME NEW ids \in SUBSET Tasks, NEW outcome \in Outcome, Released(ids, outcome)
      PROVE  settleTask(ids, outcome)
  BY <1>8 DEF Released
<1> QED BY <1>0, <1>1, <1>2, <1>3, <1>4, <1>5, <1>6, <1>7, <1>8 DEF Move

(* No step settles a submit() promise again, or turns the outcome that         *)
(* awaitTask() answers with into another one.                                  *)
THEOREM SettledStaysSettled == Spec => SettledForGood
<1> DEFINE Inv == TypeInv /\ PlayInv /\ PromiseInv
<1>1. Init => Inv
  BY InitTypes, InitPlay, InitPromises
<1>2. Inv /\ [Next]_vars => Inv'
  BY TypeStep, PlayStep, PromiseStep
<1>3. Inv /\ [Next]_vars =>
        [/\ \A s \in Submissions : settled[s] \in Outcome => settled'[s] = settled[s]
         /\ \A id \in Tasks : retained[id] \in Outcome =>
              retained'[id] \in {retained[id], "tombstone", "none"}]_vars
  BY StepKeepsSettled
<1> HIDE DEF Inv
<1> QED BY <1>1, <1>2, <1>3, PTL DEF Spec, SettledForGood
-----------------------------------------------------------------------------
(* The scheduler implements TaskLocation.                                    *)

(* What locateTask() answers, by the maps it looks into. *)
LEMMA LocateValues ==
  ASSUME NEW id \in Tasks
  PROVE  /\ resolvers[id] # 0 => locateTask(id) = "in-progress"
         /\ resolvers[id] = 0 /\ retained[id] = "none" => locateTask(id) = "not-found"
         /\ resolvers[id] = 0 /\ retained[id] = "tombstone" => locateTask(id) = "expired"
         /\ resolvers[id] = 0 /\ retained[id] \in Outcome => locateTask(id) = retained[id]
BY DEF locateTask, Outcome

(* The same of the state after a step. *)
LEMMA LocateNextValues ==
  ASSUME NEW id \in Tasks
  PROVE  /\ resolvers'[id] # 0 => locateTask(id)' = "in-progress"
         /\ resolvers'[id] = 0 /\ retained'[id] = "none" => locateTask(id)' = "not-found"
         /\ resolvers'[id] = 0 /\ retained'[id] = "tombstone" => locateTask(id)' = "expired"
         /\ resolvers'[id] = 0 /\ retained'[id] \in Outcome => locateTask(id)' = retained'[id]
         /\ resolvers'[id] = resolvers[id] /\ retained'[id] = retained[id]
              => locateTask(id)' = locateTask(id)
BY DEF locateTask, Outcome

Located == [id \in Tasks |-> locateTask(id)]

(* settleTask() is the abstract Settle of the ids that are registered. *)
LEMMA SettleLocates ==
  ASSUME TypeInv, NEW ids \in SUBSET Tasks, NEW outcome \in Outcome, settleTask(ids, outcome)
  PROVE  Locating!Next
<1> USE PromiseTypes
<1> DEFINE registered == {id \in ids : resolvers[id] # 0}
<1>1. /\ resolvers' = [id \in Tasks |-> IF id \in ids THEN 0 ELSE resolvers[id]]
      /\ retained' = [id \in Tasks |-> IF id \in registered THEN outcome ELSE retained[id]]
  BY DEF settleTask
<1>2. \A id \in registered : Located[id] = "in-progress"
  BY LocateValues DEF Located
<1>3. ASSUME NEW id \in Tasks
      PROVE  locateTask(id)' = IF id \in registered THEN outcome ELSE locateTask(id)
  <2>1. CASE id \in registered
    <3>1. resolvers'[id] = 0 /\ retained'[id] = outcome
      BY <1>1, <2>1
    <3> QED BY <2>1, <3>1, LocateNextValues
  <2>2. CASE id \notin registered
    <3>1. resolvers'[id] = resolvers[id] /\ retained'[id] = retained[id]
      BY <1>1, <2>2
    <3> QED BY <2>2, <3>1, LocateNextValues
  <2> QED BY <2>1, <2>2
<1>4. Located' = [id \in Tasks |-> IF id \in registered THEN outcome ELSE Located[id]]
  BY <1>3 DEF Located
<1>5. Locating!Settle(registered, outcome)
  BY <1>2, <1>4 DEF Locating!Settle, Located
<1>6. registered \in SUBSET Tasks
  OBVIOUS
<1> HIDE DEF registered
<1> QED BY <1>5, <1>6 DEF Locating!Next

(* Every step is a step of TaskLocation, or one that it does not see. *)
LEMMA LocationStep ==
  ASSUME TypeInv, PlayInv, [Next]_vars
  PROVE  Locating!Next \/ Located' = Located
<1> USE PromiseTypes
<1>0. Move
  BY StepMoves
<1>1. ASSUME UNCHANGED <<resolvers, retained>> PROVE Located' = Located
  BY <1>1 DEF Located, locateTask
<1>2. CASE Kept
  BY <1>1, <1>2 DEF Kept, promiseVars
<1>3. CASE FinishCompleted
  BY <1>3, EntryInHand, SettleLocates DEF FinishCompleted, Outcome
<1>4. CASE Requeues
  BY <1>1, <1>4, RequeuePlays DEF Requeues, promiseVars
<1>5. ASSUME NEW id \in Tasks, submit(id) PROVE Locating!Next
  <2>1. /\ resolvers[id] = 0 /\ submits + 1 # 0
        /\ resolvers' = [resolvers EXCEPT ![id] = submits + 1]
        /\ retained' = [retained EXCEPT ![id] = "none"]
    BY <1>5 DEF submit
  <2>2. \A a \in Tasks : locateTask(a)' = IF a = id THEN "in-progress" ELSE locateTask(a)
    BY <2>1, LocateNextValues
  <2>3. Located' = [Located EXCEPT ![id] = "in-progress"]
    BY <2>2 DEF Located
  <2>4. Located[id] # "in-progress"
    BY <2>1, LocateValues DEF Located, Outcome
  <2>5. Locating!Accept(id)
    BY <2>3, <2>4 DEF Locating!Accept, Located
  <2> QED BY <2>5 DEF Locating!Next
<1>6. ASSUME NEW id \in Tasks, awaitTask(id) PROVE Located' = Located
  BY <1>1, <1>6 DEF awaitTask
<1>7. ASSUME NEW ids \in SUBSET Tasks, NEW outcome \in Outcome, Released(ids, outcome)
      PROVE  Locating!Next
  BY <1>7, SettleLocates DEF Released
<1>8. ASSUME Purge, resolvers' = resolvers PROVE Locating!Next
  <2>1. ASSUME NEW id \in Tasks
        PROVE  locateTask(id)' = IF locateTask(id) = "in-progress" THEN "in-progress"
                                 ELSE "not-found"
    <3>1. retained'[id] = "none" /\ resolvers'[id] = resolvers[id]
      BY <1>8 DEF Purge
    <3>2. resolvers[id] = 0 => locateTask(id) # "in-progress"
      BY LocateValues DEF Outcome
    <3> QED BY <3>1, <3>2, LocateValues, LocateNextValues
  <2>2. Locating!Purge
    BY <2>1 DEF Locating!Purge
  <2> QED BY <2>2 DEF Locating!Next
<1>9. ASSUME NEW id \in Tasks, RetentionTimer(id), resolvers' = resolvers
      PROVE  Locating!Next \/ Located' = Located
  <2>1. /\ retained[id] # "none"
        /\ retained' = [retained EXCEPT ![id] =
                          IF retained[id] = "tombstone" THEN "none" ELSE "tombstone"]
    BY <1>9 DEF RetentionTimer
  <2>2. \A a \in Tasks \ {id} : locateTask(a)' = locateTask(a)
    BY <1>9, <2>1, LocateNextValues
  <2>3. CASE resolvers[id] # 0
    <3>1. locateTask(id)' = locateTask(id)
      BY <1>9, <2>3, LocateValues, LocateNextValues
    <3> QED BY <2>2, <3>1 DEF Located
  <2>4. CASE resolvers[id] = 0 /\ retained[id] = "tombstone"
    <3>1. Located[id] = "expired" /\ locateTask(id)' = "not-found"
      BY <1>9, <2>1, <2>4, LocateValues, LocateNextValues DEF Located
    <3>2. Locating!Forget(id)
      BY <2>2, <3>1 DEF Locating!Forget, Located
    <3> QED BY <3>2 DEF Locating!Next
  <2>5. CASE resolvers[id] = 0 /\ retained[id] # "tombstone"
    <3>1. Located[id] \in Outcome /\ locateTask(id)' = "expired"
      BY <1>9, <2>1, <2>5, LocateValues, LocateNextValues DEF Located
    <3>2. Locating!Evict(id)
      BY <2>2, <3>1 DEF Locating!Evict, Located
    <3> QED BY <3>2 DEF Locating!Next
  <2> QED BY <2>3, <2>4, <2>5
<1>10. CASE Forgotten
  BY <1>8, <1>9, <1>10 DEF Forgotten
<1> QED BY <1>0, <1>2, <1>3, <1>4, <1>5, <1>6, <1>7, <1>10 DEF Move

(* The scheduler implements the abstract lifecycle of a task id: whatever a     *)
(* caller sees through locateTask() is a behaviour of TaskLocation.             *)
THEOREM SchedulerImplementsTaskLocation == Spec => ImplementsTaskLocation
<1>1. Init => Locating!Init
  BY LocateValues DEF Init, Locating!Init
<1>2. TypeInv /\ PlayInv /\ [Next]_vars => [Locating!Next]_Located
  BY LocationStep
<1>3. Init => TypeInv /\ PlayInv
  BY InitTypes, InitPlay
<1>4. TypeInv /\ PlayInv /\ [Next]_vars => (TypeInv /\ PlayInv)'
  BY TypeStep, PlayStep
<1> QED BY <1>1, <1>2, <1>3, <1>4, PTL DEF Spec, ImplementsTaskLocation, Locating!Spec, Located
-----------------------------------------------------------------------------
(* Failing engine calls leave nothing behind.                                *)

(* What the loop dispatches is in both of its maps. *)
OwnsInv ==
  /\ pc \in {"race", "suspend", "get", "got", "abort"} => cur.id \in running
  /\ pc \in {"race", "suspend", "get", "got", "abort", "finish"} => cur.id \in owned

(* Every step keeps the loop's task in the maps for as long as it is at it. *)
LEMMA OwnsStep ==
  ASSUME TypeInv, OwnsInv, [Next]_vars
  PROVE  OwnsInv'
<1> USE DEF OwnsInv, loopVars, promiseVars, lifeVars, engineVars, ToHead
<1>1. CASE UNCHANGED vars
  BY <1>1 DEF vars
<1>2. ASSUME NEW id \in Tasks, submit(id) \/ awaitTask(id) \/ cancelQueued(id)
             \/ RetentionTimer(id)
      PROVE  OwnsInv'
  BY <1>2 DEF submit, awaitTask, cancelQueued, RetentionTimer
<1>3. ASSUME NEW id \in Tasks \cup Dispatches, cancelRunning(id) PROVE OwnsInv'
  BY <1>3 DEF cancelRunning
<1>4. ASSUME NEW d \in Dispatches, dispatchMethod(d) PROVE OwnsInv'
  BY <1>4 DEF dispatchMethod
<1>5. ASSUME NEW d \in Dispatches, DispatchSettles(d) PROVE OwnsInv'
  <2>1. pc \notin {"off", "head", "wait"} => cur.id # d
    BY EntryInHand, TasksAssumption
  <2> QED BY <1>5, <2>1 DEF DispatchSettles
<1>6. CASE LoopExit \/ LoopWait \/ LoopWakes \/ LoopDelays \/ LoopLooksAgain
  BY <1>6 DEF LoopExit, LoopWait, LoopWakes, LoopDelays, LoopLooksAgain
<1>7. CASE DispatchFresh \/ DispatchResume \/ CreateRunAnswers
  BY <1>7 DEF DispatchFresh, DispatchResume, CreateRunAnswers
<1>8. CASE failDispatch \/ PreemptedInMemory \/ DetachRequeues \/ DropAnswers
           \/ FinishCompleted \/ FinishAborted \/ FinishRejected
  BY <1>8 DEF failDispatch, PreemptedInMemory, DetachRequeues, DropAnswers,
     FinishCompleted, FinishAborted, FinishRejected
<1>9. CASE RaceSettles \/ RaceAgain \/ Preempt \/ SuspendAnswers \/ SuspendFails
           \/ GetAnswers \/ GetFails \/ NotSuspended \/ DetachDrops
  BY <1>9 DEF RaceSettles, RaceAgain, Preempt, SuspendAnswers, SuspendFails,
     GetAnswers, GetFails, NotSuspended, DetachDrops
<1>10. CASE start
  BY <1>10 DEF start, StopSync
<1>11. CASE stopNotStarted \/ ExternalAbort \/ StopReturns \/ StopRejects \/ TimePasses
  BY <1>11 DEF stopNotStarted, ExternalAbort, StopSync, StopReturns, StopRejects, TimePasses
<1>12. ASSUME NEW s \in Stoppers, stop(s) \/ StopStep(s) PROVE OwnsInv'
  BY <1>12 DEF stop, StopSync, StopStep, StopResults, StopCancels
<1>13. ASSUME NEW r \in Runs, RunSettles(r) \/ CancelAnswers(r) \/ CancelFails(r)
       PROVE  OwnsInv'
  BY <1>13 DEF RunSettles, CancelAnswers, CancelFails
<1>14. ASSUME NEW c \in Callback, CallbackSettles(c) PROVE OwnsInv'
  BY <1>14 DEF CallbackSettles
<1> QED BY <1>1, <1>2, <1>3, <1>4, <1>5, <1>6, <1>7, <1>8, <1>9, <1>10, <1>11, <1>12, <1>13,
        <1>14 DEF Next, LoopStep

(* A run suspends only where there is an engine. *)
EngineInv ==
  /\ pc \in {"suspend", "get", "got", "drop"} => Durable
  /\ pc = "abort" => ~Durable
  /\ ~Durable => \A r \in Runs : runs[r] # "suspended"

(* With an engine, an entry that resumes nothing has no run yet. *)
FreshInv ==
  Durable =>
    /\ \A e \in Members(queue) : ~e.resume => runs[<<e.sub, 0>>] = "none"
    /\ pc = "create" => runs[<<cur.sub, 0>>] = "none"
    /\ \A s \in Submissions : s > submits => runs[<<s, 0>>] = "none"

(* A run that was parked, and is not to be resumed, is being cancelled or its *)
(* cancellation has failed.                                                   *)
DropInv ==
  pc = "drop" /\ runs[RunOf(cur)] = "suspended" => RunOf(cur) \in cancels \cup lost

(* The inductive invariant behind SuspendedIsReachable. *)
SuspendInv == EngineInv /\ FreshInv /\ DropInv /\ SuspendedIsReachable

(* The suspended runs that queued tasks resume. *)
LEMMA ResumeRunsByMembers ==
  /\ ResumeRuns = {RunOf(e) : e \in {x \in Members(queue) : x.resume}}
  /\ ResumeRuns' = {RunOf(e) : e \in {x \in Members(queue') : x.resume}}
BY DEF ResumeRuns, Members

(* A run with an id of its own is one of the modelled runs, and no dispatch()ed one. *)
LEMMA TaskRuns ==
  ASSUME NEW s \in Submissions
  PROVE  <<s, 0>> \in Runs /\ <<s, 0>> \notin Dispatches
BY BoundsAssumption, RunsAssumption DEF Runs, Attempts

(* The types that the proofs about suspended runs use. *)
LEMMA SuspendTypes ==
  ASSUME TypeInv
  PROVE  /\ runs \in [Runs -> RunStatus] /\ submits \in Nat
         /\ \A e \in Entry : /\ e.sub \in Submissions /\ RunOf(e) \in Runs
                             /\ Durable => RunOf(e) = <<e.sub, 0>>
         /\ \A e \in Members(queue) : e \in Entry
         /\ pc \notin {"off", "head", "wait"} => cur \in Entry
<1>1. runs \in [Runs -> RunStatus] /\ submits \in Nat
  BY BoundsAssumption DEF TypeInv, TypeOK
<1>2. \A e \in Entry : e.sub \in Submissions /\ (Durable => RunOf(e) = <<e.sub, 0>>)
  BY DEF Entry, RunOf
<1>3. Members(queue) \subseteq Entry
  BY HandType, MembersAreEntries
<1> QED BY <1>1, <1>2, <1>3, RunOfEntry, EntryInHand

(* No run is parked or started, and no cancellation ends. *)
RunsRest ==
  /\ \A r \in Runs : runs'[r] = "suspended" => runs[r] = "suspended"
  /\ \A s \in Submissions : runs[<<s, 0>>] = "none" => runs'[<<s, 0>>] = "none"
  /\ cancels \subseteq cancels' /\ lost \subseteq lost'

(* A step that only settles runs, or makes cancellations, keeps the invariant, *)
(* wherever the loop stays.                                                    *)
LEMMA RestKeepsSuspended ==
  ASSUME TypeInv, SuspendInv, RunsRest, UNCHANGED <<queue, pc, cur, submits>>
  PROVE  SuspendInv'
<1> USE SuspendTypes DEF SuspendInv
<1>1. EngineInv'
  BY DEF RunsRest, EngineInv
<1>2. FreshInv'
  BY DEF RunsRest, FreshInv
<1>3. DropInv'
  BY DEF RunsRest, DropInv
<1>4. SuspendedIsReachable'
  <2>1. ResumeRuns' = ResumeRuns /\ InHand' = InHand
    BY DEF ResumeRuns, InHand
  <2> QED BY <2>1 DEF RunsRest, SuspendedIsReachable
<1> QED BY <1>1, <1>2, <1>3, <1>4

(* So does a step of the loop that leaves the queue and the runs alone, keeps  *)
(* its entry or has none, and is not about to create or drop a run.            *)
LEMMA LoopKeepsSuspended ==
  ASSUME TypeInv, SuspendInv, RunsRest, UNCHANGED <<queue, submits>>, InHand' = InHand,
         pc' \notin {"create", "drop"},
         pc' \in {"suspend", "get", "got"} => Durable, pc' = "abort" => ~Durable
  PROVE  SuspendInv'
<1> USE SuspendTypes DEF SuspendInv
<1>1. EngineInv'
  BY DEF RunsRest, EngineInv
<1>2. FreshInv'
  BY DEF RunsRest, FreshInv
<1>3. DropInv'
  BY DEF RunsRest, DropInv
<1>4. SuspendedIsReachable'
  <2>1. ResumeRuns' = ResumeRuns
    BY DEF ResumeRuns
  <2> QED BY <2>1 DEF RunsRest, SuspendedIsReachable
<1> QED BY <1>1, <1>2, <1>3, <1>4

(* The loop may let go of an entry whose run is not suspended, or is taken *)
(* care of.                                                                *)
LEMMA LetGoKeepsSuspended ==
  ASSUME TypeInv, SuspendInv, UNCHANGED <<queue, submits, engineVars>>, pc' = "head",
         InHand # NoEntry => \/ runs[RunOf(InHand)] # "suspended"
                             \/ RunOf(InHand) \in cancels \cup lost
  PROVE  SuspendInv'
<1> USE SuspendTypes DEF SuspendInv, engineVars
<1>1. EngineInv' /\ FreshInv' /\ DropInv'
  BY DEF EngineInv, FreshInv, DropInv
<1>2. SuspendedIsReachable'
  <2>1. ResumeRuns' = ResumeRuns
    BY DEF ResumeRuns
  <2> QED BY <2>1 DEF SuspendedIsReachable
<1> QED BY <1>1, <1>2

(* Every step keeps suspended runs within reach. *)
LEMMA SuspendStep ==
  ASSUME TypeInv, PlayInv, SuspendInv, [Next]_vars
  PROVE  SuspendInv'
<1> USE SuspendTypes, ResumeRunsByMembers DEF loopVars, promiseVars, lifeVars, engineVars
<1>1. ASSUME runs' = runs, cancels \subseteq cancels', lost' = lost,
             UNCHANGED <<queue, pc, cur, submits>>
      PROVE  SuspendInv'
  BY <1>1, RestKeepsSuspended DEF RunsRest
<1>2. CASE UNCHANGED vars
  BY <1>1, <1>2 DEF vars
<1>3. ASSUME NEW id \in Tasks, submit(id) PROVE SuspendInv'
  <2>1. PICK e \in Entry :
          /\ e.sub = submits + 1 /\ queue' = enqueue(queue, e) /\ InHand' = InHand
          /\ submits' = submits + 1 /\ ~e.resume
    BY <1>3, SubmitPlays
  <2>2. Members(queue') = Members(queue) \cup {e}
    BY <2>1, HandType, EnqueueMembers
  <2>3. UNCHANGED <<pc, cur, runs, cancels, lost>>
    BY <1>3 DEF submit
  <2>4. EngineInv' /\ DropInv'
    BY <2>3 DEF SuspendInv, EngineInv, DropInv
  <2>5. FreshInv'
    <3>1. SUFFICES ASSUME Durable PROVE FreshInv'
      BY DEF FreshInv
    <3>2. \A s \in Submissions : s > submits => runs[<<s, 0>>] = "none"
      BY <3>1 DEF SuspendInv, FreshInv
    <3>3. runs[<<e.sub, 0>>] = "none" /\ \A s \in Submissions : s > submits' => s > submits
      BY <2>1, <3>2, BoundsAssumption DEF Submissions
    <3> QED BY <2>2, <2>3, <3>1, <3>2, <3>3 DEF SuspendInv, FreshInv
  <2>6. ResumeRuns \subseteq ResumeRuns'
    BY <2>2
  <2>7. SuspendedIsReachable'
    BY <2>1, <2>3, <2>6 DEF SuspendInv, SuspendedIsReachable
  <2> QED BY <2>4, <2>5, <2>7 DEF SuspendInv
<1>4. ASSUME NEW id \in Tasks, cancelQueued(id) PROVE SuspendInv'
  <2> DEFINE f == queue[FirstWithId(queue, id)]
  <2>1. f \in Entry /\ Members(queue) = {f} \cup Members(queue') /\ InHand' = InHand
    BY <1>4, CancelQueuedPlays
  <2>2. /\ UNCHANGED <<pc, cur, runs, lost, submits>> /\ cancels \subseteq cancels'
        /\ f.resume => RunOf(f) \in cancels'
    BY <1>4 DEF cancelQueued
  <2> HIDE DEF f
  <2>3. EngineInv' /\ DropInv'
    BY <2>2 DEF SuspendInv, EngineInv, DropInv
  <2>4. FreshInv'
    BY <2>1, <2>2 DEF SuspendInv, FreshInv
  <2>5. ResumeRuns \subseteq ResumeRuns' \cup cancels'
    BY <2>1, <2>2
  <2>6. SuspendedIsReachable'
    BY <2>1, <2>2, <2>5 DEF SuspendInv, SuspendedIsReachable
  <2> QED BY <2>3, <2>4, <2>6 DEF SuspendInv
<1>5. ASSUME NEW id \in Tasks, awaitTask(id) \/ RetentionTimer(id) PROVE SuspendInv'
  BY <1>1, <1>5 DEF awaitTask, RetentionTimer
<1>6. ASSUME NEW id \in Tasks \cup Dispatches, cancelRunning(id) PROVE SuspendInv'
  BY <1>1, <1>6 DEF cancelRunning
<1>7. ASSUME NEW d \in Dispatches, dispatchMethod(d) \/ DispatchSettles(d) PROVE SuspendInv'
  <2>1. RunsRest
    <3>1. \A s \in Submissions : <<s, 0>> # d /\ <<s, 0>> \in Runs
      BY TaskRuns
    <3> QED BY <1>7, <3>1 DEF dispatchMethod, DispatchSettles, RunsRest
  <2> QED BY <1>7, <2>1, RestKeepsSuspended DEF dispatchMethod, DispatchSettles
<1>8. CASE LoopExit \/ LoopWait \/ LoopWakes \/ LoopDelays \/ LoopLooksAgain
  <2>1. /\ pc' \in {"off", "head", "wait", "delay"} /\ InHand' = InHand /\ RunsRest
        /\ UNCHANGED <<queue, submits>>
    BY <1>8 DEF LoopExit, LoopWait, LoopWakes, LoopDelays, LoopLooksAgain, InHand, RunsRest
  <2> QED BY <2>1, LoopKeepsSuspended
<1>9. CASE DispatchFresh \/ DispatchResume
  <2> DEFINE e == Head(queue)
  <2>1. /\ queue' = Tail(queue) /\ InHand = NoEntry /\ InHand' = e /\ e \in Entry
        /\ Members(queue) = {e} \cup Members(queue') /\ submits' = submits
    BY <1>9, DispatchPlays
  <2>2. /\ cancels' = cancels /\ lost' = lost /\ cur' = e
        /\ pc' = IF e.resume THEN "race" ELSE "create"
        /\ \A r \in Runs : runs'[r] = "suspended" => runs[r] = "suspended"
        /\ \A r \in Runs : runs[r] = "none" => runs'[r] = "none"
    BY <1>9 DEF DispatchFresh, DispatchResume
  <2> HIDE DEF e
  <2>3. EngineInv' /\ DropInv'
    BY <2>2 DEF SuspendInv, EngineInv, DropInv
  <2>4. FreshInv'
    BY <2>1, <2>2, TaskRuns DEF SuspendInv, FreshInv
  <2>5. ResumeRuns \subseteq ResumeRuns' \cup {RunOf(e)}
    BY <2>1
  <2>6. SuspendedIsReachable'
    BY <2>1, <2>2, <2>5, NoEntryAssumption DEF SuspendInv, SuspendedIsReachable
  <2> QED BY <2>3, <2>4, <2>6 DEF SuspendInv
<1>10. CASE CreateRunAnswers
  <2>1. /\ pc = "create" /\ pc' = "race" /\ runs' = [runs EXCEPT ![RunOf(cur)] = "running"]
        /\ UNCHANGED <<queue, cur, submits, cancels, lost>>
    BY <1>10 DEF CreateRunAnswers
  <2>2. cur \in Entry /\ InHand = cur /\ InHand' = cur
    BY <2>1 DEF InHand
  <2>3. \A r \in Runs : runs'[r] = "suspended" => runs[r] = "suspended"
    BY <2>1
  <2>4. cur.sub <= submits /\ \A e \in Members(queue) : e.sub # cur.sub
    BY <2>2, NoEntryAssumption DEF PlayInv, InPlay
  <2>5. EngineInv' /\ DropInv'
    BY <2>1, <2>3 DEF SuspendInv, EngineInv, DropInv
  <2>6. FreshInv'
    <3>1. SUFFICES ASSUME Durable PROVE FreshInv'
      BY DEF FreshInv
    <3>2. runs' = [runs EXCEPT ![<<cur.sub, 0>>] = "running"]
      BY <2>1, <2>2, <3>1
    <3>3. \A s \in Submissions : s # cur.sub => runs'[<<s, 0>>] = runs[<<s, 0>>]
      BY <3>2, TaskRuns
    <3>4. \A s \in Submissions : s > submits => s # cur.sub
      BY <2>2, <2>4, BoundsAssumption DEF Submissions
    <3>5. \A e \in Members(queue) : ~e.resume => runs'[<<e.sub, 0>>] = "none"
      BY <2>4, <3>1, <3>3 DEF SuspendInv, FreshInv
    <3>6. \A s \in Submissions : s > submits => runs'[<<s, 0>>] = "none"
      BY <3>1, <3>3, <3>4 DEF SuspendInv, FreshInv
    <3> QED BY <2>1, <3>5, <3>6 DEF FreshInv
  <2>7. SuspendedIsReachable'
    BY <2>1, <2>2, <2>3 DEF SuspendInv, SuspendedIsReachable
  <2> QED BY <2>5, <2>6, <2>7 DEF SuspendInv
<1>11. CASE failDispatch
  <2>1. /\ pc = "create" /\ InHand = cur /\ pc' = "head"
        /\ UNCHANGED <<queue, submits, engineVars>>
    BY <1>11 DEF failDispatch, ToHead, InHand
  <2>2. runs[RunOf(cur)] # "suspended"
    BY <2>1 DEF SuspendInv, EngineInv, FreshInv
  <2> QED BY <2>1, <2>2, LetGoKeepsSuspended
<1>12. CASE RaceSettles \/ RaceAgain \/ Preempt \/ SuspendFails \/ GetAnswers \/ GetFails
            \/ NotSuspended
  <2>1. /\ pc' \in {"race", "suspend", "got", "abort", "finish", "dead"} /\ InHand' = InHand
        /\ pc' \in {"suspend", "got"} => Durable
        /\ pc' = "abort" => ~Durable
        /\ UNCHANGED <<queue, submits>> /\ RunsRest
    BY <1>12 DEF RaceSettles, RaceAgain, Preempt, SuspendFails, GetAnswers, GetFails,
       NotSuspended, InHand, RunsRest, SuspendInv, EngineInv
  <2> QED BY <2>1, LoopKeepsSuspended
<1>13. CASE PreemptedInMemory
  <2>1. ~Durable /\ pc' = "head" /\ runs' = runs
    BY <1>13 DEF PreemptedInMemory, ToHead, SuspendInv, EngineInv
  <2> QED BY <2>1 DEF SuspendInv, EngineInv, FreshInv, DropInv, SuspendedIsReachable
<1>14. CASE SuspendAnswers
  <2>1. /\ pc = "suspend" /\ pc' = "get" /\ UNCHANGED <<queue, cur, submits, cancels, lost>>
        /\ runs' = [runs EXCEPT ![RunOf(cur)] =
                      IF runs[RunOf(cur)] = "running" THEN "suspended" ELSE runs[RunOf(cur)]]
    BY <1>14 DEF SuspendAnswers
  <2>2. cur \in Entry /\ InHand = cur /\ InHand' = cur /\ Durable
    BY <2>1 DEF InHand, SuspendInv, EngineInv
  <2>3. \A s \in Submissions : runs[<<s, 0>>] = "none" => runs'[<<s, 0>>] = "none"
    BY <2>1, TaskRuns
  <2>4. EngineInv' /\ DropInv'
    BY <2>1, <2>2 DEF SuspendInv, EngineInv, DropInv
  <2>5. FreshInv'
    BY <2>1, <2>3 DEF SuspendInv, FreshInv
  <2>6. \A r \in Runs : runs'[r] = "suspended" => runs[r] = "suspended" \/ r = RunOf(cur)
    BY <2>1
  <2>7. SuspendedIsReachable'
    BY <2>1, <2>2, <2>6, NoEntryAssumption DEF SuspendInv, SuspendedIsReachable
  <2> QED BY <2>4, <2>5, <2>7 DEF SuspendInv
<1>15. CASE DetachRequeues
  <2>1. /\ InHand = cur /\ cur \in Entry /\ Requeued(cur) \in Entry /\ submits' = submits
        /\ queue' = enqueue(queue, Requeued(cur)) /\ InHand' = NoEntry
    BY <1>15, RequeuePlays
  <2>2. Durable /\ pc' = "head" /\ UNCHANGED <<runs, cancels, lost>>
    BY <1>15 DEF DetachRequeues, ToHead, SuspendInv, EngineInv
  <2>3. Members(queue') = Members(queue) \cup {Requeued(cur)}
    BY <2>1, HandType, EnqueueMembers
  <2>4. Requeued(cur).resume /\ RunOf(Requeued(cur)) = RunOf(cur)
    BY <2>2 DEF Requeued, RunOf
  <2>5. EngineInv' /\ DropInv'
    BY <2>2 DEF SuspendInv, EngineInv, DropInv
  <2>6. FreshInv'
    BY <2>1, <2>2, <2>3, <2>4 DEF SuspendInv, FreshInv
  <2>7. ResumeRuns \cup {RunOf(cur)} \subseteq ResumeRuns'
    BY <2>3, <2>4
  <2>8. SuspendedIsReachable'
    BY <2>1, <2>2, <2>7 DEF SuspendInv, SuspendedIsReachable
  <2> QED BY <2>5, <2>6, <2>8 DEF SuspendInv
<1>16. CASE DetachDrops
  <2>1. /\ pc = "got" /\ pc' = "drop" /\ UNCHANGED <<queue, cur, submits, runs, lost>>
        /\ cancels' = cancels \cup {RunOf(cur)}
    BY <1>16 DEF DetachDrops
  <2>2. InHand' = InHand /\ ResumeRuns' = ResumeRuns
    BY <2>1 DEF InHand
  <2>3. EngineInv' /\ DropInv' /\ FreshInv'
    BY <2>1 DEF SuspendInv, EngineInv, DropInv, FreshInv
  <2>4. SuspendedIsReachable'
    BY <2>1, <2>2 DEF SuspendInv, SuspendedIsReachable
  <2> QED BY <2>3, <2>4 DEF SuspendInv
<1>17. CASE DropAnswers
  <2>1. /\ pc = "drop" /\ InHand = cur /\ pc' = "head"
        /\ UNCHANGED <<queue, submits, engineVars>>
    BY <1>17 DEF DropAnswers, ToHead, InHand
  <2> QED BY <2>1, LetGoKeepsSuspended DEF SuspendInv, DropInv
<1>18. CASE FinishCompleted \/ FinishAborted \/ FinishRejected
  <2>1. /\ pc = "finish" /\ InHand = cur /\ pc' = "head" /\ runs[RunOf(cur)] # "suspended"
        /\ UNCHANGED <<queue, submits, engineVars>>
    BY <1>18 DEF FinishCompleted, FinishAborted, FinishRejected, ToHead, InHand
  <2> QED BY <2>1, LetGoKeepsSuspended
<1>19. ASSUME NEW s, StopBegins(s) PROVE SuspendInv'
  <2>1. Members(queue') = {} /\ InHand' = InHand /\ submits' = submits
    BY <1>19, StopPlays
  <2>2. /\ runs' = runs /\ lost' = lost
        /\ cancels \subseteq cancels' /\ ResumeRuns \subseteq cancels'
    BY <1>19 DEF StopBegins, StopSync
  <2>3. (pc' = pc /\ cur' = cur) \/ pc' = "head"
    BY <1>19 DEF StopBegins, start, ExternalAbort, stop
  <2>4. EngineInv' /\ DropInv' /\ FreshInv'
    BY <2>1, <2>2, <2>3 DEF SuspendInv, EngineInv, DropInv, FreshInv
  <2>5. SuspendedIsReachable'
    BY <2>1, <2>2 DEF SuspendInv, SuspendedIsReachable
  <2> QED BY <2>4, <2>5 DEF SuspendInv
<1>20. CASE start /\ ~signalled
  <2>1. InHand' = InHand /\ pc' = "head" /\ RunsRest /\ UNCHANGED <<queue, submits>>
    BY <1>20 DEF start, InHand, RunsRest, TypeInv, OffUnlessStarted
  <2> QED BY <2>1, LoopKeepsSuspended
<1>21. CASE ExternalAbort /\ ~started
  BY <1>1, <1>21 DEF ExternalAbort
<1>22. CASE stopNotStarted \/ StopReturns \/ StopRejects \/ TimePasses
  BY <1>1, <1>22 DEF stopNotStarted, StopReturns, StopRejects, TimePasses
<1>23. ASSUME NEW s \in Stoppers, StopResults(s) \/ StopCancels(s) PROVE SuspendInv'
  BY <1>1, <1>23 DEF StopResults, StopCancels
<1>24. ASSUME NEW r \in Runs, RunSettles(r) PROVE SuspendInv'
  <2>1. RunsRest /\ UNCHANGED <<queue, pc, cur, submits>>
    BY <1>24, TaskRuns DEF RunSettles, RunsRest
  <2> QED BY <2>1, RestKeepsSuspended
<1>25. ASSUME NEW r \in Runs, CancelAnswers(r) \/ CancelFails(r) PROVE SuspendInv'
  <2>1. /\ UNCHANGED <<queue, pc, cur, submits>>
        /\ \A x \in Runs : runs'[x] = "suspended" => /\ runs[x] = "suspended"
                                                     /\ x \in cancels \cup lost => x \in cancels' \cup lost'
        /\ \A s \in Submissions : runs[<<s, 0>>] = "none" => runs'[<<s, 0>>] = "none"
    BY <1>25, TaskRuns DEF CancelAnswers, CancelFails
  <2>2. InHand' = InHand /\ ResumeRuns' = ResumeRuns
    BY <2>1 DEF InHand
  <2>3. EngineInv' /\ FreshInv'
    BY <2>1 DEF SuspendInv, EngineInv, FreshInv
  <2>4. DropInv'
    BY <2>1 DEF SuspendInv, DropInv
  <2>5. SuspendedIsReachable'
    BY <2>1, <2>2 DEF SuspendInv, SuspendedIsReachable
  <2> QED BY <2>3, <2>4, <2>5 DEF SuspendInv
<1>26. ASSUME NEW c \in Callback, CallbackSettles(c) PROVE SuspendInv'
  BY <1>1, <1>26 DEF CallbackSettles
<1>27. start => (start /\ ~signalled) \/ StopBegins(Signal)
  BY DEF start, StopBegins
<1>28. ExternalAbort => (ExternalAbort /\ ~started) \/ StopBegins(Signal)
  BY DEF ExternalAbort, StopBegins
<1>29. \A s : stop(s) => StopBegins(s)
  BY DEF stop, StopBegins
<1> QED BY <1>2, <1>3, <1>4, <1>5, <1>6, <1>7, <1>8, <1>9, <1>10, <1>11, <1>12, <1>13, <1>14,
        <1>15, <1>16, <1>17, <1>18, <1>19, <1>20, <1>21, <1>22, <1>23, <1>24, <1>25, <1>26,
        <1>27, <1>28, <1>29 DEF Next, LoopStep, StopStep

(* A new scheduler has no suspended run. *)
LEMMA InitSuspends == Init => SuspendInv
<1> SUFFICES ASSUME Init PROVE SuspendInv
  OBVIOUS
<1>1. Members(queue) = {}
  BY EmptySeq DEF Init, Members
<1>2. \A s \in Submissions : <<s, 0>> \in Runs
  BY TaskRuns
<1> QED BY <1>1, <1>2 DEF Init, SuspendInv, EngineInv, FreshInv, DropInv, SuspendedIsReachable

(* Whatever engine calls reject, and whenever: no suspended run is out of the  *)
(* reach of a queued task, of a cancellation or of the loop; the loop's task   *)
(* is in both maps that cancel() and stop() look into; no promise is forgotten *)
(* and only the loop's run executes.                                           *)
THEOREM FaultsLeaveNothingBehind == Spec => []Reachable
<1> DEFINE Inv == TypeInv /\ PlayInv /\ PromiseInv /\ SerialInv /\ SuspendInv /\ OwnsInv
<1>1. Init => Inv
  <2>1. Init => SerialInv /\ OwnsInv
    BY DEF Init, SerialInv, OwnsInv
  <2> QED BY <2>1, InitTypes, InitPlay, InitPromises, InitSuspends
<1>2. Inv /\ [Next]_vars => Inv'
  BY TypeStep, PlayStep, PromiseStep, SerialStep, SuspendStep, OwnsStep
<1>3. Inv => Reachable
  <2> SUFFICES ASSUME Inv PROVE Reachable
    OBVIOUS
  <2>1. SuspendedIsReachable /\ SerialExecution /\ NoOrphanedPromise
    BY EntryInHand, NoEntryAssumption, PromisesAreKept DEF SuspendInv, SerialInv, SerialExecution
  <2>2. running \cap Tasks \subseteq {e.id : e \in {InHand} \ {NoEntry}}
    BY EntryInHand, NoEntryAssumption DEF TypeInv, RunningIsHeld, InHand
  <2> QED BY <2>1, <2>2 DEF Reachable, OwnsInv, OwnsWhileDispatching
<1> HIDE DEF Inv
<1> QED BY <1>1, <1>2, <1>3, PTL DEF Spec

-----------------------------------------------------------------------------
(* A stopped scheduler is quiet.                                             *)

(* Besides the call that the external signal makes, at most one stop() is in   *)
(* flight at a time.                                                           *)
SoleStopper == \A s, t \in Stoppers \ {Signal} : s = t

(* What a step does to the life of the scheduler. *)
LifeMove ==
  \/ UNCHANGED lifeVars
  \/ \E s \in Stoppers : StopBegins(s) \/ StopResults(s) \/ StopCancels(s)
  \/ start /\ ~signalled
  \/ ExternalAbort /\ ~started
  \/ StopReturns \/ StopRejects

(* Every step makes one of these moves. *)
LEMMA LifeMoves ==
  ASSUME TypeInv, [Next]_vars
  PROVE  LifeMove
<1> USE DEF LifeMove
<1>1. CASE LoopStep
  BY <1>1 DEF LoopStep, lifeVars, LoopExit, LoopWait, LoopWakes, LoopDelays, LoopLooksAgain,
     DispatchFresh, DispatchResume, CreateRunAnswers, failDispatch, RaceSettles, RaceAgain,
     Preempt, PreemptedInMemory, SuspendAnswers, SuspendFails, GetAnswers, GetFails,
     NotSuspended, DetachRequeues, DetachDrops, DropAnswers, FinishCompleted, FinishAborted,
     FinishRejected
<1>2. start => (start /\ ~signalled) \/ (StopBegins(Signal) /\ Signal \in Stoppers)
  BY DEF start, StopBegins, TypeInv, SignalIsWired
<1>3. ExternalAbort => (ExternalAbort /\ ~started) \/ (StopBegins(Signal) /\ Signal \in Stoppers)
  BY DEF ExternalAbort, StopBegins
<1>4. \A s : stop(s) => StopBegins(s)
  BY DEF stop, StopBegins
<1>5. CASE ~LoopStep /\ ~start /\ ~ExternalAbort /\ ~(\E s \in Stoppers : stop(s) \/ StopStep(s))
           /\ ~StopReturns /\ ~StopRejects
  BY <1>5 DEF Next, vars, lifeVars, submit, awaitTask, cancelQueued, cancelRunning,
     dispatchMethod, DispatchSettles, stopNotStarted, RunSettles, CancelAnswers, CancelFails,
     CallbackSettles, TimePasses, RetentionTimer
<1> QED BY <1>1, <1>2, <1>3, <1>4, <1>5 DEF StopStep

(* A stop() that begins, begins on a started scheduler, and no other moves. *)
LEMMA StopBeginsLife ==
  ASSUME TypeInv, NEW s \in Stoppers, StopBegins(s)
  PROVE  /\ stopping' /\ started' /\ (signalled => signalled') /\ (s = Signal => signalled')
         /\ \A t \in Stoppers : t # s => stops'[t] = stops[t]
         /\ stops'[s].at = "results"
<1>1. stops \in [Stoppers -> StopCall] /\ s \in Stoppers
  BY DEF TypeInv, TypeOK
<1>2. /\ stopping' = TRUE
      /\ stops' = [stops EXCEPT ![s] = [at |-> "results", results |-> stops'[s].results,
                                        cancels |-> stops'[s].cancels, callbacks |-> {}]]
  BY <1>1 DEF StopBegins, StopSync
<1>3. started' /\ (signalled => signalled') /\ (s = Signal => signalled')
  BY DEF StopBegins, start, ExternalAbort, stop
<1> QED BY <1>1, <1>2, <1>3

(* While stopping no promise is registered: what is settled stays settled. *)
LEMMA NothingRegistered ==
  ASSUME TypeInv, PlayInv, [Next]_vars, stopping, \A id \in Tasks : resolvers[id] = 0
  PROVE  /\ \A id \in Tasks : resolvers'[id] = 0
         /\ \A id \in Tasks : retained[id] = "none" => retained'[id] = "none"
<1> USE PromiseTypes
<1>0. Move
  BY StepMoves
<1>1. ASSUME NEW ids, NEW outcome, settleTask(ids, outcome)
      PROVE  \A id \in Tasks : resolvers'[id] = 0 /\ retained'[id] = retained[id]
  BY <1>1 DEF settleTask
<1>2. CASE Kept
  BY <1>2 DEF Kept, promiseVars
<1>3. CASE FinishCompleted
  BY <1>1, <1>3 DEF FinishCompleted
<1>4. CASE Requeues
  BY <1>4, RequeuePlays DEF Requeues, promiseVars
<1>5. CASE Forgotten
  BY <1>5 DEF Forgotten, Purge, RetentionTimer
<1>6. ASSUME NEW id \in Tasks, submit(id) \/ awaitTask(id)
      PROVE  UNCHANGED <<resolvers, retained>>
  BY <1>6 DEF submit, awaitTask
<1>7. ASSUME NEW ids, NEW outcome, Released(ids, outcome)
      PROVE  settleTask(ids, outcome)
  BY <1>7 DEF Released
<1> QED BY <1>0, <1>1, <1>2, <1>3, <1>4, <1>5, <1>6, <1>7 DEF Move

(* The stop() calls in flight, if no two callers overlap: the signal's call     *)
(* follows the signal, the scheduler is stopping and started until the call     *)
(* returns, and nothing is left registered once the loop is awaited.            *)
StopsInv ==
  /\ Signal \in Stoppers /\ stops[Signal].at # "idle" => signalled
  /\ \A s \in Stoppers : stops[s].at # "idle" =>
       /\ stopping
       /\ signalled \/ started
  /\ \A s \in Stoppers : stops[s].at = "loop" => \A id \in Tasks : resolvers[id] = 0

(* Every step keeps it. *)
LEMMA StopsStep ==
  ASSUME SoleStopper, TypeInv, PlayInv, StopsInv, [Next]_vars
  PROVE  StopsInv'
<1> USE DEF StopsInv, lifeVars
<1>0. LifeMove /\ stops \in [Stoppers -> StopCall]
  BY LifeMoves DEF TypeInv, TypeOK
<1>1. ASSUME NEW s \in Stoppers, stops[s].at = "loop"
      PROVE  \A id \in Tasks : resolvers'[id] = 0
  <2>1. stopping /\ \A id \in Tasks : resolvers[id] = 0
    BY <1>1
  <2> QED BY <2>1, NothingRegistered
<1>2. CASE UNCHANGED lifeVars
  BY <1>1, <1>2
<1>3. ASSUME NEW s \in Stoppers, StopBegins(s) PROVE StopsInv'
  BY <1>0, <1>1, <1>3, StopBeginsLife
<1>4. ASSUME NEW s \in Stoppers, StopResults(s) PROVE StopsInv'
  BY <1>0, <1>1, <1>4 DEF StopResults
<1>5. ASSUME NEW s \in Stoppers, StopCancels(s) PROVE StopsInv'
  <2>1. \A id \in Tasks : resolvers'[id] = 0
    BY <1>5 DEF StopCancels, settleTask
  <2> QED BY <1>0, <1>5, <2>1 DEF StopCancels
<1>6. CASE start /\ ~signalled
  <2>1. \A s \in Stoppers : stops[s].at = "idle"
    BY <1>6 DEF start
  <2> QED BY <1>6, <2>1 DEF start
<1>7. CASE ExternalAbort /\ ~started
  BY <1>1, <1>7 DEF ExternalAbort
<1>8. CASE StopReturns
  <2>1. /\ stops' = [s \in Stoppers |-> IF s \in AtLoop THEN NotStopping ELSE stops[s]]
        /\ UNCHANGED <<stopping, signalled, resolvers>>
    BY <1>8 DEF StopReturns, StopsReturned
  <2>2. PICK t \in Stoppers : stops[t].at = "loop"
    BY <1>8 DEF StopReturns, AtLoop
  <2>3. \A s \in Stoppers : ~signalled /\ stops[s].at # "idle" => s = t
    BY <2>2 DEF SoleStopper
  <2>4. \A s \in Stoppers : stops'[s].at # "idle" => stops'[s] = stops[s] /\ stops[s].at # "loop"
    BY <2>1 DEF NotStopping, AtLoop
  <2> QED BY <2>1, <2>2, <2>3, <2>4
<1>9. CASE StopRejects
  <2>1. /\ stops' = [s \in Stoppers |-> IF s \in AtLoop THEN NotStopping ELSE stops[s]]
        /\ UNCHANGED <<stopping, signalled, started, resolvers>>
    BY <1>9 DEF StopRejects, StopsReturned, promiseVars
  <2>2. \A s \in Stoppers : stops'[s].at # "idle" => stops'[s] = stops[s] /\ stops[s].at # "loop"
    BY <2>1 DEF NotStopping, AtLoop
  <2> QED BY <2>1, <2>2
<1> QED BY <1>0, <1>2, <1>3, <1>4, <1>5, <1>6, <1>7, <1>8, <1>9 DEF LifeMove

(* With a durable engine nothing is queued while stopping: a preempted task is *)
(* dropped, not requeued.                                                      *)
EmptyInv == Durable /\ stopping => queue = <<>>

(* Every step keeps it. *)
LEMMA EmptyStep ==
  ASSUME TypeInv, SuspendInv, EmptyInv, [Next]_vars
  PROVE  EmptyInv'
<1> USE DEF EmptyInv
<1>1. ASSUME NEW id \in Tasks, submit(id) PROVE EmptyInv'
  BY <1>1 DEF submit, lifeVars
<1>2. ASSUME NEW id \in Tasks, cancelQueued(id) PROVE EmptyInv'
  <2>1. queue # <<>>
    <3>1. FirstWithId(queue, id) \in 1..Len(queue)
      BY <1>2, HandType, RemoveProperties DEF cancelQueued
    <3> QED BY <3>1, EmptySeq
  <2> QED BY <1>2, <2>1 DEF cancelQueued, lifeVars
<1>3. CASE DispatchFresh \/ DispatchResume
  BY <1>3 DEF DispatchFresh, DispatchResume, MayDequeue, lifeVars
<1>4. CASE PreemptedInMemory
  BY <1>4 DEF PreemptedInMemory, SuspendInv, EngineInv
<1>5. CASE DetachRequeues
  BY <1>5 DEF DetachRequeues, MayRequeue, lifeVars
<1>6. ASSUME NEW s, StopBegins(s) PROVE EmptyInv'
  BY <1>6, StopPlays
<1>7. CASE ~QueueStep
  <2>1. queue' = queue /\ LifeMove
    BY <1>7, OtherStepsKeepQueue, LifeMoves
  <2>2. stopping' => stopping
    BY <1>7, <2>1 DEF LifeMove, QueueStep, lifeVars, StopResults, StopCancels, start,
       ExternalAbort, StopReturns, StopRejects, StopSync
  <2> QED BY <2>1, <2>2
<1> QED BY <1>1, <1>2, <1>3, <1>4, <1>5, <1>6, <1>7 DEF QueueStep

(* Between stop() and the next start(), nothing is registered or retained. *)
QuietInv ==
  stopping /\ ~started => \A id \in Tasks : resolvers[id] = 0 /\ retained[id] = "none"

(* Every step keeps it, if stop() returns with nothing registered. *)
LEMMA QuietStep ==
  ASSUME TypeInv, PlayInv, QuietInv, [Next]_vars,
         StopReturns /\ stopping => \A id \in Tasks : resolvers[id] = 0
  PROVE  QuietInv'
<1> USE DEF QuietInv, lifeVars
<1>1. LifeMove
  BY LifeMoves
<1>2. CASE StopReturns
  BY <1>2 DEF StopReturns, Purge
<1>3. CASE ~StopReturns
  <2>1. \A s \in Stoppers : StopBegins(s) => started'
    BY StopBeginsLife
  <2>2. stopping' /\ ~started' => stopping /\ ~started
    BY <1>1, <1>3, <2>1 DEF LifeMove, StopResults, StopCancels, start, ExternalAbort, StopRejects,
       StopSync
  <2>3. ASSUME stopping, ~started
        PROVE  \A id \in Tasks : resolvers'[id] = 0 /\ retained'[id] = "none"
    <3>1. \A id \in Tasks : resolvers[id] = 0 /\ retained[id] = "none"
      BY <2>3
    <3> QED BY <2>3, <3>1, NothingRegistered
  <2> QED BY <2>2, <2>3
<1> QED BY <1>2, <1>3

(* Once stop() has returned, and until the next start(), every submit() and     *)
(* awaitTask() promise is settled, nothing is retained, and no task's run       *)
(* executes: with a durable engine however many stop() calls overlap, without   *)
(* one if they do not.  (Two that overlap may leave a promise pending: see      *)
(* create-scheduler.ts, where preemptTask() requeues although stopping.)        *)
THEOREM StoppedSchedulerIsQuiet ==
  ASSUME Durable \/ SoleStopper
  PROVE  Spec => []StoppedIsQuiet
<1> DEFINE Inv == /\ TypeInv /\ PlayInv /\ PromiseInv /\ SerialInv /\ SuspendInv
                  /\ EmptyInv /\ QuietInv /\ (SoleStopper => StopsInv)
<1>1. Init => Inv
  <2>1. Init => SerialInv /\ EmptyInv /\ QuietInv /\ StopsInv
    BY DEF Init, SerialInv, EmptyInv, QuietInv, StopsInv, NotStopping
  <2> QED BY <2>1, InitTypes, InitPlay, InitPromises, InitSuspends
<1>2. Inv /\ [Next]_vars => Inv'
  <2> SUFFICES ASSUME Inv, [Next]_vars PROVE Inv'
    OBVIOUS
  <2>1. ASSUME StopReturns, stopping PROVE \A id \in Tasks : resolvers[id] = 0
    <3>1. CASE SoleStopper
      BY <2>1, <3>1 DEF StopReturns, AtLoop, StopsInv
    <3>2. CASE Durable
      <4>1. queue = <<>> /\ pc = "off"
        BY <2>1, <3>2 DEF StopReturns, EmptyInv
      <4>2. InPlay = {}
        BY <4>1, EmptySeq DEF InPlay, Members, InHand
      <4> QED BY <4>2 DEF PromiseInv, RegisteredInv
    <3> QED BY <3>1, <3>2
  <2> QED BY <2>1, TypeStep, PlayStep, PromiseStep, SerialStep, SuspendStep, EmptyStep,
          QuietStep, StopsStep
<1>3. Inv => StoppedIsQuiet
  <2> SUFFICES ASSUME Inv, stopping, ~started
               PROVE  /\ \A s \in Submissions : settled[s] # "pending"
                      /\ waiters = {}
                      /\ \A id \in Tasks : retained[id] = "none"
                      /\ running \cap Tasks = {}
                      /\ \A r \in Runs \ Dispatches : runs[r] # "running"
    BY DEF StoppedIsQuiet
  <2>1. pc = "off"
    BY DEF TypeInv, OffUnlessStarted
  <2>2. \A id \in Tasks : resolvers[id] = 0 /\ retained[id] = "none"
    BY DEF QuietInv
  <2>3. \A s \in Submissions : settled[s] # "pending"
    BY <2>2, BoundsAssumption DEF PromiseInv, PendingInv, Submissions
  <2>4. waiters = {}
    BY <2>2, PromiseTypes DEF PromiseInv, WaitersInv
  <2> QED BY <2>1, <2>2, <2>3, <2>4 DEF TypeInv, RunningIsHeld, SerialInv
<1> HIDE DEF Inv
<1> QED BY <1>1, <1>2, <1>3, PTL DEF Spec

-----------------------------------------------------------------------------
(* A result is earned.                                                       *)

(* A submission in play, or not made yet, has not completed. *)
NotCompletedYet ==
  /\ \A e \in InPlay : completions[e.sub] = 0
  /\ \A s \in Submissions : s > submits => completions[s] = 0

(* The inductive invariant behind it: a submission completes when it leaves *)
(* play, and never comes back.                                              *)
CompletesInv == NotCompletedYet /\ \A s \in Submissions : completions[s] <= 1

(* Where the loop completes its entry, the entry is in play and leaves it. *)
LEMMA FinishCompletedPlays ==
  ASSUME TypeInv, PlayInv, FinishCompleted
  PROVE  /\ cur \in InPlay /\ cur \in Entry /\ InPlay' = Members(queue) /\ InPlay' \subseteq InPlay
         /\ \A e \in InPlay' : e.sub # cur.sub
         /\ completions' = [completions EXCEPT ![cur.sub] = completions[cur.sub] + 1]
         /\ submits' = submits /\ stopping' = stopping /\ settleTask({cur.id}, "result")
<1>1. /\ pc = "finish" /\ pc' = "head" /\ queue' = queue /\ submits' = submits
      /\ completions' = [completions EXCEPT ![cur.sub] = completions[cur.sub] + 1]
      /\ stopping' = stopping /\ settleTask({cur.id}, "result")
  BY DEF FinishCompleted, ToHead, lifeVars
<1>2. cur \in Entry /\ InHand = cur /\ InHand' = NoEntry
  BY <1>1, EntryInHand DEF InHand
<1>3. cur \in InPlay /\ InPlay' = Members(queue) /\ InPlay' \subseteq InPlay
  BY <1>1, <1>2, NoEntryAssumption DEF InPlay
<1> QED BY <1>1, <1>2, <1>3, NoEntryAssumption DEF PlayInv

(* Every step keeps the completions apart. *)
LEMMA CompletesStep ==
  ASSUME TypeInv, PlayInv, CompletesInv, [Next]_vars
  PROVE  CompletesInv'
<1> USE DEF CompletesInv, NotCompletedYet
<1>0. /\ Move /\ completions \in [Submissions -> Nat] /\ submits \in Nat
      /\ \A e \in InPlay : e \in Entry /\ e.sub \in Submissions /\ e.sub <= submits
      /\ \A s \in Submissions : s \in Nat
  BY StepMoves, HandType, BoundsAssumption DEF TypeInv, TypeOK, Entry, PlayInv, Submissions
<1>1. CASE Kept
  BY <1>1 DEF Kept
<1>2. CASE FinishCompleted
  BY <1>0, <1>2, FinishCompletedPlays
<1>3. CASE Requeues
  <2>1. /\ InHand = cur /\ cur \in Entry /\ UNCHANGED <<promiseVars, completions, submits>>
        /\ InPlay' = Members(queue) \cup {Requeued(cur)} /\ Requeued(cur).sub = cur.sub
    BY <1>3, RequeuePlays DEF Requeues, Requeued
  <2>2. cur \in InPlay /\ Members(queue) \subseteq InPlay
    BY <2>1, NoEntryAssumption DEF InPlay
  <2> QED BY <2>1, <2>2
<1>4. CASE Forgotten
  BY <1>4 DEF Forgotten
<1>5. ASSUME NEW id \in Tasks, submit(id) PROVE CompletesInv'
  <2>1. PICK e \in Entry : /\ e.sub = submits + 1 /\ InPlay' = InPlay \cup {e}
                           /\ submits' = submits + 1 /\ submits + 1 \in Submissions
    BY <1>5, SubmitPlays
  <2>2. completions' = completions
    BY <1>5 DEF submit
  <2> QED BY <1>0, <2>1, <2>2
<1>6. ASSUME NEW id \in Tasks, awaitTask(id) PROVE CompletesInv'
  BY <1>6 DEF awaitTask, InPlay, InHand, loopVars
<1>7. ASSUME NEW ids, NEW outcome, Released(ids, outcome) PROVE CompletesInv'
  BY <1>7 DEF Released
<1> QED BY <1>0, <1>1, <1>2, <1>3, <1>4, <1>5, <1>6, <1>7 DEF Move

(* A submission completes once at most, with or without an engine, and however *)
(* often it is preempted, resumed or restarted: onComplete and the completed   *)
(* event are never repeated for it.                                            *)
THEOREM CompletesOnce == Spec => [](\A s \in Submissions : completions[s] <= 1)
<1> DEFINE Inv == TypeInv /\ PlayInv /\ CompletesInv
<1>1. Init => Inv
  <2>1. Init => CompletesInv
    BY EmptySeq, NoEntryAssumption
       DEF Init, CompletesInv, NotCompletedYet, InPlay, Members, InHand, Submissions
  <2> QED BY <2>1, InitTypes, InitPlay
<1>2. Inv /\ [Next]_vars => Inv'
  BY TypeStep, PlayStep, CompletesStep
<1>3. Inv => \A s \in Submissions : completions[s] <= 1
  BY DEF CompletesInv
<1> HIDE DEF Inv
<1> QED BY <1>1, <1>2, <1>3, PTL DEF Spec

(* The resolver of a task in play is its own or gone, and gone only while *)
(* stopping.                                                              *)
OwnResolverInv ==
  \A e \in InPlay : /\ resolvers[e.id] \in {0, e.sub}
                    /\ ~stopping => resolvers[e.id] = e.sub

(* A result was earned. *)
EarnedInv == \A s \in Submissions : settled[s] = "result" => completions[s] = 1

(* With a durable engine nothing is in play when start() ends the stopping. *)
LEMMA RestartIsEmpty ==
  ASSUME Durable, TypeInv, EmptyInv, PlayInv, [Next]_vars, stopping, ~stopping'
  PROVE  InPlay' = {}
<1>1. LifeMove
  BY LifeMoves
<1>2. \A s \in Stoppers : StopBegins(s) => stopping'
  BY StopBeginsLife
<1>3. start /\ ~signalled
  BY <1>1, <1>2 DEF LifeMove, lifeVars, StopResults, StopCancels, ExternalAbort, StopReturns,
     StopRejects
<1>4. queue' = <<>> /\ pc' = "head"
  BY <1>3 DEF start, EmptyInv
<1> QED BY <1>4, EmptySeq DEF InPlay, Members, InHand

(* Settling the promise of an entry that leaves play, or any while stopping, *)
(* leaves the entries in play their own resolvers.                           *)
LEMMA SettleKeepsOwn ==
  ASSUME TypeInv, OwnResolverInv, NEW ids, NEW outcome, settleTask(ids, outcome),
         InPlay' \subseteq InPlay,
         \/ stopping'
         \/ /\ ~stopping
            /\ \E f \in InPlay : ids = {f.id} /\ \A e \in InPlay' : e.sub # f.sub
  PROVE  OwnResolverInv'
<1>1. \A e \in InPlay : e.id \in Tasks
  BY HandType DEF Entry
<1>2. \A id \in Tasks : resolvers'[id] = IF id \in ids THEN 0 ELSE resolvers[id]
  BY DEF settleTask
<1>3. CASE stopping'
  BY <1>1, <1>2, <1>3 DEF OwnResolverInv
<1>4. CASE ~stopping'
  <2>1. PICK f \in InPlay : ids = {f.id} /\ \A e \in InPlay' : e.sub # f.sub
    BY <1>4
  <2>2. ~stopping
    BY <1>4
  <2>3. \A e \in InPlay' : e.id \notin ids
    BY <2>1, <2>2 DEF OwnResolverInv
  <2> QED BY <1>1, <1>2, <2>2, <2>3 DEF OwnResolverInv
<1> QED BY <1>3, <1>4

(* Every step leaves the entries in play their own resolvers. *)
LEMMA OwnResolverStep ==
  ASSUME Durable, TypeInv, PlayInv, PromiseInv, EmptyInv, StopsInv, OwnResolverInv, [Next]_vars
  PROVE  OwnResolverInv'
<1> USE PromiseTypes
<1>0. Move /\ \A e \in InPlay : e \in Entry /\ e.id \in Tasks
  BY StepMoves, HandType DEF Entry
<1>1. CASE stopping /\ ~stopping'
  BY <1>1, RestartIsEmpty DEF OwnResolverInv
<1>2. CASE ~(stopping /\ ~stopping')
  <2>1. CASE Kept \/ Forgotten
    BY <1>2, <2>1 DEF Kept, Forgotten, promiseVars, OwnResolverInv
  <2>2. CASE FinishCompleted
    BY <2>2, FinishCompletedPlays, SettleKeepsOwn
  <2>3. CASE Requeues
    <3>1. /\ InHand = cur /\ cur \in Entry /\ UNCHANGED <<promiseVars, completions, submits>>
          /\ InPlay' = Members(queue) \cup {Requeued(cur)}
          /\ Requeued(cur).sub = cur.sub /\ Requeued(cur).id = cur.id
      BY <2>3, RequeuePlays DEF Requeues, Requeued
    <3>2. cur \in InPlay /\ Members(queue) \subseteq InPlay
      BY <3>1, NoEntryAssumption DEF InPlay
    <3> QED BY <1>2, <3>1, <3>2 DEF promiseVars, OwnResolverInv
  <2>4. ASSUME NEW id \in Tasks, submit(id) PROVE OwnResolverInv'
    <3>1. PICK e \in Entry : e.id = id /\ e.sub = submits + 1 /\ InPlay' = InPlay \cup {e}
      BY <2>4, SubmitPlays
    <3>2. /\ ~stopping /\ stopping' = stopping /\ resolvers[id] = 0
          /\ resolvers' = [resolvers EXCEPT ![id] = submits + 1]
      BY <2>4 DEF submit, lifeVars
    <3>3. \A f \in InPlay : f.id # id
      <4>1. \A f \in InPlay : f.sub # 0
        BY <1>0, BoundsAssumption DEF Entry, Submissions
      <4> QED BY <3>2, <4>1 DEF OwnResolverInv
    <3> QED BY <1>0, <3>1, <3>2, <3>3 DEF OwnResolverInv
  <2>5. ASSUME NEW id \in Tasks, awaitTask(id) PROVE OwnResolverInv'
    BY <2>5 DEF awaitTask, InPlay, InHand, loopVars, lifeVars, OwnResolverInv
  <2>6. ASSUME NEW ids, NEW outcome, Released(ids, outcome) PROVE OwnResolverInv'
    <3>1. settleTask(ids, outcome) /\ InPlay' \subseteq InPlay
      BY <2>6 DEF Released
    <3>2. CASE stopping'
      BY <3>1, <3>2, SettleKeepsOwn
    <3>3. CASE ~stopping'
      <4>1. ~stopping
        BY <1>2, <3>3
      <4>2. ~StopSettles
        <5>1. ASSUME NEW s, StopBegins(s) PROVE FALSE
          BY <3>3, <5>1 DEF StopBegins, StopSync
        <5>2. ASSUME NEW s \in Stoppers, StopCancels(s) PROVE FALSE
          BY <3>3, <5>2 DEF StopCancels, StopsInv
        <5> QED BY <5>1, <5>2 DEF StopSettles
      <4> QED BY <2>6, <3>1, <4>1, <4>2, SettleKeepsOwn DEF Released
    <3> QED BY <3>2, <3>3
  <2> QED BY <1>0, <2>1, <2>2, <2>3, <2>4, <2>5, <2>6 DEF Move
<1> QED BY <1>1, <1>2

(* No step hands out a result that its submission has not earned. *)
LEMMA EarnedStep ==
  ASSUME TypeInv, PlayInv, PromiseInv, CompletesInv, OwnResolverInv, EarnedInv, [Next]_vars
  PROVE  EarnedInv'
<1> USE PromiseTypes DEF EarnedInv
<1>0. Move /\ completions \in [Submissions -> Nat]
  BY StepMoves DEF TypeInv, TypeOK
<1>1. CASE Kept \/ Forgotten
  BY <1>1 DEF Kept, Forgotten, promiseVars
<1>2. CASE FinishCompleted
  <2>1. /\ cur \in InPlay /\ cur.id \in Tasks /\ cur.sub \in Submissions
        /\ completions' = [completions EXCEPT ![cur.sub] = completions[cur.sub] + 1]
        /\ settleTask({cur.id}, "result")
    BY <1>2, FinishCompletedPlays DEF Entry
  <2>2. completions[cur.sub] = 0 /\ resolvers[cur.id] \in {0, cur.sub}
    BY <2>1 DEF CompletesInv, NotCompletedYet, OwnResolverInv
  <2>3. \A s \in Submissions : s # cur.sub => settled'[s] = settled[s]
    BY <2>1, <2>2 DEF settleTask
  <2>4. completions'[cur.sub] = 1 /\ \A s \in Submissions : s # cur.sub => completions'[s] = completions[s]
    BY <1>0, <2>1, <2>2
  <2> QED BY <2>3, <2>4
<1>3. CASE Requeues
  BY <1>3, RequeuePlays DEF Requeues, promiseVars
<1>4. ASSUME NEW id \in Tasks, submit(id) \/ awaitTask(id) PROVE EarnedInv'
  BY <1>4 DEF submit, awaitTask
<1>5. ASSUME NEW ids, NEW outcome, Released(ids, outcome) PROVE EarnedInv'
  BY <1>5 DEF Released, settleTask
<1> QED BY <1>0, <1>1, <1>2, <1>3, <1>4, <1>5 DEF Move

(* With a durable engine, and stop() calls that do not overlap, a submit()      *)
(* promise resolves with a result only if that very submission completed, once: *)
(* no leftover of an earlier submission of the id settles it.  Without an       *)
(* engine this fails: preemptTask() requeues while stopping, and the stale      *)
(* entry answers a later submission of its id.                                  *)
THEOREM DurableResultIsEarned ==
  ASSUME Durable, SoleStopper
  PROVE  Spec => []ResultIsEarned
<1> DEFINE Inv == /\ TypeInv /\ PlayInv /\ PromiseInv /\ SuspendInv /\ EmptyInv /\ StopsInv
                  /\ CompletesInv /\ OwnResolverInv /\ EarnedInv
<1>1. Init => Inv
  <2>1. ASSUME Init PROVE EmptyInv /\ StopsInv /\ EarnedInv
    BY <2>1 DEF Init, EmptyInv, StopsInv, EarnedInv, NotStopping
  <2>2. ASSUME Init PROVE CompletesInv /\ OwnResolverInv
    <3>1. InPlay = {}
      BY <2>2, EmptySeq DEF Init, InPlay, Members, InHand
    <3> QED BY <2>2, <3>1 DEF Init, CompletesInv, NotCompletedYet, OwnResolverInv
  <2> QED BY <2>1, <2>2, InitTypes, InitPlay, InitPromises, InitSuspends
<1>2. Inv /\ [Next]_vars => Inv'
  BY TypeStep, PlayStep, PromiseStep, SuspendStep, EmptyStep, StopsStep, CompletesStep,
     OwnResolverStep, EarnedStep
<1>3. Inv => ResultIsEarned
  BY DEF CompletesInv, EarnedInv, ResultIsEarned
<1> HIDE DEF Inv
<1> QED BY <1>1, <1>2, <1>3, PTL DEF Spec
=============================================================================
