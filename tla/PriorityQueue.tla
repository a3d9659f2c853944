---------------------------- MODULE PriorityQueue ----------------------------
(***************************************************************************)
(* The scheduler's array-backed priority queue, as operators on a sequence *)
(* of items that carry a `priority` field.  The highest priority is at the *)
(* head, and items of one priority keep their order of arrival.            *)
(* Source: packages/operative/src/scheduler/priority-queue.ts, types.ts    *)
(***************************************************************************)
EXTENDS SequencesExt

SchedulerPriority == {"immediate", "scheduled", "background", "ambient"}

(* Lower numbers are higher priority. *)
PRIORITY_WEIGHT == [immediate |-> 1, scheduled |-> 2, background |-> 3, ambient |-> 4]

WeightOf(item) == PRIORITY_WEIGHT[item.priority]

isHigherPriority(a, b) == PRIORITY_WEIGHT[a] < PRIORITY_WEIGHT[b]

\* Mutated form: a new item always goes to the end.
LowerSlots_appends(items, item) == {}

\* Mutated form: an equal-priority item is overtaken instead of followed.
LowerSlots_overtakesEquals(items, item) ==
  {i \in 1..Len(items) : WeightOf(items[i]) >= WeightOf(item)}

(* The slots held by an item that a new item of this priority must precede. *)
LowerSlots(items, item) ==
  {i \in 1..Len(items) : WeightOf(items[i]) > WeightOf(item)}

(* In front of the first item of lower priority, at the end if there is none. *)
InsertionPoint(items, item) ==
  LET lower == LowerSlots(items, item)
  IN  IF lower = {} THEN Len(items) + 1 ELSE Min(lower)

enqueue(items, item) == InsertAt(items, InsertionPoint(items, item), item)

(* Only the head is compared: the queue is ordered. *)
hasHigherPriority(items, than) ==
  items # <<>> /\ isHigherPriority(Head(items).priority, than)

(* The first slot whose item has this id, 0 if none has. *)
FirstWithId(items, id) == SelectInSeq(items, LAMBDA item : item.id = id)

remove(items, id) ==
  IF FirstWithId(items, id) = 0 THEN items
  ELSE RemoveAt(items, FirstWithId(items, id))

-----------------------------------------------------------------------------
(* The order the queue promises: no item stands behind a lower-priority one. *)
Ordered(items) ==
  \A i, j \in 1..Len(items) : i < j => WeightOf(items[i]) <= WeightOf(items[j])
=============================================================================
