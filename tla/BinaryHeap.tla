----------------------------- MODULE BinaryHeap -----------------------------
(***************************************************************************)
(* datastruct/binary_heap.c over the vector of Vector, of which it uses    *)
(* push, pop, get and data: each turn of a sift is a step, with the array  *)
(* out of order in between.  Slots past the size keep what was popped.     *)
(***************************************************************************)
EXTENDS Integers, FiniteSets

CONSTANTS Element,     \* the elements
          Rank,        \* what the comparator orders them by
          Junk,        \* a slot nobody has written
          MaxSize      \* bound: the elements the vector can be grown to

RankAssumption == Rank \in [Element -> Int]
JunkAssumption == Junk \notin Element
MaxSizeAssumption == MaxSize \in Nat
Assumptions == RankAssumption /\ JunkAssumption /\ MaxSizeAssumption

VARIABLES size,        \* the vector's size
          slots,       \* the vector's buffer, grown as far as it can be
          sift,        \* "no", or the direction a sift is under way in
          idx,         \* its idx
          popped,      \* the pointer pop returned is kept
          out,         \* what it pointed to
          held         \* what the heap holds from the allocator

vars == <<size, slots, sift, idx, popped, out, held>>

Exists == "heap" \in held
Idle == Exists /\ sift = "no"

\* k4c_binary_heap_compare_idx: the sign of cmp, or of memcmp.
RankAt(i) == Rank[slots[i]]
GoesBefore(i, j) == RankAt(i) < RankAt(j)

\* k4c_binary_heap_swap_at
Swapped(i, j) == [slots EXCEPT ![i] = slots[j], ![j] = slots[i]]

Parent(i) == (i - 1) \div 2
Left(i) == 2 * i + 1
Right(i) == Left(i) + 1

-----------------------------------------------------------------------------
Init ==
  /\ size = 0 /\ slots = [i \in 0 .. MaxSize - 1 |-> Junk]
  /\ sift = "no" /\ idx = 0
  /\ popped = FALSE /\ out = Junk
  /\ held = {}

Create ==
  /\ ~ Exists
  /\ held' = {"heap", "vector", "buffer"}
  /\ UNCHANGED <<size, slots, sift, idx, popped, out>>

\* The vector cannot be created: it has given back its own struct, and the
\* heap's is given back here.
CreateFails ==
  /\ ~ Exists
  /\ held' = (held \cup {"heap"}) \ {"heap"}
  /\ UNCHANGED <<size, slots, sift, idx, popped, out>>

Destroy ==
  /\ Idle
  /\ held' = held \ {"heap", "vector", "buffer"}
  /\ size' = 0 /\ slots' = [i \in 0 .. MaxSize - 1 |-> Junk]
  /\ popped' = FALSE /\ out' = Junk
  /\ UNCHANGED <<sift, idx>>

\* k4c_binary_heap_push up to the sift.  When the vector cannot grow nothing
\* has happened.
Push(element) ==
  /\ Idle /\ size < MaxSize
  /\ slots' = [slots EXCEPT ![size] = element] /\ size' = size + 1
  /\ sift' = "up" /\ idx' = size
  /\ popped' = FALSE
  /\ UNCHANGED <<out, held>>

SiftUp ==
  /\ sift = "up" /\ idx > 0 /\ GoesBefore(idx, Parent(idx))
  /\ slots' = Swapped(idx, Parent(idx)) /\ idx' = Parent(idx)
  /\ UNCHANGED <<size, sift, popped, out, held>>

SiftUpEnds ==
  /\ sift = "up" /\ (idx > 0 => ~ GoesBefore(idx, Parent(idx)))
  /\ sift' = "no"
  /\ UNCHANGED <<size, slots, idx, popped, out, held>>

\* A slip: the last element is not moved to the top.
PopWithoutSwap ==
  /\ Idle /\ size > 0
  /\ size' = size - 1
  /\ sift' = IF size > 1 THEN "down" ELSE "no"
  /\ idx' = 0 /\ popped' = TRUE /\ out' = slots[0]
  /\ UNCHANGED <<slots, held>>

\* k4c_binary_heap_pop up to the sift: the old top stays behind the elements
\* that are left, where the returned pointer points.
Pop ==
  /\ Idle /\ size > 0
  /\ slots' = IF size > 1 THEN Swapped(0, size - 1) ELSE slots
  /\ size' = size - 1
  /\ sift' = IF size > 1 THEN "down" ELSE "no"
  /\ idx' = IF size > 1 THEN 0 ELSE idx
  /\ popped' = TRUE /\ out' = slots[0]
  /\ UNCHANGED held

\* Slips: the right child is never looked at; a child is looked for up to the
\* slot of the popped element.
BestLeftOnly ==
  IF Left(idx) < size /\ GoesBefore(Left(idx), idx) THEN Left(idx) ELSE idx

BestPastEnd ==
  LET left == IF Left(idx) <= size /\ GoesBefore(Left(idx), idx) THEN Left(idx) ELSE idx
  IN  IF Right(idx) <= size /\ GoesBefore(Right(idx), left) THEN Right(idx) ELSE left

\* The child sift_down goes to: idx itself when none goes before it.
Best ==
  LET left == IF Left(idx) < size /\ GoesBefore(Left(idx), idx) THEN Left(idx) ELSE idx
  IN  IF Right(idx) < size /\ GoesBefore(Right(idx), left) THEN Right(idx) ELSE left

SiftDown ==
  /\ sift = "down" /\ Best # idx
  /\ slots' = Swapped(idx, Best) /\ idx' = Best
  /\ UNCHANGED <<size, sift, popped, out, held>>

SiftDownEnds ==
  /\ sift = "down" /\ Best = idx
  /\ sift' = "no"
  /\ UNCHANGED <<size, slots, idx, popped, out, held>>

Next ==
  \/ Create \/ CreateFails \/ Destroy
  \/ \E e \in Element : Push(e)
  \/ SiftUp \/ SiftUpEnds
  \/ Pop \/ SiftDown \/ SiftDownEnds

Spec == Init /\ [][Next]_vars

-----------------------------------------------------------------------------
TypeOK ==
  /\ size \in 0 .. MaxSize
  /\ slots \in [0 .. MaxSize - 1 -> Element \cup {Junk}]
  /\ \A i \in 0 .. size - 1 : slots[i] \in Element
  /\ sift \in {"no", "up", "down"}
  /\ sift # "no" => idx \in 0 .. size - 1
  /\ popped \in BOOLEAN

\* Where i is the child of j.
ChildOf(i, j) == i = Left(j) \/ i = Right(j)

\* No element goes before its parent, except around the index being sifted:
\* there its neighbours still agree across it.
Ordered ==
  /\ \A i, j \in 0 .. size - 1 :
       ChildOf(i, j) /\ ~ (sift = "up" /\ i = idx) /\ ~ (sift = "down" /\ j = idx) =>
         RankAt(j) <= RankAt(i)
  /\ sift # "no" =>
       \A i, j \in 0 .. size - 1 :
         ChildOf(i, idx) /\ ChildOf(idx, j) => RankAt(j) <= RankAt(i)

\* Between operations no element goes before the top: peek and pop give the
\* least.
TopIsLeast == sift = "no" => \A i \in 0 .. size - 1 : RankAt(0) <= RankAt(i)

\* The pointer pop returned reads the popped element until the next push: the
\* sift does not reach past the elements that are left.
PoppedHolds == popped => size < MaxSize /\ slots[size] = out

\* Creation, its failure and destruction leak nothing, and the heap is empty
\* while it does not exist.
HeldExactly ==
  /\ held = IF Exists THEN {"heap", "vector", "buffer"} ELSE {}
  /\ ~ Exists => size = 0 /\ sift = "no"

\* How often each element is stored.
Bag == [e \in Element |-> Cardinality({i \in 0 .. size - 1 : slots[i] = e})]

\* The heap implements its contract: the sifts move elements about and
\* neither lose nor repeat one, and pop takes a least one.
Contract == INSTANCE PriorityContract WITH bag <- Bag

ImplementsContract == Contract!Spec

\* The heap at every swap of every sift: ordered but around the sifted index,
\* so that the top is least between operations, and the popped slot is left
\* alone.
Consistent == TypeOK /\ Ordered /\ TopIsLeast /\ PoppedHolds /\ HeldExactly

=============================================================================
