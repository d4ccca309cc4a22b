------------------------------- MODULE Vector -------------------------------
(***************************************************************************)
(* datastruct/vector.c: a contiguous array that grows by half.  A slot     *)
(* holds one element; a growth may move the buffer, and every allocation   *)
(* may fail.  The caller keeps the last element pointer it was given.      *)
(***************************************************************************)
EXTENDS Size, Sequences, SequencesExt

CONSTANTS Value,          \* the elements
          Junk,           \* a slot nobody has written, or memory given back
          ElemSize,       \* elem_size
          Capacities      \* what create_with_capacity and reserve are called with

ASSUME ValueAssumption == Junk \notin Value
ASSUME ElemSizeAssumption == ElemSize \in Nat \ {0}
ASSUME CapacitiesAssumption == Capacities \subseteq 1 .. SizeMax

VARIABLES vec,       \* struct k4c_vector: size, capacity, buffer, its slots
          held,      \* what it holds from the allocator
          ref,       \* the element pointer the caller keeps, and what it read
          iter       \* the iterator: cursor, remaining, size hint, what it gave

vars == <<vec, held, ref, iter>>

Buffers == {"buffer A", "buffer B"}    \* two while a resize moves
Fresh(buffer) == IF buffer = "buffer A" THEN "buffer B" ELSE "buffer A"

NewVector(capacity) ==
  [size |-> 0, capacity |-> capacity, buffer |-> "buffer A",
   slots |-> [i \in 0 .. capacity - 1 |-> Junk]]

\* No pointer is kept, or its element was dropped since.
NoRef == [on |-> FALSE, buffer |-> "buffer A", index |-> 0, value |-> Junk]

\* No iterator, or one over a vector that changed since.
NoIter == [on |-> FALSE, cursor |-> 0, remaining |-> 0, hint |-> 0, given |-> << >>]

Exists == "vector" \in held

Items(v) == [i \in 1 .. v.size |-> v.slots[i - 1]]

PointTo(v, index) ==
  [on |-> TRUE, buffer |-> v.buffer, index |-> index, value |-> v.slots[index]]

-----------------------------------------------------------------------------
Init ==
  /\ vec = NewVector(1)
  /\ held = {} /\ ref = NoRef /\ iter = NoIter

\* k4c_vector_create_with_capacity; k4c_vector_create is the case of sixteen.
Create(capacity) ==
  /\ ~ Exists /\ ~ MulOverflows(ElemSize, capacity)
  /\ vec' = NewVector(capacity)
  /\ held' = {"vector", vec'.buffer}
  /\ UNCHANGED <<ref, iter>>

\* The buffer cannot be allocated: the struct is given back.
CreateFails ==
  /\ ~ Exists /\ held' = (held \cup {"vector"}) \ {"vector"}
  /\ UNCHANGED <<vec, ref, iter>>

Destroy ==
  /\ Exists
  /\ held' = held \ {vec.buffer, "vector"}
  /\ vec' = NewVector(1) /\ ref' = NoRef /\ iter' = NoIter

\* A slip: no more than is needed.
CapacityGrowToFit(capacity, least) == IF capacity >= least THEN capacity ELSE least

\* k4c_vector_capacity_grow: by half, by one at least, until the least
\* capacity fits; exactly the least when the next half overflows.
CapacityGrow(capacity, least) ==
  LET Increment(c) == IF c \div 2 = 0 THEN 1 ELSE c \div 2
      grown[c \in 0 .. SizeMax] ==
        IF c >= least THEN c
        ELSE IF AddOverflows(c, Increment(c)) THEN least ELSE grown[c + Increment(c)]
  IN  grown[capacity]

\* k4c_vector_reserve: the vector with room for capacity elements, its buffer
\* resized in place or moved.
Fits(capacity) == capacity <= vec.capacity \/ ~ MulOverflows(capacity, ElemSize)
NeedsResize(capacity) == capacity > vec.capacity

Resized(capacity, buffer) ==
  [vec EXCEPT !.capacity = capacity, !.buffer = buffer,
              !.slots = [i \in 0 .. capacity - 1 |->
                           IF i < vec.capacity THEN vec.slots[i] ELSE Junk]]

AfterReserve(capacity) ==
  IF NeedsResize(capacity)
  THEN {Resized(capacity, b) : b \in {vec.buffer, Fresh(vec.buffer)}}
  ELSE {vec}

HeldWith(v) == (held \ {vec.buffer}) \cup {v.buffer}

\* An element pointer lives until a growth (vector.md: "the pointer may be
\* invalidated by later growth") or until its slot is written.
RefAfterReserve(capacity) == IF NeedsResize(capacity) THEN NoRef ELSE ref

Reserve(capacity) ==
  /\ Exists /\ Fits(capacity)
  /\ \E v \in AfterReserve(capacity) : vec' = v /\ held' = HeldWith(v)
  /\ ref' = RefAfterReserve(capacity) /\ iter' = NoIter

\* OVERFLOW, or NO_MEMORY from the resize: nothing has changed.
ReserveFails(capacity) ==
  /\ Exists /\ NeedsResize(capacity)
  /\ UNCHANGED vars

\* What a push into a full vector reserves first.
Wanted ==
  IF vec.size = vec.capacity THEN CapacityGrow(vec.capacity, vec.size + 1)
  ELSE vec.capacity
CanPush == vec.size = vec.capacity => ~ AddOverflows(vec.size, 1) /\ Fits(Wanted)

Pushed(v, element) ==
  [v EXCEPT !.slots[v.size] = element, !.size = @ + 1]

\* A slip: the element overwrites the last one.
PushOverLast(element) ==
  /\ Exists /\ CanPush
  /\ \E v \in AfterReserve(Wanted) :
       /\ vec' = [v EXCEPT !.slots[IF v.size = 0 THEN 0 ELSE v.size - 1] = element,
                           !.size = @ + 1]
       /\ held' = HeldWith(v)
  /\ ref' = IF ref.index = vec.size THEN NoRef ELSE RefAfterReserve(Wanted)
  /\ iter' = NoIter

\* k4c_vector_push of an element that lies outside the vector's buffer.
Push(element) ==
  /\ Exists /\ CanPush
  /\ \E v \in AfterReserve(Wanted) : vec' = Pushed(v, element) /\ held' = HeldWith(v)
  /\ ref' = IF ref.index = vec.size THEN NoRef ELSE RefAfterReserve(Wanted)
  /\ iter' = NoIter

PushFails ==
  /\ Exists /\ vec.size = vec.capacity
  /\ UNCHANGED vars

\* What a pointer to an element reads once v is the vector: when the growth
\* has moved the buffer it points to memory that was given back.
Reads(v, index) ==
  {v.slots[index]} \cup (IF v.buffer # vec.buffer THEN {Junk} ELSE {})

\* k4c_vector_push of an element of the vector itself.
PushOwn(index) ==
  /\ Exists /\ CanPush /\ index < vec.size
  /\ \E v \in AfterReserve(Wanted) : \E e \in Reads(v, index) :
       vec' = Pushed(v, e) /\ held' = HeldWith(v)
  /\ ref' = IF ref.index = vec.size THEN NoRef ELSE RefAfterReserve(Wanted)
  /\ iter' = NoIter

\* k4c_vector_pop: the slot stays as it is, and its address is returned.
Pop ==
  /\ Exists /\ vec.size > 0
  /\ vec' = [vec EXCEPT !.size = @ - 1]
  /\ ref' = PointTo(vec, vec.size - 1) /\ iter' = NoIter
  /\ UNCHANGED held

\* k4c_vector_get, also of the elements behind k4c_vector_data.
Get(index) ==
  /\ Exists /\ index < vec.size
  /\ ref' = PointTo(vec, index)
  /\ UNCHANGED <<vec, held, iter>>

\* A slip: the last element is taken from one slot too far.
SwapRemovePastEnd(index) ==
  /\ Exists /\ index < vec.size
  /\ vec' = [vec EXCEPT !.slots[index] = IF vec.size < vec.capacity
                                         THEN vec.slots[vec.size] ELSE Junk,
                        !.size = @ - 1]
  /\ ref' = PointTo(vec', index) /\ iter' = NoIter
  /\ UNCHANGED held

\* k4c_vector_swap_remove: the last element moves into the slot, whose
\* address is returned.
SwapRemove(index) ==
  /\ Exists /\ index < vec.size
  /\ vec' = [vec EXCEPT !.slots[index] = vec.slots[vec.size - 1], !.size = @ - 1]
  /\ ref' = PointTo(vec', index) /\ iter' = NoIter
  /\ UNCHANGED held

GetIterator ==
  /\ Exists
  /\ iter' = [NoIter EXCEPT !.on = TRUE, !.remaining = vec.size, !.hint = vec.size]
  /\ UNCHANGED <<vec, held, ref>>

\* k4c_vector_iterator_next under k4c_iterator_next, until it gives NULL.
IterNext ==
  /\ iter.on /\ iter.remaining > 0
  /\ iter' = [iter EXCEPT !.cursor = @ + 1, !.remaining = @ - 1,
                          !.hint = IF @ > 0 THEN @ - 1 ELSE 0,
                          !.given = Append(@, vec.slots[iter.cursor])]
  /\ UNCHANGED <<vec, held, ref>>

\* The operations other than a push, which a caller may limit.
Others ==
  \/ \E c \in Capacities : Create(c) \/ Reserve(c) \/ ReserveFails(c)
  \/ CreateFails \/ Destroy
  \/ PushFails \/ Pop
  \/ \E i \in 0 .. SizeMax - 1 : Get(i) \/ SwapRemove(i)
  \/ GetIterator \/ IterNext

\* A caller that pushes an own element only while there is room for it.
Next ==
  \/ Others
  \/ \E e \in Value : Push(e)
  \/ \E i \in 0 .. SizeMax - 1 : vec.size < vec.capacity /\ PushOwn(i)

Spec == Init /\ [][Next]_vars

-----------------------------------------------------------------------------
\* The buffer's bytes fit a size_t, the elements fit the buffer, and each
\* is a value somebody pushed: no growth, swap or boundary reads a slot that
\* was never written or lies outside.
TypeOK ==
  /\ vec.capacity \in 1 .. SizeMax
  /\ vec.size \in 0 .. vec.capacity
  /\ held # {} => vec.capacity * ElemSize <= SizeMax
  /\ DOMAIN vec.slots = 0 .. vec.capacity - 1
  /\ \A i \in 0 .. vec.size - 1 : vec.slots[i] \in Value

\* The vector holds its struct and one buffer, the one it points to: a resize
\* that moves, fails or is refused neither leaks nor loses a buffer.
HeldExactly == held = IF Exists THEN {"vector", vec.buffer} ELSE {}

\* A pointer from get, pop or swap_remove reads the element it was given for
\* until the vector grows or a push fills its slot, whatever else is popped,
\* pushed, reserved without growth or refused.
PointersHold ==
  ref.on => ref.buffer = vec.buffer /\ vec.slots[ref.index] = ref.value

\* What an iterator gave and what it has left are the elements in order, and
\* its hint counts the rest.
IteratorIsExact ==
  iter.on => /\ iter.given = SubSeq(Items(vec), 1, iter.cursor)
             /\ iter.cursor + iter.remaining = vec.size
             /\ iter.hint = iter.remaining

\* A growth for a push adds half the capacity or more, so pushes are amortised,
\* except when a size_t cannot hold that capacity: then exactly one slot.
GrowsByHalf ==
  [][ Exists /\ Exists' /\ vec'.size > vec.size /\ vec'.capacity # vec.capacity =>
        \/ 2 * vec'.capacity >= 3 * vec.capacity - 1
        \/ AddOverflows(vec.capacity, vec.capacity \div 2)
           /\ vec'.capacity = vec.capacity + 1 ]_vars

\* The vector implements its contract: failed operations change nothing.
Contract == INSTANCE VectorContract WITH items <- Items(vec)

ImplementsContract == Contract!Spec

\* The vector through growths, fallbacks and failures: elements that were
\* pushed in one buffer, and pointers to them that stay valid as promised.
Consistent == TypeOK /\ HeldExactly /\ PointersHold /\ IteratorIsExact

=============================================================================
