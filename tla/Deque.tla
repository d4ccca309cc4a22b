------------------------------- MODULE Deque --------------------------------
(***************************************************************************)
(* datastruct/deque.c: a double-ended queue in a circular buffer whose     *)
(* capacity doubles when it is full.  A slot holds one element; slots      *)
(* outside the live window keep whatever was there.                        *)
(***************************************************************************)
EXTENDS Size, Sequences

CONSTANTS Value,            \* the elements
          Nothing,          \* NULL returned by a pop or peek
          Junk,             \* a slot nobody has written
          ElemSize,         \* elem_size
          DefaultCapacity   \* K4C_DEQUE_DEFAULT_CAPACITY

\* k4c_deque_create's assertion.  (With an element so large that the first
\* buffer's size overflows, create returns OVERFLOW and there is no deque.)
ASSUME ElemSizeAssumption ==
  ElemSize \in Nat \ {0} /\ ElemSize * DefaultCapacity <= SizeMax
ASSUME DefaultCapacityAssumption == DefaultCapacity \in Nat \ {0}
ASSUME DistinctAssumption == Nothing \notin Value /\ Junk \notin Value

VARIABLES deque,     \* struct k4c_deque
          held,      \* what it holds from the allocator
          returned   \* the element the last pop or peek gave

vars == <<deque, held, returned>>

Buffers == {"buffer A", "buffer B"}    \* at most two exist at once
Fresh(buffer) == IF buffer = "buffer A" THEN "buffer B" ELSE "buffer A"

EmptyDeque == [size |-> 0, capacity |-> DefaultCapacity, head |-> 0, tail |-> 0,
               buffer |-> "buffer A",
               slots |-> [i \in 0 .. DefaultCapacity - 1 |-> Junk]]

Exists == "deque" \in held

\* The position in the buffer of the k-th element from the front.
Slot(d, k) == (d.head + k - 1) % d.capacity

Items(d) == [k \in 1 .. d.size |-> d.slots[Slot(d, k)]]

-----------------------------------------------------------------------------
Init ==
  /\ deque = EmptyDeque
  /\ held = {}
  /\ returned = Nothing

Create ==
  /\ ~ Exists
  /\ deque' = EmptyDeque
  /\ held' = {"deque", deque'.buffer}
  /\ UNCHANGED returned

\* The second allocation of k4c_deque_create fails: the first is given back.
\* (When the first fails nothing has happened yet.)
CreateFails ==
  /\ ~ Exists
  /\ held' = (held \cup {"deque"}) \ {"deque"}
  /\ UNCHANGED <<deque, returned>>

Destroy ==
  /\ Exists
  /\ held' = held \ {deque.buffer, "deque"}
  /\ deque' = EmptyDeque
  /\ returned' = Nothing

\* k4c_deque_capacity_grow from a full buffer: one doubling is enough.
\* k4c_deque_grow then sizes the new buffer in bytes.
CanGrow(d) ==
  /\ ~ AddOverflows(d.size, 1)
  /\ d.capacity <= SizeMax \div 2
  /\ ~ MulOverflows(2 * d.capacity, ElemSize)

\* A slip in the copy: the buffer is copied as it lies.
MovedAsItLies(d, i) == IF i < d.capacity THEN d.slots[i] ELSE Junk

\* The elements are copied to the start of the new buffer: in one piece when
\* they do not wrap, else the part up to the end and then the part before tail.
Moved(d, i) ==
  IF d.head < d.tail
  THEN IF i < d.size THEN d.slots[d.head + i] ELSE Junk
  ELSE LET first == d.capacity - d.head
       IN  CASE i < first -> d.slots[d.head + i]
             [] i >= first /\ i < first + d.tail -> d.slots[i - first]
             [] OTHER -> Junk

\* A slip: tail stays where it was in the old buffer.
GrownKeepsTail(d) ==
  [size |-> d.size, capacity |-> 2 * d.capacity, head |-> 0, tail |-> d.tail,
   buffer |-> Fresh(d.buffer),
   slots |-> [i \in 0 .. (2 * d.capacity) - 1 |-> Moved(d, i)]]

\* A slip: the capacity grows by half.
GrownByHalf(d) ==
  LET capacity == d.capacity + (d.capacity \div 2)
  IN  [size |-> d.size, capacity |-> capacity, head |-> 0, tail |-> d.size,
       buffer |-> Fresh(d.buffer),
       slots |-> [i \in 0 .. capacity - 1 |-> Moved(d, i)]]

Grown(d) ==
  [size |-> d.size, capacity |-> 2 * d.capacity, head |-> 0, tail |-> d.size,
   buffer |-> Fresh(d.buffer),
   slots |-> [i \in 0 .. (2 * d.capacity) - 1 |-> Moved(d, i)]]

\* The deque a push writes into, when the growth it needs is possible.
HasRoom == deque.size < deque.capacity \/ CanGrow(deque)
Roomy == IF deque.size = deque.capacity THEN Grown(deque) ELSE deque

HeldAfterGrowth ==
  IF deque.size = deque.capacity
  THEN (held \cup {Roomy.buffer}) \ {deque.buffer} ELSE held

\* The same buffer with another window and other contents.
Window(d, size, head, tail, slots) ==
  [size |-> size, capacity |-> d.capacity, head |-> head, tail |-> tail,
   buffer |-> d.buffer, slots |-> slots]

\* The index before i in the ring.
Before(d, i) == (i + d.capacity - 1) % d.capacity
After(d, i) == (i + 1) % d.capacity

PushedBack(d, v) ==
  Window(d, d.size + 1, d.head, After(d, d.tail), [d.slots EXCEPT ![d.tail] = v])

PushedFront(d, v) ==
  LET head == Before(d, d.head)
  IN  Window(d, d.size + 1, head, d.tail, [d.slots EXCEPT ![head] = v])

PoppedLeft(d) == Window(d, d.size - 1, After(d, d.head), d.tail, d.slots)

PoppedBack(d) == Window(d, d.size - 1, d.head, Before(d, d.tail), d.slots)

Push(v) ==
  /\ Exists /\ HasRoom
  /\ deque' = PushedBack(Roomy, v)
  /\ held' = HeldAfterGrowth
  /\ UNCHANGED returned

PushFront(v) ==
  /\ Exists /\ HasRoom
  /\ deque' = PushedFront(Roomy, v)
  /\ held' = HeldAfterGrowth
  /\ UNCHANGED returned

\* OVERFLOW, or NO_MEMORY from the allocator: the deque is as it was.
PushFails ==
  /\ Exists /\ deque.size = deque.capacity
  /\ UNCHANGED vars

PopLeft ==
  /\ Exists
  /\ IF deque.size = 0 THEN returned' = Nothing /\ UNCHANGED deque
     ELSE returned' = deque.slots[deque.head] /\ deque' = PoppedLeft(deque)
  /\ UNCHANGED held

PopBack ==
  /\ Exists
  /\ IF deque.size = 0 THEN returned' = Nothing /\ UNCHANGED deque
     ELSE /\ returned' = deque.slots[Before(deque, deque.tail)]
          /\ deque' = PoppedBack(deque)
  /\ UNCHANGED held

PeekLeft ==
  /\ Exists
  /\ returned' = IF deque.size = 0 THEN Nothing ELSE deque.slots[deque.head]
  /\ UNCHANGED <<deque, held>>

PeekBack ==
  /\ Exists
  /\ returned' = IF deque.size = 0 THEN Nothing
                 ELSE deque.slots[Before(deque, deque.tail)]
  /\ UNCHANGED <<deque, held>>

Next ==
  \/ Create \/ CreateFails \/ Destroy
  \/ \E v \in Value : Push(v) \/ PushFront(v)
  \/ PushFails
  \/ PopLeft \/ PopBack \/ PeekLeft \/ PeekBack

Spec == Init /\ [][Next]_vars

-----------------------------------------------------------------------------
TypeOK ==
  /\ deque.capacity \in Nat \ {0}
  /\ deque = [size |-> deque.size, capacity |-> deque.capacity,
              head |-> deque.head, tail |-> deque.tail,
              buffer |-> deque.buffer, slots |-> deque.slots]
  /\ deque.size \in 0 .. deque.capacity
  /\ deque.head \in 0 .. deque.capacity - 1
  /\ deque.tail \in 0 .. deque.capacity - 1
  /\ deque.buffer \in Buffers
  /\ deque.slots \in [0 .. deque.capacity - 1 -> Value \cup {Junk}]
  /\ held \subseteq Buffers \cup {"deque"}
  /\ returned \in Value \cup {Nothing}

\* tail is one past the last element, modulo the capacity.  A full and an
\* empty deque both have head = tail, and only size tells them apart.
TailFollows == deque.tail = (deque.head + deque.size) % deque.capacity

\* Every slot of the window holds an element that was pushed.
ElementsAreValues == \A k \in 1 .. deque.size : deque.slots[Slot(deque, k)] \in Value

\* The deque holds its struct and its current buffer, and nothing else: a
\* growth gives the old buffer back, a failed create and a destroy all of it.
HeldExactly == held = IF Exists THEN {"deque", deque.buffer} ELSE {}

\* Through wrapping, growth and failures the callers see a sequence.
Contract == INSTANCE DequeContract WITH items <- Items(deque)
ImplementsContract == Contract!Spec

\* The circular buffer after any sequence of calls: head, tail and size agree
\* about the window at every rotation, the window holds pushed elements only,
\* and the deque holds its struct and one buffer.
Consistent == TypeOK /\ TailFollows /\ ElementsAreValues /\ HeldExactly

=============================================================================
