---------------------------- MODULE DequeProofs -----------------------------
(***************************************************************************)
(* The invariants of Deque for every element size, first capacity and      *)
(* width of size_t.  The difficulty is the modular window: the argument    *)
(* goes through WellFormed, which every list operation preserves, and two  *)
(* facts about % on numbers below twice the modulus.  The iterator masks   *)
(* where the deque takes %: that this is the same follows from the         *)
(* assertion in the code, by halving capacity and index together.          *)
(***************************************************************************)
EXTENDS MCDeque, SequenceTheorems, WellFoundedInduction, TLAPS

LEMMA ModSmall ==
  ASSUME NEW c \in Nat \ {0}, NEW n \in 0 .. c - 1
  PROVE  n % c = n
  OBVIOUS

LEMMA ModWrap ==
  ASSUME NEW c \in Nat \ {0}, NEW n \in c .. (2 * c) - 1
  PROVE  n % c = n - c
  OBVIOUS

LEMMA ModRange ==
  ASSUME NEW c \in Nat \ {0}, NEW n \in Nat
  PROVE  n % c \in 0 .. c - 1
  OBVIOUS

(***************************************************************************)
(* What one deque looks like, whoever holds it.                            *)
(***************************************************************************)
Shaped(d) ==
  /\ d.capacity \in Nat \ {0}
  /\ d = [size |-> d.size, capacity |-> d.capacity, head |-> d.head,
          tail |-> d.tail, buffer |-> d.buffer, slots |-> d.slots]
  /\ d.size \in 0 .. d.capacity
  /\ d.head \in 0 .. d.capacity - 1
  /\ d.tail \in 0 .. d.capacity - 1
  /\ d.buffer \in Buffers
  /\ d.slots \in [0 .. d.capacity - 1 -> Value \cup {Junk}]

\* The window without %: it runs up to the end of the buffer and then on
\* from the start.
SlotAt(d, k) ==
  IF d.head + k - 1 < d.capacity THEN d.head + k - 1 ELSE d.head + k - 1 - d.capacity

WellFormed(d) ==
  /\ Shaped(d)
  /\ d.tail = IF d.head + d.size < d.capacity THEN d.head + d.size
              ELSE d.head + d.size - d.capacity
  /\ \A k \in 1 .. d.size : d.slots[SlotAt(d, k)] \in Value

LEMMA SlotIsSlotAt ==
  ASSUME NEW d, Shaped(d), NEW k \in 1 .. d.capacity
  PROVE  Slot(d, k) = SlotAt(d, k) /\ SlotAt(d, k) \in 0 .. d.capacity - 1
<1> DEFINE n == d.head + k - 1
<1>1. /\ d.capacity \in Nat \ {0}
      /\ n \in 0 .. (2 * d.capacity) - 1
  BY DEF Shaped
<1>2. CASE n < d.capacity
  <2>1. n \in 0 .. d.capacity - 1
    BY <1>1, <1>2
  <2>2. n % d.capacity = n
    BY <1>1, <2>1, ModSmall
  <2> QED BY <1>2, <2>1, <2>2 DEF Slot, SlotAt
<1>3. CASE ~ (n < d.capacity)
  <2>1. n \in d.capacity .. (2 * d.capacity) - 1 /\ n - d.capacity \in 0 .. d.capacity - 1
    BY <1>1, <1>3
  <2>2. n % d.capacity = n - d.capacity
    BY <1>1, <2>1, ModWrap
  <2>3. SlotAt(d, k) = n - d.capacity
    BY <1>3 DEF SlotAt, Shaped
  <2>4. Slot(d, k) = n % d.capacity
    BY DEF Slot
  <2> HIDE DEF n
  <2> QED BY <2>1, <2>2, <2>3, <2>4
<1> QED BY <1>2, <1>3

LEMMA EmptyWellFormed == WellFormed(EmptyDeque)
  BY DefaultCapacityAssumption DEF WellFormed, Shaped, EmptyDeque, SlotAt, Buffers

\* Growing a full deque keeps its elements and leaves room for one more.
LEMMA GrownWellFormed ==
  ASSUME NEW d, WellFormed(d), d.size = d.capacity
  PROVE  WellFormed(Grown(d)) /\ Grown(d).size < Grown(d).capacity
<1> DEFINE g == Grown(d)
<1>1. /\ g.size = d.size /\ g.capacity = 2 * d.capacity
      /\ g.head = 0 /\ g.tail = d.size /\ g.buffer \in Buffers
      /\ g.slots = [i \in 0 .. (2 * d.capacity) - 1 |-> Moved(d, i)]
  BY DEF Grown, Fresh, Buffers
<1>2. \A i \in 0 .. d.size - 1 : Moved(d, i) = d.slots[SlotAt(d, i + 1)]
  BY SMTT(20) DEF Moved, WellFormed, Shaped, SlotAt
<1>3. \A i \in d.size .. (2 * d.capacity) - 1 : Moved(d, i) = Junk
  BY DEF Moved, WellFormed, Shaped
<1>4. \A i \in 0 .. d.size - 1 : Moved(d, i) \in Value
  <2> TAKE i \in 0 .. d.size - 1
  <2>1. i + 1 \in 1 .. d.size
    BY DEF WellFormed, Shaped
  <2> QED BY <2>1, <1>2 DEF WellFormed
<1>5. Shaped(g)
  <2>1. g.slots \in [0 .. g.capacity - 1 -> Value \cup {Junk}]
    BY <1>1, <1>3, <1>4 DEF WellFormed, Shaped
  <2> QED BY <1>1, <2>1 DEF Shaped, WellFormed, Grown
<1>6. \A k \in 1 .. g.size : g.slots[SlotAt(g, k)] \in Value
  <2> TAKE k \in 1 .. g.size
  <2>1. SlotAt(g, k) = k - 1 /\ k - 1 \in 0 .. d.size - 1
    BY <1>1 DEF SlotAt, WellFormed, Shaped
  <2> QED BY <1>1, <1>4, <2>1 DEF WellFormed, Shaped
<1>7. g.tail = g.head + g.size /\ g.head + g.size < g.capacity
  BY <1>1 DEF WellFormed, Shaped
<1>8. WellFormed(g)
  BY <1>5, <1>6, <1>7 DEF WellFormed
<1>9. g.size < g.capacity
  BY <1>1 DEF WellFormed, Shaped
<1> QED BY <1>8, <1>9

(***************************************************************************)
(* The operations keep a deque well formed.                                *)
(***************************************************************************)
LEMMA NextIndex ==
  ASSUME NEW c \in Nat \ {0}, NEW i \in 0 .. c - 1
  PROVE  (i + 1) % c = IF i = c - 1 THEN 0 ELSE i + 1
  BY ModSmall, ModWrap

LEMMA PreviousIndex ==
  ASSUME NEW c \in Nat \ {0}, NEW i \in 0 .. c - 1
  PROVE  (i + c - 1) % c = IF i = 0 THEN c - 1 ELSE i - 1
<1>1. CASE i = 0
  <2>1. i + c - 1 \in 0 .. c - 1 /\ i + c - 1 = c - 1
    BY <1>1
  <2> QED BY <1>1, <2>1, ModSmall
<1>2. CASE i # 0
  <2>1. i + c - 1 \in c .. (2 * c) - 1 /\ (i + c - 1) - c = i - 1
    BY <1>2
  <2> QED BY <1>2, <2>1, ModWrap
<1> QED BY <1>1, <1>2

LEMMA PushedBackWellFormed ==
  ASSUME NEW d, WellFormed(d), d.size < d.capacity, NEW v \in Value
  PROVE  WellFormed(PushedBack(d, v))
<1> DEFINE e == PushedBack(d, v)
<1>1. After(d, d.tail) = IF d.tail = d.capacity - 1 THEN 0 ELSE d.tail + 1
  BY NextIndex DEF WellFormed, Shaped, After
<1>2. /\ e = [size |-> e.size, capacity |-> e.capacity, head |-> e.head,
              tail |-> e.tail, buffer |-> e.buffer, slots |-> e.slots]
      /\ e.size = d.size + 1 /\ e.capacity = d.capacity
      /\ e.head = d.head /\ e.tail = After(d, d.tail)
      /\ e.buffer = d.buffer
      /\ e.slots = [d.slots EXCEPT ![d.tail] = v]
  BY DEF PushedBack, Window
<1> HIDE DEF e
<1>3. Shaped(e)
  BY <1>1, <1>2 DEF WellFormed, Shaped
<1>4. e.tail = IF e.head + e.size < e.capacity THEN e.head + e.size
               ELSE e.head + e.size - e.capacity
  BY <1>1, <1>2 DEF WellFormed, Shaped
<1>5. \A k \in 1 .. e.size : e.slots[SlotAt(e, k)] \in Value
  <2> TAKE k \in 1 .. e.size
  <2>1. CASE k = e.size
    <3>1. SlotAt(e, k) = d.tail
      BY <1>2, <2>1 DEF SlotAt, WellFormed, Shaped
    <3> QED BY <1>2, <3>1 DEF WellFormed, Shaped
  <2>2. CASE k # e.size
    <3>1. SlotAt(e, k) = SlotAt(d, k) /\ k \in 1 .. d.size
      BY <1>2, <2>2 DEF SlotAt, WellFormed, Shaped
    <3>2. SlotAt(d, k) # d.tail /\ SlotAt(d, k) \in 0 .. d.capacity - 1
      BY <3>1 DEF SlotAt, WellFormed, Shaped
    <3> QED BY <1>2, <3>1, <3>2 DEF WellFormed, Shaped
  <2> QED BY <2>1, <2>2
<1> QED BY <1>3, <1>4, <1>5 DEF WellFormed, e

LEMMA PushedFrontWellFormed ==
  ASSUME NEW d, WellFormed(d), d.size < d.capacity, NEW v \in Value
  PROVE  WellFormed(PushedFront(d, v))
<1> DEFINE e == PushedFront(d, v)
<1>1. Before(d, d.head) = IF d.head = 0 THEN d.capacity - 1 ELSE d.head - 1
  BY PreviousIndex DEF WellFormed, Shaped, Before
<1>2. /\ e = [size |-> e.size, capacity |-> e.capacity, head |-> e.head,
              tail |-> e.tail, buffer |-> e.buffer, slots |-> e.slots]
      /\ e.size = d.size + 1 /\ e.capacity = d.capacity
      /\ e.head = Before(d, d.head) /\ e.tail = d.tail /\ e.buffer = d.buffer
      /\ e.slots = [d.slots EXCEPT ![Before(d, d.head)] = v]
  BY DEF PushedFront, Window
<1> HIDE DEF e
<1>3. Shaped(e)
  BY <1>1, <1>2 DEF WellFormed, Shaped
<1>4. e.tail = IF e.head + e.size < e.capacity THEN e.head + e.size
               ELSE e.head + e.size - e.capacity
  BY <1>1, <1>2 DEF WellFormed, Shaped
<1>5. \A k \in 1 .. e.size : e.slots[SlotAt(e, k)] \in Value
  <2> TAKE k \in 1 .. e.size
  <2>1. CASE k = 1
    <3>1. SlotAt(e, k) = Before(d, d.head)
      BY <1>1, <1>2, <2>1 DEF SlotAt, WellFormed, Shaped
    <3> QED BY <1>1, <1>2, <3>1 DEF WellFormed, Shaped
  <2>2. CASE k # 1
    <3>1. SlotAt(e, k) = SlotAt(d, k - 1) /\ k - 1 \in 1 .. d.size
      BY <1>1, <1>2, <2>2, SMTT(20) DEF SlotAt, WellFormed, Shaped
    <3>2. SlotAt(d, k - 1) # Before(d, d.head) /\ SlotAt(d, k - 1) \in 0 .. d.capacity - 1
      BY <1>1, <3>1, SMTT(20) DEF SlotAt, WellFormed, Shaped
    <3>3. d.slots[SlotAt(d, k - 1)] \in Value
      BY <3>1 DEF WellFormed
    <3> QED BY <1>1, <1>2, <3>1, <3>2, <3>3 DEF WellFormed, Shaped
  <2> QED BY <2>1, <2>2
<1> QED BY <1>3, <1>4, <1>5 DEF WellFormed, e

LEMMA PoppedLeftWellFormed ==
  ASSUME NEW d, WellFormed(d), d.size # 0
  PROVE  WellFormed(PoppedLeft(d)) /\ d.slots[d.head] \in Value
<1> DEFINE e == PoppedLeft(d)
<1>1. After(d, d.head) = IF d.head = d.capacity - 1 THEN 0 ELSE d.head + 1
  BY NextIndex DEF WellFormed, Shaped, After
<1>2. /\ e = [size |-> e.size, capacity |-> e.capacity, head |-> e.head,
              tail |-> e.tail, buffer |-> e.buffer, slots |-> e.slots]
      /\ e.size = d.size - 1 /\ e.capacity = d.capacity
      /\ e.head = After(d, d.head) /\ e.tail = d.tail
      /\ e.buffer = d.buffer /\ e.slots = d.slots
  BY DEF PoppedLeft, Window
<1> HIDE DEF e
<1>3. Shaped(e)
  BY <1>1, <1>2, SMTT(20) DEF WellFormed, Shaped
<1>4. e.tail = IF e.head + e.size < e.capacity THEN e.head + e.size
               ELSE e.head + e.size - e.capacity
  BY <1>1, <1>2, SMTT(20) DEF WellFormed, Shaped
<1>5. \A k \in 1 .. e.size : e.slots[SlotAt(e, k)] \in Value
  <2> TAKE k \in 1 .. e.size
  <2>1. k \in Nat /\ k + 1 \in 1 .. d.size
    BY <1>2 DEF WellFormed, Shaped
  <2>2. SlotAt(e, k) = SlotAt(d, k + 1)
    <3>1. /\ d.head \in 0 .. d.capacity - 1 /\ d.capacity \in Nat
          /\ d.size \in 0 .. d.capacity /\ k \in 1 .. d.size - 1
      BY <1>2 DEF WellFormed, Shaped
    <3>2. e.head = IF d.head = d.capacity - 1 THEN 0 ELSE d.head + 1
      BY <1>1, <1>2
    <3> QED BY <1>2, <3>1, <3>2 DEF SlotAt
  <2> QED BY <1>2, <2>1, <2>2 DEF WellFormed
<1>6. SlotAt(d, 1) = d.head /\ 1 \in 1 .. d.size
  BY DEF SlotAt, WellFormed, Shaped
<1>7. d.slots[d.head] \in Value
  BY <1>6 DEF WellFormed
<1>8. WellFormed(e)
  BY <1>3, <1>4, <1>5 DEF WellFormed
<1> QED BY <1>7, <1>8 DEF e

LEMMA PoppedBackWellFormed ==
  ASSUME NEW d, WellFormed(d), d.size # 0
  PROVE  WellFormed(PoppedBack(d)) /\ d.slots[Before(d, d.tail)] \in Value
<1> DEFINE e == PoppedBack(d)
<1>1. Before(d, d.tail) = IF d.tail = 0 THEN d.capacity - 1 ELSE d.tail - 1
  BY PreviousIndex DEF WellFormed, Shaped, Before
<1>2. /\ e = [size |-> e.size, capacity |-> e.capacity, head |-> e.head,
              tail |-> e.tail, buffer |-> e.buffer, slots |-> e.slots]
      /\ e.size = d.size - 1 /\ e.capacity = d.capacity
      /\ e.head = d.head /\ e.tail = Before(d, d.tail)
      /\ e.buffer = d.buffer /\ e.slots = d.slots
  BY DEF PoppedBack, Window
<1> HIDE DEF e
<1>3. Shaped(e)
  BY <1>1, <1>2 DEF WellFormed, Shaped
<1>4. e.tail = IF e.head + e.size < e.capacity THEN e.head + e.size
               ELSE e.head + e.size - e.capacity
  <2>1. /\ d.head \in 0 .. d.capacity - 1 /\ d.tail \in 0 .. d.capacity - 1
        /\ d.capacity \in Nat /\ d.size \in 1 .. d.capacity
        /\ d.tail = IF d.head + d.size < d.capacity THEN d.head + d.size
                    ELSE d.head + d.size - d.capacity
    BY DEF WellFormed, Shaped
  <2>2. e.tail = IF d.tail = 0 THEN d.capacity - 1 ELSE d.tail - 1
    BY <1>1, <1>2
  <2> QED BY <1>2, <2>1, <2>2
<1>5. \A k \in 1 .. e.size : e.slots[SlotAt(e, k)] \in Value
  <2> TAKE k \in 1 .. e.size
  <2>1. SlotAt(e, k) = SlotAt(d, k) /\ k \in 1 .. d.size
    BY <1>2 DEF SlotAt, WellFormed, Shaped
  <2> QED BY <1>2, <2>1 DEF WellFormed
<1>6. SlotAt(d, d.size) = Before(d, d.tail) /\ d.size \in 1 .. d.size
  BY <1>1, SMTT(20) DEF SlotAt, WellFormed, Shaped
<1>7. d.slots[Before(d, d.tail)] \in Value
  BY <1>6 DEF WellFormed
<1>8. WellFormed(e)
  BY <1>3, <1>4, <1>5 DEF WellFormed
<1> QED BY <1>7, <1>8 DEF e

(***************************************************************************)
(* The inductive invariant.                                                *)
(***************************************************************************)
IInv ==
  /\ WellFormed(deque)
  /\ HeldExactly
  /\ Exists \/ deque = EmptyDeque
  /\ returned \in Value \cup {Nothing}

LEMMA RoomyWellFormed ==
  ASSUME WellFormed(deque), HasRoom
  PROVE  WellFormed(Roomy) /\ Roomy.size < Roomy.capacity
<1>1. CASE deque.size = deque.capacity
  BY <1>1, GrownWellFormed DEF Roomy
<1>2. CASE deque.size # deque.capacity
  BY <1>2 DEF Roomy, WellFormed, Shaped
<1> QED BY <1>1, <1>2

\* A growth swaps the buffer it holds for a fresh one.
LEMMA GrowthHolds ==
  ASSUME WellFormed(deque), HeldExactly, Exists
  PROVE  HeldAfterGrowth = {"deque", Roomy.buffer}
<1>1. held = {"deque", deque.buffer} /\ deque.buffer \in Buffers
  BY DEF HeldExactly, WellFormed, Shaped
<1>2. CASE deque.size = deque.capacity
  <2>1. Roomy.buffer = Fresh(deque.buffer)
    BY <1>2 DEF Roomy, Grown
  <2> QED BY <1>1, <1>2, <2>1 DEF HeldAfterGrowth, Fresh, Buffers
<1>3. CASE deque.size # deque.capacity
  BY <1>1, <1>3 DEF HeldAfterGrowth, Roomy
<1> QED BY <1>2, <1>3

LEMMA HeldFrom ==
  ASSUME held' = {"deque", deque'.buffer}
  PROVE  HeldExactly' /\ Exists'
  BY DEF HeldExactly, Exists

LEMMA InvInit == Init => IInv
  BY EmptyWellFormed DEF Init, IInv, HeldExactly, Exists

LEMMA InvNext == IInv /\ [Next]_vars => IInv'
<1> SUFFICES ASSUME IInv, [Next]_vars PROVE IInv'
  OBVIOUS
<1> USE DEF IInv
<1>1. CASE Create
  <2>1. WellFormed(deque)'
    BY <1>1, EmptyWellFormed DEF Create
  <2>2. HeldExactly' /\ Exists'
    BY <1>1, HeldFrom DEF Create
  <2> QED BY <1>1, <2>1, <2>2 DEF Create
<1>2. CASE CreateFails
  BY <1>2 DEF CreateFails, HeldExactly, Exists
<1>3. CASE Destroy
  <2>1. WellFormed(deque)'
    BY <1>3, EmptyWellFormed DEF Destroy
  <2>2. HeldExactly'
    BY <1>3 DEF Destroy, HeldExactly, Exists
  <2> QED BY <1>3, <2>1, <2>2 DEF Destroy
<1>4. CASE \E v \in Value : Push(v)
  <2> PICK v \in Value : Push(v)
    BY <1>4
  <2>1. WellFormed(deque)'
    BY RoomyWellFormed, PushedBackWellFormed DEF Push
  <2>2. deque'.buffer = Roomy.buffer
    BY DEF Push, PushedBack, Window
  <2>3. HeldExactly' /\ Exists'
    BY <2>2, GrowthHolds, HeldFrom DEF Push
  <2> QED BY <2>1, <2>3 DEF Push
<1>5. CASE \E v \in Value : PushFront(v)
  <2> PICK v \in Value : PushFront(v)
    BY <1>5
  <2>1. WellFormed(deque)'
    BY RoomyWellFormed, PushedFrontWellFormed DEF PushFront
  <2>2. deque'.buffer = Roomy.buffer
    BY DEF PushFront, PushedFront, Window
  <2>3. HeldExactly' /\ Exists'
    BY <2>2, GrowthHolds, HeldFrom DEF PushFront
  <2> QED BY <2>1, <2>3 DEF PushFront
<1>6. CASE PopLeft
  <2>1. CASE deque.size = 0
    BY <1>6, <2>1 DEF PopLeft, HeldExactly, Exists
  <2>2. CASE deque.size # 0
    <3>1. WellFormed(deque)' /\ returned' \in Value
      BY <1>6, <2>2, PoppedLeftWellFormed DEF PopLeft
    <3>2. HeldExactly' /\ Exists'
      BY <1>6, <2>2, HeldFrom DEF PopLeft, PoppedLeft, Window, HeldExactly
    <3> QED BY <3>1, <3>2
  <2> QED BY <2>1, <2>2
<1>7. CASE PopBack
  <2>1. CASE deque.size = 0
    BY <1>7, <2>1 DEF PopBack, HeldExactly, Exists
  <2>2. CASE deque.size # 0
    <3>1. WellFormed(deque)' /\ returned' \in Value
      BY <1>7, <2>2, PoppedBackWellFormed DEF PopBack
    <3>2. HeldExactly' /\ Exists'
      BY <1>7, <2>2, HeldFrom DEF PopBack, PoppedBack, Window, HeldExactly
    <3> QED BY <3>1, <3>2
  <2> QED BY <2>1, <2>2
<1>8. CASE PeekLeft
  BY <1>8, PoppedLeftWellFormed DEF PeekLeft, HeldExactly, Exists
<1>9. CASE PeekBack
  BY <1>9, PoppedBackWellFormed DEF PeekBack, HeldExactly, Exists
<1>10. CASE PushFails \/ UNCHANGED vars
  BY <1>10 DEF PushFails, vars, HeldExactly, Exists
<1> QED BY <1>1, <1>2, <1>3, <1>4, <1>5, <1>6, <1>7, <1>8, <1>9, <1>10 DEF Next

LEMMA InvHolds == Spec => []IInv
  BY InvInit, InvNext, PTL DEF Spec

LEMMA InvImplies ==
  IInv => TypeOK /\ TailFollows /\ ElementsAreValues /\ HeldExactly
<1> SUFFICES ASSUME IInv PROVE TypeOK /\ TailFollows /\ ElementsAreValues /\ HeldExactly
  OBVIOUS
<1>1. WellFormed(deque) /\ Shaped(deque) /\ HeldExactly
  BY DEF IInv, WellFormed
<1>2. TypeOK
  BY <1>1 DEF TypeOK, Shaped, IInv, HeldExactly
<1>3. TailFollows
  <2> DEFINE n == deque.head + deque.size
  <2>1. /\ deque.capacity \in Nat \ {0} /\ n \in 0 .. (2 * deque.capacity) - 1
        /\ deque.tail = IF n < deque.capacity THEN n ELSE n - deque.capacity
    BY <1>1 DEF WellFormed, Shaped
  <2> HIDE DEF n
  <2>2. deque.tail = n % deque.capacity
    BY <2>1, ModSmall, ModWrap
  <2> QED BY <2>2 DEF TailFollows, n
<1>4. ElementsAreValues
  <2> SUFFICES ASSUME NEW k \in 1 .. deque.size
               PROVE  deque.slots[Slot(deque, k)] \in Value
    BY DEF ElementsAreValues
  <2>1. k \in 1 .. deque.capacity
    BY <1>1 DEF Shaped
  <2> QED BY <1>1, <2>1, SlotIsSlotAt DEF WellFormed
<1> QED BY <1>1, <1>2, <1>3, <1>4

\* deque.c: the fields of the deque stay in range whatever is called.
THEOREM TypeCorrect == Spec => []TypeOK
  BY InvHolds, InvImplies, PTL

\* deque.c:192-264: tail stays one past the last element, through wraps of
\* either end and through growth.
THEOREM TailIsExact == Spec => []TailFollows
  BY InvHolds, InvImplies, PTL

\* deque.c:192-288: a slot of the window was always written by a push, so no
\* pop or peek returns a slot nobody wrote.
THEOREM WindowHoldsElements == Spec => []ElementsAreValues
  BY InvHolds, InvImplies, PTL

\* deque.c:84-140, 156-190, 314-320: nothing leaks and nothing is freed twice.
THEOREM MemoryIsExact == Spec => []HeldExactly
  BY InvHolds, InvImplies, PTL

\* deque.c as a whole: the four together, for every capacity and element size.
THEOREM DequeIsConsistent == Spec => []Consistent
  BY TypeCorrect, TailIsExact, WindowHoldsElements, MemoryIsExact, PTL DEF Consistent

(***************************************************************************)
(* The deque implements its contract: what each list operation does to the *)
(* sequence of elements.                                                   *)
(***************************************************************************)
LEMMA ItemsOf ==
  ASSUME NEW d, WellFormed(d)
  PROVE  /\ Items(d) \in Seq(Value)
         /\ Len(Items(d)) = d.size /\ d.size \in Nat
         /\ \A k \in 1 .. d.size : Items(d)[k] = d.slots[SlotAt(d, k)]
<1>1. d.size \in Nat /\ Shaped(d)
  BY DEF WellFormed, Shaped
<1>2. \A k \in 1 .. d.size : Slot(d, k) = SlotAt(d, k)
  <2> TAKE k \in 1 .. d.size
  <2>1. k \in 1 .. d.capacity
    BY <1>1 DEF Shaped
  <2> QED BY <1>1, <2>1, SlotIsSlotAt
<1>3. \A k \in 1 .. d.size : d.slots[Slot(d, k)] \in Value
  BY <1>2 DEF WellFormed
<1> HIDE DEF WellFormed
<1>4. Items(d) \in [1 .. d.size -> Value]
  BY <1>3 DEF Items
<1> QED BY <1>1, <1>2, <1>4 DEF Items

LEMMA ItemsEmpty == Items(EmptyDeque) = << >>
<1>1. EmptyDeque.size = 0
  BY DEF EmptyDeque
<1>2. Items(EmptyDeque) \in Seq(Value) /\ Len(Items(EmptyDeque)) = 0
  BY <1>1, EmptyWellFormed, ItemsOf
<1> QED BY <1>2, EmptySeq

LEMMA ItemsGrown ==
  ASSUME NEW d, WellFormed(d), d.size = d.capacity
  PROVE  Items(Grown(d)) = Items(d)
<1> DEFINE g == Grown(d)
<1>1. WellFormed(g) /\ g.size = d.size
  BY GrownWellFormed DEF Grown
<1>2. \A k \in 1 .. d.size : g.slots[SlotAt(g, k)] = d.slots[SlotAt(d, k)]
  <2> TAKE k \in 1 .. d.size
  <2>1. SlotAt(g, k) = k - 1 /\ k - 1 \in 0 .. (2 * d.capacity) - 1
    BY DEF SlotAt, Grown, WellFormed, Shaped
  <2>2. g.slots[k - 1] = Moved(d, k - 1)
    BY <2>1 DEF Grown
  <2>3. Moved(d, k - 1) = d.slots[SlotAt(d, k)]
    BY DEF Moved, WellFormed, Shaped, SlotAt
  <2> QED BY <2>1, <2>2, <2>3
<1> HIDE DEF g
<1>3. \A k \in 1 .. d.size : Items(g)[k] = Items(d)[k]
  BY <1>1, <1>2, ItemsOf
<1>4. Items(g) \in Seq(Value) /\ Items(d) \in Seq(Value)
      /\ Len(Items(g)) = d.size /\ Len(Items(d)) = d.size
  BY <1>1, ItemsOf
<1>5. Items(g) = Items(d)
  BY <1>3, <1>4, SeqEqual
<1> QED BY <1>5 DEF g

LEMMA ItemsPushedBack ==
  ASSUME NEW d, WellFormed(d), d.size < d.capacity, NEW v \in Value
  PROVE  Items(PushedBack(d, v)) = Append(Items(d), v)
<1> DEFINE e == PushedBack(d, v)
           s == Items(d)
<1>1. WellFormed(e)
  BY PushedBackWellFormed
<1>2. /\ e.size = d.size + 1 /\ e.capacity = d.capacity /\ e.head = d.head
      /\ e.slots = [d.slots EXCEPT ![d.tail] = v]
  BY DEF PushedBack, Window
<1>3. SlotAt(e, d.size + 1) = d.tail
  BY <1>2 DEF SlotAt, WellFormed, Shaped
<1>4. \A k \in 1 .. d.size :
        /\ SlotAt(e, k) = SlotAt(d, k) /\ SlotAt(d, k) # d.tail
        /\ SlotAt(d, k) \in 0 .. d.capacity - 1
  BY <1>2 DEF SlotAt, WellFormed, Shaped
<1>5. d.slots \in [0 .. d.capacity - 1 -> Value \cup {Junk}] /\ d.tail \in 0 .. d.capacity - 1
  BY DEF WellFormed, Shaped
<1> HIDE DEF e
<1>6. /\ Items(e) \in Seq(Value) /\ Len(Items(e)) = d.size + 1
      /\ \A k \in 1 .. d.size + 1 : Items(e)[k] = e.slots[SlotAt(e, k)]
  BY <1>1, <1>2, ItemsOf
<1>7. /\ s \in Seq(Value) /\ Len(s) = d.size /\ d.size \in Nat
      /\ \A k \in 1 .. d.size : s[k] = d.slots[SlotAt(d, k)]
  BY ItemsOf
<1> HIDE DEF s
<1>8. /\ Append(s, v) \in Seq(Value) /\ Len(Append(s, v)) = d.size + 1
      /\ \A k \in 1 .. d.size : Append(s, v)[k] = s[k]
      /\ Append(s, v)[d.size + 1] = v
  BY <1>7, AppendProperties
<1>9. \A k \in 1 .. d.size + 1 : Items(e)[k] = Append(s, v)[k]
  <2> TAKE k \in 1 .. d.size + 1
  <2>1. CASE k = d.size + 1
    <3>1. Items(e)[k] = e.slots[d.tail]
      BY <1>3, <1>6, <2>1
    <3>2. e.slots[d.tail] = v
      BY <1>2, <1>5
    <3> QED BY <1>8, <2>1, <3>1, <3>2
  <2>2. CASE k # d.size + 1
    <3>1. k \in 1 .. d.size
      BY <1>7, <2>2
    <3> QED BY <1>2, <1>4, <1>5, <1>6, <1>7, <1>8, <3>1
  <2> QED BY <2>1, <2>2
<1>10. Items(e) = Append(s, v)
  BY <1>6, <1>8, <1>9, SeqEqual
<1> QED BY <1>10 DEF e, s

LEMMA ItemsPushedFront ==
  ASSUME NEW d, WellFormed(d), d.size < d.capacity, NEW v \in Value
  PROVE  Items(PushedFront(d, v)) = <<v>> \o Items(d)
<1> DEFINE e == PushedFront(d, v)
           s == Items(d)
           h == Before(d, d.head)
<1>1. WellFormed(e)
  BY PushedFrontWellFormed
<1>2. /\ e.size = d.size + 1 /\ e.capacity = d.capacity /\ e.head = h
      /\ e.slots = [d.slots EXCEPT ![h] = v]
  BY DEF PushedFront, Window
<1>3. /\ h = IF d.head = 0 THEN d.capacity - 1 ELSE d.head - 1
      /\ h \in 0 .. d.capacity - 1
  BY PreviousIndex, SMTT(20) DEF WellFormed, Shaped, Before
<1> HIDE DEF h
<1>4. SlotAt(e, 1) = h
  BY <1>2, <1>3 DEF SlotAt, WellFormed, Shaped
<1>5. \A k \in 1 .. d.size :
        /\ SlotAt(e, k + 1) = SlotAt(d, k) /\ SlotAt(d, k) # h
        /\ SlotAt(d, k) \in 0 .. d.capacity - 1
  BY <1>2, <1>3, SMTT(20) DEF SlotAt, WellFormed, Shaped
<1>6. d.slots \in [0 .. d.capacity - 1 -> Value \cup {Junk}]
  BY DEF WellFormed, Shaped
<1> HIDE DEF e
<1>7. /\ Items(e) \in Seq(Value) /\ Len(Items(e)) = d.size + 1
      /\ \A k \in 1 .. d.size + 1 : Items(e)[k] = e.slots[SlotAt(e, k)]
  BY <1>1, <1>2, ItemsOf
<1>8. /\ s \in Seq(Value) /\ Len(s) = d.size /\ d.size \in Nat
      /\ \A k \in 1 .. d.size : s[k] = d.slots[SlotAt(d, k)]
  BY ItemsOf
<1> HIDE DEF s
<1>9. /\ <<v>> \o s \in Seq(Value) /\ Len(<<v>> \o s) = d.size + 1
      /\ \A k \in 1 .. d.size + 1 :
           (<<v>> \o s)[k] = IF k = 1 THEN v ELSE s[k - 1]
  <2>1. <<v>> \in Seq(Value) /\ Len(<<v>>) = 1 /\ <<v>>[1] = v
    OBVIOUS
  <2> QED BY <1>8, <2>1, ConcatProperties
<1>10. \A k \in 1 .. d.size + 1 : Items(e)[k] = (<<v>> \o s)[k]
  <2> TAKE k \in 1 .. d.size + 1
  <2>1. CASE k = 1
    <3>1. Items(e)[k] = e.slots[h]
      BY <1>4, <1>7, <2>1
    <3>2. e.slots[h] = v
      BY <1>2, <1>3, <1>6
    <3>3. (<<v>> \o s)[k] = v
      BY <1>9, <2>1
    <3> QED BY <3>1, <3>2, <3>3
  <2>2. CASE k # 1
    <3>1. k - 1 \in 1 .. d.size /\ (k - 1) + 1 = k
      BY <1>8, <2>2
    <3>2. /\ SlotAt(e, k) = SlotAt(d, k - 1) /\ SlotAt(d, k - 1) # h
          /\ SlotAt(d, k - 1) \in 0 .. d.capacity - 1
      <4>1. SlotAt(e, (k - 1) + 1) = SlotAt(d, k - 1)
        BY <1>5, <3>1
      <4> QED BY <1>5, <3>1, <4>1
    <3>3. e.slots[SlotAt(d, k - 1)] = d.slots[SlotAt(d, k - 1)]
      BY <1>2, <1>6, <3>2
    <3>4. Items(e)[k] = e.slots[SlotAt(e, k)]
      BY <1>7
    <3>5. (<<v>> \o s)[k] = s[k - 1]
      BY <1>9, <2>2
    <3>6. s[k - 1] = d.slots[SlotAt(d, k - 1)]
      BY <1>8, <3>1
    <3> QED BY <3>2, <3>3, <3>4, <3>5, <3>6
  <2> QED BY <2>1, <2>2
<1>11. Items(e) = <<v>> \o s
  BY <1>7, <1>9, <1>10, SeqEqual
<1> QED BY <1>11 DEF e, s

LEMMA ItemsPoppedLeft ==
  ASSUME NEW d, WellFormed(d), d.size # 0
  PROVE  /\ Items(d) # << >>
         /\ Head(Items(d)) = d.slots[d.head]
         /\ Items(PoppedLeft(d)) = Tail(Items(d))
<1> DEFINE e == PoppedLeft(d)
           s == Items(d)
<1>1. WellFormed(e)
  BY PoppedLeftWellFormed
<1>2. /\ e.size = d.size - 1 /\ e.capacity = d.capacity /\ e.head = After(d, d.head)
      /\ e.slots = d.slots
  BY DEF PoppedLeft, Window
<1>3. SlotAt(d, 1) = d.head
  BY DEF SlotAt, WellFormed, Shaped
<1>4. /\ d.head \in 0 .. d.capacity - 1 /\ d.capacity \in Nat \ {0}
      /\ d.size \in 1 .. d.capacity
  BY DEF WellFormed, Shaped
<1>5. After(d, d.head) = IF d.head = d.capacity - 1 THEN 0 ELSE d.head + 1
  BY <1>4, NextIndex DEF After
<1> HIDE DEF e
<1>6. \A k \in 1 .. d.size - 1 : SlotAt(e, k) = SlotAt(d, k + 1)
  BY <1>2, <1>4, <1>5 DEF SlotAt
<1>7. /\ Items(e) \in Seq(Value) /\ Len(Items(e)) = d.size - 1
      /\ \A k \in 1 .. d.size - 1 : Items(e)[k] = e.slots[SlotAt(e, k)]
  BY <1>1, <1>2, ItemsOf
<1>8. /\ s \in Seq(Value) /\ Len(s) = d.size
      /\ \A k \in 1 .. d.size : s[k] = d.slots[SlotAt(d, k)]
  BY ItemsOf
<1> HIDE DEF s
<1>9. s # << >> /\ Head(s) = s[1] /\ Head(s) = d.slots[d.head]
  BY <1>3, <1>4, <1>8
<1>10. /\ Tail(s) \in Seq(Value) /\ Len(Tail(s)) = d.size - 1
       /\ \A k \in 1 .. d.size - 1 : Tail(s)[k] = s[k + 1]
  BY <1>8, <1>9, HeadTailProperties
<1>11. \A k \in 1 .. d.size - 1 : Items(e)[k] = Tail(s)[k]
  <2> TAKE k \in 1 .. d.size - 1
  <2>1. k + 1 \in 1 .. d.size
    BY <1>4
  <2> QED BY <1>2, <1>6, <1>7, <1>8, <1>10, <2>1
<1>12. Items(e) = Tail(s)
  BY <1>7, <1>10, <1>11, SeqEqual
<1> QED BY <1>9, <1>12 DEF e, s

LEMMA ItemsPoppedBack ==
  ASSUME NEW d, WellFormed(d), d.size # 0
  PROVE  /\ Items(d) # << >>
         /\ Items(d)[Len(Items(d))] = d.slots[Before(d, d.tail)]
         /\ Items(PoppedBack(d)) = SubSeq(Items(d), 1, Len(Items(d)) - 1)
<1> DEFINE e == PoppedBack(d)
           s == Items(d)
<1>1. WellFormed(e)
  BY PoppedBackWellFormed
<1>2. /\ e.size = d.size - 1 /\ e.capacity = d.capacity /\ e.head = d.head
      /\ e.slots = d.slots
  BY DEF PoppedBack, Window
<1>3. /\ d.head \in 0 .. d.capacity - 1 /\ d.capacity \in Nat \ {0}
      /\ d.size \in 1 .. d.capacity /\ d.tail \in 0 .. d.capacity - 1
      /\ d.tail = IF d.head + d.size < d.capacity THEN d.head + d.size
                  ELSE d.head + d.size - d.capacity
  BY DEF WellFormed, Shaped
<1>4. Before(d, d.tail) = IF d.tail = 0 THEN d.capacity - 1 ELSE d.tail - 1
  BY <1>3, PreviousIndex DEF Before
<1>5. SlotAt(d, d.size) = Before(d, d.tail)
  BY <1>3, <1>4 DEF SlotAt
<1> HIDE DEF e
<1>6. \A k \in 1 .. d.size - 1 : SlotAt(e, k) = SlotAt(d, k)
  BY <1>2 DEF SlotAt
<1>7. /\ Items(e) \in Seq(Value) /\ Len(Items(e)) = d.size - 1
      /\ \A k \in 1 .. d.size - 1 : Items(e)[k] = e.slots[SlotAt(e, k)]
  BY <1>1, <1>2, ItemsOf
<1>8. /\ s \in Seq(Value) /\ Len(s) = d.size
      /\ \A k \in 1 .. d.size : s[k] = d.slots[SlotAt(d, k)] /\ s[k] \in Value
  BY ItemsOf
<1> HIDE DEF s
<1>9. s # << >> /\ s[Len(s)] = d.slots[Before(d, d.tail)]
  BY <1>3, <1>5, <1>8
<1> DEFINE t == SubSeq(s, 1, d.size - 1)
<1>10. /\ t \in Seq(Value) /\ Len(t) = d.size - 1
       /\ \A k \in 1 .. d.size - 1 : t[k] = s[k]
  BY <1>3, <1>8, SubSeqProperties
<1>11. \A k \in 1 .. d.size - 1 : Items(e)[k] = t[k]
  <2> TAKE k \in 1 .. d.size - 1
  <2>1. k \in 1 .. d.size
    BY <1>3
  <2>2. Items(e)[k] = d.slots[SlotAt(d, k)]
    BY <1>2, <1>6, <1>7
  <2> QED BY <1>8, <1>10, <2>1, <2>2
<1> HIDE DEF t
<1>12. Items(e) = t
  BY <1>7, <1>10, <1>11, SeqEqual
<1> QED BY <1>8, <1>9, <1>12 DEF e, s, t

LEMMA RefineInit == Init => Contract!Init
  BY ItemsEmpty DEF Init, Contract!Init

LEMMA RefineNext ==
  IInv /\ [Next]_vars => [Contract!Next]_(Contract!contractVars)
<1> SUFFICES ASSUME IInv, [Next]_vars
             PROVE  Contract!Next \/ UNCHANGED Contract!contractVars
  OBVIOUS
<1> USE DEF Contract!contractVars
<1>1. WellFormed(deque) /\ (deque.size = 0 => Items(deque) = << >>)
  <2>1. WellFormed(deque)
    BY DEF IInv
  <2> QED BY <2>1, ItemsOf, EmptySeq
<1>2. Items(Roomy) = Items(deque)
  BY <1>1, ItemsGrown DEF Roomy
<1>3. CASE Create
  BY <1>3, ItemsEmpty DEF Create, IInv
<1>4. CASE CreateFails
  BY <1>4 DEF CreateFails
<1>5. CASE Destroy
  BY <1>5, ItemsEmpty DEF Destroy, Contract!Destroy, Contract!Next
<1>6. CASE \E v \in Value : Push(v)
  <2> PICK v \in Value : Push(v)
    BY <1>6
  <2>1. Items(deque') = Append(Items(deque), v)
    BY <1>1, <1>2, RoomyWellFormed, ItemsPushedBack DEF Push
  <2> QED BY <2>1 DEF Push, Contract!PushBack, Contract!Next
<1>7. CASE \E v \in Value : PushFront(v)
  <2> PICK v \in Value : PushFront(v)
    BY <1>7
  <2>1. Items(deque') = <<v>> \o Items(deque)
    BY <1>1, <1>2, RoomyWellFormed, ItemsPushedFront DEF PushFront
  <2> QED BY <2>1 DEF PushFront, Contract!PushFront, Contract!Next
<1>8. CASE PopLeft
  <2>1. Contract!PopLeft
    BY <1>1, <1>8, ItemsPoppedLeft DEF PopLeft, Contract!PopLeft
  <2> QED BY <2>1 DEF Contract!Next
<1>9. CASE PopBack
  <2>1. Contract!PopBack
    BY <1>1, <1>9, ItemsPoppedBack DEF PopBack, Contract!PopBack
  <2> QED BY <2>1 DEF Contract!Next
<1>10. CASE PeekLeft
  <2>1. Contract!PeekLeft
    BY <1>1, <1>10, ItemsPoppedLeft DEF PeekLeft, Contract!PeekLeft
  <2> QED BY <2>1 DEF Contract!Next
<1>11. CASE PeekBack
  <2>1. Contract!PeekBack
    BY <1>1, <1>11, ItemsPoppedBack DEF PeekBack, Contract!PeekBack
  <2> QED BY <2>1 DEF Contract!Next
<1>12. CASE PushFails \/ UNCHANGED vars
  BY <1>12 DEF PushFails, vars
<1> QED BY <1>3, <1>4, <1>5, <1>6, <1>7, <1>8, <1>9, <1>10, <1>11, <1>12 DEF Next

\* deque.h: callers observe a normal front-to-back sequence, for every
\* element size, first capacity and width of size_t.
THEOREM DequeImplementsContract == Spec => ImplementsContract
<1>1. Spec => Contract!Init /\ [][Contract!Next]_(Contract!contractVars)
  BY RefineInit, RefineNext, InvHolds, PTL DEF Spec
<1> QED BY <1>1 DEF ImplementsContract, Contract!Spec

-----------------------------------------------------------------------------
(***************************************************************************)
(* The operator & of the iterator: with a capacity that is a power of two  *)
(* in the sense of the code's assertion, masking an index that ran past    *)
(* the end of the buffer wraps it.                                         *)
(***************************************************************************)

LEMMA Least ==
  ASSUME NEW T, T \subseteq Nat, T # {}
  PROVE  \E m \in T : \A k \in T : m <= k
<1>1. PICK m \in T : \A k \in T : <<k, m>> \notin OpToRel(<, Nat)
  BY WFMin, NatLessThanWellFounded, Zenon
<1>2. m \in Nat /\ \A k \in T : k \in Nat
  OBVIOUS
<1>3. \A k \in T : ~ (k < m)
  BY <1>1, <1>2, Zenon DEF OpToRel
<1> QED BY <1>2, <1>3

\* One turn of &'s recursion at x, given it for smaller numbers.
AndTurn(f, x) ==
  [y \in Nat |-> IF x = 0 THEN 0
                 ELSE 2 * f[x \div 2][y \div 2] + (IF x % 2 = 1 THEN y % 2 ELSE 0)]

AndUpTo(f, n) == \A x \in 0 .. n : f[x] = AndTurn(f, x)

LEMMA HalfOf ==
  ASSUME NEW x \in Nat
  PROVE  /\ x \div 2 \in Nat /\ x % 2 \in {0, 1} /\ x % 2 = x - 2 * (x \div 2)
         /\ x # 0 => x \div 2 < x
         /\ x \div 2 <= x
<1>1. x \div 2 \in Nat
  OBVIOUS
<1>2. x % 2 \in 0 .. 1
  OBVIOUS
<1>3. x % 2 = x - 2 * (x \div 2)
  OBVIOUS
<1> QED BY <1>1, <1>2, <1>3

\* A turn looks at half its argument only.
LEMMA TurnLooksDown ==
  ASSUME NEW f, NEW g, NEW x \in Nat, x # 0 => f[x \div 2] = g[x \div 2]
  PROVE  AndTurn(f, x) = AndTurn(g, x)
BY DEF AndTurn

LEMMA AndIsUnique ==
  ASSUME NEW f, NEW g, NEW n \in Nat, AndUpTo(f, n), AndUpTo(g, n)
  PROVE  \A x \in 0 .. n : f[x] = g[x]
<1> SUFFICES ASSUME \E x \in 0 .. n : f[x] # g[x] PROVE FALSE
  OBVIOUS
<1> DEFINE T == {x \in 0 .. n : f[x] # g[x]}
<1>1. T \subseteq Nat /\ T # {}
  OBVIOUS
<1>2. PICK m \in T : \A k \in T : m <= k
  BY <1>1, Least
<1>3. m \in 0 .. n /\ m \in Nat /\ f[m] # g[m]
  OBVIOUS
<1>4. m # 0 => f[m \div 2] = g[m \div 2]
  <2>1. m # 0 => m \div 2 \in 0 .. n /\ ~ (m <= m \div 2)
    BY <1>3, HalfOf
  <2> QED BY <1>2, <2>1
<1>5. f[m] = g[m]
  BY <1>3, <1>4, TurnLooksDown DEF AndUpTo
<1> QED BY <1>3, <1>5

LEMMA AndExists ==
  ASSUME NEW n \in Nat
  PROVE  \E f : AndUpTo(f, n)
<1> SUFFICES ASSUME ~ \E f : AndUpTo(f, n) PROVE FALSE
  OBVIOUS
<1> DEFINE T == {j \in Nat : ~ \E f : AndUpTo(f, j)}
<1>1. T \subseteq Nat /\ T # {}
  OBVIOUS
<1>2. PICK m \in T : \A k \in T : m <= k
  BY <1>1, Least
<1>3. m \in Nat /\ ~ \E f : AndUpTo(f, m)
  OBVIOUS
<1>4. \E f : \A x \in 0 .. m - 1 : f[x] = AndTurn(f, x)
  <2>1. CASE m = 0
    <3>1. 0 .. m - 1 = {}
      BY <2>1
    <3> QED BY <3>1
  <2>2. CASE m # 0
    <3>1. m - 1 \in Nat /\ ~ (m <= m - 1)
      BY <1>3, <2>2
    <3>2. m - 1 \notin T
      BY <1>2, <3>1
    <3> QED BY <3>1, <3>2 DEF AndUpTo
  <2> QED BY <2>1, <2>2
<1>5. PICK f : \A x \in 0 .. m - 1 : f[x] = AndTurn(f, x)
  BY <1>4
<1>6. PICK g : g = [x \in 0 .. m |-> AndTurn(f, x)]
  OBVIOUS
<1>7. \A x \in 0 .. m : g[x] = AndTurn(f, x)
  BY <1>6
<1>8. ASSUME NEW x \in 0 .. m PROVE AndTurn(f, x) = AndTurn(g, x)
  <2>1. x \in Nat /\ (x # 0 => x \div 2 \in 0 .. m - 1 /\ x \div 2 \in 0 .. m)
    BY <1>3, HalfOf
  <2>2. x # 0 => f[x \div 2] = g[x \div 2]
    BY <1>5, <1>7, <2>1
  <2> QED BY <2>1, <2>2, TurnLooksDown
<1>9. AndUpTo(g, m)
  BY <1>7, <1>8 DEF AndUpTo
<1> QED BY <1>3, <1>9

\* & satisfies its recursion.
LEMMA AndIs == \A x \in Nat : BitAnd[x] = AndTurn(BitAnd, x)
<1>1. PICK h : h = [n \in Nat |-> CHOOSE f : AndUpTo(f, n)]
  OBVIOUS
<1>2. ASSUME NEW n \in Nat PROVE AndUpTo(h[n], n)
  BY <1>1, AndExists
<1>3. PICK g : g = [n \in Nat |-> h[n][n]]
  OBVIOUS
<1>4. ASSUME NEW x \in Nat PROVE g[x] = AndTurn(g, x)
  <2>1. g[x] = AndTurn(h[x], x)
    BY <1>2, <1>3 DEF AndUpTo
  <2>2. ASSUME x # 0 PROVE h[x][x \div 2] = g[x \div 2]
    <3>1. PICK d : d = x \div 2
      OBVIOUS
    <3>2. d \in Nat /\ d <= x /\ d \in 0 .. d
      BY <3>1, HalfOf
    <3>3. AndUpTo(h[x], d) /\ AndUpTo(h[d], d)
      BY <1>2, <3>2 DEF AndUpTo
    <3>4. h[x][d] = h[d][d]
      BY <3>2, <3>3, AndIsUnique
    <3> QED BY <1>3, <3>1, <3>2, <3>4
  <2> QED BY <2>1, <2>2, TurnLooksDown
<1>5. \E f : f = [x \in Nat |-> AndTurn(f, x)]
  <2>1. g = [x \in Nat |-> AndTurn(g, x)]
    BY <1>3, <1>4
  <2> QED BY <2>1
<1>6. BitAnd = CHOOSE f : f = [x \in Nat |-> AndTurn(f, x)]
  BY DEF BitAnd, AndTurn
<1>7. BitAnd = [x \in Nat |-> AndTurn(BitAnd, x)]
  BY <1>5, <1>6
<1> QED BY <1>7

LEMMA AndHalves ==
  ASSUME NEW x \in Nat, NEW y \in Nat
  PROVE  /\ x = 0 => BitAnd[x][y] = 0
         /\ x # 0 => BitAnd[x][y] = 2 * BitAnd[x \div 2][y \div 2]
                                   + (IF x % 2 = 1 THEN y % 2 ELSE 0)
<1>1. BitAnd[x] = AndTurn(BitAnd, x)
  BY AndIs
<1>2. BitAnd[x][y] = IF x = 0 THEN 0
                  ELSE 2 * BitAnd[x \div 2][y \div 2] + (IF x % 2 = 1 THEN y % 2 ELSE 0)
  BY <1>1, Zenon DEF AndTurn
<1> QED BY <1>2, Zenon

LEMMA AndType == \A x, y \in Nat : BitAnd[x][y] \in Nat
<1> SUFFICES ASSUME \E x \in Nat : \E y \in Nat : BitAnd[x][y] \notin Nat PROVE FALSE
  OBVIOUS
<1> DEFINE T == {x \in Nat : \E y \in Nat : BitAnd[x][y] \notin Nat}
<1>1. T \subseteq Nat /\ T # {}
  OBVIOUS
<1>2. PICK m \in T : \A k \in T : m <= k
  BY <1>1, Least
<1>3. PICK y \in Nat : m \in Nat /\ BitAnd[m][y] \notin Nat
  OBVIOUS
<1>4. m # 0
  BY <1>3, AndHalves
<1>5. m \div 2 \in Nat /\ ~ (m <= m \div 2) /\ y \div 2 \in Nat /\ y % 2 \in {0, 1}
  BY <1>3, <1>4, HalfOf
<1>6. BitAnd[m \div 2][y \div 2] \in Nat
  BY <1>2, <1>5
<1>7. BitAnd[m][y] = 2 * BitAnd[m \div 2][y \div 2] + (IF m % 2 = 1 THEN y % 2 ELSE 0)
  BY <1>3, <1>4, AndHalves
<1> QED BY <1>3, <1>5, <1>6, <1>7

\* A number & itself is itself.
LEMMA AndSelf == \A x \in Nat : BitAnd[x][x] = x
<1> SUFFICES ASSUME \E x \in Nat : BitAnd[x][x] # x PROVE FALSE
  OBVIOUS
<1> DEFINE T == {x \in Nat : BitAnd[x][x] # x}
<1>1. T \subseteq Nat /\ T # {}
  OBVIOUS
<1>2. PICK m \in T : \A k \in T : m <= k
  BY <1>1, Least
<1>3. m \in Nat /\ BitAnd[m][m] # m
  OBVIOUS
<1>4. m # 0
  BY <1>3, AndHalves
<1>5. m \div 2 \in Nat /\ ~ (m <= m \div 2)
  BY <1>3, <1>4, HalfOf
<1>6. BitAnd[m \div 2][m \div 2] = m \div 2
  BY <1>2, <1>5
<1>7. BitAnd[m][m] = 2 * (m \div 2) + (IF m % 2 = 1 THEN m % 2 ELSE 0)
  BY <1>3, <1>4, <1>6, AndHalves
<1> QED BY <1>3, <1>7, HalfOf

\* What the mask c - 1 does to an index that ran past the end at most once.
Wraps(c) == \A x \in 0 .. (2 * c) - 1 : BitAnd[x][c - 1] = IF x < c THEN x ELSE x - c

\* A capacity the assertion accepts is one, or twice such a capacity.
LEMMA CanMaskHalves ==
  ASSUME NEW c \in Nat \ {0}, CanMask(c), c # 1
  PROVE  \E d \in Nat \ {0} : c = 2 * d /\ d < c /\ CanMask(d)
<1>1. PICK d : d = c \div 2
  OBVIOUS
<1>2. d \in Nat \ {0} /\ d < c /\ (c = 2 * d \/ c = 2 * d + 1)
  BY <1>1
<1>3. BitAnd[c][c - 1] = 0 /\ c - 1 \in Nat
  BY DEF CanMask
<1>4. c # 2 * d + 1
  <2> SUFFICES ASSUME c = 2 * d + 1 PROVE FALSE
    OBVIOUS
  <2>1. (c - 1) \div 2 = d /\ (c - 1) % 2 = 0
    BY <1>2
  <2>2. BitAnd[c][c - 1] = 2 * BitAnd[d][d] + (IF c % 2 = 1 THEN 0 ELSE 0)
    <3>1. c \in Nat /\ c # 0
      OBVIOUS
    <3>2. BitAnd[c][c - 1] = 2 * BitAnd[c \div 2][(c - 1) \div 2]
                          + (IF c % 2 = 1 THEN (c - 1) % 2 ELSE 0)
      BY <1>3, <3>1, AndHalves, Zenon
    <3> QED BY <1>1, <2>1, <3>2, Zenon
  <2>3. BitAnd[d][d] = d
    BY <1>2, AndSelf
  <2> QED BY <1>2, <1>3, <2>2, <2>3
<1>5. c = 2 * d /\ c % 2 = 0 /\ (c - 1) \div 2 = d - 1
  BY <1>2, <1>4
<1>6. BitAnd[c][c - 1] = 2 * BitAnd[d][d - 1] + 0
  <2>1. c # 0 /\ c \div 2 = d /\ c \in Nat
    BY <1>1
  <2> QED BY <1>3, <1>5, <2>1, AndHalves
<1>7. BitAnd[d][d - 1] \in Nat
  BY <1>2, AndType
<1> QED BY <1>2, <1>3, <1>5, <1>6, <1>7 DEF CanMask

\* Half of an index below twice an even capacity.
LEMMA HalfIndex ==
  ASSUME NEW d \in Nat \ {0}, NEW x \in 0 .. (4 * d) - 1
  PROVE  x \div 2 \in 0 .. (2 * d) - 1 /\ (x < 2 * d <=> x \div 2 < d)
OBVIOUS

LEMMA WrapsTwice ==
  ASSUME NEW d \in Nat \ {0}, Wraps(d)
  PROVE  Wraps(2 * d)
<1> SUFFICES ASSUME NEW x \in 0 .. (4 * d) - 1
             PROVE  BitAnd[x][(2 * d) - 1] = IF x < 2 * d THEN x ELSE x - (2 * d)
  BY DEF Wraps
<1>1. /\ x \in Nat /\ (2 * d) - 1 \in Nat /\ d - 1 \in Nat
      /\ ((2 * d) - 1) \div 2 = d - 1 /\ ((2 * d) - 1) % 2 = 1
  OBVIOUS
<1>2. CASE x = 0
  <2>1. BitAnd[x][(2 * d) - 1] = 0
    BY <1>1, <1>2, AndHalves
  <2> QED BY <1>2, <2>1
<1>3. CASE x # 0
  <2>1. BitAnd[x \div 2][d - 1] = IF x \div 2 < d THEN x \div 2 ELSE x \div 2 - d
    BY HalfIndex DEF Wraps
  <2>2. BitAnd[x][(2 * d) - 1] = 2 * BitAnd[x \div 2][d - 1] + (IF x % 2 = 1 THEN 1 ELSE 0)
    <3>1. BitAnd[x][(2 * d) - 1] = 2 * BitAnd[x \div 2][((2 * d) - 1) \div 2]
                                + (IF x % 2 = 1 THEN ((2 * d) - 1) % 2 ELSE 0)
      BY <1>1, <1>3, AndHalves, Zenon
    <3> QED BY <1>1, <3>1, Zenon
  <2>3. PICK h, w, r : h = x \div 2 /\ w = BitAnd[x \div 2][d - 1] /\ r = x % 2
    OBVIOUS
  <2>4. h \in Nat /\ r \in {0, 1} /\ r = x - 2 * h
    BY <1>1, <2>3, HalfOf
  <2>5. w = (IF h < d THEN h ELSE h - d) /\ (x < 2 * d <=> h < d)
    BY <2>1, <2>3, HalfIndex
  <2>6. BitAnd[x][(2 * d) - 1] = 2 * w + r
    BY <2>2, <2>3, <2>4
  <2> QED BY <1>1, <2>4, <2>5, <2>6
<1> QED BY <1>2, <1>3

LEMMA MaskWraps ==
  ASSUME NEW c \in Nat \ {0}, CanMask(c)
  PROVE  Wraps(c)
<1> SUFFICES ASSUME ~ Wraps(c) PROVE FALSE
  OBVIOUS
<1> DEFINE T == {n \in Nat \ {0} : CanMask(n) /\ ~ Wraps(n)}
<1>1. T \subseteq Nat /\ T # {}
  OBVIOUS
<1>2. PICK m \in T : \A k \in T : m <= k
  BY <1>1, Least
<1>3. m \in Nat \ {0} /\ CanMask(m) /\ ~ Wraps(m)
  OBVIOUS
<1>4. Wraps(1)
  <2>1. BitAnd[0][0] = 0 /\ BitAnd[1][0] = 2 * BitAnd[0][0] + 0
    BY AndHalves
  <2>2. \A x \in 0 .. (2 * 1) - 1 : x = 0 \/ x = 1
    OBVIOUS
  <2> QED BY <2>1, <2>2 DEF Wraps
<1>5. m # 1
  BY <1>3, <1>4
<1>6. PICK d \in Nat \ {0} : m = 2 * d /\ d < m /\ CanMask(d)
  BY <1>3, <1>5, CanMaskHalves
<1>7. Wraps(d)
  <2>1. ~ (m <= d)
    BY <1>3, <1>6
  <2> QED BY <1>2, <1>6, <2>1
<1> QED BY <1>3, <1>6, <1>7, WrapsTwice

\* A growth keeps what the assertion asks for.
LEMMA CanMaskTwice ==
  ASSUME NEW c \in Nat \ {0}, CanMask(c)
  PROVE  CanMask(2 * c)
<1>1. /\ 2 * c \in Nat /\ (2 * c) - 1 \in Nat /\ 2 * c # 0
      /\ (2 * c) \div 2 = c /\ ((2 * c) - 1) \div 2 = c - 1 /\ (2 * c) % 2 = 0
  OBVIOUS
<1>2. PICK e : e = 2 * c
  OBVIOUS
<1>3. /\ e \in Nat /\ e - 1 \in Nat /\ e # 0
      /\ e \div 2 = c /\ (e - 1) \div 2 = c - 1 /\ e % 2 = 0
  BY <1>1, <1>2
<1>4. BitAnd[e][e - 1] = 2 * BitAnd[c][c - 1] + 0
  <2>1. BitAnd[e][e - 1] = 2 * BitAnd[e \div 2][(e - 1) \div 2]
                        + (IF e % 2 = 1 THEN (e - 1) % 2 ELSE 0)
    BY <1>3, AndHalves
  <2>2. (IF e % 2 = 1 THEN (e - 1) % 2 ELSE 0) = 0
    BY <1>3
  <2> QED BY <1>3, <2>1, <2>2, Zenon
<1> QED BY <1>2, <1>4 DEF CanMask

-----------------------------------------------------------------------------
(***************************************************************************)
(* The iterator.  Its invariant is the property with what makes it         *)
(* inductive: the shape of the iterator's record, and that no more is left *)
(* than was promised.                                                      *)
(***************************************************************************)

LEMMA PrefixLength ==
  ASSUME NEW T, NEW q \in Seq(T), NEW n \in 0 .. Len(q)
  PROVE  /\ Len(SubSeq(q, 1, n)) = n /\ SubSeq(q, 1, n) \in Seq(T)
         /\ \A i \in 1 .. n : SubSeq(q, 1, n)[i] = q[i]
<1>1. CASE n = 0
  <2>1. SubSeq(q, 1, n) = << >>
    BY <1>1, SubSeqEmpty
  <2> QED BY <1>1, <2>1
<1>2. CASE n # 0
  <2>1. 1 \in 1 .. Len(q) + 1 /\ n \in 1 - 1 .. Len(q) /\ n \in 1 .. Len(q)
    BY <1>2
  <2> QED BY <1>2, <2>1, SubSeqProperties
<1> QED BY <1>1, <1>2

LEMMA LongerPrefix ==
  ASSUME NEW T, NEW q \in Seq(T), NEW n \in Nat, n + 1 <= Len(q)
  PROVE  SubSeq(q, 1, n + 1) = Append(SubSeq(q, 1, n), q[n + 1])
<1>1. n \in 0 .. Len(q) /\ n + 1 \in 0 .. Len(q)
  OBVIOUS
<1> PICK s, l : s = SubSeq(q, 1, n) /\ l = SubSeq(q, 1, n + 1)
  OBVIOUS
<1>2. /\ s \in Seq(T) /\ Len(s) = n /\ \A i \in 1 .. n : s[i] = q[i]
      /\ l \in Seq(T) /\ Len(l) = n + 1 /\ \A i \in 1 .. n + 1 : l[i] = q[i]
  BY <1>1, PrefixLength
<1>3. q[n + 1] \in T
  BY <1>1
<1>4. l = Append(s, q[n + 1])
  BY <1>2, <1>3
<1> QED BY <1>4

\* With r elements left, s of the slots hold what was promised after the rest.
Ahead(s, index, mask, r, q) ==
  \A k \in 0 .. r - 1 : s[BitAnd[index + k][mask]] = q[Len(q) - r + k + 1]

OnItsWay(it, s, q) ==
  /\ it.index \in Nat /\ q \in Seq(Value) /\ it.remaining \in 0 .. Len(q)
  /\ it.hint = it.remaining
  /\ it.given = SubSeq(q, 1, Len(q) - it.remaining)
  /\ Ahead(s, it.index, it.mask, it.remaining, q)

IterShaped(it) ==
  it = [on |-> it.on, index |-> it.index, mask |-> it.mask, remaining |-> it.remaining,
        hint |-> it.hint, given |-> it.given]

IterInv ==
  /\ IInv /\ MaskWorks /\ IterShaped(iter)
  /\ iter.on => OnItsWay(iter, deque.slots, promised)

\* Every step of a deque with an iterator is one of the deque, or leaves it.
LEMMA IterStepIsDequeStep == [IterNextState]_iterVars => [Next]_vars
<1> SUFFICES ASSUME IterNextState \/ UNCHANGED iterVars PROVE Next \/ UNCHANGED vars
  OBVIOUS
<1>1. GetIterator \/ IterNext => UNCHANGED vars
  BY DEF GetIterator, IterNext, vars
<1>2. Writes => Next
  BY DEF Writes, Next
<1>3. Leaves => Next
  BY DEF Leaves, Next
<1> QED BY <1>1, <1>2, <1>3 DEF IterNextState, iterVars

LEMMA IterSpecIsSpec == IterSpec => Spec
<1>1. IterInit => Init
  BY DEF IterInit
<1> QED BY <1>1, IterStepIsDequeStep, PTL DEF IterSpec, Spec

\* A deque of a capacity the mask works for has one after every call.
LEMMA CapacityKeepsMask ==
  ASSUME IInv, MaskWorks, [Next]_vars
  PROVE  MaskWorks'
<1>1. deque.capacity \in Nat \ {0} /\ CanMask(deque.capacity)
  BY DEF IInv, WellFormed, Shaped, MaskWorks
<1>2. CanMask(2 * deque.capacity)
  BY <1>1, CanMaskTwice
<1>3. CanMask(EmptyDeque.capacity)
  BY MaskAssumption DEF EmptyDeque
<1>4. Roomy.capacity = deque.capacity \/ Roomy.capacity = 2 * deque.capacity
  BY DEF Roomy, Grown
<1>5. CanMask(Roomy.capacity)
  BY <1>1, <1>2, <1>4
<1>6. CASE Create \/ Destroy
  <2>1. deque' = EmptyDeque
    BY <1>6 DEF Create, Destroy
  <2> QED BY <1>3, <2>1 DEF MaskWorks
<1>7. CASE \E v \in Value : Push(v) \/ PushFront(v)
  <2> PICK v \in Value : Push(v) \/ PushFront(v)
    BY <1>7
  <2>1. deque' = PushedBack(Roomy, v) \/ deque' = PushedFront(Roomy, v)
    BY DEF Push, PushFront
  <2>2. deque'.capacity = Roomy.capacity
    BY <2>1 DEF PushedBack, PushedFront, Window
  <2> QED BY <1>5, <2>2 DEF MaskWorks
<1>8. CASE CreateFails \/ PushFails \/ PopLeft \/ PopBack \/ PeekLeft \/ PeekBack
           \/ UNCHANGED vars
  <2>1. deque' \in {deque, PoppedLeft(deque), PoppedBack(deque)}
    BY <1>8 DEF CreateFails, PushFails, PopLeft, PopBack, PeekLeft, PeekBack, vars
  <2>2. deque'.capacity = deque.capacity
    BY <2>1 DEF PoppedLeft, PoppedBack, Window
  <2> QED BY <1>1, <2>2 DEF MaskWorks
<1> QED BY <1>6, <1>7, <1>8 DEF Next

\* The calls an iterator outlives leave every slot as it is.
LEMMA LeavesSlots ==
  ASSUME Leaves
  PROVE  deque'.slots = deque.slots
<1>1. deque' \in {deque, PoppedLeft(deque), PoppedBack(deque)}
  BY DEF Leaves, CreateFails, PushFails, PopLeft, PopBack, PeekLeft, PeekBack, vars
<1> QED BY <1>1 DEF PoppedLeft, PoppedBack, Window

\* A new iterator is on its way, with everything left to give.
LEMMA NewIsOnItsWay ==
  ASSUME IInv, MaskWorks, NEW it, IterShaped(it),
         it.index = deque.head, it.mask = deque.capacity - 1,
         it.remaining = deque.size, it.hint = deque.size, it.given = << >>
  PROVE  OnItsWay(it, deque.slots, Items(deque))
<1>1. WellFormed(deque) /\ Shaped(deque)
  BY DEF IInv, WellFormed
<1>2. /\ deque.capacity \in Nat \ {0} /\ deque.size \in 0 .. deque.capacity
      /\ deque.head \in 0 .. deque.capacity - 1
  BY <1>1 DEF Shaped
<1>3. /\ Items(deque) \in Seq(Value) /\ Len(Items(deque)) = deque.size
      /\ \A k \in 1 .. deque.size : Items(deque)[k] = deque.slots[SlotAt(deque, k)]
  BY <1>1, ItemsOf
<1>4. Wraps(deque.capacity)
  BY <1>2, MaskWraps DEF MaskWorks
<1>5. ASSUME NEW k \in 1 .. deque.size
      PROVE  BitAnd[deque.head + k - 1][deque.capacity - 1] = SlotAt(deque, k)
  <2>1. deque.head + k - 1 \in 0 .. (2 * deque.capacity) - 1
    BY <1>2
  <2>2. BitAnd[deque.head + k - 1][deque.capacity - 1]
          = IF deque.head + k - 1 < deque.capacity THEN deque.head + k - 1
            ELSE (deque.head + k - 1) - deque.capacity
    BY <1>4, <2>1, Zenon DEF Wraps
  <2> QED BY <1>2, <2>2 DEF SlotAt
<1>6. Ahead(deque.slots, deque.head, deque.capacity - 1, deque.size, Items(deque))
  <2> SUFFICES ASSUME NEW k \in 0 .. deque.size - 1
               PROVE  deque.slots[BitAnd[deque.head + k][deque.capacity - 1]]
                        = Items(deque)[deque.size - deque.size + k + 1]
    BY <1>3 DEF Ahead
  <2>1. /\ k + 1 \in 1 .. deque.size /\ deque.size - deque.size + k + 1 = k + 1
        /\ deque.head + (k + 1) - 1 = deque.head + k
    BY <1>2
  <2> QED BY <1>3, <1>5, <2>1
<1>7. SubSeq(Items(deque), 1, deque.size - deque.size) = << >>
  <2>1. deque.size - deque.size = 0 /\ 1 .. 0 = {}
    BY <1>2
  <2> QED BY <1>3, <2>1, SubSeqEmpty
<1> QED BY <1>2, <1>3, <1>6, <1>7 DEF OnItsWay

\* A step gives the next of what was promised.
LEMMA AheadFirst ==
  ASSUME NEW s, NEW q, NEW j, NEW mask, NEW r, Ahead(s, j, mask, r, q),
         j \in Nat, r \in Nat, Len(q) \in Nat, r > 0, r <= Len(q),
         NEW slot, slot = BitAnd[j][mask], NEW k, k = Len(q) - r + 1
  PROVE  s[slot] = q[k]
<1>1. \A i \in 0 .. r - 1 : s[BitAnd[j + i][mask]] = q[Len(q) - r + i + 1]
  BY DEF Ahead
<1>2. 0 \in 0 .. r - 1 /\ j + 0 = j /\ Len(q) - r + 0 + 1 = k
  OBVIOUS
<1>3. s[BitAnd[j + 0][mask]] = q[Len(q) - r + 0 + 1]
  BY <1>1, <1>2, Zenon
<1> QED BY <1>2, <1>3, Zenon

LEMMA AheadMoves ==
  ASSUME NEW s, NEW q, NEW j, NEW mask, NEW r, Ahead(s, j, mask, r, q),
         j \in Nat, r \in Nat, Len(q) \in Nat, r > 0, r <= Len(q)
  PROVE  Ahead(s, j + 1, mask, r - 1, q)
<1> PICK n : n = Len(q)
  OBVIOUS
<1>1. \A k \in 0 .. r - 1 : s[BitAnd[j + k][mask]] = q[n - r + k + 1]
  BY DEF Ahead
<1>3. ASSUME NEW k \in 0 .. (r - 1) - 1
      PROVE  s[BitAnd[(j + 1) + k][mask]] = q[n - (r - 1) + k + 1]
  <2> PICK l : l = k + 1
    OBVIOUS
  <2>1. /\ l \in 0 .. r - 1 /\ j + l = (j + 1) + k
        /\ n - r + l + 1 = n - (r - 1) + k + 1
    OBVIOUS
  <2>2. s[BitAnd[j + l][mask]] = q[n - r + l + 1]
    BY <1>1, <2>1, Zenon
  <2> QED BY <2>1, <2>2, Zenon
<1> QED BY <1>3 DEF Ahead

\* A step gives the next of what was promised.
LEMMA NextIsOnItsWay ==
  ASSUME NEW it, NEW s, NEW q, OnItsWay(it, s, q), it.remaining > 0, NEW new,
         new.index = it.index + 1, new.mask = it.mask, new.remaining = it.remaining - 1,
         new.hint = IF it.hint > 0 THEN it.hint - 1 ELSE 0,
         new.given = Append(it.given, s[BitAnd[it.index][it.mask]])
  PROVE  OnItsWay(new, s, q)
<1> PICK j, r, n : j = it.index /\ r = it.remaining /\ n = Len(q)
  OBVIOUS
<1>1. /\ j \in Nat /\ q \in Seq(Value) /\ r \in 0 .. Len(q) /\ it.hint = r
      /\ it.given = SubSeq(q, 1, n - r) /\ Ahead(s, j, it.mask, r, q)
  BY DEF OnItsWay
<1>2. n \in Nat /\ r \in Nat /\ r > 0 /\ r <= n
  BY <1>1
<1>3. s[BitAnd[j][it.mask]] = q[Len(q) - r + 1] /\ Ahead(s, j + 1, it.mask, r - 1, q)
  <2>1. Len(q) \in Nat /\ r <= Len(q)
    BY <1>2
  <2>2. Ahead(s, j, it.mask, r, q) /\ j \in Nat /\ r \in Nat /\ r > 0
    BY <1>1, <1>2
  <2>3. s[BitAnd[j][it.mask]] = q[Len(q) - r + 1]
    <3>0. PICK slot, k : slot = BitAnd[j][it.mask] /\ k = Len(q) - r + 1
      OBVIOUS
    <3>1. s[slot] = q[k]
      BY <2>1, <2>2, <3>0, AheadFirst
    <3> QED BY <3>0, <3>1, Zenon
  <2>4. Ahead(s, j + 1, it.mask, r - 1, q)
    BY <2>1, <2>2, AheadMoves, Zenon
  <2> QED BY <2>3, <2>4
<1>4. /\ j + 1 \in Nat /\ r - 1 \in 0 .. n /\ (IF r > 0 THEN r - 1 ELSE 0) = r - 1
      /\ n - r \in Nat /\ (n - r) + 1 <= n /\ n - (r - 1) = (n - r) + 1
  <2>1. j \in Nat
    BY <1>1
  <2> QED BY <1>2, <2>1
<1>5. SubSeq(q, 1, (n - r) + 1) = Append(SubSeq(q, 1, n - r), q[(n - r) + 1])
  BY <1>1, <1>4, LongerPrefix
<1>6. new.given = SubSeq(q, 1, n - new.remaining)
  BY <1>1, <1>3, <1>4, <1>5, Zenon
<1>7. new.hint = new.remaining
  BY <1>1, <1>4, Zenon
<1> QED BY <1>1, <1>3, <1>4, <1>6, <1>7, Zenon DEF OnItsWay

LEMMA IterInvInit == IterInit => IterInv
<1> SUFFICES ASSUME IterInit PROVE IterInv
  OBVIOUS
<1>1. IInv /\ deque = EmptyDeque /\ iter = NoIter
  BY InvInit DEF IterInit, Init
<1>2. MaskWorks
  BY <1>1, MaskAssumption DEF MaskWorks, EmptyDeque
<1>3. IterShaped(iter) /\ ~ iter.on
  BY <1>1 DEF NoIter, IterShaped
<1> QED BY <1>1, <1>2, <1>3 DEF IterInv

LEMMA IterInvNext == IterInv /\ [IterNextState]_iterVars => IterInv'
<1> SUFFICES ASSUME IterInv, [IterNextState]_iterVars PROVE IterInv'
  OBVIOUS
<1>1. IInv' /\ MaskWorks'
  BY InvNext, CapacityKeepsMask, IterStepIsDequeStep DEF IterInv
<1>2. CASE GetIterator
  <2>1. /\ IterShaped(iter') /\ iter'.index = deque.head /\ iter'.mask = deque.capacity - 1
        /\ iter'.remaining = deque.size /\ iter'.hint = deque.size /\ iter'.given = << >>
        /\ promised' = Items(deque) /\ deque' = deque
    BY <1>2 DEF GetIterator, NoIter, Mask, IterShaped, vars
  <2> HIDE DEF IterShaped
  <2>2. OnItsWay(iter', deque.slots, Items(deque))
    BY <2>1, NewIsOnItsWay DEF IterInv
  <2> QED BY <1>1, <2>1, <2>2 DEF IterInv
<1>3. CASE IterNext
  <2>1. PICK it : it = iter
    OBVIOUS
  <2>2. /\ IterShaped(it) /\ it.on /\ it.remaining > 0 /\ UNCHANGED <<deque, promised>>
        /\ OnItsWay(it, deque.slots, promised)
    BY <1>3, <2>1 DEF IterNext, IterInv, vars
  <2>3. iter' = [on |-> it.on, index |-> it.index + 1, mask |-> it.mask,
                 remaining |-> it.remaining - 1,
                 hint |-> IF it.hint > 0 THEN it.hint - 1 ELSE 0,
                 given |-> Append(it.given, deque.slots[BitAnd[it.index][it.mask]])]
    BY <1>3, <2>1, <2>2 DEF IterNext, IterShaped
  <2>4. OnItsWay(iter', deque.slots, promised)
    BY <2>2, <2>3, NextIsOnItsWay
  <2>5. IterShaped(iter)'
    BY <2>3 DEF IterShaped
  <2> QED BY <1>1, <2>2, <2>4, <2>5 DEF IterInv
<1>4. CASE Writes
  <2>1. iter' = NoIter
    BY <1>4 DEF Writes
  <2> QED BY <1>1, <2>1 DEF IterInv, NoIter, IterShaped
<1>5. CASE Leaves
  <2>1. UNCHANGED <<iter, promised>> /\ deque'.slots = deque.slots
    BY <1>5, LeavesSlots DEF Leaves
  <2> QED BY <1>1, <2>1 DEF IterInv, IterShaped
<1>6. CASE UNCHANGED iterVars
  BY <1>1, <1>6 DEF iterVars, vars, IterInv, IterShaped
<1> QED BY <1>2, <1>3, <1>4, <1>5, <1>6 DEF IterNextState

\* deque.c:142-154, 296-312: for every capacity, element size and bound, the
\* assertion about the mask always holds, and the iterator gives what the deque
\* held when it was made, wrapped or not and popped meanwhile or not.
THEOREM DequeIteratorIsExact == IterSpec => []IteratorIsExact
<1>1. IterInv => IteratorIsExact
  <2> SUFFICES ASSUME IterInv PROVE IteratorIsExact
    OBVIOUS
  <2>1. MaskWorks
    BY DEF IterInv
  <2>2. ASSUME iter.on
        PROVE  /\ iter.given = SubSeq(promised, 1, Len(promised) - iter.remaining)
               /\ iter.hint = iter.remaining
               /\ \A k \in 0 .. iter.remaining - 1 :
                    deque.slots[BitAnd[iter.index + k][iter.mask]]
                      = promised[Len(iter.given) + k + 1]
    <3>1. OnItsWay(iter, deque.slots, promised)
      BY <2>2 DEF IterInv
    <3>2. promised \in Seq(Value) /\ iter.remaining \in 0 .. Len(promised)
      BY <3>1 DEF OnItsWay
    <3>3. iter.given = SubSeq(promised, 1, Len(promised) - iter.remaining)
      BY <3>1 DEF OnItsWay
    <3>4. Len(promised) - iter.remaining \in 0 .. Len(promised)
      BY <3>2
    <3>5. Len(iter.given) = Len(promised) - iter.remaining
      BY <3>2, <3>3, <3>4, PrefixLength
    <3> QED BY <3>1, <3>3, <3>5 DEF OnItsWay, Ahead
  <2> QED BY <2>1, <2>2 DEF IteratorIsExact
<1> QED BY <1>1, IterInvInit, IterInvNext, PTL DEF IterSpec

\* What is proved of the deque holds in the run with its iterator.
THEOREM DequeWithIteratorIsRight ==
  IterSpec => []Consistent /\ ImplementsContract
  BY IterSpecIsSpec, DequeIsConsistent, DequeImplementsContract

=============================================================================
