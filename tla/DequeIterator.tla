--------------------------- MODULE DequeIterator ----------------------------
(***************************************************************************)
(* The iterator of datastruct/deque.c, over the deque of module Deque.     *)
(* The iterator copies the head, a mask and the size when it is made and   *)
(* never looks at the deque again: it counts its index upwards, past the   *)
(* end of the buffer, and masks it.  The capacities it meets are those of  *)
(* k4c_deque_create and of the growth.                                     *)
(***************************************************************************)
EXTENDS Deque

CONSTANT MaxIterated    \* bound: the largest capacity iterators are made at

\* The operator & of C on two naturals, from the lowest bits up.
BitAnd[x \in Nat] ==
  [y \in Nat |->
     IF x = 0 THEN 0
     ELSE 2 * BitAnd[x \div 2][y \div 2] + (IF x % 2 = 1 THEN y % 2 ELSE 0)]

\* The assertion of k4c_deque_get_iterator, "(capacity & (capacity - 1)) == 0":
\* the capacity is a power of two.
CanMask(capacity) == BitAnd[capacity][capacity - 1] = 0

\* K4C_DEQUE_DEFAULT_CAPACITY is sixteen.
ASSUME MaskAssumption == CanMask(DefaultCapacity)

VARIABLES iter,      \* struct k4c_deque_iterator_state, the hint, what it gave
          promised   \* the elements of the deque when the iterator was made

iterVars == <<vars, iter, promised>>

\* No iterator, or one whose deque was pushed into, created or destroyed.
NoIter == [on |-> FALSE, index |-> 0, mask |-> 0, remaining |-> 0, hint |-> 0,
           given |-> << >>]

IterInit == Init /\ iter = NoIter /\ promised = << >>

\* A slip: the mask is the capacity.
MaskIsCapacity(d) == d.capacity

Mask(d) == d.capacity - 1

GetIterator ==
  /\ Exists /\ deque.capacity <= MaxIterated
  /\ iter' = [NoIter EXCEPT !.on = TRUE, !.index = deque.head, !.mask = Mask(deque),
                            !.remaining = deque.size, !.hint = deque.size]
  /\ promised' = Items(deque)
  /\ UNCHANGED vars

\* k4c_deque_iterator_next under k4c_iterator_next, until it gives NULL.
IterNext ==
  /\ iter.on /\ iter.remaining > 0
  /\ iter' = [iter EXCEPT !.index = @ + 1, !.remaining = @ - 1,
                          !.hint = IF @ > 0 THEN @ - 1 ELSE 0,
                          !.given = Append(@, deque.slots[BitAnd[iter.index][iter.mask]])]
  /\ UNCHANGED <<vars, promised>>

\* What writes a slot or moves the buffer ends the iterator.
Writes ==
  /\ Create \/ Destroy \/ \E v \in Value : Push(v) \/ PushFront(v)
  /\ iter' = NoIter /\ promised' = << >>

\* Pops and peeks, and pushes that fail, leave every slot as it is.
Leaves ==
  /\ CreateFails \/ PushFails \/ PopLeft \/ PopBack \/ PeekLeft \/ PeekBack
  /\ UNCHANGED <<iter, promised>>

IterNextState == GetIterator \/ IterNext \/ Writes \/ Leaves

IterSpec == IterInit /\ [][IterNextState]_iterVars

-----------------------------------------------------------------------------
\* Every capacity a deque reaches is a power of two, so that masking an index
\* is taking it modulo the capacity.
MaskWorks == CanMask(deque.capacity)

\* The iterator gives, in order and once, the elements the deque had when it
\* was made, wrapped or not, also when they are popped meanwhile; and its hint
\* counts what is left.
IteratorIsExact ==
  /\ MaskWorks
  /\ iter.on =>
       /\ iter.given = SubSeq(promised, 1, Len(promised) - iter.remaining)
       /\ iter.hint = iter.remaining
       /\ \A k \in 0 .. iter.remaining - 1 :
            deque.slots[BitAnd[iter.index + k][iter.mask]]
              = promised[Len(iter.given) + k + 1]

=============================================================================
