------------------------------ MODULE MCDeque -------------------------------
(***************************************************************************)
(* Small instances of Deque and its iterator: a first capacity of two and  *)
(* a size_t in which the growth past eight slots overflows, so that every  *)
(* wrapped layout is grown from and iterated, and the growth is refused.   *)
(***************************************************************************)
EXTENDS DequeIterator

=============================================================================
