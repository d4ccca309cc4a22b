--------------------------- MODULE VectorContract ---------------------------
(***************************************************************************)
(* What datastruct/vector.h promises: a sequence that grows and shrinks at *)
(* its right edge, and from which an item is removed by moving the last    *)
(* one into its place.                                                     *)
(***************************************************************************)
EXTENDS Integers, Sequences

CONSTANT Value       \* the elements

VARIABLE items       \* the elements, by index (1 for the code's 0)

Front(s) == SubSeq(s, 1, Len(s) - 1)

Init == items = << >>

Push == \E v \in Value : items' = Append(items, v)

Pop == items # << >> /\ items' = Front(items)

SwapRemove ==
  \E i \in DOMAIN items :
    items' = Front([items EXCEPT ![i] = items[Len(items)]])

Destroy == items' = << >>

Next == Push \/ Pop \/ SwapRemove \/ Destroy

Spec == Init /\ [][Next]_items

=============================================================================
