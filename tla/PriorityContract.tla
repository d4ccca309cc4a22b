-------------------------- MODULE PriorityContract --------------------------
(***************************************************************************)
(* What datastruct/binary_heap.h promises: a bag from which pop takes an   *)
(* element no other element goes before.                                   *)
(***************************************************************************)
EXTENDS Integers

CONSTANTS Element,     \* the elements
          Rank         \* what the comparator orders them by

VARIABLE bag           \* how often each element is stored

Least == {e \in Element : bag[e] > 0 /\ \A f \in Element : bag[f] > 0 => Rank[e] <= Rank[f]}

Init == bag = [e \in Element |-> 0]

Push == \E e \in Element : bag' = [bag EXCEPT ![e] = @ + 1]

Pop == \E e \in Least : bag' = [bag EXCEPT ![e] = @ - 1]

Destroy == bag' = [e \in Element |-> 0]

Next == Push \/ Pop \/ Destroy

Spec == Init /\ [][Next]_bag

=============================================================================
