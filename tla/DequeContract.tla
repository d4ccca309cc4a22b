--------------------------- MODULE DequeContract ----------------------------
(***************************************************************************)
(* What datastruct/deque.h promises: "callers observe a normal             *)
(* front-to-back sequence", whatever the circular storage does.            *)
(***************************************************************************)
EXTENDS Integers, Sequences

CONSTANTS Value,      \* the elements
          Nothing     \* the NULL a pop of an empty deque returns

VARIABLES items,      \* the elements, front to back
          returned    \* the element the last pop or peek gave

contractVars == <<items, returned>>

Init == items = << >> /\ returned = Nothing

PushBack == \E v \in Value : items' = Append(items, v) /\ UNCHANGED returned

PushFront == \E v \in Value : items' = <<v>> \o items /\ UNCHANGED returned

PopLeft ==
  IF items = << >> THEN returned' = Nothing /\ UNCHANGED items
  ELSE returned' = Head(items) /\ items' = Tail(items)

PopBack ==
  IF items = << >> THEN returned' = Nothing /\ UNCHANGED items
  ELSE /\ returned' = items[Len(items)]
       /\ items' = SubSeq(items, 1, Len(items) - 1)

PeekLeft ==
  /\ returned' = IF items = << >> THEN Nothing ELSE Head(items)
  /\ UNCHANGED items

PeekBack ==
  /\ returned' = IF items = << >> THEN Nothing ELSE items[Len(items)]
  /\ UNCHANGED items

Destroy == items' = << >> /\ returned' = Nothing

Next ==
  \/ PushBack \/ PushFront
  \/ PopLeft \/ PopBack \/ PeekLeft \/ PeekBack
  \/ Destroy

Spec == Init /\ [][Next]_contractVars

=============================================================================
