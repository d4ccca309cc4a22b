---------------------------- MODULE SetContract -----------------------------
(***************************************************************************)
(* What hash/hashset.h promises: a set of elements; an insert of a member  *)
(* and a failed insert change nothing.                                     *)
(***************************************************************************)
CONSTANT Key         \* the elements

VARIABLES members,   \* the set
          answer     \* whether the last contains or get found its element

contractVars == <<members, answer>>

Init == members = {} /\ answer = FALSE

Insert == \E k \in Key : members' = members \cup {k} /\ UNCHANGED answer

Remove == \E k \in Key : members' = members \ {k} /\ UNCHANGED answer

Ask == \E k \in Key : answer' = (k \in members) /\ UNCHANGED members

Destroy == members' = {} /\ answer' = FALSE

Next == Insert \/ Remove \/ Ask \/ Destroy

Spec == Init /\ [][Next]_contractVars

=============================================================================
