------------------------------ MODULE MCLists -------------------------------
(***************************************************************************)
(* Small instances of the two linked lists, which share nothing: a         *)
(* behaviour uses one of them and leaves the other as it was.  Four        *)
(* interchangeable nodes let a node be inserted and removed at either end, *)
(* in the middle and alone.                                                *)
(***************************************************************************)
EXTENDS LinkedList, TLC

VARIABLES used,       \* the list in use
          dExists, dList, dNext, dPrev, dLinked, dReturned, dIter

dVars == <<dExists, dList, dNext, dPrev, dLinked, dReturned, dIter>>

Doubly == INSTANCE DoublyLinkedList
            WITH exists <- dExists, list <- dList, next <- dNext, prev <- dPrev,
                 linked <- dLinked, returned <- dReturned, iter <- dIter

ASSUME Doubly!Assumptions

NodeSymmetry == Permutations(Node)

ListsInit == used \in {"singly", "doubly"} /\ Init /\ Doubly!Init

UseSingly == used = "singly" /\ Next /\ UNCHANGED <<used, dVars>>
UseDoubly == used = "doubly" /\ Doubly!Next /\ UNCHANGED <<used, vars>>

ListsSpec == ListsInit /\ [][UseSingly \/ UseDoubly]_<<used, vars, dVars>>

\* In both lists the links are one sequence of the nodes the caller put in,
\* whatever was pushed, inserted, popped or removed; nodes that left carry no
\* link into it; and an iterator gives what is left of it, also when the nodes
\* it gave are taken out.
ListsConsistent ==
  /\ Consistent /\ IteratorIsExact
  /\ Doubly!Consistent /\ Doubly!IteratorIsExact

\* Every operation of both lists is the one of a sequence.
ListsAreSequences == SequenceSteps /\ Doubly!SequenceSteps

=============================================================================
