----------------------------- MODULE MCOrdered ------------------------------
(***************************************************************************)
(* Small instances of the parts that compare elements: the binary searches *)
(* of a sorted vector and the binary heap.  A behaviour is one search, or  *)
(* a heap in use.  Searched are all sorted vectors of at most five items   *)
(* with repetitions, for keys below, between, among and above them.  Six   *)
(* slots make a heap of three levels with a node of one child; an element  *)
(* may be stored several times.                                            *)
(***************************************************************************)
EXTENDS Integers, TLC

CONSTANTS Rank, MaxSize,        \* see VectorSearch
          e1, e2, e3,           \* three elements of the instance
          Element, Order,       \* the heap's elements and their ranks
          Unwritten,            \* a slot of the heap nobody has written
          HeapSize

MCOrder == e1 :> 1 @@ e2 :> 2 @@ e3 :> 3

VARIABLES call,                                                    \* what the caller does
          items, size, key, upper, first, count,                   \* the search
          hSize, hSlots, sift, idx, popped, poppedItem, hHeld      \* the heap

sVars == <<items, size, key, upper, first, count>>
hVars == <<hSize, hSlots, sift, idx, popped, poppedItem, hHeld>>

Search == INSTANCE VectorSearch

Heap == INSTANCE BinaryHeap
          WITH size <- hSize, slots <- hSlots, out <- poppedItem, held <- hHeld,
               Rank <- Order, MaxSize <- HeapSize, Junk <- Unwritten

ASSUME SearchAssumption == Search!Assumptions
ASSUME HeapAssumption == Heap!Assumptions

OrderedInit ==
  /\ Search!Init /\ Heap!Init
  /\ \/ call = "search"
     \/ call = "heap" /\ size = 0 /\ key = 1 /\ upper

UseSearch == call = "search" /\ Search!Next /\ UNCHANGED <<call, hVars>>
UseHeap == call = "heap" /\ Heap!Next /\ UNCHANGED <<call, sVars>>

\* A search runs on: its caller waits for it.
OrderedSpec ==
  /\ OrderedInit /\ [][UseSearch \/ UseHeap]_<<call, sVars, hVars>>
  /\ WF_<<call, sVars, hVars>>(UseSearch)

\* The searches keep the bound in their window at every pass, and end with the
\* bound, and the key's first index if it is there.
SearchesFind == Search!Finds

\* Every search returns, and no pass leaves more than half of the window.
SearchReturns == Search!Returns /\ Search!Halves

\* The heap is ordered at every swap of a sift but around the sifted index, its
\* top is least, and no sift touches the slot a pop handed out.
HeapConsistent == Heap!Consistent

\* Pushes and pops are those of a bag of which the least goes first.
HeapImplementsContract == Heap!ImplementsContract

=============================================================================
