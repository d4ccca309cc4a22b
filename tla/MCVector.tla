------------------------------ MODULE MCVector ------------------------------
(***************************************************************************)
(* Small instances of the vector and of the functions that collect into    *)
(* one; a behaviour uses a vector or makes one call of a collect.          *)
(*                                                                         *)
(* With elements of one byte the capacity climbs 1, 2, 3, 4, 6 to a size_t *)
(* of seven, where the next half overflows and the growth falls back to    *)
(* one slot; then there is none.  The collects run over sources of up to   *)
(* four items into a vector of two slots of two bytes, of which the size_t *)
(* lets three exist, with hints that are absent, too small, right, too     *)
(* large and out of reach.                                                 *)
(***************************************************************************)
EXTENDS Vector, TLC

CONSTANTS a, b,
          CollectSize,                                \* elem_size in a collect
          DefaultCapacity, Sources, Hints, Mapping    \* see VectorCollect

SourcesOfItems == UNION {[1 .. n -> {a, b}] : n \in {0, 2, 3, 4}}
Swap == a :> b @@ b :> a

VARIABLES used,       \* what the caller does
          cVec, cHeld, cRef, cIter, source, taken, hint, mapped, pc, out

cVars == <<cVec, cHeld, cRef, cIter, source, taken, hint, mapped, pc, out>>

Collect == INSTANCE VectorCollect
             WITH vec <- cVec, held <- cHeld, ref <- cRef, iter <- cIter,
                  ElemSize <- CollectSize

ASSUME CollectAssumption == Collect!Assumptions /\ CollectSize \in Nat \ {0}

VectorsInit ==
  /\ Init /\ Collect!CollectInit
  /\ \/ used = "vector" /\ source = << >> /\ hint = 0 /\ ~ mapped
     \/ used = "collect"

UseVector == used = "vector" /\ Next /\ UNCHANGED <<used, cVars>>
UseCollect == used = "collect" /\ Collect!CollectNext /\ UNCHANGED <<used, vars>>

\* A collect runs to its end: its caller waits for it.
VectorsSpec ==
  /\ VectorsInit /\ [][UseVector \/ UseCollect]_<<used, vars, cVars>>
  /\ WF_<<used, vars, cVars>>(UseCollect)

\* A collect ends with everything the source gave or with nothing allocated,
\* however wrong the hint and whatever fails.
CollectDelivers == Collect!AllOrNothing

\* Pushes are amortised by growths of half the capacity, and those of a collect
\* have nothing to allocate when its hint was right, or too large.
GrowsSparingly == GrowsByHalf /\ Collect!HintSparesGrowth

\* A collect over a finite source returns.
CollectReturns == used = "collect" => Collect!Returns

=============================================================================
