----------------------------- MODULE Allocator ------------------------------
(***************************************************************************)
(* What allocators/allocator.h promises the code that calls k4c_alloc,     *)
(* k4c_resize and k4c_dealloc: a live allocation is an aligned range of    *)
(* the managed region that belongs to its owner alone, and the bytes its   *)
(* owner wrote stay readable, across resizes, until the owner gives the    *)
(* range back.  Where the range is placed is left open: the general heap   *)
(* and the arena implement this specification in two different ways.       *)
(***************************************************************************)
EXTENDS Integers, Sequences

CONSTANTS Handle,    \* the owners, each holding at most one allocation
          Align      \* K4C_MEMORY_ALIGN

VARIABLES region,    \* bytes the allocator manages, 0 while there is none
          live,      \* the range each owner holds
          contents   \* what each owner reads back from its range

allocVars == <<region, live, contents>>

NULL == [ptr |-> 0, size |-> 0]

\* The byte an owner writes at offset k of its range: no two are alike.
Byte(h, k) == <<h, k>>

Cells(a) == a.ptr .. a.ptr + a.size - 1

\* Every live range is aligned, inside the region and nobody else's.
Separate ==
  \A h \in Handle : live[h] # NULL =>
    /\ live[h].ptr % Align = 0
    /\ Cells(live[h]) \subseteq 0 .. region - 1
    /\ \A g \in Handle \ {h} :
         live[g] # NULL => Cells(live[g]) \cap Cells(live[h]) = {}

OthersKept(h) ==
  \A g \in Handle \ {h} : live'[g] = live[g] /\ contents'[g] = contents[g]

Init ==
  /\ region = 0
  /\ live = [h \in Handle |-> NULL]
  /\ contents = [h \in Handle |-> << >>]

Open ==
  /\ region = 0 /\ region' > 0
  /\ UNCHANGED <<live, contents>>

Alloc(h) ==
  /\ live[h] = NULL /\ live'[h] # NULL
  /\ contents'[h] = [k \in 1 .. live'[h].size |-> Byte(h, k - 1)]
  /\ OthersKept(h) /\ Separate'
  /\ UNCHANGED region

\* The first min(old, new) bytes survive; the owner writes the added ones.
Resize(h) ==
  /\ live[h] # NULL /\ live'[h] # NULL
  /\ contents'[h] = [k \in 1 .. live'[h].size |->
                       IF k <= live[h].size THEN contents[h][k] ELSE Byte(h, k - 1)]
  /\ OthersKept(h) /\ Separate'
  /\ UNCHANGED region

Dealloc(h) ==
  /\ live[h] # NULL /\ live'[h] = NULL
  /\ contents'[h] = << >>
  /\ OthersKept(h)
  /\ UNCHANGED region

\* A reset or the destruction of the allocator ends every allocation.
Release ==
  /\ region' \in {0, region}
  /\ live' = [h \in Handle |-> NULL]
  /\ contents' = [h \in Handle |-> << >>]

Next ==
  \/ Open
  \/ Release
  \/ \E h \in Handle : Alloc(h) \/ Resize(h) \/ Dealloc(h)

Spec == Init /\ [][Next]_allocVars

=============================================================================
