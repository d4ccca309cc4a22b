---------------------------- MODULE VectorSearch ----------------------------
(***************************************************************************)
(* k4c_vector_lower_bound and k4c_vector_upper_bound of                    *)
(* datastruct/vector.c: one pass of their loop is one step.  Items and     *)
(* keys are compared by rank, an integer: what a consistent comparator     *)
(* induces.  Indices are the code's, from 0.                               *)
(***************************************************************************)
EXTENDS Integers

CONSTANTS Rank,      \* the ranks of items and keys
          MaxSize    \* the longest vector searched

RankAssumption == Rank \subseteq Int
MaxSizeAssumption == MaxSize \in Nat
Assumptions == RankAssumption /\ MaxSizeAssumption

VARIABLES items,     \* the rank of each element of the sorted vector
          size,      \* its size
          key,       \* the rank looked for
          upper,     \* upper_bound is called, else lower_bound
          first, count

vars == <<items, size, key, upper, first, count>>

Sorted(f, n) == \A i, j \in 0 .. n - 1 : i <= j => f[i] <= f[j]

\* Any call on a sorted vector.
Init ==
  /\ size \in 0 .. MaxSize
  /\ items \in [0 .. size - 1 -> Rank] /\ Sorted(items, size)
  /\ key \in Rank /\ upper \in BOOLEAN
  /\ first = 0 /\ count = size

\* The comparison of the loop: cmp(item, key) < 0, or cmp(key, item) >= 0.
GoesBefore(item) == IF upper THEN key >= item ELSE item < key

Half == count \div 2
Mid == first + Half

\* Slips: the middle item stays in the right half; the left half loses one.
GoRightKeepsMid ==
  /\ count > 0 /\ GoesBefore(items[Mid])
  /\ first' = Mid /\ count' = count - Half
  /\ UNCHANGED <<items, size, key, upper>>

GoLeftShort ==
  /\ count > 0 /\ ~ GoesBefore(items[Mid])
  /\ count' = IF Half > 0 THEN Half - 1 ELSE 0
  /\ UNCHANGED <<items, size, key, upper, first>>

GoRight ==
  /\ count > 0 /\ GoesBefore(items[Mid])
  /\ first' = Mid + 1 /\ count' = count - (Half + 1)
  /\ UNCHANGED <<items, size, key, upper>>

GoLeft ==
  /\ count > 0 /\ ~ GoesBefore(items[Mid])
  /\ count' = Half
  /\ UNCHANGED <<items, size, key, upper, first>>

Next == GoRight \/ GoLeft

Spec == Init /\ [][Next]_vars

\* The loop runs on: nothing else of the caller's thread happens meanwhile.
FairSpec == Spec /\ WF_vars(Next)

Done == count = 0

\* k4c_vector_binary_search, once lower_bound has returned first.
BinarySearch == IF first < size /\ items[first] = key THEN first ELSE size

-----------------------------------------------------------------------------
TypeOK ==
  /\ size \in Nat /\ items \in [0 .. size - 1 -> Int] /\ Sorted(items, size)
  /\ key \in Int /\ upper \in BOOLEAN
  /\ first \in Nat /\ count \in Nat /\ first + count <= size

\* What is left of the window goes before the key, what is right of it does
\* not: the loop never steps over the bound.
Bracketed ==
  /\ \A i \in 0 .. first - 1 : GoesBefore(items[i])
  /\ \A i \in first + count .. size - 1 : ~ GoesBefore(items[i])

\* vector.h: lower_bound returns "the first sorted index whose item is not less
\* than key", upper_bound "the first sorted index whose item is greater than
\* key", and size when there is none.
FindsTheBound ==
  Done =>
    /\ first \in 0 .. size
    /\ \A i \in 0 .. first - 1 : IF upper THEN items[i] <= key ELSE items[i] < key
    /\ \A i \in first .. size - 1 : IF upper THEN items[i] > key ELSE items[i] >= key

\* vector.h: binary_search returns an index containing key, the first one, or
\* size exactly when key is absent.
FindsTheKey ==
  Done /\ ~ upper =>
    /\ BinarySearch < size => items[BinarySearch] = key
    /\ \A i \in 0 .. size - 1 : items[i] = key => BinarySearch <= i

\* Every search returns.
Returns == <>Done

\* A search of n items compares at most log2(n) + 1 of them: each step at
\* least halves the window.
Halves == [][2 * count' <= count]_vars

\* The searches at every pass: the bound stays in the window, and what the loop
\* ends with is the bound, and the key's first index if it is there.
Finds == TypeOK /\ Bracketed /\ FindsTheBound /\ FindsTheKey

=============================================================================
