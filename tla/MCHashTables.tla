---------------------------- MODULE MCHashTables ----------------------------
(***************************************************************************)
(* Small instances of the hash map and the hash set; a behaviour uses one  *)
(* of them and leaves the other as it was.  The first bucket array has two *)
(* buckets instead of sixteen, so that four keys reach two growths, to     *)
(* four buckets and to eight; a third growth, which only a reserve asks    *)
(* for, overflows the size_t.  The hashes make two keys collide on the     *)
(* whole hash and a third in the first bucket arrays only, until a growth  *)
(* separates it.                                                           *)
(***************************************************************************)
EXTENDS HashMap

CONSTANTS k1, k2, k3, k4

MCHash == (k1 :> 1) @@ (k2 :> 5) @@ (k3 :> 5) @@ (k4 :> 3)

VARIABLES used,       \* the table in use
          set, sHeld, answer, sIter, sReserved

sVars == <<set, sHeld, answer, sIter, sReserved>>

Set == INSTANCE HashSet WITH held <- sHeld, iter <- sIter, reserved <- sReserved

ASSUME Set!Assumptions

TablesInit == used \in {"map", "set"} /\ Init /\ Set!Init

UseMap == used = "map" /\ Next /\ UNCHANGED <<used, sVars>>
UseSet == used = "set" /\ Set!Next /\ UNCHANGED <<used, vars>>

TablesSpec == TablesInit /\ [][UseMap \/ UseSet]_<<used, vars, sVars>>

\* Both tables keep every entry in the bucket a lookup searches, once, counted
\* and within the load factor, and hold nothing but their entries, through
\* collisions, growths, removals and every failing allocation.
TablesConsistent == Consistent /\ Set!Consistent

\* While a table is unchanged its iterator gives every entry once, over empty
\* buckets and chains, and its size hint counts the rest.
IteratorsAreExact == IteratorIsExact /\ Set!IteratorIsExact

\* hashmap.md:111, "at least size entries fit without another rehash", and the
\* same for the set.
ReservesAreKept == ReserveIsKept /\ Set!ReserveIsKept

\* The map is a function from keys to values and the set a set of keys, also
\* across growths and failures.
ImplementContracts == ImplementsContract /\ Set!ImplementsContract

=============================================================================
