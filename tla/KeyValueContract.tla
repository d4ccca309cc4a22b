-------------------------- MODULE KeyValueContract --------------------------
(***************************************************************************)
(* What hash/hashmap.h promises: at most one value per key, the one last   *)
(* put, until the key is removed; a failed put changes nothing.            *)
(***************************************************************************)
CONSTANTS Key, Value, Missing

VARIABLES store,      \* the value of each key
          returned    \* what the last get gave

contractVars == <<store, returned>>

Init == store = [k \in Key |-> Missing] /\ returned = Missing

Put == \E k \in Key, v \in Value :
         store' = [store EXCEPT ![k] = v] /\ UNCHANGED returned

Get == \E k \in Key : returned' = store[k] /\ UNCHANGED store

Remove == \E k \in Key :
            store' = [store EXCEPT ![k] = Missing] /\ UNCHANGED returned

Destroy == store' = [k \in Key |-> Missing] /\ returned' = Missing

Next == Put \/ Get \/ Remove \/ Destroy

Spec == Init /\ [][Next]_contractVars

=============================================================================
