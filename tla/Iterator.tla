------------------------------ MODULE Iterator ------------------------------
(***************************************************************************)
(* datastruct/iterator.c: an iterator is a value that holds either its own *)
(* cursor, in its state bytes, or a pointer to a context the caller keeps. *)
(* Callers copy it like any struct.  Items are numbered from 1; a cursor   *)
(* is the number of items given.  The callback of the first kind is one of *)
(* a container, that of the second one of the caller's.                    *)
(***************************************************************************)
EXTENDS Integers, Sequences

CONSTANTS Iter,      \* the variables that hold an iterator
          Items,     \* how many items there are
          Junk       \* a state nobody initialised

Assumptions == Items \in Nat

VARIABLES iters,     \* the iterators
          context,   \* the caller's cursor, behind a pointer
          given,     \* what callbacks with that context gave, in order
          handed     \* the storage the last callback was handed

vars == <<iters, context, given, handed>>

\* No iterator yet.
None == [on |-> FALSE, context |-> "NULL", hint |-> 0, state |-> Junk]

Init ==
  /\ iters = [i \in Iter |-> None] /\ context = 0 /\ given = << >>
  /\ handed = 0

\* k4c_iterator_from_state and what every get_iterator does with it: the
\* cursor is set to the start and the hint to the number of items.
FromState(i) ==
  /\ iters' = [iters EXCEPT ![i] = [on |-> TRUE, context |-> "NULL",
                                     hint |-> Items, state |-> 0]]
  /\ UNCHANGED <<context, given, handed>>

\* k4c_iterator_from_callback leaves the state as it is.
FromCallback(i, pointer) ==
  /\ iters' = [iters EXCEPT ![i] = [on |-> TRUE, context |-> pointer,
                                     hint |-> 0, state |-> Junk]]
  /\ UNCHANGED <<context, given, handed>>

\* k4c_iterator_set_size_hint, by a caller that counts what is left.
SetSizeHint(i) ==
  /\ iters[i].on /\ iters[i].context # "NULL"
  /\ iters' = [iters EXCEPT ![i].hint = Items - context]
  /\ UNCHANGED <<context, given, handed>>

Copy(i, j) ==
  /\ i # j /\ iters[j].on
  /\ iters' = [iters EXCEPT ![i] = iters[j]]
  /\ UNCHANGED <<context, given, handed>>

\* The hint after the callback has given an item, or NULL, which is 0.
HintAfter(hint, item) == IF item # 0 /\ hint > 0 THEN hint - 1 ELSE hint

Item(cursor) == IF cursor < Items THEN cursor + 1 ELSE 0
Advanced(cursor) == IF cursor < Items THEN cursor + 1 ELSE cursor

\* A slip: the caller's context is copied into the state when it is set.
NextFromContext(i) ==
  /\ iters[i].on /\ iters[i].context # "NULL"
  /\ handed' = context
  /\ iters' = [iters EXCEPT ![i].hint = HintAfter(@, Item(context)), ![i].context = "NULL",
                            ![i].state = Advanced(context)]
  /\ given' = IF Item(context) # 0 THEN Append(given, Item(context)) ELSE given
  /\ UNCHANGED context

\* k4c_iterator_next hands the callback the context when there is one.
NextByContext(i) ==
  /\ iters[i].on /\ iters[i].context # "NULL"
  /\ handed' = context
  /\ context' = Advanced(context)
  /\ given' = IF Item(context) # 0 THEN Append(given, Item(context)) ELSE given
  /\ iters' = [iters EXCEPT ![i].hint = HintAfter(@, Item(context))]

\* Else it hands it the state bytes.
NextByState(i) ==
  /\ iters[i].on /\ iters[i].context = "NULL" /\ iters[i].state # Junk
  /\ handed' = iters[i].state
  /\ iters' = [iters EXCEPT ![i].state = Advanced(@),
                            ![i].hint = HintAfter(@, Item(iters[i].state))]
  /\ UNCHANGED <<context, given>>

\* The same for a callback whose context is NULL, which was never told a state.
NextUninitialised(i) ==
  /\ iters[i].on /\ iters[i].context = "NULL" /\ iters[i].state = Junk
  /\ handed' = Junk
  /\ UNCHANGED <<iters, context, given>>

Next ==
  \E i \in Iter :
    \/ FromState(i) \/ FromCallback(i, "context") \/ SetSizeHint(i)
    \/ \E j \in Iter : Copy(i, j)
    \/ NextByContext(i) \/ NextByState(i)

Spec == Init /\ [][Next]_vars

\* A caller that also passes NULL for the context, as iterator.md allows "when
\* a callback does not need extra data".
NullContextSpec ==
  Init /\ [][ \/ Next
              \/ \E i \in Iter : FromCallback(i, "NULL") \/ NextUninitialised(i) ]_vars

-----------------------------------------------------------------------------
\* Copies of an iterator with its own state walk on their own: the hint of
\* each counts exactly what it has left, never wrapping past zero.
StateIsOwn ==
  \A i \in Iter :
    iters[i].on /\ iters[i].context = "NULL" => iters[i].hint = Items - iters[i].state

\* Copies of an iterator over a context share its walk: between them they give
\* every item once and in order.
ContextIsShared == given = [k \in 1 .. context |-> k]

\* Copies of an iterator share their walk exactly when they share a context.
CopiesWalkRight == StateIsOwn /\ ContextIsShared

\* iterator.h:41, "Iterator constructors return fully initialized k4c_iterator
\* values": no callback is handed storage that was never written.  Not so when
\* the context is NULL.
StorageIsInitialised == handed # Junk

=============================================================================
