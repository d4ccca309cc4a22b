----------------------------- MODULE LinkedList -----------------------------
(***************************************************************************)
(* datastruct/linked_list.c, at the level of its pointers: an intrusive    *)
(* singly linked list whose nodes belong to the caller.  A node outside    *)
(* the list keeps whatever link it last had.                               *)
(***************************************************************************)
EXTENDS Integers, Sequences, FiniteSets

CONSTANTS Node,      \* the caller's nodes
          NULL,      \* no node
          Garbage    \* the link of a node no list has written yet

ASSUME NodeAssumption ==
  IsFiniteSet(Node) /\ NULL \notin Node /\ Garbage \notin Node /\ NULL # Garbage

VARIABLES exists,    \* the list's struct is allocated
          list,      \* struct k4c_linked_list: size, head, tail
          next,      \* the next field of every node
          linked,    \* history: the nodes the caller put in and has not got back
          returned,  \* the node the last popleft or remove_after gave
          iter       \* the iterator: its node, its hint and the nodes it gave

vars == <<exists, list, next, linked, returned, iter>>

EmptyList == [size |-> 0, head |-> NULL, tail |-> NULL]

\* The nodes met from a node along a link, in order, at most one round.
Walk(from, link) ==
  LET at[i \in 0 .. Cardinality(Node)] ==
        IF i = 0 THEN from
        ELSE IF at[i - 1] \in Node THEN link[at[i - 1]] ELSE NULL
      met == {k \in 0 .. Cardinality(Node) : at[k] \in Node}
  IN  [i \in 1 .. Cardinality(met) |-> at[i - 1]]

Items == Walk(list.head, next)

\* No iterator: none was made, or the list it walks changed ahead of it.
NoIter == [on |-> FALSE, node |-> NULL, hint |-> 0, given |-> << >>]

-----------------------------------------------------------------------------
Init ==
  /\ exists = FALSE
  /\ list = EmptyList
  /\ next = [n \in Node |-> Garbage]
  /\ linked = {}
  /\ returned = NULL
  /\ iter = NoIter

\* When the struct cannot be allocated nothing has happened.
Create ==
  /\ ~ exists
  /\ exists' = TRUE /\ list' = EmptyList
  /\ UNCHANGED <<next, linked, returned, iter>>

\* The struct is given back; the nodes stay with the caller as they are.
Destroy ==
  /\ exists
  /\ exists' = FALSE /\ list' = EmptyList /\ linked' = {}
  /\ returned' = NULL /\ iter' = NoIter
  /\ UNCHANGED next

\* A node is in at most one list: the caller's side of an intrusive list.
Push(n) ==
  /\ exists /\ n \notin linked
  /\ next' = [m \in Node |-> CASE m = n -> NULL [] m = list.tail -> n
                               [] OTHER -> next[m]]
  /\ list' = [size |-> list.size + 1,
              head |-> IF list.tail = NULL THEN n ELSE list.head, tail |-> n]
  /\ linked' = linked \cup {n} /\ iter' = NoIter
  /\ UNCHANGED <<exists, returned>>

PushFront(n) ==
  /\ exists /\ n \notin linked
  /\ next' = [next EXCEPT ![n] = list.head]
  /\ list' = [size |-> list.size + 1, head |-> n,
              tail |-> IF list.tail = NULL THEN n ELSE list.tail]
  /\ linked' = linked \cup {n} /\ iter' = NoIter
  /\ UNCHANGED <<exists, returned>>

\* An iterator outlives the removal of a node it has already given.
IterAfterRemoval(n) == IF iter.node # NULL /\ n \in {iter.given[i] : i \in DOMAIN iter.given}
                       THEN iter ELSE NoIter

\* What a removal leaves: n unlinked behind prev, or from the head.
Unlinked(n) ==
  /\ linked' = linked \ {n} /\ returned' = n
  /\ iter' = IterAfterRemoval(n)
  /\ UNCHANGED exists

\* A slip: the tail is left behind when the last node goes.
PopLeftKeepsTail ==
  /\ exists /\ list.head # NULL
  /\ list' = [list EXCEPT !.size = @ - 1, !.head = next[list.head]]
  /\ next' = [next EXCEPT ![list.head] = NULL]
  /\ Unlinked(list.head)

PopLeft ==
  /\ exists /\ list.head # NULL
  /\ list' = [size |-> list.size - 1, head |-> next[list.head],
              tail |-> IF next[list.head] = NULL THEN NULL ELSE list.tail]
  /\ next' = [next EXCEPT ![list.head] = NULL]
  /\ Unlinked(list.head)

\* A slip: the tail is not moved back.
RemoveAfterKeepsTail(prev) ==
  /\ exists /\ prev \in linked /\ next[prev] # NULL
  /\ list' = [list EXCEPT !.size = @ - 1]
  /\ next' = [next EXCEPT ![prev] = next[next[prev]], ![next[prev]] = NULL]
  /\ Unlinked(next[prev])

\* k4c_linked_list_remove_after a node of the list (after NULL it is popleft).
RemoveAfter(prev) ==
  /\ exists /\ prev \in linked /\ next[prev] # NULL
  /\ list' = [size |-> list.size - 1, head |-> list.head,
              tail |-> IF list.tail = next[prev] THEN prev ELSE list.tail]
  /\ next' = [m \in Node |-> CASE m = next[prev] -> NULL
                               [] m = prev -> next[next[prev]]
                               [] OTHER -> next[m]]
  /\ Unlinked(next[prev])

\* popleft of an empty list, or remove_after the last node.
NothingToRemove ==
  /\ exists
  /\ list.head = NULL \/ \E prev \in linked : next[prev] = NULL
  /\ returned' = NULL
  /\ UNCHANGED <<exists, list, next, linked, iter>>

GetIterator ==
  /\ exists
  /\ iter' = [on |-> TRUE, node |-> list.head, hint |-> list.size, given |-> << >>]
  /\ UNCHANGED <<exists, list, next, linked, returned>>

\* k4c_linked_list_iterator_next under k4c_iterator_next: the node is given
\* after its successor has been read.
IterNext ==
  /\ iter.on /\ iter.node # NULL
  /\ iter' = [on |-> TRUE, node |-> next[iter.node],
              hint |-> IF iter.hint > 0 THEN iter.hint - 1 ELSE 0,
              given |-> Append(iter.given, iter.node)]
  /\ UNCHANGED <<exists, list, next, linked, returned>>

Next ==
  \/ Create \/ Destroy
  \/ \E n \in Node : Push(n) \/ PushFront(n) \/ RemoveAfter(n)
  \/ PopLeft \/ NothingToRemove
  \/ GetIterator \/ IterNext

Spec == Init /\ [][Next]_vars

-----------------------------------------------------------------------------
Link == Node \cup {NULL, Garbage}

TypeOK ==
  /\ exists \in BOOLEAN
  /\ list \in [size : Nat, head : Node \cup {NULL}, tail : Node \cup {NULL}]
  /\ next \in [Node -> Link]
  /\ linked \subseteq Node
  /\ returned \in Node \cup {NULL}

\* What the three fields and the links mean: s lists the nodes of the list.
Represents(s) ==
  /\ \A i, j \in 1 .. list.size : s[i] = s[j] => i = j
  /\ \A i \in 1 .. list.size - 1 : next[s[i]] = s[i + 1]
  /\ \A i \in 1 .. list.size : s[i] \in linked
  /\ \A n \in linked : \E i \in 1 .. list.size : n = s[i]
  /\ IF list.size = 0 THEN list.head = NULL /\ list.tail = NULL
     ELSE /\ list.head = s[1] /\ list.tail = s[list.size]
          /\ next[list.tail] = NULL

\* The chain from head reaches every node the caller put in, once, ends at
\* tail, and size counts it: no removal loses, repeats or strands a node.
WellLinked == \E s \in [1 .. list.size -> Node] : Represents(s)

\* A node the list gave back, and that is in no list since, carries no link
\* into the list it came from.
GivenBackClean == returned \in Node \ linked => next[returned] = NULL

\* An iterator still to give nodes gives exactly the rest of the list, even
\* when nodes it gave were removed meanwhile, and its hint counts that rest.
IteratorIsExact ==
  iter.on /\ iter.node # NULL =>
    /\ iter.node \in linked
    /\ iter.hint = Len(Walk(iter.node, next))
    /\ \A i \in DOMAIN iter.given :
         \A j \in DOMAIN Walk(iter.node, next) : iter.given[i] # Walk(iter.node, next)[j]

\* The operations are those of a sequence: push appends, pushfront prepends,
\* popleft and remove_after take one node out and keep the others in order.
SequenceSteps ==
  [][ /\ \A n \in Node :
           /\ Push(n) => Items' = Append(Items, n)
           /\ PushFront(n) => Items' = <<n>> \o Items
           /\ RemoveAfter(n) =>
                \E k \in DOMAIN Items :
                  /\ Items[k] = n /\ returned' = Items[k + 1]
                  /\ Items' = SubSeq(Items, 1, k) \o SubSeq(Items, k + 2, Len(Items))
      /\ PopLeft => returned' = Items[1] /\ Items' = Tail(Items) ]_vars

\* The links of the list and of the nodes that left it.
Consistent == TypeOK /\ WellLinked /\ GivenBackClean

=============================================================================
