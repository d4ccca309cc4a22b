-------------------------- MODULE DoublyLinkedList --------------------------
(***************************************************************************)
(* datastruct/doubly_linked_list.c, at the level of its pointers: the      *)
(* caller's nodes linked both ways, inserted and removed anywhere.  The    *)
(* statements of one operation are one step; the links they read are those *)
(* before the step, as in the code, which reads each before it is written. *)
(***************************************************************************)
EXTENDS Integers, Sequences, FiniteSets

CONSTANTS Node,      \* the caller's nodes
          NULL,      \* no node
          Garbage    \* the links of a node no list has written yet

Assumptions ==
  IsFiniteSet(Node) /\ NULL \notin Node /\ Garbage \notin Node /\ NULL # Garbage

VARIABLES exists,    \* the list's struct is allocated
          list,      \* struct k4c_doubly_linked_list: size, head, tail
          next,      \* the next field of every node
          prev,      \* the prev field of every node
          linked,    \* history: the nodes the caller put in and has not taken out
          returned,  \* the node the last popleft or popback gave, or removed
          iter       \* the iterator: its node, its hint and the nodes it gave

vars == <<exists, list, next, prev, linked, returned, iter>>

EmptyList == [size |-> 0, head |-> NULL, tail |-> NULL]

NoIter == [on |-> FALSE, node |-> NULL, hint |-> 0, given |-> {}]

\* The nodes met from a node along a link, in order, at most one round.
Walk(from, link) ==
  LET at[i \in 0 .. Cardinality(Node)] ==
        IF i = 0 THEN from
        ELSE IF at[i - 1] \in Node THEN link[at[i - 1]] ELSE NULL
      met == {k \in 0 .. Cardinality(Node) : at[k] \in Node}
  IN  [i \in 1 .. Cardinality(met) |-> at[i - 1]]

Items == Walk(list.head, next)

-----------------------------------------------------------------------------
Init ==
  /\ exists = FALSE
  /\ list = EmptyList
  /\ next = [n \in Node |-> Garbage] /\ prev = [n \in Node |-> Garbage]
  /\ linked = {}
  /\ returned = NULL
  /\ iter = NoIter

\* When the struct cannot be allocated nothing has happened.
Create ==
  /\ ~ exists
  /\ exists' = TRUE /\ list' = EmptyList
  /\ UNCHANGED <<next, prev, linked, returned, iter>>

\* The struct is given back; the nodes stay with the caller as they are.
Destroy ==
  /\ exists
  /\ exists' = FALSE /\ list' = EmptyList /\ linked' = {}
  /\ returned' = NULL /\ iter' = NoIter
  /\ UNCHANGED <<next, prev>>

\* n goes between a node and its successor, either of them NULL at an end.
LinkedBetween(before, n, after) ==
  /\ exists /\ n \notin linked
  /\ next' = [m \in Node |-> CASE m = n -> after [] m = before -> n
                               [] OTHER -> next[m]]
  /\ prev' = [m \in Node |-> CASE m = n -> before [] m = after -> n
                               [] OTHER -> prev[m]]
  /\ list' = [size |-> list.size + 1,
              head |-> IF before = NULL THEN n ELSE list.head,
              tail |-> IF after = NULL THEN n ELSE list.tail]
  /\ linked' = linked \cup {n} /\ iter' = NoIter
  /\ UNCHANGED <<exists, returned>>

Push(n) == LinkedBetween(list.tail, n, NULL)

PushFront(n) == LinkedBetween(NULL, n, list.head)

\* A slip: the node after the new one still points back past it.
InsertAfterOneWay(n, after) ==
  /\ exists /\ n \notin linked /\ after \in linked
  /\ next' = [m \in Node |-> CASE m = n -> next[after] [] m = after -> n
                               [] OTHER -> next[m]]
  /\ prev' = [prev EXCEPT ![n] = after]
  /\ list' = [size |-> list.size + 1, head |-> list.head,
              tail |-> IF next[after] = NULL THEN n ELSE list.tail]
  /\ linked' = linked \cup {n} /\ iter' = NoIter
  /\ UNCHANGED <<exists, returned>>

\* After NULL it is pushfront.
InsertAfter(n, after) == after \in linked /\ LinkedBetween(after, n, next[after])

\* An iterator outlives the removal of a node it has already given.
IterAfterRemoval(n) == IF n \in iter.given THEN iter ELSE NoIter

\* A slip: the tail of the list is not moved.
RemoveLeavesTail(n) ==
  /\ exists /\ n \in linked
  /\ next' = [m \in Node |-> CASE m = n -> NULL [] m = prev[n] -> next[n]
                               [] OTHER -> next[m]]
  /\ prev' = [m \in Node |-> CASE m = n -> NULL [] m = next[n] -> prev[n]
                               [] OTHER -> prev[m]]
  /\ list' = [size |-> list.size - 1,
              head |-> IF prev[n] = NULL THEN next[n] ELSE list.head,
              tail |-> list.tail]
  /\ linked' = linked \ {n} /\ returned' = n
  /\ iter' = IterAfterRemoval(n)
  /\ UNCHANGED exists

\* k4c_doubly_linked_list_remove: the neighbours, or the ends of the list
\* where there is none, are joined over the node, which is cleared.
Remove(n) ==
  /\ exists /\ n \in linked
  /\ next' = [m \in Node |-> CASE m = n -> NULL [] m = prev[n] -> next[n]
                               [] OTHER -> next[m]]
  /\ prev' = [m \in Node |-> CASE m = n -> NULL [] m = next[n] -> prev[n]
                               [] OTHER -> prev[m]]
  /\ list' = [size |-> list.size - 1,
              head |-> IF prev[n] = NULL THEN next[n] ELSE list.head,
              tail |-> IF next[n] = NULL THEN prev[n] ELSE list.tail]
  /\ linked' = linked \ {n} /\ returned' = n
  /\ iter' = IterAfterRemoval(n)
  /\ UNCHANGED exists

\* popleft and popback look only inwards from their end of the list.
PopLeft ==
  LET n == list.head IN
  /\ exists /\ n # NULL
  /\ next' = [next EXCEPT ![n] = NULL]
  /\ prev' = [m \in Node |-> IF m \in {n, next[n]} THEN NULL ELSE prev[m]]
  /\ list' = [size |-> list.size - 1, head |-> next[n],
              tail |-> IF next[n] = NULL THEN NULL ELSE list.tail]
  /\ linked' = linked \ {n} /\ returned' = n
  /\ iter' = IterAfterRemoval(n)
  /\ UNCHANGED exists

PopBack ==
  LET n == list.tail IN
  /\ exists /\ n # NULL
  /\ prev' = [prev EXCEPT ![n] = NULL]
  /\ next' = [m \in Node |-> IF m \in {n, prev[n]} THEN NULL ELSE next[m]]
  /\ list' = [size |-> list.size - 1, tail |-> prev[n],
              head |-> IF prev[n] = NULL THEN NULL ELSE list.head]
  /\ linked' = linked \ {n} /\ returned' = n
  /\ iter' = IterAfterRemoval(n)
  /\ UNCHANGED exists

\* popleft or popback of an empty list.
PopNothing ==
  /\ exists /\ NULL \in {list.head, list.tail}
  /\ returned' = NULL
  /\ UNCHANGED <<exists, list, next, prev, linked, iter>>

GetIterator ==
  /\ exists
  /\ iter' = [on |-> TRUE, node |-> list.head, hint |-> list.size, given |-> {}]
  /\ UNCHANGED <<exists, list, next, prev, linked, returned>>

\* k4c_doubly_linked_list_iterator_next under k4c_iterator_next: a node is
\* given after its successor has been read.
IterNext ==
  /\ iter.on /\ iter.node # NULL
  /\ iter' = [on |-> TRUE, node |-> next[iter.node],
              hint |-> IF iter.hint > 0 THEN iter.hint - 1 ELSE 0,
              given |-> iter.given \cup {iter.node}]
  /\ UNCHANGED <<exists, list, next, prev, linked, returned>>

Next ==
  \/ Create \/ Destroy
  \/ \E n \in Node : Push(n) \/ PushFront(n) \/ Remove(n)
  \/ \E n, after \in Node : InsertAfter(n, after)
  \/ PopLeft \/ PopBack \/ PopNothing
  \/ GetIterator \/ IterNext

Spec == Init /\ [][Next]_vars

-----------------------------------------------------------------------------
TypeOK ==
  /\ exists \in BOOLEAN
  /\ list \in [size : Nat, head : Node \cup {NULL}, tail : Node \cup {NULL}]
  /\ next \in [Node -> Node \cup {NULL, Garbage}]
  /\ prev \in [Node -> Node \cup {NULL, Garbage}]
  /\ linked \subseteq Node
  /\ returned \in Node \cup {NULL}

\* What the three fields and the links mean: s lists the nodes of the list.
Represents(s) ==
  /\ \A i, j \in 1 .. list.size : s[i] = s[j] => i = j
  /\ \A i \in 1 .. list.size : s[i] \in linked
  /\ \A n \in linked : \E i \in 1 .. list.size : n = s[i]
  /\ \A i \in 1 .. list.size - 1 :
       next[s[i]] = s[i + 1] /\ prev[s[i + 1]] = s[i]
  /\ IF list.size = 0 THEN list.head = NULL /\ list.tail = NULL
     ELSE /\ list.head = s[1] /\ prev[s[1]] = NULL
          /\ list.tail = s[list.size] /\ next[s[list.size]] = NULL

\* The two chains are one sequence read both ways, from head and from tail;
\* it holds every node the caller put in once, and size counts it: removals
\* at the head, the tail, in the middle or of the only node strand nothing.
WellLinked == \E s \in [1 .. list.size -> Node] : Represents(s)

\* A node taken out, and in no list since, carries no link into the list.
GivenBackClean ==
  returned \in Node \ linked => next[returned] = NULL /\ prev[returned] = NULL

\* An iterator still to give nodes gives exactly the rest of the list, even
\* when nodes it gave were removed meanwhile, and its hint counts that rest.
IteratorIsExact ==
  iter.on /\ iter.node # NULL =>
    /\ iter.hint = Len(Walk(iter.node, next))
    /\ \A n \in iter.given :
         \A j \in DOMAIN Walk(iter.node, next) : n # Walk(iter.node, next)[j]

\* The operations are those of a sequence: each inserts at its place, or takes
\* one node out of its place, and keeps the others in order.
SequenceSteps ==
  [][ /\ \A n \in Node :
           /\ Push(n) => Items' = Append(Items, n)
           /\ PushFront(n) => Items' = <<n>> \o Items
           /\ Remove(n) =>
                \E k \in DOMAIN Items :
                  /\ Items[k] = n
                  /\ Items' = SubSeq(Items, 1, k - 1) \o SubSeq(Items, k + 1, Len(Items))
           /\ \A after \in Node : InsertAfter(n, after) =>
                \E k \in DOMAIN Items :
                  /\ Items[k] = after
                  /\ Items' = SubSeq(Items, 1, k) \o <<n>>
                              \o SubSeq(Items, k + 1, Len(Items))
      /\ PopLeft => Items = <<returned'>> \o Items'
      /\ PopBack => Items = Append(Items', returned') ]_vars

\* The links of the list and of the nodes that left it.
Consistent == TypeOK /\ WellLinked /\ GivenBackClean

=============================================================================
