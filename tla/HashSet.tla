------------------------------ MODULE HashSet -------------------------------
(***************************************************************************)
(* hash/hashset.c: separate chaining over the bucket array of HashCommon.  *)
(* It differs from the map in what it stores, in an insert that leaves a   *)
(* member alone, and in having its own copy of the code; so the elements   *)
(* are all that is followed here, and every allocation may fail.           *)
(***************************************************************************)
EXTENDS HashCommon

CONSTANT ReserveSizes     \* sizes k4c_hashset_reserve is called with

Assumptions == ReserveSizes \subseteq SizeT

VARIABLES set,       \* struct k4c_hashset: size, capacity, buckets
          held,      \* what it holds from the allocator
          answer,    \* whether the last contains or get found its element
          iter,      \* the iterator: bucket, rest of its chain, hint, what it gave
          reserved   \* history: the largest size a reserve has promised

vars == <<set, held, answer, iter, reserved>>

Arrays == {"array A", "array B"}     \* bucket arrays; two while rehashing
Fresh(array) == IF array = "array A" THEN "array B" ELSE "array A"

EmptySet == [size |-> 0, capacity |-> DefaultCapacity, array |-> "array A",
             buckets |-> EmptyBuckets(DefaultCapacity)]

\* No iterator, or one over a set that changed since.
NoIter == [on |-> FALSE, bucket |-> 0, node |-> << >>, hint |-> 0, given |-> {},
           ended |-> FALSE]

Exists == "set" \in held

\* k4c_hashset_entry_get: the element's bucket, and whether it is there.
Bucket(s, key) == Hash[key] % s.capacity
IsMember(s, key) == Find(s.buckets[Bucket(s, key)], key) # 0

Members(s) == {e.key : e \in ToSet(Visit(s.buckets, s.capacity))}

-----------------------------------------------------------------------------
Init ==
  /\ set = EmptySet
  /\ held = {}
  /\ answer = FALSE
  /\ iter = NoIter
  /\ reserved = 0

Create ==
  /\ ~ Exists
  /\ set' = EmptySet /\ held' = {"set", set'.array}
  /\ UNCHANGED <<answer, iter, reserved>>

\* The bucket array cannot be allocated: the struct is given back.
CreateFails ==
  /\ ~ Exists
  /\ held' = (held \cup {"set"}) \ {"set"}
  /\ UNCHANGED <<set, answer, iter, reserved>>

Destroy ==
  /\ Exists
  /\ held' = held \ (Members(set) \cup {set.array, "set"})
  /\ set' = EmptySet /\ answer' = FALSE /\ iter' = NoIter /\ reserved' = 0

\* A slip: a smaller reserve shrinks the bucket array.
GrowsOrShrinks(s, size) == CapacityForSize(size) # s.capacity

\* k4c_hashset_reserve: what it needs, and the set and blocks it leaves.
Grows(s, size) == CapacityForSize(size) > s.capacity
ReserveFits(size) ==
  CapacityForSize(size) # Overflow /\ BucketsFit(CapacityForSize(size))

Reserved(size) ==
  IF Grows(set, size)
  THEN [size |-> set.size, capacity |-> CapacityForSize(size),
        array |-> Fresh(set.array),
        buckets |-> Rehashed(set.buckets, set.capacity, CapacityForSize(size))]
  ELSE set

HeldWith(s) == (held \ {set.array}) \cup {s.array}

Reserve(size) ==
  /\ Exists /\ ReserveFits(size)
  /\ set' = Reserved(size) /\ held' = HeldWith(set')
  /\ reserved' = IF size > reserved THEN size ELSE reserved
  /\ iter' = NoIter
  /\ UNCHANGED answer

\* OVERFLOW, or NO_MEMORY for the new bucket array.
ReserveFails(size) ==
  /\ Exists /\ (~ ReserveFits(size) \/ Grows(set, size))
  /\ UNCHANGED vars

\* The set an absent element is inserted into: grown first when it is loaded.
NeedsGrowth == ShouldGrow(set.size, set.capacity)
CanInsert == NeedsGrowth => ~ AddOverflows(set.size, 1) /\ ReserveFits(set.size + 1)
Ready == IF NeedsGrowth THEN Reserved(set.size + 1) ELSE set

\* A slip: the bucket chosen before the growth is used after it.
InsertStaleBucket(key) ==
  /\ Exists /\ ~ IsMember(set, key) /\ CanInsert
  /\ set' = [Ready EXCEPT
               !.buckets[Bucket(set, key)] = PushEntry(@, [key |-> key, hash |-> Hash[key]]),
               !.size = @ + 1]
  /\ held' = HeldWith(set') \cup {key} /\ iter' = NoIter
  /\ UNCHANGED <<answer, reserved>>

\* k4c_hashset_insert of an element that is not there; one that is there is
\* left alone.
Insert(key) ==
  /\ Exists /\ ~ IsMember(set, key) /\ CanInsert
  /\ set' = [Ready EXCEPT
               !.buckets[Bucket(Ready, key)] = PushEntry(@, [key |-> key, hash |-> Hash[key]]),
               !.size = @ + 1]
  /\ held' = HeldWith(set') \cup {key} /\ iter' = NoIter
  /\ UNCHANGED <<answer, reserved>>

\* The growth fails, and nothing has changed; or it succeeds and the entry
\* cannot be allocated.
InsertFails(key) ==
  /\ Exists /\ ~ IsMember(set, key)
  /\ \/ NeedsGrowth /\ UNCHANGED <<set, held, iter>>
     \/ CanInsert /\ set' = Ready /\ held' = HeldWith(set') /\ iter' = NoIter
  /\ UNCHANGED <<answer, reserved>>

\* k4c_hashset_contains and k4c_hashset_get.
Ask(key) ==
  /\ Exists
  /\ answer' = IsMember(set, key)
  /\ UNCHANGED <<set, held, iter, reserved>>

\* An element that is not there is left alone.
RemoveElem(key) ==
  /\ Exists /\ IsMember(set, key)
  /\ set' = [set EXCEPT !.buckets[Bucket(set, key)] = Without(@, key), !.size = @ - 1]
  /\ held' = held \ {key} /\ iter' = NoIter
  /\ UNCHANGED <<answer, reserved>>

GetIterator ==
  /\ Exists
  /\ iter' = [NoIter EXCEPT !.on = TRUE, !.hint = set.size]
  /\ UNCHANGED <<set, held, answer, reserved>>

\* Buckets from the iterator's on that have a chain, and the first of them.
Ahead == {b \in iter.bucket .. set.capacity - 1 : set.buckets[b] # << >>}
FirstAhead == CHOOSE b \in Ahead : \A c \in Ahead : b <= c

\* A slip: the walk ends at the first empty bucket.
RestStopsAtGap ==
  IF iter.node # << >> THEN iter.node
  ELSE IF iter.bucket \in Ahead THEN set.buckets[iter.bucket] ELSE << >>

\* The chain the next element heads; none when the walk is over.
Rest ==
  IF iter.node # << >> THEN iter.node
  ELSE IF Ahead # {} THEN set.buckets[FirstAhead] ELSE << >>

\* k4c_hashset_iterator_next under k4c_iterator_next: along the chain, else
\* into the next bucket that has one, else NULL with every bucket passed.
IterNext ==
  /\ iter.on
  /\ iter' =
       IF Rest = << >> THEN [iter EXCEPT !.bucket = set.capacity, !.ended = TRUE]
       ELSE [iter EXCEPT
               !.node = Tail(Rest),
               !.bucket = IF iter.node # << >> THEN @ ELSE FirstAhead + 1,
               !.hint = IF @ > 0 THEN @ - 1 ELSE 0,
               !.given = @ \cup {Head(Rest).key}]
  /\ UNCHANGED <<set, held, answer, reserved>>

Next ==
  \/ Create \/ CreateFails \/ Destroy
  \/ \E n \in ReserveSizes : Reserve(n) \/ ReserveFails(n)
  \/ \E k \in Key : Insert(k) \/ InsertFails(k) \/ Ask(k) \/ RemoveElem(k)
  \/ GetIterator \/ IterNext

Spec == Init /\ [][Next]_vars

-----------------------------------------------------------------------------
TypeOK ==
  /\ set.size \in Nat /\ set.capacity \in 1 .. SizeMax /\ set.array \in Arrays
  /\ DOMAIN set.buckets = 0 .. set.capacity - 1
  /\ \A b \in DOMAIN set.buckets : set.buckets[b] \in Seq([key : Key, hash : Nat])
  /\ held \subseteq Key \cup Arrays \cup {"set"}
  /\ answer \in BOOLEAN /\ iter.given \subseteq Key /\ reserved \in SizeT

\* Every element sits in the bucket its hash selects now, however many
\* growths it was carried through, so a lookup cannot miss it.
Placed ==
  \A b \in DOMAIN set.buckets : \A i \in DOMAIN set.buckets[b] :
    Hash[set.buckets[b][i].key] % set.capacity = b

\* No element is stored twice, size counts them, the load factor stays within
\* 3/4, and the set holds its struct, one bucket array and a block for each:
\* growth, failed inserts and removals leak nothing and lose nothing.
Accounted ==
  /\ set.size = Cardinality(Members(set))
  /\ set.size = Len(Visit(set.buckets, set.capacity))
  /\ set.size * LoadDenominator <= set.capacity * LoadNumerator
  /\ held = IF Exists THEN {"set", set.array} \cup Members(set) ELSE {}

\* While the set is unchanged an iterator has given hint elements fewer than
\* there are, and stops only when it has given every one.
IteratorIsExact ==
  iter.on =>
    /\ iter.given \subseteq Members(set)
    /\ iter.hint + Cardinality(iter.given) = set.size
    /\ iter.ended => iter.given = Members(set)

\* Once reserve(n) succeeded the bucket array changes only for a larger
\* reserve or an insertion beyond n elements: a reserve never shrinks it.
ReserveIsKept ==
  [][ Exists /\ Exists' /\ set'.array # set.array =>
        set'.capacity > set.capacity
        /\ (reserved' > reserved \/ set.size + 1 > reserved) ]_vars

\* The set implements its contract: a failed insert that grew the buckets is
\* a step that changes nothing.
Contract == INSTANCE SetContract WITH members <- Members(set)

ImplementsContract == Contract!Spec

\* The table through growths, collisions, removals and failures: every element
\* is where a lookup searches, counted once, and nothing else is held.
Consistent == TypeOK /\ Placed /\ Accounted

=============================================================================
