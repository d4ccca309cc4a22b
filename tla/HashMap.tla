------------------------------ MODULE HashMap -------------------------------
(***************************************************************************)
(* hash/hashmap.c: separate chaining over the bucket array of HashCommon,  *)
(* grown before the load factor would exceed 3/4, with a stateful iterator *)
(* that walks the buckets.  Every allocation may fail.                     *)
(***************************************************************************)
EXTENDS HashCommon

CONSTANTS Value,         \* the values
          Missing,       \* NULL returned by a get
          ReserveSizes   \* sizes k4c_hashmap_reserve is called with

ASSUME ValueAssumption == Missing \notin Value
ASSUME ReserveSizesAssumption == ReserveSizes \subseteq SizeT

VARIABLES map,       \* struct k4c_hashmap: size, capacity, buckets
          held,      \* what it holds from the allocator
          returned,  \* the value the last get gave
          iter,      \* the iterator: k4c_hashmap_iterator_state
          reserved   \* history: the largest size a reserve has promised

vars == <<map, held, returned, iter, reserved>>

Arrays == {"array A", "array B"}     \* bucket arrays; two while rehashing
Fresh(array) == IF array = "array A" THEN "array B" ELSE "array A"

EmptyMap == [size |-> 0, capacity |-> DefaultCapacity, array |-> "array A",
             buckets |-> EmptyBuckets(DefaultCapacity)]

\* No iterator: none was made, or the map changed since (hashmap.md: "do not
\* mutate the k4c_hashmap while iterating").
NoIter == [on |-> FALSE, bucket |-> 0, node |-> << >>, hint |-> 0, seen |-> << >>]

Exists == "map" \in held

Bucket(m, key) == Hash[key] % m.capacity
Chain(m, key) == m.buckets[Bucket(m, key)]
Found(m, key) == Find(Chain(m, key), key) # 0
EntryOf(m, key) == Chain(m, key)[Find(Chain(m, key), key)]
Entries(m) == Visit(m.buckets, m.capacity)

-----------------------------------------------------------------------------
Init ==
  /\ map = EmptyMap
  /\ held = {}
  /\ returned = Missing
  /\ iter = NoIter
  /\ reserved = 0

Create ==
  /\ ~ Exists
  /\ map' = EmptyMap
  /\ held' = {"map", map'.array}
  /\ UNCHANGED <<returned, iter, reserved>>

\* The bucket array cannot be allocated: the map's struct is given back.
CreateFails ==
  /\ ~ Exists
  /\ held' = (held \cup {"map"}) \ {"map"}
  /\ UNCHANGED <<map, returned, iter, reserved>>

\* Every entry of every bucket, then the bucket array, then the map.
Destroy ==
  /\ Exists
  /\ held' = held \ ({Entries(map)[i].key : i \in DOMAIN Entries(map)}
                       \cup {map.array, "map"})
  /\ map' = EmptyMap
  /\ returned' = Missing /\ iter' = NoIter /\ reserved' = 0

\* A slip: a smaller reserve shrinks the bucket array.
GrowsOrShrinks(m, size) == CapacityForSize(size) # m.capacity

\* k4c_hashmap_reserve: the capacity it wants, and the map it leaves.
Grows(m, size) == CapacityForSize(size) > m.capacity

ReserveFits(size) ==
  CapacityForSize(size) # Overflow /\ BucketsFit(CapacityForSize(size))

AfterReserve(m, size) ==
  IF Grows(m, size)
  THEN [m EXCEPT !.buckets = Rehashed(m.buckets, m.capacity, CapacityForSize(size)),
                 !.capacity = CapacityForSize(size),
                 !.array = Fresh(@)]
  ELSE m

HeldAfterReserve(size) ==
  IF Grows(map, size)
  THEN (held \cup {Fresh(map.array)}) \ {map.array} ELSE held

Reserve(size) ==
  /\ Exists /\ ReserveFits(size)
  /\ map' = AfterReserve(map, size)
  /\ held' = HeldAfterReserve(size)
  /\ reserved' = IF size > reserved THEN size ELSE reserved
  /\ iter' = NoIter
  /\ UNCHANGED returned

\* OVERFLOW, or NO_MEMORY for the new bucket array.
ReserveFails(size) ==
  /\ Exists /\ (~ ReserveFits(size) \/ Grows(map, size))
  /\ UNCHANGED vars

\* The key is there: its value is overwritten in place.
PutExisting(key, value) ==
  /\ Exists /\ Found(map, key)
  /\ map' = [map EXCEPT !.buckets[Bucket(map, key)][Find(Chain(map, key), key)].value = value]
  /\ iter' = NoIter
  /\ UNCHANGED <<held, returned, reserved>>

\* The map a new key is inserted into: grown first when it is loaded.
NeedsGrowth == ShouldGrow(map.size, map.capacity)
CanInsert == NeedsGrowth => ~ AddOverflows(map.size, 1) /\ ReserveFits(map.size + 1)
Ready == IF NeedsGrowth THEN AfterReserve(map, map.size + 1) ELSE map
HeldWhenReady == IF NeedsGrowth THEN HeldAfterReserve(map.size + 1) ELSE held

PutNew(key, value) ==
  /\ Exists /\ ~ Found(map, key) /\ CanInsert
  /\ map' = [Ready EXCEPT
               !.buckets[Bucket(Ready, key)] =
                  PushEntry(@, [key |-> key, hash |-> Hash[key], value |-> value]),
               !.size = @ + 1]
  /\ held' = HeldWhenReady \cup {key}
  /\ iter' = NoIter
  /\ UNCHANGED <<returned, reserved>>

\* The entry cannot be sized or allocated, after the growth has taken place.
PutFailsGrown(key) ==
  /\ Exists /\ ~ Found(map, key) /\ CanInsert
  /\ map' = Ready
  /\ held' = HeldWhenReady
  /\ iter' = NoIter
  /\ UNCHANGED <<returned, reserved>>

\* The growth itself fails.
PutFails(key) ==
  /\ Exists /\ ~ Found(map, key) /\ NeedsGrowth
  /\ UNCHANGED vars

Get(key) ==
  /\ Exists
  /\ returned' = IF Found(map, key) THEN EntryOf(map, key).value ELSE Missing
  /\ UNCHANGED <<map, held, iter, reserved>>

RemoveKey(key) ==
  /\ Exists
  /\ IF Found(map, key)
     THEN /\ map' = [map EXCEPT !.buckets[Bucket(map, key)] = Without(@, key),
                                !.size = @ - 1]
          /\ held' = held \ {key}
          /\ iter' = NoIter
     ELSE UNCHANGED <<map, held, iter>>
  /\ UNCHANGED <<returned, reserved>>

GetIterator ==
  /\ Exists
  /\ iter' = [NoIter EXCEPT !.on = TRUE, !.hint = map.size]
  /\ UNCHANGED <<map, held, returned, reserved>>

\* A slip: the bucket moves on although its chain is not finished.
NextChainSkips(it) ==
  LET later == {b \in it.bucket .. map.capacity - 1 : map.buckets[b] # << >>}
  IN  IF later = {} THEN map.capacity
      ELSE (CHOOSE b \in later : \A c \in later : b <= c) + 1

\* k4c_hashmap_iterator_next_entry: skip empty buckets, then step along the
\* chain; "node" is the rest of the chain the iterator points into.
NextChain(it) ==
  IF it.node # << >> THEN it.bucket
  ELSE LET later == {b \in it.bucket .. map.capacity - 1 : map.buckets[b] # << >>}
       IN  IF later = {} THEN map.capacity
           ELSE (CHOOSE b \in later : \A c \in later : b <= c) + 1

IterNext ==
  LET bucket == NextChain(iter)
      rest == IF iter.node # << >> THEN iter.node
              ELSE IF \E b \in iter.bucket .. map.capacity - 1 : map.buckets[b] # << >>
                   THEN map.buckets[bucket - 1] ELSE << >>
  IN  /\ Exists /\ iter.on
      /\ iter' = [iter EXCEPT
                    !.bucket = bucket,
                    !.node = IF rest = << >> THEN rest ELSE Tail(rest),
                    !.hint = IF rest # << >> /\ @ > 0 THEN @ - 1 ELSE @,
                    !.seen = IF rest = << >> THEN @ ELSE Append(@, Head(rest))]
      /\ UNCHANGED <<map, held, returned, reserved>>

Next ==
  \/ Create \/ CreateFails \/ Destroy
  \/ \E n \in ReserveSizes : Reserve(n) \/ ReserveFails(n)
  \/ \E k \in Key :
       \/ Get(k) \/ RemoveKey(k) \/ PutFailsGrown(k) \/ PutFails(k)
       \/ \E v \in Value : PutExisting(k, v) \/ PutNew(k, v)
  \/ GetIterator \/ IterNext

Spec == Init /\ [][Next]_vars

-----------------------------------------------------------------------------
EntryType == [key : Key, hash : Nat, value : Value]

TypeOK ==
  /\ map.size \in Nat /\ map.capacity \in 1 .. SizeMax /\ map.array \in Arrays
  /\ DOMAIN map.buckets = 0 .. map.capacity - 1
  /\ \A b \in DOMAIN map.buckets : map.buckets[b] \in Seq(EntryType)
  /\ held \subseteq Key \cup Arrays \cup {"map"}
  /\ returned \in Value \cup {Missing}
  /\ iter.bucket \in 0 .. map.capacity /\ iter.node \in Seq(EntryType)
  /\ iter.seen \in Seq(EntryType)
  /\ reserved \in SizeT

\* Every entry sits in the bucket its key's hash selects now, under its true
\* hash, and no key has two entries: lookups cannot miss or disagree.
Placed ==
  \A b, c \in DOMAIN map.buckets :
    \A i \in DOMAIN map.buckets[b], j \in DOMAIN map.buckets[c] :
      LET e == map.buckets[b][i]
      IN  /\ e.hash = Hash[e.key] /\ e.hash % map.capacity = b
          /\ e.key = map.buckets[c][j].key => b = c /\ i = j

\* size counts the entries, and the load factor stays within 3/4.
Counted ==
  /\ map.size = Len(Entries(map))
  /\ map.size * LoadDenominator <= map.capacity * LoadNumerator

\* The map holds its struct, one bucket array and one block per entry:
\* growth, removal, failed puts, failed creates and destroy leak nothing.
HeldExactly ==
  held = IF Exists
         THEN {"map", map.array} \cup {Entries(map)[i].key : i \in DOMAIN Entries(map)}
         ELSE {}

\* hashmap.md:111, "at least size entries fit without another rehash": once
\* reserve(n) succeeded, the bucket array changes only for a larger reserve
\* or for an insertion beyond n entries.
ReserveIsKept ==
  [][ Exists /\ Exists' /\ map'.array # map.array =>
        reserved' > reserved \/ map.size + 1 > reserved ]_vars

\* An iterator over an unchanged map has yielded a prefix of the visiting
\* order, and its size hint counts what is left: nothing twice, nothing
\* skipped, however the entries are spread over the buckets.
IteratorIsExact ==
  iter.on =>
    LET left == iter.node \o
          FlattenSeq([i \in 1 .. map.capacity - iter.bucket |->
                        map.buckets[iter.bucket + i - 1]])
    IN  /\ iter.seen \o left = Entries(map)
        /\ iter.hint = Len(left)

\* The map implements the key-value contract.
Contract ==
  INSTANCE KeyValueContract WITH
    store <- [k \in Key |-> IF Found(map, k) THEN EntryOf(map, k).value ELSE Missing]

ImplementsContract == Contract!Spec

\* The table through growths, collisions, removals and failures: every entry is
\* where a lookup searches, counted once, and nothing else is held.
Consistent == TypeOK /\ Placed /\ Counted /\ HeldExactly

=============================================================================
