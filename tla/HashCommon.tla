----------------------------- MODULE HashCommon -----------------------------
(***************************************************************************)
(* hash/common.c and hash/common.h: what the hash map and the hash set     *)
(* share.  A table is a function from bucket numbers 0 .. capacity - 1 to  *)
(* chains; a chain is the bucket's linked list, head first; an entry is a  *)
(* record with the fields key and hash, and for the map value.             *)
(***************************************************************************)
EXTENDS Size, Sequences, SequencesExt

CONSTANTS Key,              \* what is looked up: equal means value_eq
          Hash,             \* k4c_fnv1a_hash of the key's bytes
          DefaultCapacity,  \* K4C_HASH_COMMON_DEFAULT_CAPACITY
          BucketSize        \* sizeof(k4c_hash_common_bucket)

\* hashmap.md: equal keys hash alike, which a function of the key does.
ASSUME HashAssumption == Hash \in [Key -> Nat]
\* A block is known by what it is for: an entry's by its key.
ASSUME BlockAssumption == Key \cap {"array A", "array B", "map", "set"} = {}
ASSUME DefaultCapacityAssumption ==
  /\ DefaultCapacity \in Nat \ {0} /\ BucketSize \in Nat \ {0}
  /\ BucketSize * DefaultCapacity <= SizeMax /\ 3 * DefaultCapacity <= SizeMax

\* K4C_HASH_COMMON_MAX_LOAD_DENOMINATOR and _NUMERATOR.
LoadDenominator == 4
LoadNumerator == 3

\* k4c_hash_common_should_grow
ShouldGrow(size, capacity) ==
  \/ AddOverflows(size, 1) \/ MulOverflows(size + 1, LoadDenominator)
  \/ /\ ~ MulOverflows(capacity, LoadNumerator)
     /\ (size + 1) * LoadDenominator > capacity * LoadNumerator

Overflow == 0    \* no capacity: K4C_STATUS_OVERFLOW

\* k4c_hash_common_capacity_for_size: double until the load fits.
CapacityForSize(size) ==
  LET fit[c \in 1 .. SizeMax] ==
        IF MulOverflows(c, LoadNumerator) THEN Overflow
        ELSE IF size * LoadDenominator <= c * LoadNumerator THEN c
        ELSE IF MulOverflows(c, 2) THEN Overflow ELSE fit[2 * c]
  IN  IF MulOverflows(size, LoadDenominator) THEN Overflow
      ELSE fit[DefaultCapacity]

\* The size check of k4c_hash_common_buckets_create.
BucketsFit(capacity) == ~ MulOverflows(BucketSize, capacity)

EmptyBuckets(capacity) == [b \in 0 .. capacity - 1 |-> << >>]

\* The entries in the order the loops visit them: bucket by bucket, each
\* from its head.
Visit(buckets, capacity) == FlattenSeq([i \in 1 .. capacity |-> buckets[i - 1]])

\* k4c_hash_common_bucket_pushfront
PushEntry(chain, entry) == <<entry>> \o chain

\* A slip: the new bucket is chosen with the old capacity.
RehashedByOld(buckets, capacity, newCapacity) ==
  LET all == Visit(buckets, capacity)
      after[i \in 0 .. Len(all)] ==
        IF i = 0 THEN EmptyBuckets(newCapacity)
        ELSE [after[i - 1] EXCEPT ![all[i].hash % capacity] = PushEntry(@, all[i])]
  IN  after[Len(all)]

\* k4c_hash_common_buckets_rehash: each entry visited goes to the front of
\* its new bucket.
Rehashed(buckets, capacity, newCapacity) ==
  LET all == Visit(buckets, capacity)
      after[i \in 0 .. Len(all)] ==
        IF i = 0 THEN EmptyBuckets(newCapacity)
        ELSE [after[i - 1] EXCEPT ![all[i].hash % newCapacity] = PushEntry(@, all[i])]
  IN  after[Len(all)]

\* A slip: equal hashes are taken for equal keys.
FindByHash(chain, key) == SelectInSeq(chain, LAMBDA e : e.hash = Hash[key])

\* k4c_hash_common_bucket_find: the position in the chain of the first entry
\* with this hash and an equal key, 0 when there is none.
Find(chain, key) ==
  SelectInSeq(chain, LAMBDA e : e.hash = Hash[key] /\ e.key = key)

\* k4c_hash_common_bucket_remove of a key that is there.
Without(chain, key) == RemoveAt(chain, Find(chain, key))

=============================================================================
