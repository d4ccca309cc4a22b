# A verification project for k4c

k4c is a C library of allocators, containers, hash tables and buffered file
input.  This directory holds TLA+ models of its code, TLC configurations that
check them on small instances, and theorems that TLAPS checks for every value
of the constants.  `PROJECT.json` lists every definition with the source lines
it stands for, the runs, the hazards and the theorems.

The library is sequential: it starts no thread and takes no lock.  What is hard
in it is not interleaving but long sequences of calls over representations that
are rearranged all the time (a free list, a circular buffer, bucket chains, a
sliding window), the arithmetic at the edge of `size_t`, allocations that fail
half way through an operation, and input sources that deliver less than they
were asked for.  Those are what the properties are about.

## Inventory

| Part | State | Operations | Interacts with | What makes it correct |
|---|---|---|---|---|
| Size arithmetic, `lib/mem/size.h` | none | checked add, multiply, align-up | every part that sizes memory | no wrapped size reaches an allocator |
| Allocator API, `lib/mem/allocator.c` | a context, feature bits and a vtable | alloc, resize, dealloc, copy | every container calls it; falls back to libc | a live range belongs to one owner, and its bytes survive |
| General heap, `lib/mem/general_heap.c` | a buffer, its capacity, an intrusive list of block headers | create, alloc, resize, dealloc, available, destroy | behind the allocator API; uses the doubly linked list | blocks tile the buffer, used blocks and owners match, headers survive |
| Arena, `lib/mem/arena.c` | a buffer and an offset | create, alloc, resize, reset, destroy | behind the allocator API | ranges do not overlap until a reset |
| Test allocator, `lib/mem/test_allocator.c` | counters, a failure countdown | alloc, resize, dealloc, reset of counts | the unit tests | `outstanding` counts live blocks exactly |
| Hash table core, `lib/hash/common.c` | bucket arrays of chains | find, remove, push, rehash, growth policy | hash map, hash set, linked list | an entry sits in the bucket of its hash |
| Hash map, `lib/hash/hashmap.c` | size, capacity, buckets; iterator state | put, get, remove, reserve, iterate, destroy | hash core, allocator, iterator | it is a function from keys to values; nothing leaks |
| Hash set, `lib/hash/hashset.c` | as the map | insert, contains, get, remove, reserve, iterate | as the map | it is a set |
| Deque, `lib/datastruct/deque.c` | circular buffer: size, capacity, head, tail | push and pop at both ends, peeks, iterate | allocator, iterator | callers see one sequence |
| Vector, `lib/datastruct/vector.c` | buffer, size, capacity | push, pop, get, swap-remove, reserve, collect, searches | allocator, iterator | growth keeps the elements; searches agree with the order |
| Binary heap, `lib/datastruct/binary_heap.c` | a vector | push, pop, peek | vector | the root is a least element |
| Linked lists, `lib/datastruct/*linked_list.c` | head, tail, size, intrusive links | push, pop, insert, remove | hash core, general heap | links, ends and size agree |
| String, `lib/datastruct/string.c` | a header before the characters | append, prepend, clear, queries | allocator | the length is the length of the text |
| Iterator, `lib/datastruct/iterator.c` | inline state, callback, size hint | next, hints | every container | items are yielded once, then NULL |
| Buffer cursor, `lib/buffer/cursor.c` | data, length, position | peek, next, skip | the readers return cursors | never reads past the end |
| Buffered reader, `lib/io/reader/reader.c` | a window `data[pos..len)` | take a byte, an array, a delimited segment | a read callback | no byte lost, repeated or reordered |
| File reader, `lib/io/reader/file_reader.c` | a `FILE` and a buffer | create, view, the read callback, close | buffered reader, the C library | an error is not an end of file |
| File helpers, `lib/io/file.c` | none | stat queries, read-all, write-all | the file system | what is read was in the file |
| Logging, testing, assert, error | process-wide settings, none | output | everything | left out, see below |

## The modules

| Module | Models | Extends |
|---|---|---|
| `Size` | `mem/size.h` on a `size_t` of `SizeMax + 1` values | |
| `Allocator` | the contract of `k4c_alloc`, `k4c_resize`, `k4c_dealloc` (abstract) | |
| `GeneralHeap` | `mem/general_heap.c` | `Size` |
| `Arena` | `mem/arena.c`, behind `mem/allocator.c` without the dealloc feature | `Size` |
| `TestAllocator` | `mem/allocator.c` over libc and over `mem/test_allocator.c` | |
| `HashCommon` | `hash/common.c`, `hash/common.h` | `Size` |
| `HashMap`, `HashSet` | `hash/hashmap.c`, `hash/hashset.c` with their iterators | `HashCommon` |
| `KeyValueContract`, `SetContract` | what their headers promise (abstract) | |
| `Deque` | `datastruct/deque.c` | `Size` |
| `DequeIterator` | its iterator, composed with the deque it walks | `Deque` |
| `DequeContract` | what `deque.h` promises (abstract) | |
| `Vector` | `datastruct/vector.c`, its element pointers and iterator | `Size` |
| `VectorCollect` | `k4c_vector_collect`, `_collect_map`, call by call | `Vector` |
| `VectorSearch` | the binary searches, pass by pass | |
| `VectorContract` | what `vector.h` promises (abstract) | |
| `BinaryHeap` | `datastruct/binary_heap.c`, swap by swap | |
| `PriorityContract` | a bag whose least element goes first (abstract) | |
| `LinkedList`, `DoublyLinkedList` | the two lists at the level of their pointers | |
| `K4cString` | `datastruct/string.c` | `Size` |
| `StringContract` | what `string.h` promises (abstract) | |
| `Iterator` | `datastruct/iterator.c`: state, context, copies; the run of `iterator_null` | |
| `BufCursor` | `buffer/cursor.c` | `Size` |
| `Reader` | `io/reader/reader.c` over an arbitrary source | |
| `FileReader` | `io/reader/file_reader.c` composed with the reader and `fread` | `Reader` |
| `FileReaderViews` | several readers over one file reader | `FileReader` |
| `ByteStream` | what `reader.h` and `file_reader.h` promise a caller of one view (abstract) | |
| `FileIO` | `io/file.c`, call by call to the system, against a writer | |
| `GeneralHeapProofs` | theorems about the general heap | `GeneralHeap` |
| `DequeProofs` | theorems about the deque and its iterator | `MCDeque` |
| `ArenaProofs` | theorems about the arena and the test allocator | `MCAllocators` |
| `ReaderProofs` | theorems about the reader, the file reader and its views | `FileReaderViews` |
| `ListProofs` | theorems about both lists | `MCLists` |
| `VectorProofs` | theorems about the vector, the collects, the searches and the binary heap | `MCVector`, `MCOrdered` |
| `HashProofs` | theorems about the hash map and the hash set | `MCHashTables` |
| `TextProofs` | theorems about the string, the cursor, the iterator and the file helpers | `MCText` |
| `MC...` | the instances TLC checks | see the runs |

Definitions keep the names of the source where TLA+ allows it.  Each model also
holds definitions whose comment starts with "A slip" or "Slips": plausible
mistakes in the definition that follows.  They are not part of the model.  With
the definition replaced by its slip, the property named with it under `mutants`
in `PROJECT.json` fails, which shows that the property can see that mistake.

Parts that share no state are checked in one run: its MC module instantiates
each part, and a variable `used`, chosen at the start, says which of them a
behaviour uses; the others stay at one initial state.  What such a run explores
is the union of the parts' state spaces, not their product.  Parts that do
interact are composed properly: the iterator and the deque, the views and the
reader and the file, the collect and the vector, the reader and the writer of a
file.

### General heap

`blocks` is the list of headers in list order; a record is the header stored at
`addr`.  `mem` is the buffer byte by byte.  A byte is a header byte, the byte an
owner wrote at a certain offset of its range, or junk, so an operation that puts
a header, a split or a copy into the wrong place destroys a byte somebody will
miss.  `live` is what each owner holds; an owner fills its range after an
allocation and the added part after a resize.  `host` is what `k4c_heap_create`
took from libc.  The three exits of `k4c_heap_vtable_realloc` are
`ResizeInBlock`, `ResizeIntoNext` and `ResizeMoves`; the moving one keeps the
order of the code: allocate, copy the old block, free it.  Pointer 0 is `NULL`:
no payload can start at offset 0.  The branch of dealloc that ignores a pointer
from outside the buffer is left out: owners free what they hold.

* `Consistent`: headers and payloads tile the buffer with no gap or overlap
  (`Tiled`), owners and used blocks correspond one to one (`Owned`), and a create
  that fails half way gives back what it took (`HostBalanced`).
* `BytesAccounted`: payloads are aligned, no copy and no owner's write lands on a
  header, and free, used and header bytes add up to the capacity.
* `OnlyShrinkFragments`: two free blocks become neighbours only when a resize
  cuts the tail off a block.  `DeallocGivesBack`: after a dealloc the same
  request can be served again.
* `ImplementsAllocator`: with the contents read out of `mem`, the heap is an
  implementation of `Allocator`.

`DeallocCoalesces` states the line "coalesce neighboring free blocks on
k4c_dealloc" of `general_heap.h`.  The code does not keep it: allocate, shrink
the allocation (the tail becomes a free block in front of another free block),
deallocate.  The dealloc merges with one successor only and leaves two free
neighbours.  Nothing is lost, but the heap is more fragmented than described.

### Arena

The same picture of memory, without a list: `offset` only grows, and the size
header in front of a payload is a cell of `mem` that `k4c_arena_vtable_realloc`
reads back (`HeaderSize`).  `Serves` is the chain of checks of
`k4c_arena_vtable_alloc` with its wrapping subtractions.  A resize to a smaller
rounded size aborts by an assertion, so `MayResize` is a precondition of the
owners.  `Dealloc` is the dispatch of `mem/allocator.c` to an allocator without
that feature: nothing happens.  A reset, a destroy and a create end all pointers.

* `Consistent`: live ranges and their headers lie apart and below the offset,
  headers are unharmed, and the arena holds its struct and buffer.
* `ServesExactly`: a request is served exactly when header and rounded size fit
  behind the offset: no check wraps, and none refuses too early.
* `OnlyResetReclaims`: the offset goes back only at a reset or a destroy.
* `ImplementsAllocator`: the contents of live allocations survive, as with the
  heap.

### Test allocator

Owners reach libc's blocks with no allocator or through the tracking one, whose
counters, outstanding count and countdown `fail_after` are the code's.  `kept`
and `allowed` are histories: what was outstanding at the last reset, and how
many attempts were allowed.  malloc and realloc may fail on their own.

* `CountsAreTrue`: `outstanding` counts the live tracked blocks, the event counts
  explain how it moved since the last reset, failures begin after exactly the
  attempts asked for and go on, and every block of libc has one owner.

### Hash tables

A table is a function from bucket numbers to chains, a chain is the linked list
head first.  The hash of a key is the constant `Hash`.  A put or insert that
grows the table and then cannot allocate its entry leaves the grown table
(`PutFailsGrown`).  The iterator is the bucket counter and the rest of the chain
it stands in.  The set has its own copy of the code and is a module of its own.

* `TablesConsistent`: an entry is in the bucket its hash selects and stored once
  (`Placed`), `size` counts the entries and the load stays within 3/4, and the
  table holds its struct, one bucket array and one block per entry.
* `IteratorsAreExact`: what was yielded and what is left is the whole table in
  visiting order, and the size hint counts what is left.
* `ReservesAreKept`: after `reserve(n)` the array is not replaced before the n-th
  entry (`hashmap.md`), and a reserve never shrinks it.
* `ImplementContracts`: the map is a `KeyValueContract` and the set a
  `SetContract`, also across growths and failures.

### Deque

`deque` is the struct with the slots of its buffer.  Slots outside the window
keep whatever was there.  The two buffers of a growth are told apart so that
`held` can say which is given back.  `Items` reads the sequence out of the
window.  The iterator copies head, mask and size and never looks at the deque
again; pushes end it (the caller must not), pops and peeks leave every slot as it
is, so they may go on meanwhile.

* `Consistent`: head, tail and size agree about the window at every rotation, and
  it holds pushed elements only; the deque holds its struct and one buffer.
* `IteratorIsExact`: every capacity reached is a power of two, so that masking is
  the modulo the iterator needs, and it gives the elements in order and once.
* `ImplementsContract`: through `Items` the deque is a `DequeContract`.

### Vector, collect, searches, binary heap

`vec` is the struct with its slots; a growth takes half of the capacity and falls
back to what is needed when that overflows.  `ref` is the element pointer the
caller keeps and what it read through it.

* `Consistent`: the vector holds one buffer, the one it points to; a pointer from
  get, pop or swap_remove reads its element until the vector grows or a push
  fills its slot; an iterator's items and hint are exact.
* `GrowsSparingly`: pushes are amortised, except at the edge of `size_t`.
* `ImplementsContract`: failed operations change nothing, and the others are
  those of a sequence.

`VectorCollect` follows the two collect functions through create, reserve,
scratch, one push per item, and the clean-up of each failure; `CollectDelivers`
says all or nothing, `CollectReturns` that the call ends, and `GrowsSparingly`
also that a right or too large hint leaves the pushes nothing to allocate.

`VectorSearch` runs the loop of lower and upper bound; `Finds` relates the window
to the key at every pass and the result to `vector.h`, with `binary_search` on
top; `SearchReturns` says that it ends, halving the window each time.

`BinaryHeap` makes each swap of a sift a step.  `HeapConsistent`: only the sifted
index is out of order, the top is least between operations, and the slot a pop
handed out is not reached by the sift.  `HeapImplementsContract`: it is a bag of
which a least element goes first (`PriorityContract`).

### Lists

Head, tail, size and the links of every node, those outside the list included,
which keep whatever they last had.  The statements of one operation are one
step.  `HashCommon` and `GeneralHeap` use sequences in place of these lists; here
that is shown to be right.

* `ListsConsistent`: the links are one sequence of the nodes the caller put in, in
  the doubly linked list in both directions, `size` counts it, nodes that left
  carry no link into it, and an iterator gives the rest of the list also when the
  nodes it gave are taken out.
* `ListsAreSequences`: each operation is the one of a sequence.

### String

The header and the bytes are one allocation that growth may move; a cell is a
byte of the text, NUL or junk.  `Consistent`: `len` counts the bytes before the
first NUL, each of which somebody wrote; queries and iterators see that text and
nothing a longer text left behind.  `ImplementsContract`: append, prepend and
clear are those of a sequence, and failed ones change nothing.

An argument may lie inside the string.  `AppendOwn(k)` and `PrependOwn(k)` pass
its suffix from offset `k`, as long as there is room for it.  An appended suffix
and the whole string prepended go in as they were.  A prepended proper suffix does
not: `string.c:229` has moved the text up when `string.c:231` reads the prefix.
The contract does not pretend otherwise; `SuffixMovedUp` of `StringContract` says
which bytes go in front, for the whole text the text itself.

### Iterator and buffer cursor

An iterator is a value that callers copy.  It holds its own cursor in its state
bytes, or a pointer to a context of the caller.  `CopiesWalkRight`: copies of the
first kind walk on their own and their hint never wraps, copies of the second
kind share one walk that gives every item once.  `StorageIsInitialised` is
violated: `k4c_iterator_from_callback` with no context leaves the state storage
unwritten and `k4c_iterator_next` hands it to the callback, while `iterator.h`
says that constructors return fully initialized values.

`BufCursor` takes any `size_t` for a count.  `Exact`: a cursor never passes the
end or wraps, what calls told of is what it passed, and skip_while went as far as
it could.

### Buffered reader, file reader, views

The bytes of the source are named by their position in the stream, `delims` says
which of them are delimiters and is chosen at the start.  One call of the C API
is several steps: the loop of `k4c_reader_take_array` or `_take_delimiter` asks
the source again and again, and each round is a `Fill` (bytes came) or a `Stop`
(none came, and the status decides).  `taken` is a history of the bytes handed
out.

* `WindowExact`: what was handed out, followed by what is buffered, is what the
  source delivered, in order; and the OVERFLOW returns inside `fill_more` and
  `rebase` are never met, since a call that asks always has room.
* `CursorIntact`: a returned cursor shows the bytes it was returned with until
  the window is compacted over it.
* `Segments`: a delimited segment contains its delimiter last and nowhere else,
  or is the rest of the source.
* `CallReturns`: every call returns.

`FileReader` fixes the source: `fread` with its two indicators, of which
`file_reader.c` looks at the error indicator only when no byte came.  After an
error the stream may go on; the indicator stays set, since nothing in the
library clears it.  `FailureIsNeverTheEnd` says that a failing file is never
taken for one that ended, neither by a status nor by a last segment.
`k4c_file_reader_close` makes later refills panic, by the assertion in the
callback, while buffered bytes stay readable, and a view made after it panics in
`k4c_reader_create`.

`FileReaderViews` makes one or two views, as `k4c_file_reader_view` allows.  Two
views have windows of their own over one buffer and one file, and a refill of one
may write over bytes the other has yet to read (`overwritten`).
`OneViewReadsTheFile`: to a caller with one view all this is a `ByteStream`, a
specification with no buffer in it, no window, no rounds and no `fread`.  Each
call takes the next bytes of the file, up to the count or the first delimiter; it
fetches only when it needs a byte it has not got, an array never more than its own
and nothing more than the buffer ahead of the caller; the end is reported at the
end of a file that never failed; and after close a call that needs a byte aborts
and one that needs none does not.  `EachByteToOneView`: views never hand out a byte nobody read from the file, and as long as nothing was
overwritten, each byte goes to exactly one view.  `DrainedInOrder`: a caller that
drains a view before it changes keeps the file in order.

### File helpers

`FileIO` runs `k4c_file_read_all` one system call at a time (measure, open,
allocate, read in pieces, close) while another process runs
`k4c_file_write_all`, whose bytes reach the file in pieces, or removes the file.
What a call has taken is a field each of its own, `open` for the `FILE` and `held`
for the memory, and each exit clears what the code gives back there (`Closed`,
`GivenBack`): an exit that forgot one would return with the field set.
`StatusIsTrue`: a read hands out all it claims or nothing, a write that says OK
has written the whole, and neither leaves a file open or keeps memory when it
fails (`AllOrNothing`, `WriteIsWhole`); a file nobody wrote meanwhile is read as it
is (`ReadsAQuietFile`).

## The runs

| Run | Modules | Instance | Shows |
|---|---|---|---|
| `general_heap` | `MCGeneralHeap` | 3 owners, buffers of 10 and 38 bytes and a refused size, 6 request sizes, header 4, alignment 2, `SizeMax` 63 | the heap's invariants, action properties and refinement |
| `heap_coalesce` | `MCGeneralHeap` | 2 owners, one buffer | violation: two adjacent free blocks after a dealloc |
| `allocators` | `MCAllocators`: `Arena`, `TestAllocator` | 2 owners; buffers of 1, 13 and 31 bytes with `SizeMax` 31, alignment 2, header 1; 3 blocks, countdowns 0, 1, 2 and none, 5 events between resets | the arena serves what fits and keeps it; the tracker's counts are true |
| `reader` | `Reader` | window 3, stream 6, counts 0, 2, 3, 4 | no byte lost; segments; every call returns |
| `file_reader` | `FileReaderViews` | window 3, file 4, one or two views | errors and the end kept apart; views share the file |
| `deque` | `MCDeque`: `DequeIterator` | 2 values, capacities 2, 4, 8, then a refused growth; iterators up to 4 slots | the deque's invariants, iterator and contract |
| `hash_tables` | `MCHashTables`: `HashMap`, `HashSet` | 4 keys, 2 values, capacities 2, 4, 8, then a refused growth | invariants, iterators, reserves and contracts of both tables |
| `lists` | `MCLists`: both lists | 4 nodes | links are sequences, under iterators too |
| `vector` | `MCVector`: `Vector`, `VectorCollect` | `SizeMax` 7; sources of 0, 2, 3, 4 items, hints 0, 1, 2, 3, 5 | pointers, growth, contract; collects deliver |
| `ordered` | `MCOrdered`: `VectorSearch`, `BinaryHeap` | all sorted vectors of up to 5 items over 5 ranks; a heap of 6 slots and 3 elements | searches find and return; the heap is a priority bag |
| `text` | `MCText`: `K4cString`, `BufCursor`, `Iterator`, `FileIO` | strings over 2 bytes up to 6 cells, buffers of 3 bytes, 3 iterators of 3 items, files of up to 4 bytes | the text, walks and statuses are exact |
| `iterator_null` | `Iterator` with `NullContextSpec` | 2 iterators | violation: a callback is handed storage nobody wrote |

Why these bounds are enough to meet the interesting cases:

* Heap sizes keep the proportions of the 64-bit build: a header is two alignment
  units.  A buffer of 38 holds four minimal blocks, so a block can have used and
  free neighbours on both sides; 13 and 20 leave remainders just below and above
  the split limit; 63 and the size 63 reach the overflow returns.  The buffer of
  10 is the smallest the assertion of create allows.
* Arena sizes end on both sides of every check: 30 is the largest rounded size,
  31 overflows when rounded, and the buffer of 14 takes two allocations and a
  moving resize.
* The tracker's `MaxEvents` bounds the counts, which are only ever compared; the
  outstanding count is bounded by the owners.
* The reader's window is smaller than the stream, so it fills, empties, and is
  compacted with 0, 1 and 2 unread bytes; 4 is refused; 0 is the empty array.
  The file of the views is longer than the common buffer by one byte, so a refill
  of one view meets unread bytes of the other.
* The deque starts with 2 slots instead of 16, so full deques of 2 and 4 slots
  are grown at every rotation, and with 16 values of `size_t` and 2-byte
  elements the growth to 16 slots overflows.  `MaxIterated` lets iterators be made
  over every rotation of 2 and 4 slots; one over 8 slots adds no new case.
* The tables start with 2 buckets and grow with the second entry to 4 and with
  the fourth to 8; 16 buckets of two bytes overflow a `size_t` of at most 31, so a
  reserve of 8 is refused.  Two of the keys share their whole hash, a third shares a bucket with them in the small tables only, so growth separates
  some keys and not others.
* Four nodes put a node between two others, and the two ends beside them.
* The vector climbs 1, 2, 3, 4, 6 slots, overflows there, falls back to 7 and is
  refused; the string climbs 2, 3, 4, 6 and is refused.
* Six heap slots make three levels and a node with a single child; five sorted
  items make windows of odd and even length with runs of equal items.

`CHECK_DEADLOCK FALSE` is set in three configurations, where the system really
stops: `FileReader.cfg` (a panic ends the program), `Vector.cfg` (a collect that
has returned) and `Ordered.cfg` (a search that has returned).

### Fairness

Three runs assume any, each of a caller's thread that is inside one call and runs
on.  `reader`: weak fairness of `Return \/ Ask`; the read callback, a plain
function call, returns, and nothing is assumed about what it returns.  `vector`:
weak fairness of the steps of a collect.  `ordered`: weak fairness of the passes
of a search.  No caller is required to call again.

## The proofs

All theorems hold for every value of the constants that the named assumptions of
the modules allow; TLC evaluates the assumptions in the runs.

`DequeProofs` proves `DequeIsConsistent`, the invariant `Consistent` with its
parts (`TypeCorrect`, `TailIsExact`, `WindowHoldsElements`, `MemoryIsExact`), and
`DequeImplementsContract`, the refinement `Spec => ImplementsContract`.

The inductive invariant `IInv` is `WellFormed(deque)`, `HeldExactly`, the type of
`returned`, and that a deque that does not exist is empty.  `WellFormed` states
the window with a case distinction instead of `%` (`SlotAt`): positions in the
window are below twice the capacity, and the lemmas `ModSmall` and `ModWrap` are
all that is needed of `%`.  `TailFollows` alone is not inductive, because a
growth of a deque with a wrong slot content or a wrong `size` would not preserve
it, and `ElementsAreValues` needs `TailFollows` for the slot that a push writes.
Each operation is an operator on a deque (`PushedBack`, `Grown`, ...) and has two
lemmas: it keeps `WellFormed`, and what it does to `Items`.  The step of the
refinement then is one case per action.

`DequeIteratorIsExact` is the invariant `IteratorIsExact` of the deque with its
iterator.  The `&` of the code is there the recursive function `BitAnd`, by the
lowest bit and the rest.  `CanMask(c)`, the assertion of
`k4c_deque_get_iterator`, says that `c & (c - 1)` is zero; a capacity of which
that is true is one or twice a smaller one, so by the least counterexample below
`MaskWraps` shows that its mask wraps an index that ran past the end of the buffer,
and `CanMaskTwice` that a growth keeps it.  `IterInv` adds to `IInv` that the capacity can be masked and
that the iterator is `OnItsWay`: it gave a prefix of what was promised and the
slots `Ahead` of its index hold the rest.  The slots and not the window, because
pops leave the slots alone while the window moves away from the iterator.
`DequeWithIteratorIsRight` says that adding the iterator left the deque as it was.

`GeneralHeapProofs` proves `HeapIsConsistent`, the invariant `Consistent` with
its parts: `TypeCorrect` (in particular no subtraction of sizes goes below zero,
the case in which the code would wrap), `BlocksTileTheBuffer`, `BlocksAreOwned`
and `HostIsBalanced` (the error paths of create).

The inductive invariant `Inv` is `TypeOK`, `HostBalanced`, `Chain` and `Matched`.
`Chain` is `Tiled` with one addition: the blocks are `Ordered`, each ends at or
before every later one starts.  `Tiled` implies it only by induction over the
list; carried as a conjunct it is preserved by each operation directly, and it
is what tells blocks apart by their address.  `Matched` is `Owned` in terms of
two views of the list, the addresses of the used blocks (`UsedAddrs`) and what
they have room for (`Holds`).  `Split`, `Absorb` and marking a block each have
one lemma for the shape of the list they leave and one that says they keep
`Chain` and what they do to the two views; `Coalesce`, alloc and dealloc follow
from these, and the moving resize is the composition of an alloc and a dealloc.
`Rebound` says once how owners follow when one of them trades one allocation for
another.

The bytes come second.  `Undamaged` adds to `Inv` that the list is aligned (`Even`,
from the arithmetic of multiples) and that every header is in the buffer
(`Headed`).  `OwnCells` is the geometry: a cell an owner asked for lies in the
buffer, in no header and in no other owner's range.  From it, `WriteKeeps` says
what a call leaves that places headers and fills cells of one owner, and
`CopyKeeps` that the copy of a moving resize stays in the block it was given
while the old block is still held.  With one lemma per action they give
`PayloadsAreAligned`, `HeadersAreIntact` and `HeapIsAnAllocator`, the refinement
`Spec => ImplementsAllocator`.

`ArenaProofs` proves `ArenaIsConsistent` with its parts (`ArenaTypes`,
`ArenaApart`, `ArenaHeaders`, `ArenaHost`), `ArenaServes` and `ArenaReclaims`.
The inductive invariant adds `Covered` (an allocation's size is at most what its
header says) to the conjuncts of `Consistent`.  `Apart` and `HeadersIntact` only
hold together: a resize in place trusts the header it reads, and that header
survives because ranges and headers lie apart.  The arithmetic of the wrapping
checks is in a few lemmas: `RoundsUp` (what `k4c_align_up` returns when it does
not overflow), `MultipleInWindow` and `SumOfMultiples` (there is one multiple of
the alignment in every window of its length), `MinusSmall` (a difference that is
not negative does not wrap).  `ArenaServes` thereby says of the checks of
`k4c_arena_vtable_alloc`, for every width of `size_t`, that none of them wraps.
`ArenaIsAnAllocator` is the refinement `Spec => ImplementsAllocator`: what an owner
reads back (`ReadBack`) is in cells below the offset (`CellBelow`), where a call
that serves a request writes nothing (`PlacedBytes`), and a resize in place writes
only cells of its owner.

`ReaderProofs` proves `ReaderWindow` (`WindowExact`, with `NothingLost` in it),
`ReaderCursor` and `ReaderSegments`.  `NothingLost` speaks of two sequences put
together; the inductive invariant `Inv` says the same cell by cell.  `Shows` says
which byte of the stream each unread cell of the window holds, `taken` is the
stretch of the stream before those, and `CursorShows` is `CursorIntact` in terms
of the stream.  Compaction and refill have one lemma each for the window they
leave (`RebaseFits`, `FilledFits`) and one that it shows the right bytes
(`RebaseShows`, `FilledShows`); `HandKeepsInv` is the end of a successful call,
and `StretchesMeet` the one fact about concatenation.  `AskHasRoom` shows that the
`OVERFLOW` returns of `k4c_reader_fill_more` and `k4c_reader_rebase` are not met.

Over the file, `ReaderProofs` proves `OneView`, the refinement `ViewsSpec =>
OneViewReadsTheFile`, and `FailureIsNotTheEnd`.  For one view `Inv` still holds
(`OneInvIsInvariant`), and with it `StreamPlace` says that the bytes buffered are
those the file has delivered beyond what the caller took, `StreamFound` that the
delimiters in the window are those of the file there, `StreamWanting` that a call
asks the file exactly when `ByteStream` says it needs more.  Each step of the
reader is then a step of `ByteStream`: a return gives or reports (`HandGives`,
`FailReports`), a refill fetches, a stop gives the last segment, reports the end or
the fault.  With two views `Shows` is false, for
one may have written over the bytes of the other, so `ViewsInv` is weaker: the
windows are in order, and the end-of-file indicator is set only when the file has
delivered everything.  The first gives `AskedIsRoom`, that `fread` is asked for at
least one byte and fits; together they give `FileReadCases`, what a read of the
file means for the generic reader.  `ViewsShareTheFile` needs what each part of a
view's bytes is: `Parted` says that the bytes handed out, the window of one view
and the window of the other rise, are apart and make up what was delivered.  A
step either hands bytes out of a window (`Handing`) or adds new ones to it
(`Coming`), and each keeps `Parted` as long as nothing was overwritten.
`DrainedReadsInOrder` is the action property that follows from it: rising bytes
that are all there are in order without a gap (`PartedInOrder`).

`ListProofs` proves `ListsAreConsistent` and `ListsAreSequencesAlways`, for any
finite set of nodes.  A list is there a pair of a function `s` and its length:
`Enumerates` says that it lists the nodes in it once each, `Ahead` and `Behind`
that the links lead along it.  The loops that walk a list are recursive functions
along the links; `WalkMeets` says that they meet the nodes of `s` in order and
nothing else.  `WithLinks` and `WithoutLinks` say what an insertion and a removal
must do to the links; each operation is shown to do that with the fields it
assigns, also where a node that left keeps an old link.

`VectorProofs` proves `VectorsAreConsistent`, `VectorImplements`,
`VectorsGrowSparingly` and `CollectIsAllOrNothing`.  Both parts use vectors, so
`Shape` and the lemmas on pushing, growing and shrinking are about a vector `v`,
not about a variable.  `GrowthIs` says what the loop of
`k4c_vector_capacity_grow` returns for every width of `size_t` (see below), which
is what growing sparingly, the fallback and the overflow depend on.  `Inv` adds to
`Consistent` which pointers and iterators hold what they did (`RefHolds`,
`IterHolds`); `CollectInv` says for each step of a collect what it holds, and
`Given(n)`, which items are in the vector after n of them.

`VectorProofs` also proves `SearchFinds`, the invariant `SearchesFind` with its parts
(`SearchBrackets`, `SearchFindsTheBound`, `SearchFindsTheKey`), and `SearchHalves`:
for vectors of every length and every total order of ranks.  The inductive
invariant is `TypeOK` and `Bracketed`, the loop invariant a textbook would give;
sortedness is what carries a comparison with the middle item over to the items on
one side of it.

Of the binary heap it proves `HeapIsConsistent` and `HeapIsAPriorityBag`, for any
elements, any order of them, ties included, and any size.  `Consistent` of
`BinaryHeap` is inductive without `TopIsLeast`, which follows: the least index of an
item that goes before the first would have a parent that does too.  `Heaped` is
`Ordered` of an array of ranks; `UpKeepsHeaped` and `DownKeepsHeaped` are the swaps
of the two sifts, and both need the second part of `Ordered`, that the neighbours of
the sifted index agree across it.  As a bag, `Count` says how often an element is
stored; an exchange of two items leaves it as it is (`SwapKeepsCount`) and one item
more at the end adds one (`CountMore`).

`HashProofs` proves `TablesAreConsistent`, `IteratorsAreAlwaysExact`,
`ReservesStayKept` and `TablesImplement` for both tables, any hash function and any
width of `size_t`.  A chain is a sequence and its order is nobody's business but the
iterator's; `Lists(s, at, D)` forgets it and says that a sequence has the entry
`at[k]` of each key `k` in `D` once and nothing else.  `Holds` says that of every
bucket with the keys that hash to it.  Each operation of `hash/common.c` has one
lemma about `Holds`: push and removal change one chain, and `Rehashed`, the loop
that moves one entry at a time, is followed stage by stage, the entries already
moved being those of the shorter sequence.  For iterators `Visit`, the order of the
buckets, comes apart into what was given, the chain the iterator stands in and
`From(B, c, b)`, the buckets from `b` on (`IterAt`); `FlattenSeq` of the community
modules is a recursive function, of which `FlattenFirst` is what is needed.  For
reserves, `Steady(c)` says that a table of `c` buckets does not grow for what fits
into it.  Every capacity the code reaches is steady, since a doubling loop for fewer
entries, begun at the same default, stops no later (`LoopIsMonotone`).  `MapState(st)`
and `SetState(D)` put this together: the table stores `st`, or `D`, holds the blocks
for it, has room for what was reserved, and an iterator is somewhere in it.  Each
operation is shown to lead from such a state to another, and what happens to `st`
or `D` meanwhile is a step of `KeyValueContract` or `SetContract`.

The last part of `ArenaProofs` proves `TrackerIsTrueAlways` of the test allocator.
`Counts` are the equations between counters, `OneOwnerEach` says that no block has
two owners; the number of live blocks then follows an allocation and a release
by the library's theorems about cardinality, for any finite set of owners.

`GeneralHeapProofs` also proves `BytesAreAccounted` (with `AvailableIsAlwaysExact`),
`OnlyTailsFragment` and `DeallocServesAgain`.  The sum over the list is a fold
over a set of indices; `Sums` unfolds it to a function on the subsets of
`1 .. n`, and with the blocks in order a sum over a prefix of the list grows by
one block at a time (`BytesOfPrefix`).  For fragmentation, `Coalesced` is followed
through split, join and marking; a dealloc finds at most one free neighbour on each
side, for the list had none before.

`TextProofs` proves `StringsAreConsistent`, `StringImplements`, `WalksAreRight` and
`FilesAreRight`.  The four parts of `MCText` share nothing, and each has an
invariant of its own.

* String: `Shape(v)` says of a string `v` that the cells before `len` are bytes
  somebody wrote and the next is NUL; it is about a value, for an operation makes a
  new buffer first and writes it then.  `TextIs` turns it into what C code sees, the
  cells before the first NUL.  `GrowthSuffices` follows the loop of
  `k4c_string_capacity_grow`: whatever the default and the width of `size_t`, the
  capacity it ends with takes what was asked for, also through the fallback.
  `ShiftedIs` is the move of a prepend, whose saved byte `PrependedShape` needs.
  `OwnHolds` and `MovedUpHolds` say what an argument inside the string reads while
  an append and a prepend write it.  `QueriesMeanText` reduces the scans of the queries, which stop at a NUL,
  to prefixes and suffixes of the text.
* Cursor: `CursorInv` has the position in the buffer and `passed` the bytes before
  it, so no sum with an admitted count wraps.  The bytes skip_while accepts are the
  greatest number of which it accepts all (`Greatest`).
* Iterators: `IteratorInv` ties the hint of an iterator with a state of its own to
  that state (`Walking`), and everything given to the one shared context.
* Files: `ReaderInv` says that a read which saw one content only has a prefix of it
  and its length (`Reads`), which no single step needs and the status at the end
  does; `WriterInv` says that between open and close the file is what was written
  of it so far.  `ReaderHolds` says from where on the memory is held, and that no
  `FILE` is open before the call that opens one.

### Induction

The library's induction theorems take an operator as a parameter and cannot be
used here.  What they would prove is proved by a least counterexample:
`LEMMA Least` says that a set of numbers that is not empty has a least member
(from the library's theorem that `<` on the naturals is well-founded), and a
property of every number follows by taking the least number that lacks it.  A
recursive function is first shown to exist, in the same way, by the set of those
numbers up to which it is defined; then the definition, a `CHOOSE`, satisfies its
equation.

### Assumptions

Beside the numbers of each module, the theorems assume what the modules name:
lists have finitely many nodes (`LinkedList`, `DoublyLinkedList`), the test
allocator finitely many owners.  `BlockAssumption` of `HashCommon` is about names
only: the block of an entry is named by its key, and no key is the name of one of
the other blocks.  `MaskAssumption` of `DequeIterator` is the assertion of
`k4c_deque_get_iterator` for the first capacity, 16 in the code; for every later
one it is proved.  Of a string's texts it is assumed that they are sequences of
bytes without NUL, of a cursor's buffer that a `size_t` can count it and that some
predicate accepts each of its bytes; a file is any sequence of two bytes.  The instances of `MCText` and `MCOrdered` state the assumptions of
the modules they instantiate by name.

### Checked but not proved

Every invariant and every action property of the runs that pass is stated by a
theorem.  What stays with TLC is liveness under fairness, which is outside the
prover: `CallReturns`, and that a search (`SearchReturns`) and a collect
(`CollectReturns`) end.  Of the search the safety half is proved, `SearchHalves`: no
pass leaves more than half of the window.

## Where code and documentation part

Two disagreements are runs: `heap_coalesce` and `iterator_null`.  Three more were
met while modelling.  No sentence of the documentation is broken by them, so no
run is about them:

* `vector.c:192` and `deque.c:206` read the element to push after a growth has
  given the old buffer back; an element pointer obtained from the same container
  is dangling there.  `string.c:201` does the same with an appended part of the
  string itself.  `Vector` pushes own elements and `K4cString` takes own suffixes
  only while there is room; pushed elements are values in `Deque`.  What such a
  call reads after a growth is undefined, so there is nothing to promise of it.
* `string.c:229` moves the text before it copies the prefix, so that a prefix that
  is a suffix of the same string is read from its new place.  That is harmless for
  the whole string and gives another text for a proper suffix; `PrependOwn` has
  both, and `StringContract` says what comes out.
* `file.c:97` measures the file before it opens it; a file replaced in between is
  read up to the measured size only.  `FileIO` has that interleaving, and
  `ReadsAQuietFile` names the condition under which the whole file is read.

## What is not modelled

* Logging, the testing helpers, status names and the panic: formatting and
  output.  Assertions are guards of the actions: an assertion of the code is a
  precondition its callers keep, and only the aborts of a refill and of a new view
  after `k4c_file_reader_close` are events of a model (`panicked`).
* `mem/utils.c`: `k4c_memswap` exchanges two ranges and is `Swapped` in
  `BinaryHeap`; container-of is an address computation.
* FNV-1a: `Hash` is an arbitrary function of the key.
* The iterator of the binary heap, which is that of the vector it contains, and
  `k4c_file_is_dir`, a single stat.
* The dispatch of `mem/allocator.c` to the general heap: its pointers go straight
  to the vtable functions; `TestAllocator` and `Arena` model the dispatch.

## What is left

The iterator of the binary heap and `k4c_file_is_dir`, which would repeat what is
there.  Nothing else of the plan is open; liveness needs another prover.
