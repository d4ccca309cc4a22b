---------------------------- MODULE GeneralHeap -----------------------------
(***************************************************************************)
(* mem/general_heap.c: a first-fit free-list allocator over one buffer.    *)
(*                                                                         *)
(* The doubly linked list of block headers is the sequence "blocks", in    *)
(* list order; a record is the header stored at offset addr.  The buffer   *)
(* itself is "mem", one cell per byte: the headers the code writes and the *)
(* bytes the owners write both land there, so an operation that places a   *)
(* header or a copy in the wrong spot damages somebody's cells.  Offsets   *)
(* are relative to the buffer, and pointer 0 stands for NULL (no payload   *)
(* can start at offset 0, which is the first header).                      *)
(***************************************************************************)
EXTENDS Size, Sequences, SequencesExt

CONSTANTS Handle,        \* the owners of allocations
          Align,         \* K4C_MEMORY_ALIGN
          Header,        \* sizeof(k4c_heap_block)
          CreateSizes,   \* capacities k4c_heap_create is called with
          Requests       \* byte counts the owners ask for

ASSUME AlignAssumption == Align \in Nat \ {0}
ASSUME HeaderAssumption == Header \in Nat \ {0} /\ Header % Align = 0
\* The first assertion of k4c_heap_create, and sizes a size_t can hold.
ASSUME CreateSizesAssumption ==
  CreateSizes \subseteq SizeT /\ \A c \in CreateSizes : c > Header + Align
\* k4c_heap_vtable_alloc asserts size > 0; k4c_resize(0) is Dealloc.
ASSUME RequestsAssumption == Requests \subseteq SizeT \ {0}

VARIABLES host,      \* the allocations k4c_heap_create holds from malloc
          capacity,  \* heap->capacity, 0 while there is no heap
          blocks,    \* heap->blocks: the headers in list order
          mem,       \* heap->buffer: what each byte holds
          live       \* the pointer each owner holds and the size it asked for

vars == <<host, capacity, blocks, mem, live>>

NULL == [ptr |-> 0, size |-> 0]

Block == [addr : Nat, size : Nat, free : BOOLEAN]

Byte(h, k) == <<h, k>>           \* the byte owner h wrote at offset k
HeaderByte == <<"header", 0>>    \* a byte of a block header
Junk == <<"junk", 0>>            \* a byte nobody may rely on

Payload(b) == b.addr + Header
End(b) == Payload(b) + b.size
HeaderCells(bs) == UNION {bs[i].addr .. Payload(bs[i]) - 1 : i \in DOMAIN bs}
Cells(a) == a.ptr .. a.ptr + a.size - 1

-----------------------------------------------------------------------------
(* The list surgery shared by the vtable operations.                       *)

\* A slip: the new header is placed without stepping over the old one.
SplitInsidePayload(bs, i, n) ==
  LET remaining == bs[i].size - n
  IN  IF remaining <= Header + Align THEN bs
      ELSE InsertAt([bs EXCEPT ![i].size = n], i + 1,
                    [addr |-> bs[i].addr + n,
                     size |-> remaining - Header, free |-> TRUE])

\* k4c_heap_split_block: no fragment of Align payload bytes or fewer is cut.
Split(bs, i, n) ==
  LET remaining == bs[i].size - n
  IN  IF remaining <= Header + Align THEN bs
      ELSE InsertAt([bs EXCEPT ![i].size = n], i + 1,
                    [addr |-> Payload(bs[i]) + n,
                     size |-> remaining - Header, free |-> TRUE])

\* A slip: the header of the swallowed block is not counted.
AbsorbPayload(bs, i) ==
  RemoveAt([bs EXCEPT ![i].size = @ + bs[i + 1].size], i + 1)

\* Block i swallows its successor, header included.
Absorb(bs, i) ==
  RemoveAt([bs EXCEPT ![i].size = @ + Header + bs[i + 1].size], i + 1)

FreeAt(bs, i) == i \in DOMAIN bs /\ bs[i].free

\* A slip: the predecessor is not looked at.
CoalesceForward(bs, i) == IF FreeAt(bs, i + 1) THEN Absorb(bs, i) ELSE bs

\* k4c_heap_coalesce: at most one successor, then at most one predecessor.
Coalesce(bs, i) ==
  LET joined == IF FreeAt(bs, i + 1) THEN Absorb(bs, i) ELSE bs
  IN  IF FreeAt(joined, i - 1) THEN Absorb(joined, i - 1) ELSE joined

Fits(bs, i, n) == FreeAt(bs, i) /\ bs[i].size >= n

\* The scan of k4c_heap_vtable_alloc stops at the first block that fits.
FirstFit(bs, i, n) ==
  Fits(bs, i, n) /\ \A j \in 1 .. i - 1 : ~ Fits(bs, j, n)

AllocBlocks(bs, i, n) == [Split(bs, i, n) EXCEPT ![i].free = FALSE]

\* A slip: the block given back stays marked used.
FreeStaysUsed(bs, i) == Coalesce(bs, i)

FreeBlocks(bs, i) == Coalesce([bs EXCEPT ![i].free = TRUE], i)

\* The header just before payload p.
HoldsPayload(bs, i, p) == i \in DOMAIN bs /\ Payload(bs[i]) = p

(* What the operations leave in the buffer. *)

\* Headers that were not there before are written; owner h then fills the
\* cells "fill" of its range, which starts at p.
Written(m, old, new, h, p, fill) ==
  [c \in DOMAIN m |->
     IF c \in fill THEN Byte(h, c - p)
     ELSE IF c \in HeaderCells(new) \ HeaderCells(old) THEN HeaderByte
     ELSE m[c]]

\* Bytes outside the headers and the owners' ranges are indeterminate: freed
\* payloads, headers of swallowed blocks, the slack behind a range.
Settled(m, bs, owners) ==
  LET kept == HeaderCells(bs) \cup UNION {Cells(owners[h]) : h \in Handle}
  IN  [c \in DOMAIN m |-> IF c \in kept THEN m[c] ELSE Junk]

\* A slip: the copy stops one byte short.
CopiedShort(m, to, from, n) ==
  [c \in DOMAIN m |-> IF c \in to .. to + n - 2 THEN m[from + (c - to)] ELSE m[c]]

\* memcpy(to, from, n)
Copied(m, to, from, n) ==
  [c \in DOMAIN m |-> IF c \in to .. to + n - 1 THEN m[from + (c - to)] ELSE m[c]]

-----------------------------------------------------------------------------
Init ==
  /\ host = {}
  /\ capacity = 0
  /\ blocks = << >>
  /\ mem = << >>
  /\ live = [h \in Handle |-> NULL]

\* k4c_heap_create takes the heap, its buffer and its list in that order.
CreateSteps == <<"heap", "buffer", "list">>

\* What the error path after the k-th failed allocation gives back.
CreateCleanup == << {}, {"heap"}, {"heap", "buffer"} >>

Create(c) ==
  /\ capacity = 0
  /\ ~ AlignUpOverflows(c, Align)
  /\ host' = host \cup ToSet(CreateSteps)
  /\ capacity' = AlignUp(c, Align)
  /\ blocks' = << [addr |-> 0, size |-> capacity' - Header, free |-> TRUE] >>
  /\ mem' = [x \in 0 .. capacity' - 1 |-> IF x < Header THEN HeaderByte ELSE Junk]
  /\ UNCHANGED live

\* K4C_STATUS_OVERFLOW before anything is allocated.
CreateOverflows(c) ==
  /\ capacity = 0
  /\ AlignUpOverflows(c, Align)
  /\ UNCHANGED vars

\* K4C_STATUS_NO_MEMORY from the k-th allocation.
CreateFails(k) ==
  /\ capacity = 0
  /\ host' = (host \cup {CreateSteps[j] : j \in 1 .. k - 1}) \ CreateCleanup[k]
  /\ UNCHANGED <<capacity, blocks, mem, live>>

\* k4c_heap_destroy: whatever was still allocated goes with the buffer.
Destroy ==
  /\ capacity # 0
  /\ host' = host \ {"list", "buffer", "heap"}
  /\ capacity' = 0
  /\ blocks' = << >>
  /\ mem' = << >>
  /\ live' = [h \in Handle |-> NULL]

\* k4c_heap_vtable_alloc, and k4c_heap_vtable_realloc of a NULL pointer.
Alloc(h, n) ==
  /\ capacity # 0 /\ live[h] = NULL
  /\ ~ AlignUpOverflows(n, Align)
  /\ \E i \in DOMAIN blocks :
       LET size == AlignUp(n, Align)
           ptr == Payload(blocks[i])
       IN  /\ FirstFit(blocks, i, size)
           /\ blocks' = AllocBlocks(blocks, i, size)
           /\ live' = [live EXCEPT ![h] = [ptr |-> ptr, size |-> n]]
           /\ mem' = Settled(Written(mem, blocks, blocks', h, ptr, Cells(live'[h])),
                            blocks', live')
  /\ UNCHANGED <<host, capacity>>

\* The request cannot be rounded, or no block fits: NULL, nothing changes.
AllocFails(h, n) ==
  /\ capacity # 0 /\ live[h] = NULL
  /\ \/ AlignUpOverflows(n, Align)
     \/ \A i \in DOMAIN blocks : ~ Fits(blocks, i, AlignUp(n, Align))
  /\ UNCHANGED vars

\* k4c_heap_vtable_dealloc of a pointer of this heap.
Dealloc(h) ==
  /\ live[h] # NULL
  /\ \E i \in DOMAIN blocks :
       /\ HoldsPayload(blocks, i, live[h].ptr)
       /\ blocks' = FreeBlocks(blocks, i)
  /\ live' = [live EXCEPT ![h] = NULL]
  /\ mem' = Settled(mem, blocks', live')
  /\ UNCHANGED <<host, capacity>>

-----------------------------------------------------------------------------
(* k4c_heap_vtable_realloc of a live pointer; i is the index of its block.  *)

\* The owner keeps its first cells and writes the ones the resize added.
Grown(h, p, n) == Cells([ptr |-> p, size |-> n]) \ Cells([ptr |-> p, size |-> live[h].size])

\* The block is large enough already: cut its tail off, same pointer.
ResizeInBlock(h, n, i) ==
  /\ HoldsPayload(blocks, i, live[h].ptr)
  /\ blocks[i].size >= AlignUp(n, Align)
  /\ blocks' = Split(blocks, i, AlignUp(n, Align))
  /\ live' = [live EXCEPT ![h].size = n]
  /\ mem' = Settled(Written(mem, blocks, blocks', h, live[h].ptr, Grown(h, live[h].ptr, n)),
                     blocks', live')

CanAbsorb(i, size) ==
  FreeAt(blocks, i + 1) /\ blocks[i].size + Header + blocks[i + 1].size >= size

\* The free successor makes up the difference: same pointer.
ResizeIntoNext(h, n, i) ==
  LET size == AlignUp(n, Align)
  IN  /\ HoldsPayload(blocks, i, live[h].ptr)
      /\ blocks[i].size < size /\ CanAbsorb(i, size)
      /\ blocks' = Split(Absorb(blocks, i), i, size)
      /\ live' = [live EXCEPT ![h].size = n]
      /\ mem' = Settled(Written(mem, blocks, blocks', h, live[h].ptr, Grown(h, live[h].ptr, n)),
                     blocks', live')

\* A new range is allocated, the old block's bytes are copied, and the old
\* block is freed last.
ResizeMoves(h, n, i) ==
  LET size == AlignUp(n, Align)
  IN  /\ HoldsPayload(blocks, i, live[h].ptr)
      /\ blocks[i].size < size /\ ~ CanAbsorb(i, size)
      /\ \E j \in DOMAIN blocks :
           LET ptr == Payload(blocks[j])
               moved == AllocBlocks(blocks, j, size)
               copied == Copied(Written(mem, blocks, moved, h, ptr, {}),
                                ptr, live[h].ptr, blocks[i].size)
           IN  /\ FirstFit(blocks, j, size)
               /\ \E k \in DOMAIN moved :
                    /\ HoldsPayload(moved, k, live[h].ptr)
                    /\ blocks' = FreeBlocks(moved, k)
               /\ live' = [live EXCEPT ![h] = [ptr |-> ptr, size |-> n]]
               /\ mem' = Settled(Written(copied, moved, blocks', h, ptr, Grown(h, ptr, n)),
                                 blocks', live')

Resize(h, n) ==
  /\ live[h] # NULL
  /\ ~ AlignUpOverflows(n, Align)
  /\ \E i \in DOMAIN blocks :
       ResizeInBlock(h, n, i) \/ ResizeIntoNext(h, n, i) \/ ResizeMoves(h, n, i)
  /\ UNCHANGED <<host, capacity>>

\* NULL is returned and the old allocation stays as it was.
ResizeFails(h, n) ==
  /\ live[h] # NULL
  /\ \/ AlignUpOverflows(n, Align)
     \/ LET size == AlignUp(n, Align)
        IN  \E i \in DOMAIN blocks :
              /\ HoldsPayload(blocks, i, live[h].ptr)
              /\ blocks[i].size < size /\ ~ CanAbsorb(i, size)
              /\ \A j \in DOMAIN blocks : ~ Fits(blocks, j, size)
  /\ UNCHANGED vars

Next ==
  \/ \E c \in CreateSizes : Create(c) \/ CreateOverflows(c)
  \/ \E k \in DOMAIN CreateSteps : CreateFails(k)
  \/ Destroy
  \/ \E h \in Handle :
       \/ Dealloc(h)
       \/ \E n \in Requests :
            Alloc(h, n) \/ AllocFails(h, n) \/ Resize(h, n) \/ ResizeFails(h, n)

Spec == Init /\ [][Next]_vars

\* k4c_heap_available: the payload bytes of the free blocks.
Available ==
  FoldLeft(LAMBDA total, b : IF b.free THEN total + b.size ELSE total, 0, blocks)

-----------------------------------------------------------------------------
TypeOK ==
  /\ host \subseteq ToSet(CreateSteps)
  /\ capacity \in Nat
  /\ blocks \in Seq(Block)
  /\ DOMAIN mem = 0 .. capacity - 1
  /\ live \in [Handle -> [ptr : Nat, size : Nat]]

\* The headers and payloads cover the buffer exactly, in list order: no
\* gap, no overlap, no block beyond the end.
Tiled ==
  /\ capacity = 0 <=> blocks = << >>
  /\ capacity # 0 => blocks[1].addr = 0
  /\ \A i \in DOMAIN blocks :
       End(blocks[i]) = IF i = Len(blocks) THEN capacity ELSE blocks[i + 1].addr

\* Every payload is aligned, whatever sequence of splits and merges made it.
Aligned ==
  \A i \in DOMAIN blocks :
    /\ Payload(blocks[i]) % Align = 0
    /\ blocks[i].size % Align = 0 /\ blocks[i].size >= Align

\* Owners and used blocks match one to one: no block is lost, none is handed
\* out twice, and each is large enough for what its owner asked.
Owned ==
  /\ \A h \in Handle : live[h] # NULL =>
       \E i \in DOMAIN blocks :
         /\ HoldsPayload(blocks, i, live[h].ptr)
         /\ ~ blocks[i].free /\ blocks[i].size >= live[h].size
  /\ \A i \in DOMAIN blocks : ~ blocks[i].free =>
       \E h \in Handle : live[h] # NULL /\ live[h].ptr = Payload(blocks[i])
  /\ \A g, h \in Handle :
       live[g] # NULL /\ live[h] # NULL /\ live[g].ptr = live[h].ptr => g = h

\* No copy and no owner's write ever lands on a header of the list.
HeadersIntact ==
  \A c \in HeaderCells(blocks) : mem[c] = HeaderByte

\* Every byte of the buffer is free payload, used payload or a header, so
\* k4c_heap_available never over- or under-reports.
AvailableIsExact ==
  Available + Len(blocks) * Header
    + FoldLeft(LAMBDA total, b : IF b.free THEN total ELSE total + b.size, 0, blocks)
    = capacity

\* A create that fails half way gives back what it had taken, and destroy
\* gives back the rest.
HostBalanced ==
  host = IF capacity = 0 THEN {} ELSE ToSet(CreateSteps)

-----------------------------------------------------------------------------
FullyCoalesced ==
  \A i \in DOMAIN blocks : ~ (FreeAt(blocks, i) /\ FreeAt(blocks, i + 1))

\* Two free blocks become neighbours only when a resize cuts the tail off a
\* block: alloc, dealloc and the other resizes keep a coalesced list so.
OnlyShrinkFragments ==
  [][ FullyCoalesced /\ ~ FullyCoalesced' =>
        \E h \in Handle, n \in Requests, i \in DOMAIN blocks :
           ResizeInBlock(h, n, i) ]_vars

\* After a dealloc the same request can be served again at once.
DeallocGivesBack ==
  [][ \A h \in Handle : Dealloc(h) =>
        \E i \in DOMAIN blocks' :
          Fits(blocks', i, AlignUp(live[h].size, Align)) ]_vars

\* general_heap.h:52 "coalesce neighboring free blocks on k4c_dealloc": the
\* block a dealloc leaves has no free block next to it.
DeallocCoalesces ==
  [][ \A h \in Handle : Dealloc(h) =>
        \A i \in DOMAIN blocks' :
          live[h].ptr \in blocks'[i].addr .. End(blocks'[i]) - 1 =>
            ~ FreeAt(blocks', i - 1) /\ ~ FreeAt(blocks', i + 1) ]_vars

-----------------------------------------------------------------------------
\* The heap implements the allocator contract: what the owners read back is
\* what the buffer holds in their ranges.
AllocatorView ==
  INSTANCE Allocator WITH
    region <- capacity,
    contents <- [h \in Handle |->
                   [k \in 1 .. live[h].size |-> mem[live[h].ptr + k - 1]]]

ImplementsAllocator == AllocatorView!Spec

\* The heap as a data structure, after any sequence of calls: the blocks tile
\* the buffer, owners and used blocks match, and no create leaks.
Consistent == TypeOK /\ Tiled /\ Owned /\ HostBalanced

\* The bytes of the buffer agree with the list: payloads are aligned, each
\* header is where the list says and unharmed, and the free, used and header
\* bytes add up to the capacity.
BytesAccounted == Aligned /\ HeadersIntact /\ AvailableIsExact

=============================================================================
