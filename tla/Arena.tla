------------------------------- MODULE Arena --------------------------------
(***************************************************************************)
(* mem/arena.c: a bump allocator.  The buffer is "mem", one cell per byte: *)
(* the size header in front of each payload and the bytes the owners write *)
(* both land there.  Owners reach it through k4c_alloc, k4c_resize and     *)
(* k4c_dealloc of mem/allocator.c, which never deallocate here: the view   *)
(* lacks K4C_ALLOCATOR_FEATURE_DEALLOC.                                    *)
(***************************************************************************)
EXTENDS Size, Sequences

CONSTANTS Handle,        \* the owners, each of at most one allocation
          Align,         \* K4C_MEMORY_ALIGN
          HeaderStruct,  \* sizeof(k4c_arena_alloc_header)
          CreateSizes,   \* capacities k4c_arena_create is called with
          Requests       \* byte counts the owners ask for

ASSUME AlignAssumption == Align \in Nat \ {0} /\ (SizeMax + 1) % Align = 0
ASSUME HeaderAssumption == HeaderStruct \in Nat \ {0} /\ HeaderStruct + Align <= SizeMax
ASSUME CreateSizesAssumption == CreateSizes \subseteq SizeT \ {0}
ASSUME RequestsAssumption == Requests \subseteq SizeT \ {0}

VARIABLES host,      \* what k4c_arena_create holds from malloc
          capacity,  \* arena->capacity, 0 while there is no arena
          offset,    \* arena->offset
          mem,       \* arena->buffer
          live       \* the pointer each owner holds and the size it asked for

vars == <<host, capacity, offset, mem, live>>

NULL == [ptr |-> 0, size |-> 0]
Byte(h, k) == <<h, k>>            \* the byte owner h wrote at offset k
HeaderWith(n) == <<"header", n>>  \* a header, as its first byte
Junk == <<"junk", 0>>             \* a byte nobody may rely on

Header == AlignUp(HeaderStruct, Align)

\* a - b on a size_t.
Minus(a, b) == (a - b) % (SizeMax + 1)

-----------------------------------------------------------------------------
Init ==
  /\ host = {} /\ capacity = 0 /\ offset = 0
  /\ mem = << >>
  /\ live = [h \in Handle |-> NULL]

Create(c) ==
  /\ capacity = 0 /\ ~ AlignUpOverflows(c, Align)
  /\ host' = {"arena", "buffer"}
  /\ capacity' = AlignUp(c, Align) /\ offset' = 0
  /\ mem' = [i \in 0 .. capacity' - 1 |-> Junk]
  /\ UNCHANGED live

\* The buffer cannot be allocated: the struct is given back.  (OVERFLOW, or
\* no struct: nothing has happened.)
CreateFails ==
  /\ capacity = 0 /\ host' = (host \cup {"arena"}) \ {"arena"}
  /\ UNCHANGED <<capacity, offset, mem, live>>

Destroy ==
  /\ capacity # 0
  /\ host' = host \ {"buffer", "arena"}
  /\ capacity' = 0 /\ offset' = 0 /\ mem' = << >>
  /\ live' = [h \in Handle |-> NULL]

\* A slip: the check of the header is left out, and the difference wraps.
ServesWrapped(n) ==
  LET size == AlignUp(n, Align)
  IN  ~ AlignUpOverflows(n, Align) /\ size <= capacity
      /\ offset <= Minus(Minus(capacity, Header), size)

\* The checks of k4c_arena_vtable_alloc.
Serves(n) ==
  LET size == AlignUp(n, Align)
  IN  /\ ~ AlignUpOverflows(n, Align)
      /\ size <= capacity /\ Header <= Minus(capacity, size)
      /\ offset <= Minus(Minus(capacity, Header), size)

\* A slip: the size is stored as it was asked for.
HeaderUnrounded(n) == HeaderWith(n)

\* header->size is the rounded size.
HeaderFor(n) == HeaderWith(AlignUp(n, Align))

\* The buffer with a header for n bytes at the offset, and bytes written to
\* its payload; a header overwritten in the middle is damaged as well.
Placed(n, written) ==
  [i \in DOMAIN mem |->
     CASE i = offset -> HeaderFor(n)
       [] i \in offset + 1 .. offset + Header - 1 -> Junk
       [] i >= offset + Header /\ i - offset - Header < AlignUp(n, Align) ->
            written[i - offset - Header]
       [] OTHER -> mem[i]]

\* k4c_alloc by owner h, who fills the range.
Alloc(h, n) ==
  /\ capacity # 0 /\ live[h] = NULL /\ Serves(n)
  /\ mem' = Placed(n, [k \in SizeT |-> IF k < n THEN Byte(h, k) ELSE Junk])
  /\ offset' = offset + Header + AlignUp(n, Align)
  /\ live' = [live EXCEPT ![h] = [ptr |-> offset + Header, size |-> n]]
  /\ UNCHANGED <<host, capacity>>

\* NO_MEMORY: nothing has changed.
AllocFails(n) ==
  /\ capacity # 0 /\ ~ Serves(n)
  /\ UNCHANGED vars

\* The size k4c_arena_vtable_realloc finds in front of a pointer.
HeaderSize(p) == mem[p - Header][2]

\* The assertion of k4c_arena_vtable_realloc: a smaller rounded size aborts,
\* so owners never ask for one.
MayResize(h, n) ==
  /\ capacity # 0 /\ live[h] # NULL
  /\ ~ AlignUpOverflows(n, Align) /\ AlignUp(n, Align) >= HeaderSize(live[h].ptr)

\* The rounded size stays: the allocation stays where it is, and the owner
\* fills what it asked for in addition, within the same padding.
ResizeInPlace(h, n) ==
  /\ MayResize(h, n) /\ AlignUp(n, Align) = HeaderSize(live[h].ptr)
  /\ mem' = [i \in DOMAIN mem |->
               IF i \in live[h].ptr + live[h].size .. live[h].ptr + n - 1
               THEN Byte(h, i - live[h].ptr) ELSE mem[i]]
  /\ live' = [live EXCEPT ![h].size = n]
  /\ UNCHANGED <<host, capacity, offset>>

\* A slip: one byte less is copied.
CopiedShort(h) == HeaderSize(live[h].ptr) - 1

\* The number of bytes memcpy moves.
Copied(h) == HeaderSize(live[h].ptr)

\* A larger allocation is made, the old bytes copied, and the old block left
\* where it is until the next reset.
ResizeMoves(h, n) ==
  /\ MayResize(h, n) /\ AlignUp(n, Align) > HeaderSize(live[h].ptr) /\ Serves(n)
  /\ mem' = Placed(n, [k \in SizeT |->
                          CASE k >= live[h].size /\ k < n -> Byte(h, k)
                            [] k < live[h].size /\ k < Copied(h) -> mem[live[h].ptr + k]
                            [] OTHER -> Junk])
  /\ offset' = offset + Header + AlignUp(n, Align)
  /\ live' = [live EXCEPT ![h] = [ptr |-> offset + Header, size |-> n]]
  /\ UNCHANGED <<host, capacity>>

ResizeFails(h, n) ==
  /\ MayResize(h, n) /\ AlignUp(n, Align) > HeaderSize(live[h].ptr) /\ ~ Serves(n)
  /\ UNCHANGED vars

\* A slip: the allocation is taken for the last one.
DeallocRewinds(h) ==
  /\ live[h] # NULL
  /\ offset' = live[h].ptr - Header
  /\ live' = [live EXCEPT ![h] = NULL]
  /\ UNCHANGED <<host, capacity, mem>>

\* k4c_dealloc, or k4c_resize to 0, which is the same: the allocator lacks
\* the feature, so the owner forgets its pointer and nothing else happens.
Dealloc(h) ==
  /\ live[h] # NULL
  /\ live' = [live EXCEPT ![h] = NULL]
  /\ UNCHANGED <<host, capacity, offset, mem>>

\* Every owner's pointer ends: "pointers returned before reset must not be
\* used after reset".
Reset ==
  /\ capacity # 0
  /\ offset' = 0
  /\ live' = [h \in Handle |-> NULL]
  /\ UNCHANGED <<host, capacity, mem>>

Next ==
  \/ \E c \in CreateSizes : Create(c)
  \/ CreateFails \/ Destroy \/ Reset
  \/ \E n \in Requests : AllocFails(n)
  \/ \E h \in Handle :
       \/ Dealloc(h)
       \/ \E n \in Requests :
            Alloc(h, n) \/ ResizeInPlace(h, n) \/ ResizeMoves(h, n) \/ ResizeFails(h, n)

Spec == Init /\ [][Next]_vars

-----------------------------------------------------------------------------
TypeOK ==
  /\ capacity \in SizeT /\ capacity % Align = 0
  /\ offset \in 0 .. capacity /\ offset % Align = 0
  /\ DOMAIN mem = 0 .. capacity - 1
  /\ live \in [Handle -> [ptr : SizeT, size : SizeT]]

\* Creation, its failure and destruction leak nothing.
HostBalanced == host = IF capacity = 0 THEN {} ELSE {"arena", "buffer"}

\* In front of every live allocation stands the rounded size it was made
\* with, whatever other owners wrote: a resize copies the right number of
\* bytes, and one that asks for no less than before never aborts.
HeadersIntact ==
  \A h \in Handle : live[h] # NULL =>
    mem[live[h].ptr - Header] = HeaderWith(AlignUp(live[h].size, Align))

\* Every live range lies below the offset, above a header, and apart from the
\* others, so what is served next never overlaps it.
Apart ==
  \A h \in Handle : live[h] # NULL =>
    /\ live[h].ptr >= Header /\ live[h].ptr % Align = 0
    /\ live[h].ptr + AlignUp(live[h].size, Align) <= offset
    /\ \A g \in Handle \ {h} : live[g] # NULL =>
         \/ live[h].ptr + AlignUp(live[h].size, Align) <= live[g].ptr - Header
         \/ live[g].ptr + AlignUp(live[g].size, Align) <= live[h].ptr - Header

\* The checks on a size_t refuse exactly the requests that do not fit, in
\* true integers, between the offset and the end: none wraps.
ServesExactly ==
  \A n \in Requests :
    Serves(n) <=>
      \E k \in n .. n + Align - 1 :
        k % Align = 0 /\ k <= SizeMax /\ offset + Header + k <= capacity

\* arena.h: "reset releases all allocations together", and nothing else gives
\* bytes back: a dealloc or a resize that moves never shrinks what is used.
OnlyResetReclaims ==
  [][ offset' < offset => offset' = 0 /\ \A h \in Handle : live'[h] = NULL ]_vars

\* The arena implements the allocator contract of Allocator.
AllocatorView ==
  INSTANCE Allocator WITH
    region <- capacity,
    contents <- [h \in Handle |->
                   [k \in 1 .. live[h].size |-> mem[live[h].ptr + k - 1]]]

ImplementsAllocator == AllocatorView!Spec

\* The arena after any sequence of calls: live allocations lie apart below the
\* offset, each behind the header it was made with, and no create leaks.
Consistent == TypeOK /\ HostBalanced /\ HeadersIntact /\ Apart

=============================================================================
