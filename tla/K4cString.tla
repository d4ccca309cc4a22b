------------------------------ MODULE K4cString -----------------------------
(***************************************************************************)
(* datastruct/string.c: a growable C string whose header lies in front of  *)
(* the bytes it hands out.  A cell is one byte of buf; a growth may move   *)
(* the allocation, and every allocation may fail.                          *)
(***************************************************************************)
EXTENDS Size, Sequences, SequencesExt

CONSTANTS Value,             \* the bytes of a text
          NUL,               \* '\0'
          Junk,              \* a byte nobody wrote, or memory given back
          HeaderSize,        \* sizeof(k4c_string_header)
          DefaultCapacity,   \* K4C_STRING_DEFAULT_CAPACITY
          Texts              \* the C strings callers pass, without their NUL

ASSUME ValueAssumption == NUL \notin Value /\ Junk \notin Value /\ NUL # Junk
ASSUME HeaderSizeAssumption == HeaderSize \in Nat
ASSUME DefaultCapacityAssumption == DefaultCapacity \in 1 .. SizeMax
ASSUME TextsAssumption == Texts \subseteq Seq(Value)

VARIABLES str,     \* the header and buf: len, capacity, which allocation, cells
          held,    \* what the string holds from the allocator
          iter     \* the iterator: cursor, end, size hint, what it gave

vars == <<str, held, iter>>

Buffers == {"buffer A", "buffer B"}     \* two while a resize moves
Fresh(buffer) == IF buffer = "buffer A" THEN "buffer B" ELSE "buffer A"

NoString == [len |-> 0, capacity |-> 1, buffer |-> "buffer A", cells |-> [i \in {0} |-> NUL]]

\* No iterator, or one over a string that changed since.
NoIter == [on |-> FALSE, cursor |-> 0, end |-> 0, hint |-> 0, given |-> << >>]

Exists == held # {}

\* What a reader of a C string sees: the cells before the first NUL.
StrLen(v) ==
  LET nuls == {i \in DOMAIN v.cells : v.cells[i] = NUL}
  IN  IF nuls = {} THEN v.capacity ELSE CHOOSE i \in nuls : \A j \in nuls : i <= j

CText(v) == [i \in 1 .. StrLen(v) |-> v.cells[i - 1]]

\* A C string in memory: the text, its NUL.
Bytes(t) == [i \in 0 .. Len(t) |-> IF i < Len(t) THEN t[i + 1] ELSE NUL]

-----------------------------------------------------------------------------
Init == str = NoString /\ held = {} /\ iter = NoIter

\* k4c_string_capacity_grow: by half, by one at least, until the least
\* capacity fits; exactly the least when the next half overflows.
CapacityGrow(capacity, least) ==
  LET Increment(c) == IF c \div 2 = 0 THEN 1 ELSE c \div 2
      grown[c \in 0 .. SizeMax] ==
        IF c >= least THEN c
        ELSE IF AddOverflows(c, Increment(c)) THEN least ELSE grown[c + Increment(c)]
  IN  grown[capacity]

\* k4c_string_capacity_for, which always starts from the default.
CapacityFor(len) == CapacityGrow(DefaultCapacity, len + 1)

Fits(len) == ~ AddOverflows(len, 1) /\ ~ AddOverflows(HeaderSize, CapacityFor(len))

\* The first cells become those of bytes, the others stay.
Written(cells, at, bytes) ==
  [i \in DOMAIN cells |-> IF i - at \in DOMAIN bytes THEN bytes[i - at] ELSE cells[i]]

Blank(capacity) == [i \in 0 .. capacity - 1 |-> Junk]

Create(t) ==
  /\ ~ Exists /\ Fits(Len(t))
  /\ LET capacity == CapacityFor(Len(t))
     IN  str' = [len |-> Len(t), capacity |-> capacity, buffer |-> "buffer A",
                 cells |-> Written(Blank(capacity), 0, Bytes(t))]
  /\ held' = {"buffer A"}
  /\ UNCHANGED iter

Destroy ==
  /\ Exists
  /\ held' = held \ {str.buffer}
  /\ str' = NoString /\ iter' = NoIter

\* k4c_string_ensure_capacity: the string with room for len bytes and a NUL,
\* resized in place or moved.
NeedsResize(len) == len >= str.capacity

Resized(len, buffer) ==
  [str EXCEPT !.capacity = CapacityFor(len), !.buffer = buffer,
              !.cells = [i \in 0 .. CapacityFor(len) - 1 |->
                           IF i < str.capacity THEN str.cells[i] ELSE Junk]]

Roomy(len) ==
  IF NeedsResize(len) THEN {Resized(len, b) : b \in {str.buffer, Fresh(str.buffer)}}
  ELSE {str}

HeldWith(v) == (held \ {str.buffer}) \cup {v.buffer}

CanHold(len, more) ==
  ~ AddOverflows(len, more) /\ (NeedsResize(len + more) => Fits(len + more))

Appended(v, bytes, n) ==
  [v EXCEPT !.len = v.len + n,
            !.cells = [Written(v.cells, v.len, bytes) EXCEPT ![v.len + n] = NUL]]

AppendText(t) ==
  /\ Exists /\ CanHold(str.len, Len(t))
  /\ \E v \in Roomy(str.len + Len(t)) :
       str' = Appended(v, Bytes(t), Len(t)) /\ held' = HeldWith(v)
  /\ iter' = NoIter

\* The bytes move up with their NUL; the first one moved is saved, the prefix
\* written over it with its own NUL, and the saved byte put back.
Shifted(v, n) == Written(v.cells, n, [i \in 0 .. v.len |-> v.cells[i]])

\* A slip: the prefix's NUL stays.
PrependedCutShort(v, bytes, n) ==
  [v EXCEPT !.len = v.len + n, !.cells = Written(Shifted(v, n), 0, bytes)]

Prepended(v, bytes, n) ==
  [v EXCEPT !.len = v.len + n,
            !.cells = [Written(Shifted(v, n), 0, bytes) EXCEPT ![n] = Shifted(v, n)[n]]]

Prepend(t) ==
  /\ Exists /\ Len(t) > 0 /\ CanHold(str.len, Len(t))
  /\ \E v \in Roomy(str.len + Len(t)) :
       str' = Prepended(v, Bytes(t), Len(t)) /\ held' = HeldWith(v)
  /\ iter' = NoIter

\* OVERFLOW, or NO_MEMORY from the resize or the first allocation.
Fails(t) ==
  /\ Exists => NeedsResize(str.len + Len(t)) /\ Len(t) > 0
  /\ UNCHANGED vars

\* The suffix of the string itself from offset k as the callee reads it, once
\* v is the string and cells its bytes: memory given back when v has moved.
Own(v, cells, k) ==
  [i \in 0 .. str.len - k |-> IF v.buffer = str.buffer THEN cells[k + i] ELSE Junk]

AppendOwn(k) ==
  /\ Exists /\ k < str.len /\ CanHold(str.len, str.len - k)
  /\ \E v \in Roomy(str.len + (str.len - k)) :
       str' = Appended(v, Own(v, v.cells, k), str.len - k) /\ held' = HeldWith(v)
  /\ iter' = NoIter

\* The prefix is read after the bytes it is made of have moved up.
PrependOwn(k) ==
  /\ Exists /\ k < str.len /\ CanHold(str.len, str.len - k)
  /\ \E v \in Roomy(str.len + (str.len - k)) :
       /\ str' = Prepended(v, Own(v, Shifted(v, str.len - k), k), str.len - k)
       /\ held' = HeldWith(v)
  /\ iter' = NoIter

\* A slip: only the length is reset.
ClearKeepsBytes == Exists /\ str' = [str EXCEPT !.len = 0] /\ iter' = NoIter /\ UNCHANGED held

Clear ==
  /\ Exists
  /\ str' = [str EXCEPT !.len = 0, !.cells[0] = NUL]
  /\ iter' = NoIter
  /\ UNCHANGED held

GetIterator ==
  /\ Exists
  /\ iter' = [NoIter EXCEPT !.on = TRUE, !.end = str.len, !.hint = str.len]
  /\ UNCHANGED <<str, held>>

\* k4c_string_iterator_next under k4c_iterator_next, until it gives NULL.
IterNext ==
  /\ iter.on /\ iter.cursor # iter.end
  /\ iter' = [iter EXCEPT !.cursor = @ + 1, !.hint = IF @ > 0 THEN @ - 1 ELSE 0,
                          !.given = Append(@, str.cells[iter.cursor])]
  /\ UNCHANGED <<str, held>>

\* What no caller need limit.
Others ==
  \/ \E t \in Texts : Create(t) \/ AppendText(t) \/ Prepend(t) \/ Fails(t)
  \/ Destroy \/ Clear \/ GetIterator \/ IterNext

HasRoom(k) == str.len + (str.len - k) < str.capacity

\* A caller that passes the string, or a suffix of it, as the argument only
\* while there is room.
Next ==
  \/ Others
  \/ \E k \in 0 .. str.len : HasRoom(k) /\ (AppendOwn(k) \/ PrependOwn(k))

Spec == Init /\ [][Next]_vars

-----------------------------------------------------------------------------
\* strstr, which reads up to the first NUL.
ContainsText(needle) ==
  \E at \in 0 .. StrLen(str) - Len(needle) :
    \A i \in 1 .. Len(needle) : str.cells[at + i - 1] = needle[i]

\* strncmp(str, prefix, strlen(prefix)) = 0, which stops at a NUL.
StartsWith(prefix) ==
  \A i \in 1 .. Len(prefix) :
    /\ i <= StrLen(str) + 1
    /\ str.cells[i - 1] = prefix[i]

\* memcmp of the last bytes, after the lengths have been compared.
EndsWith(suffix) ==
  /\ Len(suffix) <= str.len
  /\ \A i \in 1 .. Len(suffix) : str.cells[str.len - Len(suffix) + i - 1] = suffix[i]

-----------------------------------------------------------------------------
\* The length and its NUL fit the buffer, and header and buffer a size_t:
\* no growth from the default falls short of what is asked.
TypeOK ==
  /\ str.capacity \in 1 .. SizeMax
  /\ str.len \in 0 .. str.capacity - 1
  /\ Exists => HeaderSize + str.capacity <= SizeMax
  /\ DOMAIN str.cells = 0 .. str.capacity - 1

\* len counts the bytes before the first NUL, each of which somebody wrote.
Terminated ==
  StrLen(str) = str.len /\ \A i \in 0 .. str.len - 1 : str.cells[i] \in Value

\* The string holds the one allocation it points to.
HeldExactly == held \in {{}, {str.buffer}}

\* contains, starts_with and ends_with answer for the text before the NUL,
\* whatever a longer text left behind it.
QueriesAgree ==
  \A t \in Texts :
    /\ ContainsText(t) <=>
         \E at \in 0 .. str.len - Len(t) : SubSeq(CText(str), at + 1, at + Len(t)) = t
    /\ StartsWith(t) <=> IsPrefix(t, CText(str))
    /\ EndsWith(t) <=> IsSuffix(t, CText(str))

\* What an iterator gave and has left are the bytes before the NUL.
IteratorIsExact ==
  iter.on => /\ iter.given = SubSeq(CText(str), 1, iter.cursor)
             /\ iter.end = str.len /\ iter.hint = iter.end - iter.cursor

\* Through growth, moves and failures the callers see the text they built.
Contract == INSTANCE StringContract WITH text <- CText(str)

ImplementsContract == Contract!Spec

\* The string through growths, shifts and clears: one text up to its NUL in one
\* buffer that has room for both, and queries and iterators that see that text.
Consistent == TypeOK /\ Terminated /\ HeldExactly /\ QueriesAgree /\ IteratorIsExact

=============================================================================
