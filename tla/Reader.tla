------------------------------- MODULE Reader -------------------------------
(***************************************************************************)
(* io/reader/reader.c: the generic buffered reader over a source that the  *)
(* caller supplies as a read callback.                                     *)
(*                                                                         *)
(* The source's bytes are named by their position 1, 2, ... in the stream, *)
(* so a lost, repeated or reordered byte is visible; "delims" says which   *)
(* of them equal the delimiter.  The callback answers as callbacks may: a  *)
(* short read, no byte with OK, EOF (now, and more bytes later) or IO.  A  *)
(* call is a loop that may ask the source several times: each iteration is *)
(* a step, and the call in progress is in "call".                          *)
(***************************************************************************)
EXTENDS Integers, Sequences

CONSTANTS Capacity,    \* reader->capacity
          StreamLen,   \* bytes the source ever delivers (bound)
          Counts       \* counts k4c_reader_take_array is called with

\* The assertion of k4c_reader_create.
ASSUME CapacityAssumption == Capacity \in Nat \ {0}
ASSUME StreamLenAssumption == StreamLen \in Nat
ASSUME CountsAssumption == Counts \subseteq Nat

VARIABLES delims,     \* the stream positions that hold the delimiter
          delivered,  \* bytes the source has delivered so far
          reader,     \* the window: data, pos and len of struct k4c_reader
          call,       \* the operation in progress and its count
          result,     \* what the last call returned: status and cursor
          taken       \* history: the bytes handed out, in order

vars == <<delims, delivered, reader, call, result, taken>>

Unset == 0     \* a byte of the caller's buffer nobody has written
Idle == [op |-> "none", count |-> 0]
Statuses == {"OK", "EOF", "IO", "OVERFLOW"}
SourceStatuses == {"OK", "EOF", "IO"}

Available(r) == r.len - r.pos
Buffered(r) == [k \in 1 .. Available(r) |-> r.data[r.pos + k - 1]]

-----------------------------------------------------------------------------
\* A slip in the compaction: len is not moved down.
RebaseKeepsLen(r, required) ==
  IF Capacity - r.pos >= required THEN r
  ELSE [data |-> [i \in 0 .. Capacity - 1 |->
                    IF i < Available(r) THEN r.data[r.pos + i] ELSE r.data[i]],
        pos |-> 0,
        len |-> r.len]

\* k4c_reader_rebase: compact only when the window would run past the end.
Rebase(r, required) ==
  IF Capacity - r.pos >= required THEN r
  ELSE [data |-> [i \in 0 .. Capacity - 1 |->
                    IF i < Available(r) THEN r.data[r.pos + i] ELSE r.data[i]],
        pos |-> 0,
        len |-> Available(r)]

\* What the operation in progress asks k4c_reader_fill_more for.
Required(r) ==
  CASE call.op = "byte" -> 1
    [] call.op = "array" -> call.count
    [] call.op = "delimiter" -> Available(r) + 1

MaxRead(r) ==
  IF call.op = "array" THEN call.count - Available(r) ELSE Capacity

\* The read_capacity of k4c_reader_fill_more, given the rebased window.
Room(r, max) ==
  IF max < Capacity - r.len THEN max ELSE Capacity - r.len

\* A slip: the bytes land one early, on the last one buffered.
FilledOneEarly(r, from, k) ==
  [data |-> [i \in 0 .. Capacity - 1 |->
               IF i \in r.len - 1 .. r.len + k - 2
               THEN from + 1 + (i - (r.len - 1)) ELSE r.data[i]],
   pos |-> r.pos,
   len |-> r.len + k]

\* k bytes of the stream, after the first "from", appended to the window.
Filled(r, from, k) ==
  [data |-> [i \in 0 .. Capacity - 1 |->
               IF i \in r.len .. r.len + k - 1
               THEN from + 1 + (i - r.len) ELSE r.data[i]],
   pos |-> r.pos,
   len |-> r.len + k]

\* A slip: the search starts after the first unread byte.
HitsAfterFirst(r) == {k \in 1 .. Available(r) - 1 : r.data[r.pos + k] \in delims}

\* The offsets, in the unread bytes, at which memchr would find a delimiter.
Hits(r) == {k \in 0 .. Available(r) - 1 : r.data[r.pos + k] \in delims}

\* A slip: an array goes on asking when it has just what it needs.
ReadyAsksAhead ==
  CASE call.op = "byte" -> Available(reader) >= 1
    [] call.op = "array" -> Available(reader) > call.count
    [] call.op = "delimiter" ->
         Hits(reader) # {} \/ Available(reader) = Capacity
    [] OTHER -> TRUE

\* Why the loop of the operation does not ask the source once more.
Ready ==
  CASE call.op = "byte" -> Available(reader) >= 1
    [] call.op = "array" -> Available(reader) >= call.count
    [] call.op = "delimiter" ->
         Hits(reader) # {} \/ Available(reader) = Capacity
    [] OTHER -> TRUE

-----------------------------------------------------------------------------
Init ==
  /\ delims \in SUBSET (1 .. StreamLen)
  /\ delivered = 0
  /\ reader = [data |-> [i \in 0 .. Capacity - 1 |-> Unset], pos |-> 0, len |-> 0]
  /\ call = Idle
  /\ result = [status |-> "OK", at |-> 0, n |-> 0]
  /\ taken = << >>

Begin(op, n) ==
  /\ call = Idle
  /\ call' = [op |-> op, count |-> n]
  /\ UNCHANGED <<delims, delivered, reader, result, taken>>

\* k4c_reader_take_array refuses what the buffer can never hold.
RefuseArray(n) ==
  /\ call = Idle /\ n > Capacity
  /\ result' = [status |-> "OVERFLOW", at |-> 0, n |-> 0]
  /\ UNCHANGED <<delims, delivered, reader, call, taken>>

\* A call returns a cursor over the next n bytes of window r.
Hand(r, n) ==
  /\ result' = [status |-> "OK", at |-> r.pos, n |-> n]
  /\ reader' = [r EXCEPT !.pos = @ + n]
  /\ taken' = taken \o [k \in 1 .. n |-> r.data[r.pos + k - 1]]
  /\ call' = Idle

Fail(r, status) ==
  /\ result' = [status |-> status, at |-> 0, n |-> 0]
  /\ reader' = r
  /\ call' = Idle
  /\ UNCHANGED taken

TakeByte ==
  /\ call.op = "byte" /\ Ready
  /\ Hand(reader, 1)
  /\ UNCHANGED <<delims, delivered>>

TakeArray ==
  /\ call.op = "array" /\ Ready
  /\ Hand(reader, call.count)
  /\ UNCHANGED <<delims, delivered>>

\* Through the first delimiter among the unread bytes.
TakeDelimiter ==
  /\ call.op = "delimiter"
  /\ \E k \in Hits(reader) :
       /\ \A j \in Hits(reader) : k <= j
       /\ Hand(reader, k + 1)
  /\ UNCHANGED <<delims, delivered>>

\* The buffer is full and holds no delimiter.
DelimiterTooFar ==
  /\ call.op = "delimiter"
  /\ Hits(reader) = {} /\ Available(reader) = Capacity
  /\ Fail(reader, "OVERFLOW")
  /\ UNCHANGED <<delims, delivered>>

\* One round of k4c_reader_fill_more in which the source delivers k bytes;
\* its status is then ignored.
Fill(k) ==
  /\ ~ Ready
  /\ LET r == Rebase(reader, Required(reader))
     IN  /\ k \in 1 .. Room(r, MaxRead(reader))
         /\ delivered + k <= StreamLen
         /\ reader' = Filled(r, delivered, k)
  /\ delivered' = delivered + k
  /\ UNCHANGED <<delims, call, result, taken>>

\* A slip: the status is ignored and the source is asked again.
StopRetries(st) == ~ Ready /\ st \in SourceStatuses /\ UNCHANGED vars

\* A round in which the source delivers nothing: OK counts as EOF, and an
\* EOF ends the last, unterminated segment of k4c_reader_take_delimiter.
Stop(st) ==
  /\ ~ Ready
  /\ LET r == Rebase(reader, Required(reader))
         status == IF st = "OK" THEN "EOF" ELSE st
     IN  /\ Room(r, MaxRead(reader)) > 0
         /\ IF call.op = "delimiter" /\ status = "EOF" /\ Available(r) > 0
            THEN Hand(r, Available(r))
            ELSE Fail(r, status)
  /\ UNCHANGED <<delims, delivered>>

Return == TakeByte \/ TakeArray \/ TakeDelimiter \/ DelimiterTooFar

Start ==
  \/ Begin("byte", 1)
  \/ Begin("delimiter", 0)
  \/ \E n \in Counts : (n <= Capacity /\ Begin("array", n)) \/ RefuseArray(n)

Ask ==
  \/ \E k \in 1 .. Capacity : Fill(k)
  \/ \E st \in SourceStatuses : Stop(st)

Next == Start \/ Return \/ Ask

Spec == Init /\ [][Next]_vars

\* The thread inside a call runs on: the source always answers.
FairSpec == Spec /\ WF_vars(Return \/ Ask)

-----------------------------------------------------------------------------
Window == [data : [0 .. Capacity - 1 -> 0 .. StreamLen],
           pos : 0 .. Capacity, len : 0 .. Capacity]

TypeOK ==
  /\ delims \subseteq 1 .. StreamLen
  /\ delivered \in 0 .. StreamLen
  /\ reader \in Window /\ reader.pos <= reader.len
  /\ call \in [op : {"none", "byte", "array", "delimiter"}, count : 0 .. Capacity]
  /\ result \in [status : Statuses, at : 0 .. Capacity, n : 0 .. Capacity]
  /\ taken \in Seq(1 .. StreamLen)

\* The bytes handed out, followed by the bytes still buffered, are exactly
\* what the source delivered: whatever mix of calls, short reads, compactions,
\* errors and retries came before, none is lost, repeated or reordered.
NothingLost ==
  taken \o Buffered(reader) = [k \in 1 .. delivered |-> k]

\* fill_more never meets the OVERFLOW returns of its own or of rebase: when a
\* call asks the source, the rebased window has room for at least one byte.
FillHasRoom ==
  ~ Ready => LET r == Rebase(reader, Required(reader))
             IN  /\ Required(reader) \in Available(reader) .. Capacity
                 /\ Room(r, MaxRead(reader)) > 0

\* The cursor of a segment has at most one delimiter, its last byte, and a
\* segment without one empties the window: nothing that was buffered stays
\* behind it.
Segments ==
  [][ call.op = "delimiter" /\ call' = Idle /\ result'.status = "OK" =>
        LET n == result'.n
            byte(k) == reader'.data[result'.at + k - 1]
        IN  /\ n > 0
            /\ \A k \in 1 .. n - 1 : byte(k) \notin delims
            /\ byte(n) \in delims \/ reader'.pos = reader'.len ]_vars

\* A returned cursor keeps showing the bytes it was returned with until the
\* window is compacted, which moves pos back over it: refilling behind it
\* leaves it alone (reader.md only promises it up to the next refill).
CursorIntact ==
  LET first == Len(taken) - result.n + 1
  IN  result.at + result.n <= reader.pos =>
        \A k \in 0 .. result.n - 1 : reader.data[result.at + k] = taken[first + k]

\* The while (true) of take_delimiter and the loop of take_array end.
CallReturns == call # Idle ~> call = Idle

\* The window at every step of every call: no byte is lost, repeated or
\* reordered, the indices stay inside it, and a refill has room.
WindowExact == TypeOK /\ NothingLost /\ FillHasRoom

=============================================================================
