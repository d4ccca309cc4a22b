------------------------------ MODULE ByteStream ------------------------------
(***************************************************************************)
(* What io/reader/reader.h and io/reader/file_reader.h promise a caller    *)
(* that reads a file through one view: the file's bytes, each once and in  *)
(* order, in the pieces asked for; the end of the file only at its end,    *)
(* and an error for every fault it does not recover from.  There is no     *)
(* buffer here and nothing is compacted: the state is how far the caller   *)
(* and the file have got.  A call that needs a byte the file has not       *)
(* delivered asks for it, a call that needs none never does, and after     *)
(* k4c_file_reader_close only what was fetched can be read: a call that    *)
(* needs more aborts the program.                                          *)
(***************************************************************************)
EXTENDS Integers, Sequences

CONSTANTS Capacity,   \* the most bytes fetched ahead of the caller
          StreamLen,  \* the bytes of the file
          Counts      \* the counts arrays are asked for

VARIABLES delims,     \* the positions of the file that hold the delimiter
          fetched,    \* how many bytes the file has delivered
          failed,     \* the file has failed at least once
          open,       \* the file reader was not closed
          call,       \* the call in progress
          status,     \* what the last call returned
          taken,      \* what the caller has read
          aborted     \* the program is gone

vars == <<delims, fetched, failed, open, call, status, taken, aborted>>

Idle == [op |-> "none", count |-> 0]

Position == Len(taken)
Ahead == fetched - Position
Found == {p \in delims : Position < p /\ p <= fetched}

\* The call needs more than was fetched.
Wanting ==
  \/ call.op = "byte" /\ Ahead = 0
  \/ call.op = "array" /\ Ahead < call.count
  \/ call.op = "delimiter" /\ Found = {} /\ Ahead < Capacity

Init ==
  /\ delims \in SUBSET (1 .. StreamLen)
  /\ fetched = 0 /\ failed = FALSE /\ open = TRUE
  /\ call = Idle /\ status = "OK" /\ taken = << >> /\ aborted = FALSE

Begin(op, n) ==
  /\ call = Idle
  /\ call' = [op |-> op, count |-> n]
  /\ UNCHANGED <<delims, fetched, failed, open, status, taken, aborted>>

\* An array no buffer of this size can hold.
Refuse(n) ==
  /\ call = Idle /\ n > Capacity
  /\ status' = "OVERFLOW"
  /\ UNCHANGED <<delims, fetched, failed, open, call, taken, aborted>>

\* An array asks for no byte beyond its own.
Wanted == IF call.op = "array" THEN call.count ELSE Capacity

\* The file delivers k bytes, and may have failed after them.
Fetch(k) ==
  /\ Wanting /\ open
  /\ Ahead + k <= Wanted /\ fetched + k <= StreamLen
  /\ fetched' = fetched + k
  /\ failed => failed'
  /\ UNCHANGED <<delims, open, call, status, taken, aborted>>

\* The call returns the next n bytes.
Give(n) ==
  /\ taken' = taken \o [k \in 1 .. n |-> Position + k]
  /\ status' = "OK" /\ call' = Idle
  /\ UNCHANGED <<delims, fetched, failed, open, aborted>>

\* The call returns no bytes.
Report(st) ==
  /\ status' = st /\ call' = Idle
  /\ UNCHANGED <<delims, fetched, open, taken, aborted>>

Take == call.op \in {"byte", "array"} /\ ~ Wanting /\ Give(call.count)

\* Through the first delimiter.
Segment ==
  /\ call.op = "delimiter"
  /\ \E p \in Found : (\A q \in Found : p <= q) /\ Give(p - Position)

\* No segment of this size fits.
TooLong ==
  /\ call.op = "delimiter" /\ Found = {} /\ Ahead = Capacity
  /\ Report("OVERFLOW") /\ UNCHANGED failed

\* The file is read to its end and never failed.
AtEnd == Wanting /\ open /\ fetched = StreamLen /\ ~ failed

LastSegment == call.op = "delimiter" /\ AtEnd /\ Ahead > 0 /\ Give(Ahead)

End ==
  /\ AtEnd /\ (call.op = "delimiter" => Ahead = 0)
  /\ Report("EOF") /\ UNCHANGED failed

Fault == Wanting /\ open /\ failed' = TRUE /\ Report("IO")

Abort ==
  /\ Wanting /\ ~ open
  /\ aborted' = TRUE
  /\ UNCHANGED <<delims, fetched, failed, open, call, status, taken>>

Close ==
  /\ call = Idle /\ open
  /\ open' = FALSE
  /\ UNCHANGED <<delims, fetched, failed, call, status, taken, aborted>>

Next ==
  /\ ~ aborted
  /\ \/ Begin("byte", 1) \/ Begin("delimiter", 0)
     \/ \E n \in Counts : (n <= Capacity /\ Begin("array", n)) \/ Refuse(n)
     \/ \E k \in 1 .. Capacity : Fetch(k)
     \/ Take \/ Segment \/ TooLong
     \/ LastSegment \/ End \/ Fault \/ Abort \/ Close

Spec == Init /\ [][Next]_vars

=============================================================================
