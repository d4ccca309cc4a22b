------------------------------- MODULE FileIO -------------------------------
(***************************************************************************)
(* io/file.c: one process that asks about and reads a path while another   *)
(* replaces the file with k4c_file_write_all.  Between any two calls to    *)
(* the system the other may run.  stat, fopen, fread, fwrite and fclose    *)
(* are external: each may fail, an fread delivers what the file holds at   *)
(* that moment in pieces, and what an fwrite took reaches the file in      *)
(* pieces, at the latest when it is closed.                                *)
(***************************************************************************)
EXTENDS Integers, Sequences, SequencesExt

CONSTANTS SizeMax,    \* SIZE_MAX
          Texts       \* what is written

SizeMaxAssumption == SizeMax \in Nat
TextsAssumption == Texts \subseteq Seq({"a", "b"})
Assumptions == SizeMaxAssumption /\ TextsAssumption

VARIABLES path,      \* what is at the path: nothing, a directory or a file
          reader,    \* the call that reads, and what it has returned
          writer,    \* the call that writes
          seen       \* the contents the path has had during the reader's call

vars == <<path, reader, writer, seen>>

Absent == [kind |-> "absent", bytes |-> << >>]
Directory == [kind |-> "dir", bytes |-> << >>]
FileOf(bytes) == [kind |-> "file", bytes |-> bytes]

\* k4c_file_read_all's locals: len, the FILE, what k4c_alloc gave and fread
\* filled; and what the last call returned.
IdleReader == [at |-> "idle", len |-> 0, open |-> FALSE, held |-> FALSE, data |-> << >>,
               status |-> "none", out |-> "NULL", out_len |-> 0]

\* k4c_file_write_all's FILE and what it was given, of which done bytes have
\* reached the file.
IdleWriter == [at |-> "idle", open |-> FALSE, data |-> << >>, done |-> 0, status |-> "none"]

-----------------------------------------------------------------------------
Init ==
  /\ path \in {Absent, Directory, FileOf(<< >>)}
  /\ reader = IdleReader /\ writer = IdleWriter
  /\ seen = {}

\* Every content the path takes while the reader is at work.
Witness == seen' = IF reader.at = "idle" THEN seen ELSE seen \cup {path'.bytes}

\* k4c_io_file_close, whose FILE is gone whatever status it gives.
Closed(r) == [r EXCEPT !.open = FALSE]

\* k4c_dealloc of what was allocated.
GivenBack(r) == [r EXCEPT !.held = FALSE]

\* k4c_file_read_all returns: len and the bytes read go out of scope, and what
\* is still open or held stays so.
Returned(r, status) ==
  [r EXCEPT !.at = "idle", !.len = 0, !.data = << >>, !.status = status]

\* k4c_file_size, the status and the size of what stat says.
SizeStatus ==
  CASE path.kind = "absent" -> "NOT_FOUND"
    [] path.kind = "dir" -> "INVALID_ARGUMENT"
    [] path.kind = "file" /\ Len(path.bytes) > SizeMax -> "OVERFLOW"
    [] OTHER -> "OK"

\* k4c_file_read_all, in a caller that has given back what an earlier call
\* handed out, up to k4c_file_size, after which a size that leaves no byte for
\* the NUL is refused.
Measure ==
  /\ reader.at = "idle"
  /\ seen' = {path.bytes}
  /\ \/ SizeStatus # "OK" /\ reader' = Returned(IdleReader, SizeStatus)
     \/ reader' = Returned(IdleReader, "IO")
     \/ /\ SizeStatus = "OK" /\ Len(path.bytes) = SizeMax
        /\ reader' = Returned(IdleReader, "OVERFLOW")
     \/ /\ SizeStatus = "OK" /\ Len(path.bytes) # SizeMax
        /\ reader' = [IdleReader EXCEPT !.at = "open", !.len = Len(path.bytes)]
  /\ UNCHANGED <<path, writer>>

\* fopen(path, "rb"), which also opens a directory.
Open ==
  /\ reader.at = "open"
  /\ \/ path.kind = "absent" /\ reader' = Returned(reader, "NOT_FOUND")
     \/ reader' = Returned(reader, "IO")
     \/ path.kind # "absent" /\ reader' = [reader EXCEPT !.at = "alloc", !.open = TRUE]
  /\ UNCHANGED <<path, writer, seen>>

\* A slip: a failed allocation returns at once.
AllocLeavesOpen ==
  /\ reader.at = "alloc"
  /\ \/ reader' = [reader EXCEPT !.at = "read", !.held = TRUE]
     \/ reader' = Returned(reader, "NO_MEMORY")
  /\ UNCHANGED <<path, writer, seen>>

\* len + 1 bytes, set to zero; without them the file is closed.
Alloc ==
  /\ reader.at = "alloc"
  /\ \/ reader' = [reader EXCEPT !.at = "read", !.held = TRUE]
     \/ reader' = Returned(Closed(reader), "NO_MEMORY")
  /\ UNCHANGED <<path, writer, seen>>

\* fread delivers the next k bytes of the file.
Read(k) ==
  /\ reader.at = "read" /\ k > 0
  /\ Len(reader.data) + k <= reader.len
  /\ Len(reader.data) + k <= Len(path.bytes)
  /\ reader' = [reader EXCEPT !.data =
       @ \o SubSeq(path.bytes, Len(@) + 1, Len(@) + k)]
  /\ UNCHANGED <<path, writer, seen>>

\* A slip: a short count is taken for the end of the file.
ReadStopsShort ==
  /\ reader.at = "read"
  /\ reader' = [reader EXCEPT !.at = "close"]
  /\ UNCHANGED <<path, writer, seen>>

\* fread returns short of len at the end of the file or for an error, which
\* is IO; the data is given back and the file closed.
ReadStops ==
  /\ reader.at = "read"
  /\ IF Len(reader.data) = reader.len THEN reader' = [reader EXCEPT !.at = "close"]
     ELSE reader' = Returned(Closed(GivenBack(reader)), "IO")
  /\ UNCHANGED <<path, writer, seen>>

\* The file is closed, and the data becomes the caller's.
HandedOver(r) == [Returned(r, "OK") EXCEPT !.out = r.data, !.out_len = r.len]

\* A slip: a failing fclose returns at once.
CloseKeepsData ==
  /\ reader.at = "close"
  /\ \/ reader' = HandedOver(Closed(reader))
     \/ reader' = Returned(Closed(reader), "IO")
  /\ UNCHANGED <<path, writer, seen>>

\* When fclose fails the data is given back.
Close ==
  /\ reader.at = "close"
  /\ \/ reader' = HandedOver(Closed(reader))
     \/ reader' = Returned(GivenBack(Closed(reader)), "IO")
  /\ UNCHANGED <<path, writer, seen>>

\* k4c_file_write_all returns IO.
WriteFails(w) ==
  writer' = [w EXCEPT !.at = "idle", !.data = << >>, !.done = 0, !.status = "IO"]

\* k4c_file_write_all opens the path for writing, which empties the file; a
\* directory or a system error is IO.
WriteOpen(text) ==
  /\ writer.at = "idle"
  /\ \/ /\ path.kind # "dir" /\ path' = FileOf(<< >>)
        /\ writer' = [IdleWriter EXCEPT !.at = "write", !.open = TRUE, !.data = text]
     \/ path' = path /\ WriteFails(writer)
  /\ Witness
  /\ UNCHANGED reader

Land(k) ==
  path' = [path EXCEPT !.bytes = @ \o SubSeq(writer.data, writer.done + 1, writer.done + k)]

\* k more bytes of what fwrite took reach the file.
WriteLands(k) ==
  /\ writer.at \in {"write", "close"} /\ k > 0
  /\ writer.done + k <= Len(writer.data)
  /\ Land(k) /\ writer' = [writer EXCEPT !.done = @ + k]
  /\ Witness
  /\ UNCHANGED reader

\* fwrite says that it took everything, or not: then the file is closed and
\* the status IO, whatever fclose says.
WriteTaken ==
  /\ writer.at = "write"
  /\ \/ writer' = [writer EXCEPT !.at = "close"]
     \/ Len(writer.data) > 0 /\ WriteFails(Closed(writer))
  /\ UNCHANGED <<path, reader, seen>>

\* A slip: the status of fclose is not looked at.
WriteCloseUnchecked ==
  /\ writer.at = "close"
  /\ writer' = [Closed(writer) EXCEPT !.at = "idle", !.status = "OK"]
  /\ UNCHANGED <<path, reader, seen>>

\* fclose succeeds once every byte has reached the file; or fails: IO.
WriteClose ==
  /\ writer.at = "close"
  /\ \/ /\ writer.done = Len(writer.data)
        /\ writer' = [Closed(writer) EXCEPT !.at = "idle", !.status = "OK"]
     \/ WriteFails(Closed(writer))
  /\ UNCHANGED <<path, reader, seen>>

\* Somebody else puts a directory, or nothing, in place of a file nobody has
\* open.
Replace ==
  /\ ~ reader.open /\ writer.at = "idle"
  /\ path' \in {Absent, Directory} /\ path' # path
  /\ writer' = IdleWriter
  /\ Witness
  /\ UNCHANGED reader

Next ==
  \/ Measure \/ Open \/ Alloc \/ ReadStops \/ Close
  \/ \E k \in 1 .. SizeMax : Read(k) \/ WriteLands(k)
  \/ \E t \in Texts : WriteOpen(t)
  \/ WriteTaken \/ WriteClose \/ Replace

Spec == Init /\ [][Next]_vars

-----------------------------------------------------------------------------
\* A read_all that has returned left no file open; if it failed it hands out
\* nothing and has given back what it allocated, wherever it failed; else it
\* hands out as many bytes as it says, however the file changed.
AllOrNothing ==
  reader.at = "idle" =>
    /\ ~ reader.open
    /\ reader.status = "OK" => reader.held /\ Len(reader.out) = reader.out_len
    /\ reader.status # "OK" => ~ reader.held /\ reader.out = "NULL" /\ reader.out_len = 0

\* file.md, "loads the entire file into memory": if nobody wrote meanwhile,
\* what was read is what the file held.
ReadsAQuietFile ==
  reader.at = "idle" /\ reader.status = "OK" =>
    \A bytes \in seen : seen = {bytes} => reader.out = bytes

\* file.h, "replacing any existing file": when write_all says OK the file holds
\* the data, all of it and nothing more, until it is written or replaced again;
\* and no file is left open.
WriteIsWhole ==
  writer.at = "idle" =>
    /\ ~ writer.open
    /\ writer.status = "OK" => path = FileOf(writer.data)

\* Whatever fails, both helpers leave what their status says: a read nothing or
\* all it claims, which is the file if that was left alone, and a write the
\* whole of its data when it says OK.
StatusIsTrue == AllOrNothing /\ ReadsAQuietFile /\ WriteIsWhole

=============================================================================
