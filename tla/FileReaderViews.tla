-------------------------- MODULE FileReaderViews ---------------------------
(***************************************************************************)
(* The generic readers made over one file reader by k4c_file_reader_view   *)
(* of io/reader/file_reader.c: one, or two.  Each has a pos and a len of   *)
(* its own, and they work on the bytes of one caller-owned buffer and on   *)
(* one FILE.  Module FileReader is the view in use; the other one waits,   *)
(* and the caller changes between them when no call is in progress.        *)
(***************************************************************************)
EXTENDS FileReader, FiniteSets

VARIABLES views,      \* how many views the caller makes
          other,      \* pos and len of the view that waits
          overwritten \* history: a byte a waiting view had yet to read was

viewVars == <<fileVars, views, other, overwritten>>

\* A slip: the new view takes the window of the reader over.
FreshViewCopiesWindow == [pos |-> reader.pos, len |-> reader.len]

\* What k4c_reader_create puts into a view.
FreshView == [pos |-> 0, len |-> 0]

ViewsInit == FileInit /\ views \in {1, 2} /\ other = FreshView /\ overwritten = FALSE

WaitingCells == other.pos .. other.len - 1
Waiting == [k \in 1 .. other.len - other.pos |-> reader.data[other.pos + k - 1]]

\* k4c_file_reader_view once more, in place of a view that is drained.
View ==
  /\ views = 2 /\ call = Idle /\ open /\ WaitingCells = {}
  /\ other' = FreshView
  /\ UNCHANGED <<fileVars, views, overwritten>>

\* k4c_file_reader_view after close: k4c_reader_create asserts data != NULL.
ViewAfterClose ==
  /\ views = 2 /\ call = Idle /\ ~ open
  /\ panicked' = TRUE
  /\ UNCHANGED <<vars, open, feof, ferror, views, other, overwritten>>

\* The caller goes on with the other view.
Change ==
  /\ views = 2 /\ call = Idle
  /\ reader' = [reader EXCEPT !.pos = other.pos, !.len = other.len]
  /\ other' = [pos |-> reader.pos, len |-> reader.len]
  /\ UNCHANGED <<delims, delivered, call, result, taken, open, feof, ferror, panicked>>
  /\ UNCHANGED <<views, overwritten>>

\* Refills and compactions of the view in use write the common buffer.
Use ==
  /\ FileNext
  /\ overwritten' = (overwritten \/ \E i \in WaitingCells : reader'.data[i] # reader.data[i])
  /\ UNCHANGED <<views, other>>

ViewsNext == ~ panicked /\ (Use \/ Change \/ View \/ ViewAfterClose)

ViewsSpec == ViewsInit /\ [][ViewsNext]_viewVars

-----------------------------------------------------------------------------
Bytes(s) == {s[i] : i \in DOMAIN s}

\* However views are mixed, a window stays in the buffer and every byte a view
\* hands out is one the file has delivered, never one nobody wrote.
OnlyDelivered ==
  /\ reader.pos <= reader.len /\ reader.len <= Capacity
  /\ other.pos <= other.len /\ other.len <= Capacity
  /\ Bytes(taken) \cup Bytes(Buffered(reader)) \cup Bytes(Waiting) \subseteq 1 .. delivered

\* Every byte of the file goes to exactly one view, and is handed out by it
\* or still to come from it, as long as no view refilled over bytes the other
\* had yet to read; a caller that drains a view before it changes is safe.
\* Mixed in any other way, views still hand out the file's bytes only.
EachByteToOneView ==
  /\ OnlyDelivered
  /\ ~ overwritten =>
       /\ Bytes(taken) \cup Bytes(Buffered(reader)) \cup Bytes(Waiting) = 1 .. delivered
       /\ Len(taken) + Len(Buffered(reader)) + Len(Waiting) = delivered

Stream == INSTANCE ByteStream WITH
            fetched <- delivered, failed <- ferror, status <- result.status,
            aborted <- panicked

\* A caller that makes one view reads the file as ByteStream has it, with no
\* buffer in sight: whatever fread answers, short, failing or at its end, in
\* whatever rounds a call asks for more and wherever the window is compacted,
\* the next call takes the next bytes of the file; no call asks the file for
\* what it does not need; and a refill after close aborts where a call that
\* needs none still works (file_reader.c:65 and 107).
OneViewReadsTheFile == Stream!Init /\ [][views = 1 => Stream!Next]_(Stream!vars)

\* Draining before changing keeps the whole file in order.
DrainedInOrder ==
  [][ /\ ~ overwritten /\ WaitingCells = {}
      /\ taken = [k \in 1 .. Len(taken) |-> k] /\ ~ overwritten'
      => taken' = [k \in 1 .. Len(taken') |-> k] ]_viewVars

=============================================================================
