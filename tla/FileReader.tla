----------------------------- MODULE FileReader -----------------------------
(***************************************************************************)
(* io/reader/file_reader.c: the reader of module Reader whose source is a  *)
(* FILE of the C library, composed with the part of fread(3) the callback  *)
(* depends on.  fread is external: it delivers what was asked, or fewer    *)
(* bytes and then sets the end-of-file or the error indicator; the         *)
(* end-of-file indicator makes later calls deliver nothing, the error      *)
(* indicator stays set but the stream may go on.  Nothing in src/lib       *)
(* clears either indicator.                                                *)
(***************************************************************************)
EXTENDS Reader

VARIABLES open,     \* reader->file and reader->data are set: close resets them
          feof,     \* the end-of-file indicator of the stream
          ferror,   \* the error indicator of the stream
          panicked  \* an assertion of the callback aborted the program

fileVars == <<vars, open, feof, ferror, panicked>>

FileInit ==
  /\ Init
  /\ open = TRUE /\ feof = FALSE /\ ferror = FALSE /\ panicked = FALSE

\* fread(data, 1, asked, file) delivers k bytes.
Fread(asked, k) ==
  \/ k = asked /\ ~ feof /\ UNCHANGED <<feof, ferror>>
  \/ /\ k < asked /\ ~ feof
     /\ delivered + k = StreamLen /\ feof' = TRUE
     /\ UNCHANGED ferror
  \/ k < asked /\ ~ feof /\ ferror' = TRUE /\ UNCHANGED feof
  \/ k = 0 /\ feof /\ UNCHANGED <<feof, ferror>>

\* A slip: the error indicator is looked at only when the stream is not at its end.
FileStatusEofFirst == IF feof' THEN "EOF" ELSE "IO"

\* The callback's status when fread delivered nothing.
FileStatus == IF ferror' THEN "IO" ELSE "EOF"

\* The read_capacity the generic reader passes to the callback.
Asked == Room(Rebase(reader, Required(reader)), MaxRead(reader))

\* A slip: no assertion stops a refill after close, and the file is read on.
FileReadUnasserted ==
  /\ ~ Ready
  /\ \E k \in 0 .. Asked :
       /\ Fread(Asked, k)
       /\ IF k > 0 THEN Fill(k) ELSE Stop(FileStatus)
  /\ UNCHANGED <<open, panicked>>

\* k4c_file_reader_read, called from k4c_reader_fill_more.
FileRead ==
  /\ ~ Ready /\ open
  /\ \E k \in 0 .. Asked :
       /\ Fread(Asked, k)
       /\ IF k > 0 THEN Fill(k) ELSE Stop(FileStatus)
  /\ UNCHANGED <<open, panicked>>

\* The callback asserts reader->file != NULL: a refill after close panics.
ReadAfterClose ==
  /\ ~ Ready /\ ~ open
  /\ panicked' = TRUE
  /\ UNCHANGED <<vars, open, feof, ferror>>

\* k4c_file_reader_close resets the file reader; views made earlier are values
\* of the caller's and keep their window and their pointer to the buffer.
Close ==
  /\ call = Idle /\ open
  /\ open' = FALSE
  /\ UNCHANGED <<vars, feof, ferror, panicked>>

FileNext ==
  /\ ~ panicked
  /\ \/ (Start \/ Return) /\ UNCHANGED <<open, feof, ferror, panicked>>
     \/ FileRead
     \/ ReadAfterClose
     \/ Close

FileSpec == FileInit /\ [][FileNext]_fileVars

-----------------------------------------------------------------------------
\* Once the stream had an error no call ever reports a clean end of file,
\* however many reads succeeded after it.
ErrorIsNeverEof ==
  [][ call # Idle /\ call' = Idle /\ result'.status = "EOF" =>
        ~ ferror' /\ delivered' = StreamLen ]_fileVars

\* A segment without its delimiter is the true end of the file: the stream
\* had no error, and no byte is left in it or in the window.
LastSegmentIsTheEnd ==
  [][ call.op = "delimiter" /\ call' = Idle /\ result'.status = "OK" =>
        \/ reader'.data[result'.at + result'.n - 1] \in delims
        \/ ~ ferror' /\ delivered' = StreamLen /\ reader'.pos = reader'.len ]_fileVars

\* However often the stream fails and goes on, its failure is never taken for
\* its end, neither as a status nor as a last segment.
FailureIsNeverTheEnd == ErrorIsNeverEof /\ LastSegmentIsTheEnd

=============================================================================
