------------------------------- MODULE MCText -------------------------------
(***************************************************************************)
(* Small instances of the string, the buffer cursor, the generic iterator  *)
(* and the file helpers, which share nothing: a behaviour uses one of them *)
(* and leaves the others as they were.                                     *)
(*                                                                         *)
(* The string's first buffer has two bytes and is grown by half to 3, 4    *)
(* and 6; with a header of two, nine overflows a size_t.  Cursors walk     *)
(* every buffer of up to three bytes, with any size_t for a count.  Three  *)
(* iterators and their copies give three items.  Files have up to three    *)
(* bytes, of which the longest leaves no room for a NUL, and one beyond.   *)
(***************************************************************************)
EXTENDS K4cString, TLC

CONSTANTS byte1, byte2,             \* the two bytes of the instance
          WalkedTexts, Predicates,   \* see BufCursor
          Iter, Items,               \* see Iterator
          FileTexts, FileMax         \* see FileIO

\* Texts of up to two bytes, and one longer.
ShortTexts == {<< >>, <<byte1>>, <<byte2>>, <<byte1, byte2>>, <<byte2, byte2, byte1>>}
MCWalkedTexts == UNION {[1 .. n -> {byte1, byte2}] : n \in 0 .. 3}
MCPredicates == {{byte1}, {byte2}, {byte1, byte2}}
MCFileTexts == {<< >>, <<"a">>, <<"b", "a">>, <<"a", "b", "b">>, <<"a", "a", "b", "b">>}

VARIABLES used,                            \* the part in use
          data, pos, passed, last,         \* the cursor
          iters, context, given, handed,   \* the iterators
          path, reader, writer, seen       \* the file

cursorVars == <<data, pos, passed, last>>
iterVars == <<iters, context, given, handed>>
fileVars == <<path, reader, writer, seen>>

Cursor == INSTANCE BufCursor WITH Texts <- WalkedTexts
Iterators == INSTANCE Iterator
Files == INSTANCE FileIO WITH SizeMax <- FileMax, Texts <- FileTexts

ASSUME CursorAssumption == Cursor!Assumptions
ASSUME IteratorAssumption == Iterators!Assumptions
ASSUME FileAssumption == Files!Assumptions

IterSymmetry == Permutations(Iter)

TextInit ==
  /\ used \in {"string", "cursor", "iterator", "file"}
  /\ Init /\ Cursor!Init /\ Iterators!Init /\ Files!Init
  /\ used # "cursor" => data = << >>
  /\ used # "file" => path = Files!Absent

UseString == used = "string" /\ Next /\ UNCHANGED <<cursorVars, iterVars, fileVars>>
UseCursor == used = "cursor" /\ Cursor!Next /\ UNCHANGED <<vars, iterVars, fileVars>>
UseIterator == used = "iterator" /\ Iterators!Next /\ UNCHANGED <<vars, cursorVars, fileVars>>
UseFile == used = "file" /\ Files!Next /\ UNCHANGED <<vars, cursorVars, iterVars>>

TextNext ==
  (UseString \/ UseCursor \/ UseIterator \/ UseFile) /\ UNCHANGED used

TextSpec == TextInit /\ [][TextNext]_<<used, vars, cursorVars, iterVars, fileVars>>

\* Whoever walks over bytes or items sees each of them once and in order: a
\* cursor passes exactly the bytes its calls told of, as far as it should and
\* never past the end; copies of an iterator share their walk exactly when
\* they share a context.
WalksAreExact == Cursor!Exact /\ Iterators!CopiesWalkRight

\* Whatever fails and whoever writes meanwhile, the status of a read or write
\* of a file is true, and a file nobody wrote meanwhile is read as it is.
FilesAreTrue == Files!StatusIsTrue

=============================================================================
