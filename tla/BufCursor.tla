----------------------------- MODULE BufCursor ------------------------------
(***************************************************************************)
(* buffer/cursor.c: a position in borrowed bytes.  Offsets and counts come *)
(* from the callers and may be any size_t.                                 *)
(***************************************************************************)
EXTENDS Size, Sequences

CONSTANTS Texts,         \* the buffers callers walk
          Predicates     \* the bytes a predicate accepts: sets

Assumptions == \A t \in Texts : t \in Seq(UNION Predicates) /\ Len(t) <= SizeMax

VARIABLES data,      \* cursor->data[0..len)
          pos,       \* cursor->pos
          passed,    \* the bytes the calls that moved the cursor told of
          last       \* the last call: status, bytes skipped, predicate

vars == <<data, pos, passed, last>>

Done(status, count, accepted) ==
  last' = [status |-> status, count |-> count, accepted |-> accepted]

Init ==
  /\ data \in Texts /\ pos = 0 /\ passed = << >>
  /\ last = [status |-> "OK", count |-> 0, accepted |-> {}]

Remaining == IF pos >= Len(data) THEN 0 ELSE Len(data) - pos

\* k4c_buf_cursor_peek_at: the byte out of cursor->data[pos + offset].
CanPeek(offset) == offset < Remaining
ByteAt(offset) == data[((pos + offset) % (SizeMax + 1)) + 1]

\* The next n bytes; none are there beyond the end.
Ahead(n) == [k \in 1 .. n |-> IF pos + k <= Len(data) THEN data[pos + k] ELSE "beyond"]

Moves(n, bytes) == pos' = (pos + n) % (SizeMax + 1) /\ passed' = passed \o bytes

Refuses == Done("EOF", 0, {}) /\ UNCHANGED <<data, pos, passed>>

\* k4c_buf_cursor_next.
NextByte ==
  \/ CanPeek(0) /\ Moves(1, <<ByteAt(0)>>) /\ Done("OK", 1, {}) /\ UNCHANGED data
  \/ ~ CanPeek(0) /\ Refuses

\* A slip: the end of the range is compared, and wraps.
MaySkipWrapping(n) == (pos + n) % (SizeMax + 1) <= Len(data)

MaySkip(n) == n <= Remaining

Skip(n) ==
  \/ /\ MaySkip(n)
     /\ Moves(n, Ahead(n)) /\ Done("OK", n, {}) /\ UNCHANGED data
  \/ ~ MaySkip(n) /\ Refuses

NextIf(expected) ==
  \/ /\ CanPeek(0) /\ ByteAt(0) = expected
     /\ Moves(1, <<expected>>) /\ Done("OK", 1, {}) /\ UNCHANGED data
  \/ (CanPeek(0) => ByteAt(0) # expected) /\ Refuses

\* How far the loop of k4c_buf_cursor_skip_while can get.
Accepted(accepted) == {n \in 0 .. Remaining : \A k \in 0 .. n - 1 : ByteAt(k) \in accepted}

\* k4c_buf_cursor_skip_while; skip_ascii_whitespace is the case of one set.
SkipWhile(accepted) ==
  LET n == CHOOSE m \in Accepted(accepted) : \A k \in Accepted(accepted) : k <= m
  IN  /\ Moves(n, Ahead(n))
      /\ Done("OK", n, accepted)
      /\ UNCHANGED data

Next ==
  \/ NextByte
  \/ \E n \in SizeT : Skip(n)
  \/ \E e \in UNION Predicates : NextIf(e)
  \/ \E p \in Predicates : SkipWhile(p)

Spec == Init /\ [][Next]_vars

-----------------------------------------------------------------------------
\* Every byte before the position was told of once, by the call that passed it,
\* and the position is in the buffer: no count wraps.
PassedExactly == pos <= Len(data) /\ passed = SubSeq(data, 1, pos)

\* skip_while passes every byte its predicate accepts and none other.
SkipsMaximally ==
  last.accepted # {} =>
    /\ \A k \in pos - last.count + 1 .. pos : data[k] \in last.accepted
    /\ pos < Len(data) => data[pos + 1] \notin last.accepted

\* What the calls told of is what the cursor passed, and skip_while went as far
\* as it could.
Exact == PassedExactly /\ SkipsMaximally

=============================================================================
