--------------------------- MODULE StringContract ---------------------------
(***************************************************************************)
(* What datastruct/string.h promises: a string is the sequence of the      *)
(* bytes before its NUL, and each operation changes the sequence as its    *)
(* name says or, failing, not at all. The one exception: a prefix that is  *)
(* a proper suffix of the string itself is read after the text moved up.   *)
(***************************************************************************)
EXTENDS Sequences, Integers

CONSTANT Texts      \* the C strings callers pass

VARIABLE text       \* the string, empty while there is none

Suffix(k) == SubSeq(text, k, Len(text))

Init == text = << >>

Create == text = << >> /\ text' \in Texts
Extend == \E t \in Texts : text' = text \o t
Prepend == \E t \in Texts : text' = t \o text
AppendOwn == \E k \in 1 .. Len(text) : text' = text \o Suffix(k)

\* The bytes that stand where the suffix from k on stood, once the text has
\* moved up by its length: that suffix for the whole text alone (k = 1).
SuffixMovedUp(k) ==
  LET before == k - 1
      n == Len(text) - before
  IN  [i \in 1 .. n |-> text[IF before + i <= n THEN before + i ELSE before + i - n]]

PrependOwn == \E k \in 1 .. Len(text) : text' = SuffixMovedUp(k) \o text

Clear == text' = << >>

Next == Create \/ Extend \/ Prepend \/ AppendOwn \/ PrependOwn \/ Clear

Spec == Init /\ [][Next]_text

=============================================================================
