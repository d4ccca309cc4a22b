----------------------------- MODULE TextProofs ------------------------------
(***************************************************************************)
(* The string, the buffer cursor, the generic iterator and the file        *)
(* helpers, for every width of size_t, every set of texts, predicates and  *)
(* items.  They share nothing, so each has an invariant of its own.        *)
(***************************************************************************)
EXTENDS MCText, SequenceTheorems, WellFoundedInduction, TLAPS

(***************************************************************************)
(* Sequences and numbers.                                                  *)
(***************************************************************************)
LEMMA Least ==
  ASSUME NEW T, T \subseteq Nat, T # {}
  PROVE  \E m \in T : \A k \in T : m <= k
<1>1. PICK m \in T : \A k \in T : <<k, m>> \notin OpToRel(<, Nat)
  BY WFMin, NatLessThanWellFounded, Zenon
<1>2. m \in Nat /\ \A k \in T : k \in Nat
  OBVIOUS
<1>3. \A k \in T : ~ (k < m)
  BY <1>1, <1>2, Zenon DEF OpToRel
<1> QED BY <1>2, <1>3

\* A set of numbers none of which is above n has a greatest.
LEMMA Greatest ==
  ASSUME NEW n \in Nat, NEW T, T \subseteq 0 .. n, T # {}
  PROVE  \E m \in T : \A k \in T : k <= m
<1> DEFINE U == {n - k : k \in T}
<1>1. U \subseteq Nat /\ U # {}
  <2>1. \A k \in T : k \in 0 .. n /\ n - k \in Nat
    OBVIOUS
  <2> QED BY <2>1
<1>2. PICK u \in U : \A w \in U : u <= w
  BY <1>1, Least
<1>3. PICK m \in T : u = n - m
  OBVIOUS
<1>4. ASSUME NEW k \in T
      PROVE  k <= m
  <2>1. n - k \in U /\ k \in 0 .. n /\ m \in 0 .. n
    OBVIOUS
  <2>2. n - m <= n - k
    BY <1>2, <1>3, <2>1
  <2> QED BY <2>1, <2>2
<1> QED BY <1>4

LEMMA SmallIsItself ==
  ASSUME NEW n \in Nat, NEW x \in 0 .. n
  PROVE  x % (n + 1) = x
OBVIOUS

LEMMA PrefixIs ==
  ASSUME NEW T, NEW q \in Seq(T), NEW n \in 0 .. Len(q)
  PROVE  /\ Len(SubSeq(q, 1, n)) = n /\ SubSeq(q, 1, n) \in Seq(T)
         /\ \A i \in 1 .. n : SubSeq(q, 1, n)[i] = q[i]
<1>1. CASE n = 0
  <2>1. SubSeq(q, 1, n) = << >>
    BY <1>1, SubSeqEmpty
  <2> QED BY <1>1, <2>1
<1>2. CASE n # 0
  <2>1. 1 \in 1 .. Len(q) + 1 /\ n \in 1 - 1 .. Len(q) /\ n \in 1 .. Len(q)
    BY <1>2
  <2> QED BY <1>2, <2>1, SubSeqProperties
<1> QED BY <1>1, <1>2

\* A prefix with the elements that follow it is a prefix.
LEMMA PrefixGrows ==
  ASSUME NEW T, NEW q \in Seq(T), NEW p \in Nat, NEW n \in Nat, p + n <= Len(q),
         NEW r \in Seq(T), Len(r) = n, \A k \in 1 .. n : r[k] = q[p + k]
  PROVE  SubSeq(q, 1, p) \o r = SubSeq(q, 1, p + n)
<1>1. p \in 0 .. Len(q) /\ p + n \in 0 .. Len(q)
  OBVIOUS
<1> PICK s, l : s = SubSeq(q, 1, p) /\ l = SubSeq(q, 1, p + n)
  OBVIOUS
<1>2. /\ s \in Seq(T) /\ Len(s) = p /\ \A i \in 1 .. p : s[i] = q[i]
      /\ l \in Seq(T) /\ Len(l) = p + n /\ \A i \in 1 .. p + n : l[i] = q[i]
  BY <1>1, PrefixIs
<1>3. /\ s \o r \in Seq(T) /\ Len(s \o r) = p + n
      /\ \A i \in 1 .. p + n : (s \o r)[i] = IF i <= p THEN s[i] ELSE r[i - p]
  BY <1>2, ConcatProperties
<1>4. \A i \in 1 .. p + n : (s \o r)[i] = l[i]
  <2>1. TAKE i \in 1 .. p + n
  <2>2. CASE i <= p
    <3>1. i \in 1 .. p
      BY <2>2
    <3> QED BY <1>2, <1>3, <2>2, <3>1
  <2>3. CASE ~ (i <= p)
    <3>1. i - p \in 1 .. n /\ p + (i - p) = i
      BY <2>3
    <3>2. r[i - p] = q[i]
      BY <3>1
    <3> QED BY <1>2, <1>3, <2>3, <3>2
  <2> QED BY <2>2, <2>3
<1>5. s \o r = l
  BY <1>2, <1>3, <1>4, SeqEqual
<1> QED BY <1>5

\* The same for one element.
LEMMA PrefixGrowsByOne ==
  ASSUME NEW T, NEW q \in Seq(T), NEW p \in Nat, p < Len(q)
  PROVE  SubSeq(q, 1, p) \o << q[p + 1] >> = SubSeq(q, 1, p + 1)
<1>1. p + 1 <= Len(q) /\ q[p + 1] \in T
  OBVIOUS
<1>2. << q[p + 1] >> \in Seq(T) /\ Len(<< q[p + 1] >>) = 1
      /\ \A k \in 1 .. 1 : << q[p + 1] >>[k] = q[p + k]
  BY <1>1
<1> QED BY <1>1, <1>2, PrefixGrows

(***************************************************************************)
(* The cursor: it passed the bytes before its position, which is in the    *)
(* buffer, so that no sum of the position and a count it admits wraps.     *)
(***************************************************************************)
Byte == UNION Predicates

CursorInv ==
  /\ data \in WalkedTexts /\ pos \in 0 .. Len(data)
  /\ passed = SubSeq(data, 1, pos)
  /\ Cursor!SkipsMaximally

LEMMA BufferIs ==
  ASSUME data \in WalkedTexts
  PROVE  data \in Seq(Byte) /\ Len(data) \in Nat /\ Len(data) <= SizeMax /\ SizeMax \in Nat
  BY CursorAssumption, SizeMaxAssumption DEF Cursor!Assumptions, Byte

LEMMA CursorInvInit == Cursor!Init => CursorInv
<1> SUFFICES ASSUME Cursor!Init PROVE CursorInv
  OBVIOUS
<1>1. data \in WalkedTexts /\ pos = 0 /\ passed = << >> /\ last.accepted = {}
  BY DEF Cursor!Init
<1>2. data \in Seq(Byte) /\ Len(data) \in Nat
  BY <1>1, BufferIs
<1>3. SubSeq(data, 1, 0) = << >>
  BY <1>2, SubSeqEmpty
<1> QED BY <1>1, <1>2, <1>3 DEF CursorInv, Cursor!SkipsMaximally

LEMMA RemainingIs ==
  ASSUME CursorInv
  PROVE  /\ data \in Seq(Byte) /\ Len(data) \in Nat /\ pos \in Nat /\ pos <= Len(data)
         /\ Cursor!Remaining = Len(data) - pos
         /\ \A k \in 0 .. Len(data) - pos - 1 :
              Cursor!ByteAt(k) = data[pos + k + 1] /\ data[pos + k + 1] \in Byte
<1>1. /\ data \in Seq(Byte) /\ Len(data) \in Nat /\ pos \in Nat /\ pos <= Len(data)
      /\ Len(data) <= SizeMax /\ SizeMax \in Nat
  BY BufferIs DEF CursorInv
<1>2. Cursor!Remaining = Len(data) - pos
  BY <1>1 DEF Cursor!Remaining
<1>3. ASSUME NEW k \in 0 .. Len(data) - pos - 1
      PROVE  Cursor!ByteAt(k) = data[pos + k + 1] /\ data[pos + k + 1] \in Byte
  <2>1. pos + k \in 0 .. SizeMax /\ pos + k + 1 \in 1 .. Len(data)
    BY <1>1
  <2>2. (pos + k) % (SizeMax + 1) = pos + k
    BY <1>1, <2>1, SmallIsItself
  <2> QED BY <1>1, <2>1, <2>2 DEF Cursor!ByteAt
<1> QED BY <1>1, <1>2, <1>3

\* A call that moves the cursor by n and tells of the n bytes it passed.
LEMMA CursorMoves ==
  ASSUME CursorInv, NEW n \in Nat, n <= Len(data) - pos, NEW bytes, bytes \in Seq(Byte),
         Len(bytes) = n, \A k \in 1 .. n : bytes[k] = data[pos + k],
         Cursor!Moves(n, bytes), data' = data
  PROVE  data' \in WalkedTexts /\ pos' = pos + n /\ pos' \in 0 .. Len(data')
         /\ passed' = SubSeq(data', 1, pos')
<1>1. /\ data \in Seq(Byte) /\ Len(data) \in Nat /\ pos \in Nat /\ pos <= Len(data)
      /\ Len(data) <= SizeMax /\ SizeMax \in Nat
  BY BufferIs DEF CursorInv
<1>2. pos + n \in 0 .. SizeMax /\ pos + n <= Len(data)
  BY <1>1
<1>3. (pos + n) % (SizeMax + 1) = pos + n
  BY <1>1, <1>2, SmallIsItself
<1>4. pos' = pos + n /\ passed' = SubSeq(data, 1, pos) \o bytes
  BY <1>3 DEF Cursor!Moves, CursorInv
<1>5. SubSeq(data, 1, pos) \o bytes = SubSeq(data, 1, pos + n)
  <2>1. data \in Seq(Byte) /\ pos \in Nat /\ pos + n <= Len(data)
    BY <1>1, <1>2
  <2> QED BY <2>1, PrefixGrows
<1>6. data' \in WalkedTexts /\ pos' \in 0 .. Len(data')
  BY <1>1, <1>2, <1>4 DEF CursorInv
<1>7. passed' = SubSeq(data', 1, pos')
  BY <1>4, <1>5, Zenon
<1> QED BY <1>4, <1>6, <1>7

\* The n bytes ahead, which are there.
LEMMA AheadIs ==
  ASSUME CursorInv, NEW n \in Nat, n <= Len(data) - pos
  PROVE  /\ Cursor!Ahead(n) \in Seq(Byte) /\ Len(Cursor!Ahead(n)) = n
         /\ \A k \in 1 .. n : Cursor!Ahead(n)[k] = data[pos + k]
<1>1. data \in Seq(Byte) /\ Len(data) \in Nat /\ pos \in Nat
  BY RemainingIs
<1>2. \A k \in 1 .. n : pos + k <= Len(data) /\ pos + k \in 1 .. Len(data)
  BY <1>1
<1>3. \A k \in 1 .. n : Cursor!Ahead(n)[k] = data[pos + k] /\ data[pos + k] \in Byte
  BY <1>1, <1>2 DEF Cursor!Ahead
<1>4. Cursor!Ahead(n) = [k \in 1 .. n |-> Cursor!Ahead(n)[k]]
  BY DEF Cursor!Ahead
<1>5. Cursor!Ahead(n) \in [1 .. n -> Byte]
  BY <1>3, <1>4
<1>6. Cursor!Ahead(n) \in Seq(Byte)
  BY <1>5, SeqDef
<1> QED BY <1>3, <1>5, <1>6, LenProperties

LEMMA NoPredicate ==
  ASSUME last'.accepted = {}
  PROVE  Cursor!SkipsMaximally'
  BY DEF Cursor!SkipsMaximally

LEMMA CursorRefuses ==
  ASSUME CursorInv, Cursor!Refuses
  PROVE  CursorInv'
<1>1. last'.accepted = {}
  BY DEF Cursor!Refuses, Cursor!Done
<1> QED BY <1>1, NoPredicate DEF Cursor!Refuses, CursorInv

\* One byte is told of and passed.
LEMMA CursorTakes ==
  ASSUME CursorInv, Cursor!CanPeek(0), NEW byte, byte = Cursor!ByteAt(0),
         Cursor!Moves(1, << byte >>), Cursor!Done("OK", 1, {}), data' = data
  PROVE  CursorInv'
<1>1. /\ Cursor!Remaining = Len(data) - pos /\ Len(data) \in Nat /\ pos \in Nat
  BY RemainingIs
<1>2. 1 <= Len(data) - pos /\ 0 \in 0 .. Len(data) - pos - 1
  BY <1>1 DEF Cursor!CanPeek
<1>3. byte = data[pos + 0 + 1] /\ byte \in Byte
  BY <1>2, RemainingIs
<1>4. << byte >> \in Seq(Byte) /\ Len(<< byte >>) = 1
      /\ \A k \in 1 .. 1 : << byte >>[k] = data[pos + k]
  BY <1>1, <1>3
<1>5. last'.accepted = {}
  BY DEF Cursor!Done
<1> QED BY <1>2, <1>4, <1>5, CursorMoves, NoPredicate DEF CursorInv

\* skip_while stops behind the last byte of a row that its predicate accepts.
LEMMA CursorSkipsWhile ==
  ASSUME CursorInv, NEW accepted, Cursor!SkipWhile(accepted)
  PROVE  CursorInv'
<1>1. /\ data \in Seq(Byte) /\ Len(data) \in Nat /\ pos \in Nat /\ pos <= Len(data)
      /\ Cursor!Remaining = Len(data) - pos
  BY RemainingIs
<1>2. PICK rest : rest = Len(data) - pos /\ rest \in Nat
  BY <1>1
<1>3. PICK A : A = Cursor!Accepted(accepted)
  OBVIOUS
<1>4. /\ A \subseteq 0 .. rest
      /\ \A n \in 0 .. rest :
           n \in A <=> \A k \in 0 .. n - 1 : Cursor!ByteAt(k) \in accepted
  BY <1>1, <1>2, <1>3 DEF Cursor!Accepted
<1>5. 0 \in A
  BY <1>2, <1>4
<1>6. \E m \in A : \A k \in A : k <= m
  BY <1>2, <1>4, <1>5, Greatest
<1>7. PICK n : n = CHOOSE m \in A : \A k \in A : k <= m
  OBVIOUS
<1>8. n \in A /\ \A k \in A : k <= n
  BY <1>6, <1>7, Zenon
<1>9. n \in 0 .. rest /\ n \in Nat /\ n <= Len(data) - pos
  BY <1>2, <1>4, <1>8
<1>10. /\ Cursor!Moves(n, Cursor!Ahead(n)) /\ data' = data
       /\ last' = [status |-> "OK", count |-> n, accepted |-> accepted]
  BY <1>3, <1>7 DEF Cursor!SkipWhile, Cursor!Done
<1>11. data' \in WalkedTexts /\ pos' = pos + n /\ pos' \in 0 .. Len(data')
       /\ passed' = SubSeq(data', 1, pos')
  BY <1>9, <1>10, AheadIs, CursorMoves
<1>12. \A k \in 0 .. n - 1 : data[pos + k + 1] \in accepted
  <2>1. TAKE k \in 0 .. n - 1
  <2>2. k \in 0 .. Len(data) - pos - 1
    BY <1>1, <1>9
  <2>3. Cursor!ByteAt(k) = data[pos + k + 1]
    BY <2>2, RemainingIs
  <2> QED BY <1>4, <1>8, <1>9, <2>3
<1>13. \A k \in pos + 1 .. pos + n : data[k] \in accepted
  <2>1. TAKE k \in pos + 1 .. pos + n
  <2>2. k - pos - 1 \in 0 .. n - 1 /\ pos + (k - pos - 1) + 1 = k
    BY <1>1, <1>9
  <2> QED BY <1>12, <2>2
<1>14. ASSUME pos + n < Len(data)
       PROVE  data[pos + n + 1] \notin accepted
  <2>1. n + 1 \in 0 .. rest /\ n + 1 \notin A
    BY <1>1, <1>2, <1>8, <1>9, <1>14
  <2>2. PICK k \in 0 .. n : Cursor!ByteAt(k) \notin accepted
    <3>1. (n + 1) - 1 = n
      BY <1>9
    <3> QED BY <1>4, <2>1, <3>1
  <2>3. k \in 0 .. Len(data) - pos - 1 /\ (k = n \/ k \in 0 .. n - 1)
    BY <1>1, <1>9, <1>14
  <2>4. data[pos + k + 1] \notin accepted
    BY <2>2, <2>3, RemainingIs
  <2> QED BY <1>12, <2>3, <2>4
<1>15. Cursor!SkipsMaximally'
  <2>1. last'.accepted = accepted /\ last'.count = n /\ pos' - n + 1 = pos + 1
    BY <1>1, <1>9, <1>10, <1>11
  <2> QED BY <1>10, <1>11, <1>13, <1>14, <2>1 DEF Cursor!SkipsMaximally
<1> QED BY <1>11, <1>15 DEF CursorInv

LEMMA CursorInvNext == CursorInv /\ [Cursor!Next]_cursorVars => CursorInv'
<1> SUFFICES ASSUME CursorInv, [Cursor!Next]_cursorVars PROVE CursorInv'
  OBVIOUS
<1>1. CASE Cursor!NextByte
  BY <1>1, CursorTakes, CursorRefuses DEF Cursor!NextByte
<1>2. ASSUME NEW n \in SizeT, Cursor!Skip(n)
      PROVE  CursorInv'
  <2>1. CASE Cursor!MaySkip(n) /\ Cursor!Moves(n, Cursor!Ahead(n))
             /\ Cursor!Done("OK", n, {}) /\ data' = data
    <3>1. n \in Nat /\ n <= Len(data) - pos
      BY <2>1, SizeMaxAssumption, RemainingIs DEF Cursor!MaySkip, SizeT
    <3>2. last'.accepted = {}
      BY <2>1 DEF Cursor!Done
    <3> QED BY <2>1, <3>1, <3>2, AheadIs, CursorMoves, NoPredicate DEF CursorInv
  <2> QED BY <1>2, <2>1, CursorRefuses DEF Cursor!Skip
<1>3. ASSUME NEW e \in UNION Predicates, Cursor!NextIf(e)
      PROVE  CursorInv'
  BY <1>3, CursorTakes, CursorRefuses DEF Cursor!NextIf
<1>4. ASSUME NEW p \in Predicates, Cursor!SkipWhile(p)
      PROVE  CursorInv'
  BY <1>4, CursorSkipsWhile
<1>5. CASE UNCHANGED cursorVars
  BY <1>5 DEF cursorVars, CursorInv, Cursor!SkipsMaximally
<1> QED BY <1>1, <1>2, <1>3, <1>4, <1>5 DEF Cursor!Next, Cursor!SizeT, SizeT

LEMMA CursorInvImplies == CursorInv => Cursor!Exact
<1>1. CursorInv => Len(data) \in Nat
  BY RemainingIs
<1> QED BY <1>1 DEF CursorInv, Cursor!Exact, Cursor!PassedExactly

(***************************************************************************)
(* The iterators: what is left to an iterator with a state of its own is   *)
(* its hint; the caller's cursor has given the items up to it.             *)
(***************************************************************************)
AnIterator ==
  [on : BOOLEAN, context : {"NULL", "context"}, hint : 0 .. Items,
   state : (0 .. Items) \cup {Junk}]

Walking(it) ==
  it.on /\ it.context = "NULL" => it.state \in 0 .. Items /\ it.hint = Items - it.state

IteratorInv ==
  /\ iters \in [Iter -> AnIterator]
  /\ context \in 0 .. Items
  /\ given = [k \in 1 .. context |-> k]
  /\ \A i \in Iter : Walking(iters[i])

\* One iterator becomes another that is in order.
LEMMA IteratorBecomes ==
  ASSUME IteratorInv, NEW i \in Iter, NEW it, it \in AnIterator, Walking(it),
         iters' = [iters EXCEPT ![i] = it]
  PROVE  iters' \in [Iter -> AnIterator] /\ \A j \in Iter : Walking(iters'[j])
<1>1. \A j \in Iter : iters'[j] = IF j = i THEN it ELSE iters[j]
  BY DEF IteratorInv
<1>2. iters' \in [Iter -> AnIterator]
  BY DEF IteratorInv
<1>3. \A j \in Iter : Walking(iters'[j])
  BY <1>1 DEF IteratorInv
<1> QED BY <1>2, <1>3

LEMMA IteratorInvInit == Iterators!Init => IteratorInv
<1> SUFFICES ASSUME Iterators!Init PROVE IteratorInv
  OBVIOUS
<1>1. Items \in Nat
  BY IteratorAssumption DEF Iterators!Assumptions
<1>2. iters = [i \in Iter |-> [on |-> FALSE, context |-> "NULL", hint |-> 0, state |-> Junk]]
      /\ context = 0 /\ given = << >>
  BY DEF Iterators!Init, Iterators!None
<1>3. iters \in [Iter -> AnIterator]
  BY <1>1, <1>2 DEF AnIterator
<1>4. \A i \in Iter : Walking(iters[i])
  BY <1>2 DEF Walking
<1>5. given = [k \in 1 .. context |-> k]
  <2>1. 1 .. 0 = {}
    OBVIOUS
  <2> QED BY <1>2, <2>1
<1>6. context \in 0 .. Items
  BY <1>1, <1>2
<1> QED BY <1>3, <1>4, <1>5, <1>6, Zenon DEF IteratorInv

LEMMA IteratorInvNext == IteratorInv /\ [Iterators!Next]_iterVars => IteratorInv'
<1> SUFFICES ASSUME IteratorInv, [Iterators!Next]_iterVars PROVE IteratorInv'
  OBVIOUS
<1>1. Items \in Nat /\ context \in 0 .. Items /\ given = [k \in 1 .. context |-> k]
  BY IteratorAssumption DEF Iterators!Assumptions, IteratorInv
<1>2. \A i \in Iter : iters[i] \in AnIterator /\ Walking(iters[i])
  BY DEF IteratorInv
<1>3. ASSUME NEW i \in Iter, NEW it, it \in AnIterator, Walking(it),
             iters' = [iters EXCEPT ![i] = it], UNCHANGED <<context, given>>
      PROVE  IteratorInv'
  BY <1>1, <1>3, IteratorBecomes DEF IteratorInv
<1>4. ASSUME NEW i \in Iter, Iterators!FromState(i)
      PROVE  IteratorInv'
  <2>1. PICK it : it = [on |-> TRUE, context |-> "NULL", hint |-> Items, state |-> 0]
    OBVIOUS
  <2>2. it \in AnIterator /\ Walking(it)
    BY <1>1, <2>1 DEF AnIterator, Walking
  <2> QED BY <1>3, <1>4, <2>1, <2>2 DEF Iterators!FromState
<1>5. ASSUME NEW i \in Iter, Iterators!FromCallback(i, "context")
      PROVE  IteratorInv'
  <2>1. PICK it : it = [on |-> TRUE, context |-> "context", hint |-> 0, state |-> Junk]
    OBVIOUS
  <2>2. it \in AnIterator /\ Walking(it)
    BY <1>1, <2>1 DEF AnIterator, Walking
  <2> QED BY <1>3, <1>5, <2>1, <2>2 DEF Iterators!FromCallback
<1>6. ASSUME NEW i \in Iter, Iterators!SetSizeHint(i)
      PROVE  IteratorInv'
  <2>1. PICK it : it = [iters[i] EXCEPT !.hint = Items - context]
    OBVIOUS
  <2>2. it \in AnIterator /\ it.context # "NULL"
    BY <1>1, <1>2, <1>6, <2>1 DEF AnIterator, Iterators!SetSizeHint
  <2>3. Walking(it)
    BY <2>2 DEF Walking
  <2>4. iters' = [iters EXCEPT ![i] = it] /\ UNCHANGED <<context, given>>
    BY <1>6, <2>1 DEF Iterators!SetSizeHint
  <2> QED BY <1>3, <2>2, <2>3, <2>4
<1>7. ASSUME NEW i \in Iter, NEW j \in Iter, Iterators!Copy(i, j)
      PROVE  IteratorInv'
  BY <1>2, <1>3, <1>7 DEF Iterators!Copy
<1>8. ASSUME NEW i \in Iter, Iterators!NextByContext(i)
      PROVE  IteratorInv'
  <2>1. PICK it, item : /\ item = Iterators!Item(context)
                        /\ it = [iters[i] EXCEPT !.hint = Iterators!HintAfter(@, item)]
    OBVIOUS
  <2>2. iters' = [iters EXCEPT ![i] = it]
    BY <1>8, <2>1 DEF Iterators!NextByContext
  <2>3. \A h \in 0 .. Items : Iterators!HintAfter(h, item) \in 0 .. Items
    BY <1>1 DEF Iterators!HintAfter
  <2>4. it \in AnIterator /\ it.context # "NULL"
    BY <1>2, <1>8, <2>1, <2>3 DEF AnIterator, Iterators!NextByContext
  <2>5. Walking(it)
    BY <2>4 DEF Walking
  <2>6. context' \in 0 .. Items /\ given' = [k \in 1 .. context' |-> k]
    <3>1. CASE context < Items
      <4>1. context' = context + 1 /\ given' = Append(given, context + 1)
        BY <1>1, <1>8, <3>1
        DEF Iterators!NextByContext, Iterators!Item, Iterators!Advanced
      <4>2. given \in Seq(Nat) /\ Len(given) = context
        BY <1>1
      <4>3. given' = [k \in 1 .. context + 1 |-> k]
        BY <1>1, <4>1, <4>2
      <4> QED BY <1>1, <3>1, <4>1, <4>3
    <3>2. CASE ~ (context < Items)
      BY <1>1, <1>8, <3>2
      DEF Iterators!NextByContext, Iterators!Item, Iterators!Advanced
    <3> QED BY <3>1, <3>2
  <2> QED BY <2>2, <2>4, <2>5, <2>6, IteratorBecomes DEF IteratorInv
<1>9. ASSUME NEW i \in Iter, Iterators!NextByState(i)
      PROVE  IteratorInv'
  <2>1. PICK s, h : s = iters[i].state /\ h = iters[i].hint
    OBVIOUS
  <2>2. s \in 0 .. Items /\ h = Items - s /\ h \in 0 .. Items
    BY <1>2, <1>9, <2>1 DEF Walking, AnIterator, Iterators!NextByState
  <2>3. PICK it : it = [iters[i] EXCEPT !.state = Iterators!Advanced(s),
                          !.hint = Iterators!HintAfter(h, Iterators!Item(s))]
    OBVIOUS
  <2>4. iters' = [iters EXCEPT ![i] = it] /\ UNCHANGED <<context, given>>
    BY <1>9, <2>1, <2>3 DEF Iterators!NextByState
  <2>5. PICK t, g : t = Iterators!Advanced(s) /\ g = Iterators!HintAfter(h, Iterators!Item(s))
    OBVIOUS
  <2>6. t \in 0 .. Items /\ g \in 0 .. Items /\ g = Items - t
    BY <1>1, <2>2, <2>5 DEF Iterators!Advanced, Iterators!HintAfter, Iterators!Item
  <2>7. it \in AnIterator /\ it.state = t /\ it.hint = g
    BY <1>2, <2>3, <2>5, <2>6 DEF AnIterator
  <2>8. Walking(it)
    BY <2>6, <2>7 DEF Walking
  <2> QED BY <1>3, <2>4, <2>7, <2>8
<1>10. CASE UNCHANGED iterVars
  BY <1>10 DEF iterVars, IteratorInv
<1> QED BY <1>4, <1>5, <1>6, <1>7, <1>8, <1>9, <1>10 DEF Iterators!Next

LEMMA IteratorInvImplies == IteratorInv => Iterators!CopiesWalkRight
BY DEF IteratorInv, Walking, Iterators!CopiesWalkRight, Iterators!StateIsOwn,
       Iterators!ContextIsShared

(***************************************************************************)
(* The file helpers.  What the reader has read is a prefix of the file if  *)
(* that had one content during the call; what the writer has written is    *)
(* the file.                                                               *)
(***************************************************************************)
FileByte == {"a", "b"}

PathInv == path.bytes \in Seq(FileByte)

WriterInv ==
  /\ writer = [at |-> writer.at, open |-> writer.open, data |-> writer.data,
               done |-> writer.done, status |-> writer.status]
  /\ writer.at \in {"write", "close"} =>
       /\ writer.data \in Seq(FileByte) /\ writer.done \in 0 .. Len(writer.data)
       /\ path = Files!FileOf(SubSeq(writer.data, 1, writer.done))
  /\ Files!WriteIsWhole

\* The content b and what a call has of it, which knows that it has len bytes.
Reads(r, b) == r.len = Len(b) /\ r.data = SubSeq(b, 1, Len(r.data))

ReaderShape(r) ==
  r = [at |-> r.at, len |-> r.len, open |-> r.open, held |-> r.held, data |-> r.data,
       status |-> r.status, out |-> r.out, out_len |-> r.out_len]

\* A call at work has memory once it was allocated, and handed out nothing.
ReaderHolds(r) ==
  /\ r.at = "open" => r.open = FALSE
  /\ r.at \in {"open", "alloc"} => r.held = FALSE
  /\ r.at \in {"read", "close"} => r.held = TRUE
  /\ r.at # "idle" => r.out = "NULL" /\ r.out_len = 0

ReaderInv ==
  /\ reader.at \in {"idle", "open", "alloc", "read", "close"}
  /\ ReaderShape(reader) /\ ReaderHolds(reader)
  /\ reader.at # "idle" =>
       /\ path.bytes \in seen
       /\ reader.data \in Seq(FileByte) /\ reader.len \in Nat
       /\ Len(reader.data) <= reader.len
       /\ \A b \in seen : seen = {b} => Reads(reader, b)
       /\ reader.at = "close" => Len(reader.data) = reader.len
  /\ Files!AllOrNothing /\ Files!ReadsAQuietFile

FileInv == PathInv /\ WriterInv /\ ReaderInv

LEMMA FileTextIs == ASSUME NEW t \in FileTexts PROVE t \in Seq(FileByte)
BY FileAssumption DEF Files!Assumptions, Files!TextsAssumption, FileByte

LEMMA WholePrefix ==
  ASSUME NEW T, NEW q \in Seq(T)
  PROVE  SubSeq(q, 1, Len(q)) = q
<1> PICK s : s = SubSeq(q, 1, Len(q))
  OBVIOUS
<1>1. Len(q) \in 0 .. Len(q)
  OBVIOUS
<1>2. s \in Seq(T) /\ Len(s) = Len(q) /\ \A i \in 1 .. Len(q) : s[i] = q[i]
  BY <1>1, PrefixIs
<1> QED BY <1>2, SeqEqual

\* A prefix followed by what comes next.
LEMMA PrefixAndNext ==
  ASSUME NEW T, NEW q \in Seq(T), NEW p \in Nat, NEW n \in Nat \ {0}, p + n <= Len(q)
  PROVE  SubSeq(q, 1, p) \o SubSeq(q, p + 1, p + n) = SubSeq(q, 1, p + n)
<1> PICK r : r = SubSeq(q, p + 1, p + n)
  OBVIOUS
<1>1. p + 1 \in 1 .. Len(q) + 1 /\ p + n \in (p + 1) - 1 .. Len(q)
      /\ (p + n) - (p + 1) + 1 = n
  OBVIOUS
<1>2. r \in Seq(T) /\ Len(r) = n
      /\ \A k \in 1 .. n : r[k] = q[(p + 1) + k - 1]
  BY <1>1, SubSeqProperties
<1>3. \A k \in 1 .. n : r[k] = q[p + k]
  <2>1. \A k \in 1 .. n : (p + 1) + k - 1 = p + k
    OBVIOUS
  <2> QED BY <1>2, <2>1
<1> QED BY <1>2, <1>3, PrefixGrows

LEMMA FileInvInit == Files!Init => FileInv
<1> SUFFICES ASSUME Files!Init PROVE FileInv
  OBVIOUS
<1>1. path.bytes = << >> /\ reader = Files!IdleReader /\ writer = Files!IdleWriter
  BY DEF Files!Init, Files!Absent, Files!Directory, Files!FileOf
<1>2. PathInv
  BY <1>1 DEF PathInv
<1>3. WriterInv
  BY <1>1 DEF WriterInv, Files!IdleWriter, Files!WriteIsWhole
<1>4. ReaderInv
  BY <1>1 DEF ReaderInv, ReaderShape, ReaderHolds, Files!IdleReader, Files!AllOrNothing,
              Files!ReadsAQuietFile
<1> QED BY <1>2, <1>3, <1>4 DEF FileInv

\* A call that has cleaned up and returns something other than OK.
LEMMA ReaderReturns ==
  ASSUME NEW status, status # "OK", NEW r, ReaderShape(r),
         r.open = FALSE, r.held = FALSE, r.out = "NULL", r.out_len = 0,
         reader' = Files!Returned(r, status)
  PROVE  ReaderInv'
<1>1. reader' = [at |-> "idle", len |-> 0, open |-> FALSE, held |-> FALSE, data |-> << >>,
                 status |-> status, out |-> "NULL", out_len |-> 0]
  BY DEF ReaderShape, Files!Returned
<1> QED BY <1>1 DEF ReaderInv, ReaderShape, ReaderHolds, Files!AllOrNothing,
                    Files!ReadsAQuietFile

\* The file changes under the reader, or with nobody reading.
LEMMA ReaderWitnesses ==
  ASSUME ReaderInv, Files!Witness, UNCHANGED reader
  PROVE  ReaderInv'
<1>1. CASE reader.at = "idle"
  BY <1>1 DEF Files!Witness, ReaderInv, Files!AllOrNothing, Files!ReadsAQuietFile
<1>2. CASE reader.at # "idle"
  <2>1. seen' = seen \cup {path'.bytes} /\ path.bytes \in seen
    BY <1>2 DEF Files!Witness, ReaderInv
  <2>2. ASSUME NEW b \in seen', seen' = {b}
        PROVE  Reads(reader', b)
    <3>1. b \in seen /\ seen = {b}
      BY <2>1, <2>2
    <3> QED BY <1>2, <3>1 DEF ReaderInv, Reads
  <2>3. Files!AllOrNothing' /\ Files!ReadsAQuietFile'
    BY <1>2 DEF Files!AllOrNothing, Files!ReadsAQuietFile
  <2> QED BY <1>2, <2>1, <2>2, <2>3 DEF ReaderInv
<1> QED BY <1>1, <1>2

\* The reader has opened the file, has memory or has read all of it.
LEMMA ReaderGoesOn ==
  ASSUME ReaderInv, reader.at # "idle", NEW at, at \in {"alloc", "read", "close"},
         at = "close" => Len(reader.data) = reader.len,
         NEW o, NEW h, h = (at # "alloc"),
         reader' = [reader EXCEPT !.at = at, !.open = o, !.held = h],
         UNCHANGED <<path, seen>>
  PROVE  ReaderInv'
<1>1. /\ reader'.at = at /\ reader'.data = reader.data /\ reader'.len = reader.len
      /\ ReaderShape(reader') /\ ReaderHolds(reader')
  <2>1. /\ reader' = [at |-> at, len |-> reader.len, open |-> o, held |-> h,
                     data |-> reader.data, status |-> reader.status,
                     out |-> reader.out, out_len |-> reader.out_len]
        /\ reader.out = "NULL" /\ reader.out_len = 0
    BY DEF ReaderInv, ReaderShape, ReaderHolds
  <2>2. (at = "alloc" => h = FALSE) /\ (at # "alloc" => h = TRUE)
    OBVIOUS
  <2> QED BY <2>1, <2>2 DEF ReaderShape, ReaderHolds
<1>2. \A b \in seen : seen = {b} => Reads(reader', b)
  BY <1>1 DEF ReaderInv, Reads
<1>3. Files!AllOrNothing' /\ Files!ReadsAQuietFile'
  BY <1>1 DEF Files!AllOrNothing, Files!ReadsAQuietFile
<1> QED BY <1>1, <1>2, <1>3 DEF ReaderInv

LEMMA MeasureKeepsInv ==
  ASSUME FileInv, Files!Measure
  PROVE  ReaderInv'
<1>1. CASE Files!SizeStatus = "OK"
           /\ reader' = [Files!IdleReader EXCEPT !.at = "open", !.len = Len(path.bytes)]
  <2>1. PICK b : b = path.bytes /\ b \in Seq(FileByte) /\ Len(b) \in Nat
    BY DEF FileInv, PathInv
  <2>2. reader' = [at |-> "open", len |-> Len(b), open |-> FALSE, held |-> FALSE,
                   data |-> << >>, status |-> "none", out |-> "NULL", out_len |-> 0]
    BY <1>1, <2>1 DEF Files!IdleReader
  <2>3. seen' = {b} /\ path'.bytes = b
    BY <2>1 DEF Files!Measure
  <2>4. SubSeq(b, 1, 0) = << >>
    BY <2>1, SubSeqEmpty
  <2>5. Len(<< >>) = 0 /\ << >> \in Seq(FileByte)
    OBVIOUS
  <2>6. Reads(reader', b)
    BY <2>2, <2>4, <2>5 DEF Reads
  <2>7. Files!AllOrNothing' /\ Files!ReadsAQuietFile'
    BY <2>2 DEF Files!AllOrNothing, Files!ReadsAQuietFile
  <2>8. ReaderShape(reader') /\ ReaderHolds(reader')
    BY <2>2 DEF ReaderShape, ReaderHolds
  <2> QED BY <2>1, <2>2, <2>3, <2>5, <2>6, <2>7, <2>8 DEF ReaderInv
<1>2. ASSUME NEW status, status # "OK",
             reader' = Files!Returned(Files!IdleReader, status)
      PROVE  ReaderInv'
  <2>1. PICK r : r = Files!IdleReader
    OBVIOUS
  <2>2. ReaderShape(r) /\ r.open = FALSE /\ r.held = FALSE /\ r.out = "NULL" /\ r.out_len = 0
    BY <2>1 DEF Files!IdleReader, ReaderShape
  <2> QED BY <1>2, <2>1, <2>2, ReaderReturns
<1> QED BY <1>1, <1>2 DEF Files!Measure

LEMMA ReadKeepsInv ==
  ASSUME FileInv, NEW k \in Nat, Files!Read(k)
  PROVE  ReaderInv'
<1>1. PICK d, n, b : /\ d = reader.data /\ n = Len(d) /\ b = path.bytes
  OBVIOUS
<1>2. /\ d \in Seq(FileByte) /\ b \in Seq(FileByte) /\ n \in Nat /\ reader.len \in Nat
      /\ k \in Nat \ {0} /\ n + k <= reader.len /\ n + k <= Len(b) /\ b \in seen
      /\ reader.at = "read"
  BY <1>1 DEF Files!Read, FileInv, ReaderInv, PathInv
<1>3. PICK e, r : r = SubSeq(b, n + 1, n + k) /\ e = d \o r
  OBVIOUS
<1>4. reader' = [reader EXCEPT !.data = e] /\ UNCHANGED <<path, seen>>
  BY <1>1, <1>3 DEF Files!Read
<1>5. r \in Seq(FileByte) /\ Len(r) = k
  <2>1. n + 1 \in 1 .. Len(b) + 1 /\ n + k \in (n + 1) - 1 .. Len(b)
        /\ (n + k) - (n + 1) + 1 = k
    BY <1>2
  <2>2. PICK f, l : f = n + 1 /\ l = n + k
    OBVIOUS
  <2>3. /\ b \in Seq(FileByte) /\ f \in 1 .. Len(b) + 1 /\ l \in f - 1 .. Len(b)
        /\ l - f + 1 = k
    BY <1>2, <2>1, <2>2
  <2>4. SubSeq(b, f, l) \in Seq(FileByte) /\ Len(SubSeq(b, f, l)) = l - f + 1
    BY <2>3, SubSeqProperties
  <2> QED BY <1>3, <2>2, <2>3, <2>4
<1>6. e \in Seq(FileByte) /\ Len(e) = n + k
  <2>1. d \o r \in Seq(FileByte) /\ Len(d \o r) = Len(d) + Len(r)
    BY <1>2, <1>5, ConcatProperties
  <2> QED BY <1>1, <1>3, <1>5, <2>1
<1>7. /\ reader'.at = "read" /\ reader'.data = e /\ reader'.len = reader.len
      /\ ReaderShape(reader') /\ ReaderHolds(reader')
  BY <1>2, <1>4 DEF FileInv, ReaderInv, ReaderShape, ReaderHolds
<1>8. ASSUME NEW c \in seen, seen = {c}
      PROVE  Reads(reader', c)
  <2>1. c = b /\ reader.len = Len(c) /\ d = SubSeq(b, 1, n)
    BY <1>1, <1>2, <1>8 DEF FileInv, ReaderInv, Reads
  <2>2. e = SubSeq(b, 1, n + k)
    BY <1>2, <1>3, <2>1, PrefixAndNext
  <2> QED BY <1>6, <1>7, <2>1, <2>2 DEF Reads
<1>9. Files!AllOrNothing' /\ Files!ReadsAQuietFile'
  BY <1>7 DEF Files!AllOrNothing, Files!ReadsAQuietFile
<1> QED BY <1>1, <1>2, <1>4, <1>6, <1>7, <1>8, <1>9 DEF ReaderInv

LEMMA CloseKeepsInv ==
  ASSUME FileInv, Files!Close
  PROVE  ReaderInv'
<1>1. /\ reader.data \in Seq(FileByte) /\ Len(reader.data) = reader.len
      /\ \A b \in seen : seen = {b} => Reads(reader, b)
      /\ path.bytes \in seen /\ path.bytes \in Seq(FileByte)
      /\ ReaderShape(reader) /\ reader.held = TRUE
      /\ reader.out = "NULL" /\ reader.out_len = 0
  BY DEF Files!Close, FileInv, ReaderInv, ReaderHolds, PathInv
<1>2. CASE reader' = Files!HandedOver(Files!Closed(reader))
  <2>1. reader' = [at |-> "idle", len |-> 0, open |-> FALSE, held |-> TRUE,
                   data |-> << >>, status |-> "OK", out |-> reader.data,
                   out_len |-> reader.len]
    BY <1>1, <1>2 DEF ReaderShape, Files!HandedOver, Files!Returned, Files!Closed
  <2>2. ASSUME NEW b \in seen, seen = {b}
        PROVE  reader.data = b
    <3>1. b = path.bytes /\ reader.data = SubSeq(b, 1, Len(b))
      BY <1>1, <2>2 DEF Reads
    <3> QED BY <1>1, <3>1, WholePrefix
  <2>3. seen' = seen
    BY DEF Files!Close
  <2>4. Files!AllOrNothing' /\ Files!ReadsAQuietFile'
    BY <1>1, <2>1, <2>2, <2>3 DEF Files!AllOrNothing, Files!ReadsAQuietFile
  <2>5. ReaderShape(reader') /\ ReaderHolds(reader')
    BY <2>1 DEF ReaderShape, ReaderHolds
  <2> QED BY <2>1, <2>4, <2>5 DEF ReaderInv
<1>3. CASE reader' = Files!Returned(Files!GivenBack(Files!Closed(reader)), "IO")
  <2>1. PICK r : r = Files!GivenBack(Files!Closed(reader))
    OBVIOUS
  <2>2. ReaderShape(r) /\ r.open = FALSE /\ r.held = FALSE /\ r.out = "NULL" /\ r.out_len = 0
    BY <1>1, <2>1 DEF ReaderShape, Files!GivenBack, Files!Closed
  <2> QED BY <1>3, <2>1, <2>2, ReaderReturns
<1> QED BY <1>2, <1>3 DEF Files!Close

\* The steps of the reader leave the writer and the path alone.
LEMMA ReaderSteps ==
  ASSUME FileInv, UNCHANGED <<path, writer>>, ReaderInv'
  PROVE  FileInv'
BY DEF FileInv, PathInv, WriterInv, Files!WriteIsWhole

\* A write that has closed its file and fails.
LEMMA WriterStops ==
  ASSUME WriterInv, NEW w, w \in {writer, Files!Closed(writer)}, ~ w.open,
         Files!WriteFails(w)
  PROVE  WriterInv'
<1>1. w = [at |-> w.at, open |-> w.open, data |-> w.data, done |-> w.done,
           status |-> w.status]
  BY DEF WriterInv, Files!Closed
<1>2. writer' = [at |-> "idle", open |-> w.open, data |-> << >>, done |-> 0,
                 status |-> "IO"]
  BY <1>1 DEF Files!WriteFails
<1> QED BY <1>2 DEF WriterInv, Files!WriteIsWhole

LEMMA WriterCloses ==
  ASSUME WriterInv
  PROVE  ~ Files!Closed(writer).open
BY DEF WriterInv, Files!Closed

LEMMA WriteOpenKeepsInv ==
  ASSUME FileInv, NEW t \in FileTexts, Files!WriteOpen(t)
  PROVE  FileInv'
<1>1. ReaderInv'
  BY ReaderWitnesses DEF FileInv, Files!WriteOpen
<1>2. CASE path' = Files!FileOf(<< >>)
           /\ writer' = [Files!IdleWriter EXCEPT !.at = "write", !.open = TRUE, !.data = t]
  <2>1. t \in Seq(FileByte) /\ Len(t) \in Nat /\ SubSeq(t, 1, 0) = << >>
    BY FileTextIs, SubSeqEmpty
  <2>2. path'.bytes = << >> /\ << >> \in Seq(FileByte)
    BY <1>2 DEF Files!FileOf
  <2>3. WriterInv'
    <3>1. 0 \in 0 .. Len(t)
      BY <2>1
    <3>2. path' = Files!FileOf(SubSeq(t, 1, 0))
      BY <1>2, <2>1, Zenon
    <3>3. /\ writer'.at = "write" /\ writer'.data = t /\ writer'.done = 0
          /\ writer' = [at |-> writer'.at, open |-> writer'.open, data |-> writer'.data,
                        done |-> writer'.done, status |-> writer'.status]
      BY <1>2 DEF Files!IdleWriter
    <3> QED BY <2>1, <3>1, <3>2, <3>3 DEF WriterInv, Files!WriteIsWhole
  <2> QED BY <1>1, <2>2, <2>3 DEF FileInv, PathInv
<1>3. CASE path' = path /\ Files!WriteFails(writer)
  <2>1. ~ writer.open
    BY DEF FileInv, WriterInv, Files!WriteOpen, Files!WriteIsWhole
  <2>2. WriterInv'
    BY <1>3, <2>1, WriterStops DEF FileInv
  <2> QED BY <1>1, <1>3, <2>2 DEF FileInv, PathInv
<1> QED BY <1>2, <1>3 DEF Files!WriteOpen

LEMMA WriteLandsKeepsInv ==
  ASSUME FileInv, NEW k \in Nat, Files!WriteLands(k)
  PROVE  FileInv'
<1>1. ReaderInv'
  BY ReaderWitnesses DEF FileInv, Files!WriteLands
<1>2. PICK d, n : d = writer.data /\ n = writer.done
  OBVIOUS
<1>3. /\ d \in Seq(FileByte) /\ n \in Nat /\ n + k <= Len(d) /\ k \in Nat \ {0}
      /\ path = Files!FileOf(SubSeq(d, 1, n)) /\ writer.at \in {"write", "close"}
  BY <1>2 DEF Files!WriteLands, FileInv, WriterInv
<1>4. SubSeq(d, 1, n) \o SubSeq(d, n + 1, n + k) = SubSeq(d, 1, n + k)
  BY <1>3, PrefixAndNext
<1>5. path' = Files!FileOf(SubSeq(d, 1, n + k))
  BY <1>2, <1>3, <1>4 DEF Files!WriteLands, Files!Land, Files!FileOf
<1>6. n + k \in 0 .. Len(d)
  BY <1>3
<1>7. SubSeq(d, 1, n + k) \in Seq(FileByte)
  BY <1>3, <1>6, PrefixIs
<1>8. /\ writer'.at = writer.at /\ writer'.data = d /\ writer'.done = n + k
      /\ writer' = [at |-> writer'.at, open |-> writer'.open, data |-> writer'.data,
                    done |-> writer'.done, status |-> writer'.status]
  BY <1>2 DEF Files!WriteLands, FileInv, WriterInv
<1>9. PathInv'
  BY <1>5, <1>7 DEF PathInv, Files!FileOf
<1>10. WriterInv'
  BY <1>3, <1>5, <1>6, <1>8 DEF WriterInv, Files!WriteIsWhole
<1> QED BY <1>1, <1>9, <1>10 DEF FileInv

\* The steps of the writer that leave the file alone.
LEMMA WriterSteps ==
  ASSUME FileInv, UNCHANGED <<path, reader, seen>>, WriterInv'
  PROVE  FileInv'
BY DEF FileInv, PathInv, ReaderInv, Reads, Files!AllOrNothing, Files!ReadsAQuietFile

LEMMA FileInvNext == FileInv /\ [Files!Next]_fileVars => FileInv'
<1> SUFFICES ASSUME FileInv, [Files!Next]_fileVars PROVE FileInv'
  OBVIOUS
<1>1. CASE Files!Measure
  BY <1>1, MeasureKeepsInv, ReaderSteps DEF Files!Measure
<1>2. CASE Files!Open
  <2>1. CASE reader' = [reader EXCEPT !.at = "alloc", !.open = TRUE]
    <3>1. reader' = [reader EXCEPT !.at = "alloc", !.open = TRUE, !.held = FALSE]
      BY <1>2, <2>1 DEF FileInv, ReaderInv, ReaderShape, ReaderHolds, Files!Open
    <3> QED BY <1>2, <3>1, ReaderGoesOn, ReaderSteps DEF Files!Open, FileInv
  <2>2. /\ ReaderShape(reader) /\ reader.open = FALSE /\ reader.held = FALSE
        /\ reader.out = "NULL" /\ reader.out_len = 0
    BY <1>2 DEF FileInv, ReaderInv, ReaderHolds, Files!Open
  <2> QED BY <1>2, <2>1, <2>2, ReaderReturns, ReaderSteps DEF Files!Open
<1>3. CASE Files!Alloc
  <2>1. CASE reader' = [reader EXCEPT !.at = "read", !.held = TRUE]
    <3>1. reader' = [reader EXCEPT !.at = "read", !.open = reader.open, !.held = TRUE]
      BY <2>1 DEF FileInv, ReaderInv, ReaderShape
    <3> QED BY <1>3, <3>1, ReaderGoesOn, ReaderSteps DEF Files!Alloc, FileInv
  <2>2. PICK r : r = Files!Closed(reader)
    OBVIOUS
  <2>3. ReaderShape(r) /\ r.open = FALSE /\ r.held = FALSE /\ r.out = "NULL" /\ r.out_len = 0
    BY <1>3, <2>2
    DEF FileInv, ReaderInv, ReaderShape, ReaderHolds, Files!Alloc, Files!Closed
  <2> QED BY <1>3, <2>1, <2>2, <2>3, ReaderReturns, ReaderSteps DEF Files!Alloc
<1>4. CASE Files!ReadStops
  <2>1. CASE Len(reader.data) = reader.len /\ reader' = [reader EXCEPT !.at = "close"]
    <3>1. reader' = [reader EXCEPT !.at = "close", !.open = reader.open, !.held = TRUE]
      BY <1>4, <2>1 DEF FileInv, ReaderInv, ReaderShape, ReaderHolds, Files!ReadStops
    <3> QED BY <1>4, <2>1, <3>1, ReaderGoesOn, ReaderSteps DEF Files!ReadStops, FileInv
  <2>2. PICK r : r = Files!Closed(Files!GivenBack(reader))
    OBVIOUS
  <2>3. ReaderShape(r) /\ r.open = FALSE /\ r.held = FALSE /\ r.out = "NULL" /\ r.out_len = 0
    BY <1>4, <2>2 DEF FileInv, ReaderInv, ReaderShape, ReaderHolds, Files!ReadStops,
                      Files!Closed, Files!GivenBack
  <2> QED BY <1>4, <2>1, <2>2, <2>3, ReaderReturns, ReaderSteps DEF Files!ReadStops
<1>5. CASE Files!Close
  BY <1>5, CloseKeepsInv, ReaderSteps DEF Files!Close
<1>6. ASSUME NEW k \in 1 .. FileMax, Files!Read(k) \/ Files!WriteLands(k)
      PROVE  FileInv'
  <2>1. k \in Nat
    OBVIOUS
  <2>2. CASE Files!Read(k)
    BY <2>1, <2>2, ReadKeepsInv, ReaderSteps DEF Files!Read
  <2> QED BY <1>6, <2>1, <2>2, WriteLandsKeepsInv
<1>7. ASSUME NEW t \in FileTexts, Files!WriteOpen(t)
      PROVE  FileInv'
  BY <1>7, WriteOpenKeepsInv
<1>8. CASE Files!WriteTaken
  <2>1. CASE writer' = [writer EXCEPT !.at = "close"]
    <3>1. WriterInv'
      BY <1>8, <2>1 DEF Files!WriteTaken, FileInv, WriterInv, Files!WriteIsWhole
    <3> QED BY <1>8, <3>1, WriterSteps DEF Files!WriteTaken
  <2>2. CASE Files!WriteFails(Files!Closed(writer))
    <3>1. WriterInv'
      BY <2>2, WriterStops, WriterCloses DEF FileInv
    <3> QED BY <1>8, <3>1, WriterSteps DEF Files!WriteTaken
  <2> QED BY <1>8, <2>1, <2>2 DEF Files!WriteTaken
<1>9. CASE Files!WriteClose
  <2>1. CASE writer.done = Len(writer.data)
             /\ writer' = [Files!Closed(writer) EXCEPT !.at = "idle", !.status = "OK"]
    <3>1. path = Files!FileOf(writer.data)
      BY <1>9, <2>1, WholePrefix DEF Files!WriteClose, FileInv, WriterInv
    <3>2. WriterInv'
      BY <1>9, <2>1, <3>1
      DEF Files!WriteClose, Files!Closed, FileInv, WriterInv, Files!WriteIsWhole
    <3> QED BY <1>9, <3>2, WriterSteps DEF Files!WriteClose
  <2>2. CASE Files!WriteFails(Files!Closed(writer))
    <3>1. WriterInv'
      BY <2>2, WriterStops, WriterCloses DEF FileInv
    <3> QED BY <1>9, <3>1, WriterSteps DEF Files!WriteClose
  <2> QED BY <1>9, <2>1, <2>2 DEF Files!WriteClose
<1>10. CASE Files!Replace
  <2>1. ReaderInv'
    BY <1>10, ReaderWitnesses DEF FileInv, Files!Replace
  <2>2. WriterInv'
    BY <1>10 DEF Files!Replace, WriterInv, Files!WriteIsWhole, Files!IdleWriter
  <2>3. PathInv'
    <3>1. path'.bytes = << >>
      BY <1>10 DEF Files!Replace, Files!Absent, Files!Directory
    <3>2. << >> \in Seq(FileByte)
      OBVIOUS
    <3> QED BY <3>1, <3>2 DEF PathInv
  <2> QED BY <2>1, <2>2, <2>3 DEF FileInv
<1>11. CASE UNCHANGED fileVars
  BY <1>11 DEF fileVars, FileInv, PathInv, WriterInv, ReaderInv, Reads,
               Files!WriteIsWhole, Files!AllOrNothing, Files!ReadsAQuietFile
<1> QED BY <1>1, <1>2, <1>3, <1>4, <1>5, <1>6, <1>7, <1>8, <1>9, <1>10, <1>11
        DEF Files!Next

LEMMA FileInvImplies == FileInv => Files!StatusIsTrue
BY DEF FileInv, WriterInv, ReaderInv, Files!StatusIsTrue

(***************************************************************************)
(* The string.  First the capacity the loop of k4c_string_capacity_grow    *)
(* ends with, which holds what was asked for.                              *)
(***************************************************************************)
Half(c) == IF c \div 2 = 0 THEN 1 ELSE c \div 2

\* One turn of the loop at c, given the rest.
Turn(f, c, least) ==
  IF c >= least THEN c
  ELSE IF AddOverflows(c, Half(c)) THEN least ELSE f[c + Half(c)]

Turns(f, n, least) == f = [c \in n .. SizeMax |-> Turn(f, c, least)]

\* The loop ends: there is a function that satisfies its recursion.
LEMMA LoopIsDefined ==
  ASSUME NEW least
  PROVE  \E f : Turns(f, 0, least)
<1>1. SizeMax \in Nat
  BY SizeMaxAssumption
<1> DEFINE T == {n \in 0 .. SizeMax + 1 : \E f : Turns(f, n, least)}
<1>2. SizeMax + 1 \in T
  <2>1. (SizeMax + 1) .. SizeMax = {}
    BY <1>1
  <2>2. Turns([c \in (SizeMax + 1) .. SizeMax |-> c], SizeMax + 1, least)
    BY <2>1 DEF Turns
  <2> QED BY <1>1, <2>2
<1>3. T \subseteq Nat
  OBVIOUS
<1>4. PICK m \in T : \A k \in T : m <= k
  BY <1>2, <1>3, Least
<1>5. m \in 0 .. SizeMax + 1 /\ \E f : Turns(f, m, least)
  OBVIOUS
<1>6. m - 1 \notin T
  BY <1>4, <1>5
<1>7. ASSUME m # 0
      PROVE  \E g : Turns(g, m - 1, least)
  <2>1. PICK f : Turns(f, m, least)
    BY <1>5
  <2>2. PICK g : g = [c \in m - 1 .. SizeMax |-> Turn(f, c, least)]
    OBVIOUS
  <2>3. m - 1 \in Nat /\ m - 1 <= SizeMax
    BY <1>1, <1>5, <1>7
  <2>4. \A c \in m .. SizeMax : c \in m - 1 .. SizeMax /\ g[c] = f[c]
    <3>1. \A c \in m .. SizeMax : c \in m - 1 .. SizeMax
      BY <1>1, <1>5, <2>3
    <3>2. \A c \in m .. SizeMax : f[c] = Turn(f, c, least)
      BY <2>1, Zenon DEF Turns
    <3>3. \A c \in m - 1 .. SizeMax : g[c] = Turn(f, c, least)
      BY <2>2, Zenon
    <3> QED BY <3>1, <3>2, <3>3
  <2>5. ASSUME NEW c \in m - 1 .. SizeMax
        PROVE  Turn(f, c, least) = Turn(g, c, least)
    <3>1. ~ AddOverflows(c, Half(c)) => c + Half(c) \in m .. SizeMax
      BY <1>1, <1>5, <2>3 DEF AddOverflows, Half
    <3> QED BY <2>4, <3>1 DEF Turn
  <2>6. Turns(g, m - 1, least)
    BY <2>2, <2>5 DEF Turns
  <2> QED BY <2>6
<1>8. m = 0
  <2>1. m # 0 => m - 1 \in 0 .. SizeMax + 1
    BY <1>1, <1>5
  <2> QED BY <1>6, <1>7, <2>1
<1> QED BY <1>5, <1>8

\* From whatever capacity, the loop ends with one that is at least the least.
LEMMA GrowthSuffices ==
  ASSUME NEW least \in 1 .. SizeMax, NEW capacity \in 1 .. SizeMax
  PROVE  CapacityGrow(capacity, least) \in least .. SizeMax
<1>1. SizeMax \in Nat
  BY SizeMaxAssumption
<1> DEFINE grown == CHOOSE f : f = [k \in 0 .. SizeMax |->
             IF k >= least THEN k
             ELSE IF AddOverflows(k, Half(k)) THEN least ELSE f[k + Half(k)]]
<1>2. CapacityGrow(capacity, least) = grown[capacity]
  BY DEF CapacityGrow, Half
<1>3. grown = [k \in 0 .. SizeMax |->
             IF k >= least THEN k
             ELSE IF AddOverflows(k, Half(k)) THEN least ELSE grown[k + Half(k)]]
  <2>1. \E f : f = [k \in 0 .. SizeMax |->
             IF k >= least THEN k
             ELSE IF AddOverflows(k, Half(k)) THEN least ELSE f[k + Half(k)]]
    BY LoopIsDefined DEF Turns, Turn
  <2> QED BY <2>1
<1> HIDE DEF grown
<1>4. \A k \in 0 .. SizeMax : grown[k] = Turn(grown, k, least)
  BY <1>3 DEF Turn
<1> DEFINE Short == {k \in 1 .. SizeMax : grown[k] \notin least .. SizeMax}
<1>5. Short \subseteq 0 .. SizeMax
  BY <1>1
<1>6. ASSUME NEW k \in Short, \A j \in Short : j <= k
      PROVE  FALSE
  <2>1. k \in 1 .. SizeMax /\ k \in 0 .. SizeMax /\ grown[k] \notin least .. SizeMax
    BY <1>1
  <2>2. grown[k] = Turn(grown, k, least)
    BY <1>4, <2>1
  <2>3. ~ (k >= least) /\ ~ AddOverflows(k, Half(k)) /\ grown[k] = grown[k + Half(k)]
    BY <1>1, <2>1, <2>2 DEF Turn
  <2>4. k + Half(k) \in 1 .. SizeMax /\ k < k + Half(k)
    <3>1. Half(k) \in Nat \ {0}
      BY <2>1 DEF Half
    <3> QED BY <1>1, <2>1, <2>3, <3>1 DEF AddOverflows
  <2>5. k + Half(k) \in Short
    BY <2>1, <2>3, <2>4
  <2> QED BY <1>6, <2>1, <2>4, <2>5
<1>7. Short = {}
  BY <1>1, <1>5, <1>6, Greatest
<1> QED BY <1>2, <1>7

LEMMA CapacityForSuffices ==
  ASSUME NEW n \in Nat, Fits(n)
  PROVE  /\ CapacityFor(n) \in n + 1 .. SizeMax /\ CapacityFor(n) \in Nat
         /\ HeaderSize + CapacityFor(n) <= SizeMax
<1>1. SizeMax \in Nat /\ HeaderSize \in Nat /\ DefaultCapacity \in 1 .. SizeMax
  BY SizeMaxAssumption, HeaderSizeAssumption, DefaultCapacityAssumption
<1>2. n + 1 \in 1 .. SizeMax
  BY <1>1 DEF Fits, AddOverflows
<1>3. CapacityFor(n) \in n + 1 .. SizeMax
  BY <1>1, <1>2, GrowthSuffices DEF CapacityFor
<1>4. CapacityFor(n) \in Nat
  BY <1>3
<1>5. HeaderSize + CapacityFor(n) <= SizeMax
  BY <1>1, <1>4 DEF Fits, AddOverflows
<1> QED BY <1>3, <1>4, <1>5

(***************************************************************************)
(* A string by itself.                                                     *)
(***************************************************************************)
Cell == Value \cup {NUL, Junk}

Shape(v) ==
  /\ v = [len |-> v.len, capacity |-> v.capacity, buffer |-> v.buffer, cells |-> v.cells]
  /\ v.capacity \in 1 .. SizeMax /\ v.len \in 0 .. v.capacity - 1 /\ v.buffer \in Buffers
  /\ v.cells \in [0 .. v.capacity - 1 -> Cell]
  /\ \A i \in 0 .. v.len - 1 : v.cells[i] \in Value
  /\ v.cells[v.len] = NUL

LEMMA ShapeNumbers ==
  ASSUME NEW v, Shape(v)
  PROVE  /\ v.len \in Nat /\ v.capacity \in Nat /\ v.len < v.capacity /\ v.capacity > 0
         /\ SizeMax \in Nat /\ v.capacity <= SizeMax
         /\ v.len \in 0 .. v.capacity - 1
  BY SizeMaxAssumption DEF Shape

LEMMA TextNoNul ==
  ASSUME NEW t \in Texts
  PROVE  /\ t \in Seq(Value) /\ Len(t) \in Nat
         /\ \A i \in 1 .. Len(t) : t[i] \in Value /\ t[i] # NUL
<1>1. t \in Seq(Value)
  BY TextsAssumption
<1> QED BY <1>1, ValueAssumption

\* The first NUL is behind the length, and the text is the cells before it.
LEMMA TextIs ==
  ASSUME NEW v, Shape(v)
  PROVE  /\ StrLen(v) = v.len
         /\ CText(v) \in Seq(Value) /\ Len(CText(v)) = v.len
         /\ \A i \in 1 .. v.len : CText(v)[i] = v.cells[i - 1] /\ CText(v)[i] \in Value
<1>1. v.len \in Nat /\ v.len \in 0 .. v.capacity - 1 /\ DOMAIN v.cells = 0 .. v.capacity - 1
  BY ShapeNumbers DEF Shape
<1>2. PICK n, nuls : n = v.len /\ nuls = {i \in DOMAIN v.cells : v.cells[i] = NUL}
  OBVIOUS
<1>3. n \in nuls /\ nuls \subseteq Nat
  BY <1>1, <1>2 DEF Shape
<1>4. \A i \in nuls : n <= i
  <2>1. TAKE i \in nuls
  <2>2. i \in Nat /\ v.cells[i] = NUL
    BY <1>2, <1>3
  <2>3. i \notin 0 .. n - 1
    BY <1>2, <2>2, ValueAssumption DEF Shape
  <2> QED BY <1>1, <1>2, <2>2, <2>3
<1>5. n = CHOOSE i \in nuls : \A j \in nuls : i <= j
  <2>1. PICK c : c = CHOOSE i \in nuls : \A j \in nuls : i <= j
    OBVIOUS
  <2>2. c \in nuls /\ \A j \in nuls : c <= j
    BY <1>3, <1>4, <2>1, Zenon
  <2>3. c <= n /\ n <= c /\ c \in Nat /\ n \in Nat
    BY <1>3, <1>4, <2>2
  <2> QED BY <2>1, <2>3
<1>6. StrLen(v) = n
  BY <1>2, <1>3, <1>5 DEF StrLen
<1>7. CText(v) = [i \in 1 .. n |-> v.cells[i - 1]]
  BY <1>6 DEF CText
<1>8. \A i \in 1 .. n : i - 1 \in 0 .. n - 1
  BY <1>1, <1>2
<1>9. \A i \in 1 .. n : CText(v)[i] = v.cells[i - 1] /\ CText(v)[i] \in Value
  BY <1>2, <1>7, <1>8 DEF Shape
<1>10. CText(v) \in [1 .. n -> Value]
  BY <1>7, <1>9
<1>11. CText(v) \in Seq(Value)
  BY <1>1, <1>2, <1>10, SeqDef
<1>12. Len(CText(v)) = n
  <2>1. DOMAIN CText(v) = 1 .. n /\ n \in Nat
    BY <1>1, <1>2, <1>10
  <2> QED BY <1>11, <2>1, LenProperties
<1> QED BY <1>2, <1>6, <1>9, <1>11, <1>12

\* A string whose first cells are q's holds q.
LEMMA TextEquals ==
  ASSUME NEW w, Shape(w), NEW q \in Seq(Value), Len(q) = w.len,
         \A i \in 0 .. w.len - 1 : w.cells[i] = q[i + 1]
  PROVE  CText(w) = q
<1>1. w.len \in Nat
  BY ShapeNumbers
<1>2. /\ CText(w) \in Seq(Value) /\ Len(CText(w)) = w.len
      /\ \A i \in 1 .. w.len : CText(w)[i] = w.cells[i - 1]
  BY TextIs
<1>3. \A i \in 1 .. w.len : CText(w)[i] = q[i]
  <2>1. TAKE i \in 1 .. w.len
  <2>2. i - 1 \in 0 .. w.len - 1 /\ (i - 1) + 1 = i
    BY <1>1
  <2>3. w.cells[i - 1] = q[i]
    BY <2>2
  <2> QED BY <1>2, <2>3
<1> QED BY <1>2, <1>3, SeqEqual

LEMMA NoStringShape ==
  /\ Shape(NoString) /\ CText(NoString) = << >> /\ NoString.len = 0
  /\ NoString.buffer = "buffer A"
<1>1. PICK v, cells : /\ cells = [i \in {0} |-> NUL]
                      /\ v = [len |-> 0, capacity |-> 1, buffer |-> "buffer A",
                              cells |-> cells]
  OBVIOUS
<1>2. v = NoString
  BY <1>1 DEF NoString
<1>3. /\ v.len = 0 /\ v.capacity = 1 /\ v.buffer = "buffer A" /\ v.cells = cells
      /\ v = [len |-> v.len, capacity |-> v.capacity, buffer |-> v.buffer,
              cells |-> v.cells]
  BY <1>1
<1>4. 0 .. 1 - 1 = {0} /\ 0 .. 0 - 1 = {} /\ 1 \in 1 .. SizeMax
  BY SizeMaxAssumption
<1>5. cells \in [{0} -> Cell] /\ cells[0] = NUL
  BY <1>1 DEF Cell
<1>6. Shape(v)
  BY <1>3, <1>4, <1>5 DEF Shape, Buffers
<1>7. CText(v) = << >>
  <2>1. << >> \in Seq(Value) /\ Len(<< >>) = 0
    OBVIOUS
  <2> QED BY <1>3, <1>4, <1>6, <2>1, TextEquals
<1> QED BY <1>2, <1>3, <1>6, <1>7

\* w is cells with the n + 1 bytes at an offset.
IsWritten(w, capacity, cells, at, n, bytes) ==
  /\ w \in [0 .. capacity - 1 -> Cell]
  /\ \A i \in 0 .. capacity - 1 : i < at \/ i > at + n => w[i] = cells[i]
  /\ \A i \in 0 .. capacity - 1 : at <= i /\ i <= at + n => w[i] = bytes[i - at]

LEMMA WrittenIs ==
  ASSUME NEW capacity \in Nat, NEW cells, cells \in [0 .. capacity - 1 -> Cell],
         NEW at \in Nat, NEW n \in Nat, NEW bytes, bytes \in [0 .. n -> Cell],
         NEW w, w = Written(cells, at, bytes)
  PROVE  IsWritten(w, capacity, cells, at, n, bytes)
<1>1. DOMAIN cells = 0 .. capacity - 1 /\ DOMAIN bytes = 0 .. n
  OBVIOUS
<1>2. w = [i \in 0 .. capacity - 1 |-> IF i - at \in 0 .. n THEN bytes[i - at] ELSE cells[i]]
  BY <1>1 DEF Written
<1>3. \A i \in 0 .. capacity - 1 : i - at \in 0 .. n <=> at <= i /\ i <= at + n
  OBVIOUS
<1>4. \A i \in 0 .. n : bytes[i] \in Cell
  OBVIOUS
<1>5. w \in [0 .. capacity - 1 -> Cell]
  BY <1>2, <1>4
<1>6. ASSUME NEW i \in 0 .. capacity - 1
      PROVE  /\ i < at \/ i > at + n => w[i] = cells[i]
             /\ at <= i /\ i <= at + n => w[i] = bytes[i - at]
  BY <1>2, <1>3
<1> QED BY <1>5, <1>6 DEF IsWritten

\* Bytes in memory, a text and one more, whatever that is.
Holds(bytes, q) ==
  /\ bytes \in [0 .. Len(q) -> Cell]
  /\ \A i \in 0 .. Len(q) - 1 : bytes[i] = q[i + 1]

LEMMA BytesHold ==
  ASSUME NEW t \in Seq(Value)
  PROVE  Holds(Bytes(t), t) /\ Bytes(t)[Len(t)] = NUL
<1>1. PICK n : n = Len(t) /\ n \in Nat
  OBVIOUS
<1>2. Bytes(t) = [i \in 0 .. n |-> IF i < n THEN t[i + 1] ELSE NUL]
  BY <1>1 DEF Bytes
<1>3. \A i \in 0 .. n : i < n => i + 1 \in 1 .. Len(t)
  BY <1>1
<1>4. \A i \in 0 .. n : i < n => t[i + 1] \in Value
  BY <1>1, <1>3
<1>5. Bytes(t) \in [0 .. n -> Cell]
  BY <1>2, <1>4 DEF Cell
<1>6. \A i \in 0 .. n - 1 : i \in 0 .. n /\ i < n
  BY <1>1
<1>7. \A i \in 0 .. n - 1 : Bytes(t)[i] = t[i + 1]
  BY <1>2, <1>6
<1>8. Bytes(t)[n] = NUL
  BY <1>1, <1>2
<1> QED BY <1>1, <1>5, <1>7, <1>8 DEF Holds

Created(n, capacity, t) ==
  [len |-> n, capacity |-> capacity, buffer |-> "buffer A",
   cells |-> Written(Blank(capacity), 0, Bytes(t))]

LEMMA CreatedShape ==
  ASSUME NEW t \in Seq(Value), NEW n \in Nat, n = Len(t),
         NEW capacity \in n + 1 .. SizeMax,
         NEW w, w = Created(n, capacity, t)
  PROVE  Shape(w) /\ CText(w) = t
<1>2. SizeMax \in Nat /\ capacity \in Nat /\ n < capacity /\ capacity \in 1 .. SizeMax
  BY SizeMaxAssumption
<1>3. Blank(capacity) \in [0 .. capacity - 1 -> Cell]
  BY DEF Blank, Cell
<1>4. PICK bytes, blank, cells :
        /\ bytes = Bytes(t) /\ blank = Blank(capacity)
        /\ cells = Written(blank, 0, bytes)
  OBVIOUS
<1>5. /\ bytes \in [0 .. n -> Cell] /\ bytes[n] = NUL
      /\ \A i \in 0 .. n - 1 : bytes[i] = t[i + 1]
  BY <1>4, BytesHold DEF Holds
<1>6. /\ cells \in [0 .. capacity - 1 -> Cell]
      /\ \A i \in 0 .. capacity - 1 : 0 <= i /\ i <= 0 + n => cells[i] = bytes[i - 0]
  <2>1. /\ capacity \in Nat /\ blank \in [0 .. capacity - 1 -> Cell] /\ 0 \in Nat
        /\ n \in Nat /\ bytes \in [0 .. n -> Cell] /\ cells = Written(blank, 0, bytes)
    BY <1>2, <1>3, <1>4, <1>5
  <2>2. IsWritten(cells, capacity, blank, 0, n, bytes)
    BY <2>1, WrittenIs
  <2> QED BY <2>2 DEF IsWritten
<1>7. \A i \in 0 .. n : cells[i] = bytes[i]
  BY <1>2, <1>6
<1>8. \A i \in 0 .. n - 1 : cells[i] = t[i + 1] /\ t[i + 1] \in Value
  <2>1. \A i \in 0 .. n - 1 : i \in 0 .. n /\ i + 1 \in 1 .. Len(t)
    OBVIOUS
  <2>2. \A i \in 1 .. Len(t) : t[i] \in Value
    OBVIOUS
  <2> QED BY <1>5, <1>7, <2>1, <2>2
<1>9. cells[n] = NUL
  <2>1. n \in 0 .. n
    OBVIOUS
  <2> QED BY <1>5, <1>7, <2>1
<1>10. /\ w.len = n /\ w.capacity = capacity /\ w.buffer = "buffer A" /\ w.cells = cells
       /\ w = [len |-> w.len, capacity |-> w.capacity, buffer |-> w.buffer,
               cells |-> w.cells]
  BY <1>4 DEF Created
<1>11. n \in 0 .. capacity - 1
  BY <1>2
<1>12. Shape(w)
  BY <1>2, <1>6, <1>8, <1>9, <1>10, <1>11 DEF Shape, Buffers
<1>13. CText(w) = t
  BY <1>8, <1>10, <1>12, TextEquals
<1> QED BY <1>12, <1>13

\* A larger buffer, here or elsewhere, with the same text.
LEMMA ResizedShape ==
  ASSUME Shape(str), NEW n \in Nat, NEW b \in Buffers,
         NEW capacity, capacity = CapacityFor(n), capacity \in str.capacity .. SizeMax,
         NEW w, w = Resized(n, b)
  PROVE  /\ Shape(w) /\ w.len = str.len /\ w.capacity = capacity /\ w.buffer = b
         /\ CText(w) = CText(str)
<1>1. PICK v : v = str
  OBVIOUS
<1>2. /\ Shape(v) /\ v.len \in Nat /\ v.capacity \in Nat /\ v.len < v.capacity
      /\ capacity \in Nat /\ SizeMax \in Nat /\ v.capacity <= capacity /\ v.capacity > 0
  BY <1>1, ShapeNumbers
<1>3. PICK cells : cells = [i \in 0 .. capacity - 1 |->
                              IF i < v.capacity THEN v.cells[i] ELSE Junk]
  OBVIOUS
<1>4. w = [len |-> v.len, capacity |-> capacity, buffer |-> b, cells |-> cells]
  <2>1. v = [len |-> v.len, capacity |-> v.capacity, buffer |-> v.buffer,
             cells |-> v.cells]
    BY <1>2 DEF Shape
  <2> QED BY <1>1, <1>3, <2>1 DEF Resized
<1>5. \A i \in 0 .. capacity - 1 : i < v.capacity => i \in 0 .. v.capacity - 1
  BY <1>2
<1>6. \A i \in 0 .. v.capacity - 1 : v.cells[i] \in Cell
  BY <1>2 DEF Shape
<1>7. cells \in [0 .. capacity - 1 -> Cell]
  BY <1>3, <1>5, <1>6 DEF Cell
<1>8. \A i \in 0 .. v.len : i \in 0 .. capacity - 1 /\ i < v.capacity
  BY <1>2
<1>9. \A i \in 0 .. v.len : cells[i] = v.cells[i]
  BY <1>3, <1>8
<1>10. \A i \in 0 .. v.len - 1 : i \in 0 .. v.len /\ v.cells[i] \in Value
  BY <1>2 DEF Shape
<1>11. cells[v.len] = NUL
  <2>1. v.len \in 0 .. v.len
    BY <1>2
  <2>2. v.cells[v.len] = NUL
    BY <1>2 DEF Shape
  <2> QED BY <1>9, <2>1, <2>2
<1>12. capacity \in 1 .. SizeMax /\ v.len \in 0 .. capacity - 1
  BY <1>2
<1>13. /\ w.len = v.len /\ w.capacity = capacity /\ w.buffer = b /\ w.cells = cells
       /\ w = [len |-> w.len, capacity |-> w.capacity, buffer |-> w.buffer,
               cells |-> w.cells]
  BY <1>4
<1>14. Shape(w)
  BY <1>7, <1>9, <1>10, <1>11, <1>12, <1>13 DEF Shape
<1>15. CText(w) = CText(v)
  <2>1. /\ CText(v) \in Seq(Value) /\ Len(CText(v)) = v.len
        /\ \A i \in 1 .. v.len : CText(v)[i] = v.cells[i - 1]
    BY <1>2, TextIs
  <2>2. \A i \in 0 .. v.len - 1 : i + 1 \in 1 .. v.len /\ (i + 1) - 1 = i
    BY <1>2
  <2>3. \A i \in 0 .. v.len - 1 : w.cells[i] = CText(v)[i + 1]
    BY <1>9, <1>10, <1>13, <2>1, <2>2
  <2> QED BY <1>13, <1>14, <2>1, <2>3, TextEquals
<1> QED BY <1>1, <1>13, <1>14, <1>15

\* w is v with n bytes more, in the same buffer.
IsLonger(w, v, n, text) ==
  /\ Shape(w) /\ w.len = v.len + n /\ w.capacity = v.capacity /\ w.buffer = v.buffer
  /\ CText(w) = text

\* An append puts its text behind the string's, and a NUL behind both.
LEMMA AppendedShape ==
  ASSUME NEW v, Shape(v), NEW q \in Seq(Value), NEW bytes, Holds(bytes, q),
         v.len + Len(q) < v.capacity, NEW w, w = Appended(v, bytes, Len(q))
  PROVE  IsLonger(w, v, Len(q), CText(v) \o q)
<1>1. PICK n, m, c : n = Len(q) /\ m = v.len /\ c = v.capacity
  OBVIOUS
<1>2. n \in Nat /\ m \in Nat /\ c \in Nat /\ m + n < c /\ SizeMax \in Nat
  BY <1>1, ShapeNumbers
<1>3. PICK wr, cells : wr = Written(v.cells, m, bytes) /\ cells = [wr EXCEPT ![m + n] = NUL]
  OBVIOUS
<1>4. w = [len |-> m + n, capacity |-> c, buffer |-> v.buffer, cells |-> cells]
  <2>1. v = [len |-> v.len, capacity |-> v.capacity, buffer |-> v.buffer,
             cells |-> v.cells]
    BY DEF Shape
  <2> QED BY <1>1, <1>3, <2>1 DEF Appended
<1>5. bytes \in [0 .. n -> Cell] /\ \A i \in 0 .. n - 1 : bytes[i] = q[i + 1]
  BY <1>1 DEF Holds
<1>6. v.cells \in [0 .. c - 1 -> Cell]
  BY <1>1 DEF Shape
<1>7. /\ wr \in [0 .. c - 1 -> Cell]
      /\ \A i \in 0 .. c - 1 : i < m \/ i > m + n => wr[i] = v.cells[i]
      /\ \A i \in 0 .. c - 1 : m <= i /\ i <= m + n => wr[i] = bytes[i - m]
  <2>1. /\ c \in Nat /\ v.cells \in [0 .. c - 1 -> Cell] /\ m \in Nat /\ n \in Nat
        /\ bytes \in [0 .. n -> Cell] /\ wr = Written(v.cells, m, bytes)
    BY <1>2, <1>3, <1>5, <1>6
  <2>2. IsWritten(wr, c, v.cells, m, n, bytes)
    BY <2>1, WrittenIs
  <2> QED BY <2>2 DEF IsWritten
<1>8. m + n \in 0 .. c - 1
  BY <1>2
<1>9. /\ cells \in [0 .. c - 1 -> Cell] /\ cells[m + n] = NUL
      /\ \A i \in 0 .. c - 1 : i # m + n => cells[i] = wr[i]
  BY <1>3, <1>7, <1>8 DEF Cell
<1>10. /\ CText(v) \in Seq(Value) /\ Len(CText(v)) = m
       /\ \A i \in 1 .. m : CText(v)[i] = v.cells[i - 1]
  BY <1>1, TextIs
<1>11. PICK u, r : u = CText(v) /\ r = u \o q
  OBVIOUS
<1>12. /\ r \in Seq(Value) /\ Len(r) = m + n
       /\ \A i \in 1 .. m + n : r[i] = IF i <= m THEN CText(v)[i] ELSE q[i - m]
  <2>1. u \in Seq(Value) /\ Len(u) = m
    BY <1>10, <1>11
  <2>2. /\ u \o q \in Seq(Value) /\ Len(u \o q) = Len(u) + Len(q)
        /\ \A i \in 1 .. Len(u) + Len(q) :
             (u \o q)[i] = IF i <= Len(u) THEN u[i] ELSE q[i - Len(u)]
    BY <2>1, ConcatProperties
  <2> QED BY <1>1, <1>11, <2>1, <2>2
<1>13. ASSUME NEW i \in 0 .. (m + n) - 1
       PROVE  cells[i] = r[i + 1]
  <2>1. i \in 0 .. c - 1 /\ i # m + n /\ i + 1 \in 1 .. m + n
    BY <1>2
  <2>2. CASE i < m
    <3>1. i + 1 \in 1 .. m /\ i + 1 <= m /\ (i + 1) - 1 = i
      BY <1>2, <2>2
    <3>2. r[i + 1] = v.cells[i]
      BY <1>10, <1>12, <2>1, <3>1
    <3> QED BY <1>7, <1>9, <2>1, <2>2, <3>2
  <2>3. CASE ~ (i < m)
    <3>1. /\ i - m \in 0 .. n - 1 /\ (i - m) + 1 = (i + 1) - m /\ ~ (i + 1 <= m)
          /\ m <= i /\ i <= m + n
      BY <1>2, <2>3
    <3>2. r[i + 1] = q[(i - m) + 1]
      BY <1>12, <2>1, <3>1
    <3>3. cells[i] = bytes[i - m]
      BY <1>7, <1>9, <2>1, <3>1
    <3> QED BY <1>5, <3>1, <3>2, <3>3
  <2> QED BY <2>2, <2>3
<1>14. \A i \in 0 .. (m + n) - 1 : r[i + 1] \in Value
  <2>1. \A i \in 0 .. (m + n) - 1 : i + 1 \in 1 .. Len(r)
    BY <1>2, <1>12
  <2> QED BY <1>12, <2>1
<1>15. /\ w.len = m + n /\ w.capacity = c /\ w.buffer = v.buffer /\ w.cells = cells
       /\ w = [len |-> w.len, capacity |-> w.capacity, buffer |-> w.buffer,
               cells |-> w.cells]
  BY <1>4
<1>16. c \in 1 .. SizeMax /\ v.buffer \in Buffers
  BY <1>1 DEF Shape
<1>17. Shape(w)
  BY <1>8, <1>9, <1>13, <1>14, <1>15, <1>16 DEF Shape
<1>18. CText(w) = r
  BY <1>12, <1>13, <1>15, <1>17, TextEquals
<1> QED BY <1>1, <1>11, <1>15, <1>17, <1>18 DEF IsLonger

\* w is v's cells with the bytes and their NUL moved up by n.
IsShifted(w, v, n) ==
  /\ w \in [0 .. v.capacity - 1 -> Cell]
  /\ \A i \in 0 .. v.capacity - 1 : i < n => w[i] = v.cells[i]
  /\ \A i \in n .. v.len + n : w[i] = v.cells[i - n]

LEMMA ShiftedIs ==
  ASSUME NEW v, Shape(v), NEW n \in Nat, v.len + n < v.capacity,
         NEW w, w = Shifted(v, n)
  PROVE  IsShifted(w, v, n)
<1>1. PICK m, c : m = v.len /\ c = v.capacity
  OBVIOUS
<1>2. m \in Nat /\ c \in Nat /\ m + n < c
  BY <1>1, ShapeNumbers
<1>3. PICK bytes : bytes = [i \in 0 .. m |-> v.cells[i]]
  OBVIOUS
<1>4. v.cells \in [0 .. c - 1 -> Cell] /\ \A i \in 0 .. m : i \in 0 .. c - 1
  BY <1>1, <1>2 DEF Shape
<1>5. bytes \in [0 .. m -> Cell]
  BY <1>3, <1>4
<1>6. w = Written(v.cells, n, bytes)
  BY <1>1, <1>3 DEF Shifted
<1>7. /\ w \in [0 .. c - 1 -> Cell]
      /\ \A i \in 0 .. c - 1 : i < n \/ i > n + m => w[i] = v.cells[i]
      /\ \A i \in 0 .. c - 1 : n <= i /\ i <= n + m => w[i] = bytes[i - n]
  <2>1. /\ c \in Nat /\ v.cells \in [0 .. c - 1 -> Cell] /\ m \in Nat /\ n \in Nat
        /\ bytes \in [0 .. m -> Cell] /\ w = Written(v.cells, n, bytes)
    BY <1>2, <1>4, <1>5, <1>6
  <2>2. IsWritten(w, c, v.cells, n, m, bytes)
    BY <2>1, WrittenIs
  <2> QED BY <2>2 DEF IsWritten
<1>8. ASSUME NEW i \in n .. m + n
      PROVE  w[i] = v.cells[i - n]
  <2>1. i \in 0 .. c - 1 /\ n <= i /\ i <= n + m /\ i - n \in 0 .. m
    BY <1>2
  <2> QED BY <1>3, <1>7, <2>1
<1> QED BY <1>1, <1>7, <1>8 DEF IsShifted

\* A prepend puts its text before the string's; its last byte is overwritten
\* by what was the string's first.
LEMMA PrependedShape ==
  ASSUME NEW v, Shape(v), NEW q \in Seq(Value), NEW bytes, Holds(bytes, q),
         v.len + Len(q) < v.capacity, NEW w, w = Prepended(v, bytes, Len(q))
  PROVE  IsLonger(w, v, Len(q), q \o CText(v))
<1>1. PICK n, m, c : n = Len(q) /\ m = v.len /\ c = v.capacity
  OBVIOUS
<1>2. n \in Nat /\ m \in Nat /\ c \in Nat /\ m + n < c /\ SizeMax \in Nat
  BY <1>1, ShapeNumbers
<1>3. PICK sh, wr, cells : /\ sh = Shifted(v, n) /\ wr = Written(sh, 0, bytes)
                           /\ cells = [wr EXCEPT ![n] = sh[n]]
  OBVIOUS
<1>4. w = [len |-> m + n, capacity |-> c, buffer |-> v.buffer, cells |-> cells]
  <2>1. v = [len |-> v.len, capacity |-> v.capacity, buffer |-> v.buffer,
             cells |-> v.cells]
    BY DEF Shape
  <2> QED BY <1>1, <1>3, <2>1 DEF Prepended
<1>5. bytes \in [0 .. n -> Cell] /\ \A i \in 0 .. n - 1 : bytes[i] = q[i + 1]
  BY <1>1 DEF Holds
<1>6. /\ sh \in [0 .. c - 1 -> Cell]
      /\ \A i \in n .. m + n : sh[i] = v.cells[i - n]
  <2>1. IsShifted(sh, v, n)
    BY <1>1, <1>2, <1>3, ShiftedIs
  <2> QED BY <1>1, <2>1 DEF IsShifted
<1>7. /\ wr \in [0 .. c - 1 -> Cell]
      /\ \A i \in 0 .. c - 1 : i < 0 \/ i > 0 + n => wr[i] = sh[i]
      /\ \A i \in 0 .. c - 1 : 0 <= i /\ i <= 0 + n => wr[i] = bytes[i - 0]
  <2>1. /\ c \in Nat /\ sh \in [0 .. c - 1 -> Cell] /\ 0 \in Nat /\ n \in Nat
        /\ bytes \in [0 .. n -> Cell] /\ wr = Written(sh, 0, bytes)
    BY <1>2, <1>3, <1>5, <1>6
  <2>2. IsWritten(wr, c, sh, 0, n, bytes)
    BY <2>1, WrittenIs
  <2> QED BY <2>2 DEF IsWritten
<1>8. n \in 0 .. c - 1 /\ m + n \in 0 .. c - 1
  BY <1>2
<1>9. /\ cells \in [0 .. c - 1 -> Cell] /\ cells[n] = sh[n]
      /\ \A i \in 0 .. c - 1 : i # n => cells[i] = wr[i]
  BY <1>3, <1>6, <1>7, <1>8
<1>10. \A i \in n .. m + n : cells[i] = v.cells[i - n]
  <2>1. TAKE i \in n .. m + n
  <2>2. i \in 0 .. c - 1 /\ (i = n \/ i > 0 + n)
    BY <1>2
  <2>3. cells[i] = sh[i]
    BY <1>7, <1>9, <2>2
  <2> QED BY <1>6, <2>3
<1>11. \A i \in 0 .. n - 1 : cells[i] = q[i + 1]
  <2>1. TAKE i \in 0 .. n - 1
  <2>2. i \in 0 .. c - 1 /\ i # n /\ 0 <= i /\ i <= 0 + n /\ i - 0 = i
    BY <1>2
  <2> QED BY <1>5, <1>7, <1>9, <2>2
<1>12. /\ CText(v) \in Seq(Value) /\ Len(CText(v)) = m
       /\ \A i \in 1 .. m : CText(v)[i] = v.cells[i - 1]
  BY <1>1, TextIs
<1>13. PICK u, r : u = CText(v) /\ r = q \o u
  OBVIOUS
<1>14. /\ r \in Seq(Value) /\ Len(r) = m + n
       /\ \A i \in 1 .. n + m : r[i] = IF i <= n THEN q[i] ELSE CText(v)[i - n]
  <2>1. u \in Seq(Value) /\ Len(u) = m
    BY <1>12, <1>13
  <2>2. /\ q \o u \in Seq(Value) /\ Len(q \o u) = Len(q) + Len(u)
        /\ \A i \in 1 .. Len(q) + Len(u) :
             (q \o u)[i] = IF i <= Len(q) THEN q[i] ELSE u[i - Len(q)]
    BY <2>1, ConcatProperties
  <2>3. n + m = m + n
    BY <1>2
  <2> QED BY <1>1, <1>13, <2>1, <2>2, <2>3
<1>15. ASSUME NEW i \in 0 .. (m + n) - 1
       PROVE  cells[i] = r[i + 1]
  <2>1. i + 1 \in 1 .. n + m
    BY <1>2
  <2>2. CASE i < n
    <3>1. i \in 0 .. n - 1 /\ i + 1 <= n
      BY <1>2, <2>2
    <3> QED BY <1>11, <1>14, <2>1, <3>1
  <2>3. CASE ~ (i < n)
    <3>1. /\ i \in n .. m + n /\ ~ (i + 1 <= n) /\ (i + 1) - n \in 1 .. m
          /\ ((i + 1) - n) - 1 = i - n
      BY <1>2, <2>3
    <3>2. r[i + 1] = CText(v)[(i + 1) - n]
      BY <1>14, <2>1, <3>1
    <3> QED BY <1>10, <1>12, <3>1, <3>2
  <2> QED BY <2>2, <2>3
<1>16. \A i \in 0 .. (m + n) - 1 : r[i + 1] \in Value
  <2>1. \A i \in 0 .. (m + n) - 1 : i + 1 \in 1 .. Len(r)
    BY <1>2, <1>14
  <2> QED BY <1>14, <2>1
<1>17. cells[m + n] = NUL
  <2>1. m + n \in n .. m + n /\ (m + n) - n = m
    BY <1>2
  <2>2. v.cells[m] = NUL
    BY <1>1 DEF Shape
  <2> QED BY <1>10, <2>1, <2>2
<1>18. /\ w.len = m + n /\ w.capacity = c /\ w.buffer = v.buffer /\ w.cells = cells
       /\ w = [len |-> w.len, capacity |-> w.capacity, buffer |-> w.buffer,
               cells |-> w.cells]
  BY <1>4
<1>19. c \in 1 .. SizeMax /\ v.buffer \in Buffers
  BY <1>1 DEF Shape
<1>20. Shape(w)
  BY <1>8, <1>9, <1>15, <1>16, <1>17, <1>18, <1>19 DEF Shape
<1>21. CText(w) = r
  BY <1>14, <1>15, <1>18, <1>20, TextEquals
<1> QED BY <1>1, <1>13, <1>18, <1>20, <1>21 DEF IsLonger

Cleared(v) == [v EXCEPT !.len = 0, !.cells[0] = NUL]

LEMMA ClearedShape ==
  ASSUME NEW v, Shape(v), NEW w, w = Cleared(v)
  PROVE  /\ Shape(w) /\ w.len = 0 /\ w.capacity = v.capacity /\ w.buffer = v.buffer
         /\ CText(w) = << >>
<1>1. PICK cells : cells = [v.cells EXCEPT ![0] = NUL]
  OBVIOUS
<1>2. w = [len |-> 0, capacity |-> v.capacity, buffer |-> v.buffer, cells |-> cells]
  <2>1. v = [len |-> v.len, capacity |-> v.capacity, buffer |-> v.buffer,
             cells |-> v.cells]
    BY DEF Shape
  <2> QED BY <1>1, <2>1 DEF Cleared
<1>3. v.cells \in [0 .. v.capacity - 1 -> Cell] /\ 0 \in 0 .. v.capacity - 1
  BY ShapeNumbers DEF Shape
<1>4. cells \in [0 .. v.capacity - 1 -> Cell] /\ cells[0] = NUL
  BY <1>1, <1>3 DEF Cell
<1>5. 0 .. 0 - 1 = {}
  OBVIOUS
<1>6. /\ w.len = 0 /\ w.capacity = v.capacity /\ w.buffer = v.buffer /\ w.cells = cells
      /\ w = [len |-> w.len, capacity |-> w.capacity, buffer |-> w.buffer,
              cells |-> w.cells]
  BY <1>2
<1>7. v.capacity \in 1 .. SizeMax /\ v.buffer \in Buffers
  BY DEF Shape
<1>8. Shape(w)
  BY <1>3, <1>4, <1>5, <1>6, <1>7 DEF Shape
<1>9. << >> \in Seq(Value) /\ Len(<< >>) = 0
  OBVIOUS
<1>10. CText(w) = << >>
  BY <1>5, <1>6, <1>8, <1>9, TextEquals
<1> QED BY <1>6, <1>8, <1>10

(***************************************************************************)
(* The invariant of the string, and what each operation does to the text.  *)
(***************************************************************************)
Sized(v) == HeaderSize + v.capacity <= SizeMax

IterInv ==
  /\ iter = [on |-> iter.on, cursor |-> iter.cursor, end |-> iter.end, hint |-> iter.hint,
             given |-> iter.given]
  /\ iter.on => /\ iter.cursor \in 0 .. str.len
                /\ iter.end = str.len /\ iter.hint = iter.end - iter.cursor
                /\ iter.given = SubSeq(CText(str), 1, iter.cursor)

StringInv ==
  /\ Shape(str)
  /\ \/ held = {} /\ str = NoString /\ iter = NoIter
     \/ held = {str.buffer} /\ Sized(str)
  /\ IterInv

LEMMA NoIterInOrder ==
  ASSUME iter' = NoIter
  PROVE  IterInv'
<1>1. iter' = [on |-> FALSE, cursor |-> 0, end |-> 0, hint |-> 0, given |-> << >>]
  BY DEF NoIter
<1> QED BY <1>1 DEF IterInv

LEMMA StringInvInit == Init => StringInv
<1> SUFFICES ASSUME Init PROVE StringInv
  OBVIOUS
<1>1. str = NoString /\ held = {} /\ iter = NoIter
  BY DEF Init
<1>2. iter = [on |-> FALSE, cursor |-> 0, end |-> 0, hint |-> 0, given |-> << >>]
  BY <1>1 DEF NoIter
<1>3. IterInv
  BY <1>2 DEF IterInv
<1>4. Shape(str)
  BY <1>1, NoStringShape
<1> QED BY <1>1, <1>3, <1>4, Zenon DEF StringInv

\* The string in one buffer, which it holds; no iterator is over it.
LEMMA StringBecomes ==
  ASSUME NEW v, Shape(v), Sized(v), str' = v, held' = {v.buffer}, iter' = NoIter
  PROVE  StringInv'
<1>1. IterInv'
  BY NoIterInOrder
<1>2. Shape(str') /\ held' = {str'.buffer} /\ Sized(str')
  BY Zenon
<1> QED BY <1>1, <1>2, Zenon DEF StringInv

LEMMA HolderIs ==
  ASSUME StringInv, Exists
  PROVE  /\ Shape(str) /\ Sized(str) /\ held = {str.buffer}
         /\ str.len \in Nat /\ str.capacity \in Nat /\ str.len < str.capacity
<1>1. Shape(str) /\ Sized(str) /\ held = {str.buffer}
  BY DEF StringInv, Exists
<1> QED BY <1>1, ShapeNumbers

\* k4c_string_ensure_capacity: room for n more bytes and their NUL.
LEMMA RoomyIs ==
  ASSUME StringInv, Exists, NEW n \in Nat, CanHold(str.len, n), NEW v \in Roomy(str.len + n)
  PROVE  /\ Shape(v) /\ Sized(v) /\ v.len = str.len /\ CText(v) = CText(str)
         /\ v.len + n < v.capacity /\ HeldWith(v) = {v.buffer}
         /\ ~ NeedsResize(str.len + n) => v = str
<1>1. /\ Shape(str) /\ Sized(str) /\ held = {str.buffer}
      /\ str.len \in Nat /\ str.capacity \in Nat /\ str.len < str.capacity
  BY HolderIs
<1>2. PICK m : m = str.len + n /\ m \in Nat
  BY <1>1
<1>3. HeldWith(v) = {v.buffer}
  BY <1>1 DEF HeldWith
<1>4. CASE NeedsResize(m)
  <2>1. PICK b \in {str.buffer, Fresh(str.buffer)} : v = Resized(m, b)
    BY <1>2, <1>4 DEF Roomy
  <2>2. b \in Buffers
    BY <1>1 DEF Shape, Fresh, Buffers
  <2>3. Fits(m)
    BY <1>2, <1>4 DEF CanHold
  <2>4. PICK c : c = CapacityFor(m)
    OBVIOUS
  <2>5. c \in m + 1 .. SizeMax /\ c \in Nat /\ HeaderSize + c <= SizeMax
    BY <1>2, <2>3, <2>4, CapacityForSuffices
  <2>6. str.capacity <= m
    BY <1>4 DEF NeedsResize
  <2>7. c \in str.capacity .. SizeMax /\ m < c
    BY <1>1, <1>2, <2>5, <2>6
  <2>8. Shape(v) /\ v.len = str.len /\ v.capacity = c /\ CText(v) = CText(str)
    BY <1>1, <1>2, <2>1, <2>2, <2>4, <2>7, ResizedShape
  <2>9. Sized(v) /\ v.len + n < v.capacity
    BY <1>2, <2>5, <2>7, <2>8 DEF Sized
  <2> QED BY <1>2, <1>3, <1>4, <2>8, <2>9
<1>5. CASE ~ NeedsResize(m)
  <2>1. v = str
    BY <1>2, <1>5 DEF Roomy
  <2>2. str.len + n < str.capacity
    BY <1>1, <1>2, <1>5 DEF NeedsResize
  <2> QED BY <1>1, <1>3, <2>1, <2>2
<1> QED BY <1>4, <1>5

LEMMA CreateKeepsInv ==
  ASSUME StringInv, NEW t \in Texts, Create(t)
  PROVE  StringInv' /\ CText(str) = << >> /\ CText(str') = t
<1>1. held = {} /\ str = NoString /\ iter = NoIter
  BY DEF Create, Exists, StringInv
<1>2. PICK n : n = Len(t)
  OBVIOUS
<1>3. t \in Seq(Value) /\ n \in Nat
  BY <1>2, TextNoNul
<1>4. PICK c : c = CapacityFor(n)
  OBVIOUS
<1>5. c \in n + 1 .. SizeMax /\ HeaderSize + c <= SizeMax
  BY <1>2, <1>3, <1>4, CapacityForSuffices DEF Create
<1>6. PICK w : w = Created(n, c, t)
  OBVIOUS
<1>7. str' = w /\ held' = {"buffer A"} /\ iter' = NoIter
  BY <1>1, <1>2, <1>4, <1>6 DEF Create, Created
<1>8. Shape(w) /\ CText(w) = t
  BY <1>2, <1>3, <1>5, <1>6, CreatedShape
<1>9. w.capacity = c /\ w.buffer = "buffer A"
  BY <1>6 DEF Created
<1>10. Sized(w)
  BY <1>5, <1>9 DEF Sized
<1>11. StringInv'
  BY <1>7, <1>8, <1>9, <1>10, StringBecomes
<1> QED BY <1>1, <1>7, <1>8, <1>11, NoStringShape

\* An append of the n bytes of q, wherever they are read from.
LEMMA AppendKeepsInv ==
  ASSUME StringInv, Exists, NEW q \in Seq(Value), NEW v, Shape(v), Sized(v),
         CText(v) = CText(str), v.len + Len(q) < v.capacity,
         NEW bytes, Holds(bytes, q), str' = Appended(v, bytes, Len(q)),
         held' = {v.buffer}, iter' = NoIter
  PROVE  StringInv' /\ CText(str') = CText(str) \o q
<1>1. PICK w : w = Appended(v, bytes, Len(q))
  OBVIOUS
<1>2. /\ Shape(w) /\ w.capacity = v.capacity /\ w.buffer = v.buffer
      /\ CText(w) = CText(v) \o q
  <2>1. IsLonger(w, v, Len(q), CText(v) \o q)
    BY <1>1, AppendedShape
  <2> QED BY <2>1 DEF IsLonger
<1>3. Sized(w) /\ str' = w /\ held' = {w.buffer}
  BY <1>1, <1>2 DEF Sized
<1>4. StringInv'
  BY <1>2, <1>3, StringBecomes
<1> QED BY <1>2, <1>3, <1>4

LEMMA PrependKeepsInv ==
  ASSUME StringInv, Exists, NEW q \in Seq(Value), NEW v, Shape(v), Sized(v),
         CText(v) = CText(str), v.len + Len(q) < v.capacity,
         NEW bytes, Holds(bytes, q), str' = Prepended(v, bytes, Len(q)),
         held' = {v.buffer}, iter' = NoIter
  PROVE  StringInv' /\ CText(str') = q \o CText(str)
<1>1. PICK w : w = Prepended(v, bytes, Len(q))
  OBVIOUS
<1>2. /\ Shape(w) /\ w.capacity = v.capacity /\ w.buffer = v.buffer
      /\ CText(w) = q \o CText(v)
  <2>1. IsLonger(w, v, Len(q), q \o CText(v))
    BY <1>1, PrependedShape
  <2> QED BY <2>1 DEF IsLonger
<1>3. Sized(w) /\ str' = w /\ held' = {w.buffer}
  BY <1>1, <1>2 DEF Sized
<1>4. StringInv'
  BY <1>2, <1>3, StringBecomes
<1> QED BY <1>2, <1>3, <1>4

LEMMA AppendTextKeepsInv ==
  ASSUME StringInv, NEW t \in Texts, AppendText(t)
  PROVE  StringInv' /\ CText(str') = CText(str) \o t
<1>1. t \in Seq(Value) /\ Len(t) \in Nat /\ Holds(Bytes(t), t)
  BY TextNoNul, BytesHold
<1>2. PICK v \in Roomy(str.len + Len(t)) :
        str' = Appended(v, Bytes(t), Len(t)) /\ held' = HeldWith(v)
  BY DEF AppendText
<1>3. Exists /\ CanHold(str.len, Len(t)) /\ iter' = NoIter
  BY DEF AppendText
<1>4. /\ Shape(v) /\ Sized(v) /\ CText(v) = CText(str)
      /\ v.len + Len(t) < v.capacity /\ HeldWith(v) = {v.buffer}
  BY <1>1, <1>2, <1>3, RoomyIs
<1> QED BY <1>1, <1>2, <1>3, <1>4, AppendKeepsInv

LEMMA PrependTextKeepsInv ==
  ASSUME StringInv, NEW t \in Texts, Prepend(t)
  PROVE  StringInv' /\ CText(str') = t \o CText(str)
<1>1. t \in Seq(Value) /\ Len(t) \in Nat /\ Holds(Bytes(t), t)
  BY TextNoNul, BytesHold
<1>2. PICK v \in Roomy(str.len + Len(t)) :
        str' = Prepended(v, Bytes(t), Len(t)) /\ held' = HeldWith(v)
  BY DEF Prepend
<1>3. Exists /\ CanHold(str.len, Len(t)) /\ iter' = NoIter
  BY DEF Prepend
<1>4. /\ Shape(v) /\ Sized(v) /\ CText(v) = CText(str)
      /\ v.len + Len(t) < v.capacity /\ HeldWith(v) = {v.buffer}
  BY <1>1, <1>2, <1>3, RoomyIs
<1> QED BY <1>1, <1>2, <1>3, <1>4, PrependKeepsInv

\* With room there is one string to go on with, where it was.
LEMMA RoomForOwn ==
  ASSUME StringInv, Exists, NEW k \in Nat, k < str.len, HasRoom(k),
         CanHold(str.len, str.len - k), NEW v \in Roomy(str.len + (str.len - k))
  PROVE  v = str /\ HeldWith(v) = {v.buffer} /\ v.len + (str.len - k) < v.capacity
<1>1. str.len \in Nat /\ str.capacity \in Nat
  BY HolderIs
<1>2. str.len - k \in Nat /\ ~ NeedsResize(str.len + (str.len - k))
  BY <1>1 DEF HasRoom, NeedsResize
<1> QED BY <1>2, RoomyIs

\* The string's own bytes from k on, read where they are or where they were.
LEMMA OwnHolds ==
  ASSUME StringInv, Exists, NEW k \in Nat, k < str.len, NEW cells,
         \A i \in 0 .. str.len - k : cells[k + i] \in Cell,
         \A i \in 0 .. (str.len - k) - 1 : cells[k + i] = str.cells[k + i],
         NEW q, q = SubSeq(CText(str), k + 1, str.len)
  PROVE  q \in Seq(Value) /\ Len(q) = str.len - k /\ Holds(Own(str, cells, k), q)
<1>1. PICK u, m, n : u = CText(str) /\ m = str.len /\ n = str.len - k
  OBVIOUS
<1>2. m \in Nat /\ n \in Nat /\ n = m - k /\ k < m
  BY <1>1, HolderIs
<1>3. u \in Seq(Value) /\ Len(u) = m /\ \A i \in 1 .. m : u[i] = str.cells[i - 1]
  BY <1>1, TextIs DEF StringInv
<1>4. k + 1 \in 1 .. Len(u) + 1 /\ m \in (k + 1) - 1 .. Len(u) /\ m - (k + 1) + 1 = n
  BY <1>2, <1>3
<1>5. q = SubSeq(u, k + 1, m)
  BY <1>1
<1>6. q \in Seq(Value) /\ Len(q) = n /\ \A i \in 1 .. n : q[i] = u[(k + 1) + i - 1]
  <2>1. PICK f : f = k + 1
    OBVIOUS
  <2>2. u \in Seq(Value) /\ f \in 1 .. Len(u) + 1 /\ m \in f - 1 .. Len(u) /\ m - f + 1 = n
    BY <1>3, <1>4, <2>1
  <2>3. /\ SubSeq(u, f, m) \in Seq(Value) /\ Len(SubSeq(u, f, m)) = n
        /\ \A i \in 1 .. n : SubSeq(u, f, m)[i] = u[f + i - 1]
    BY <2>2, SubSeqProperties
  <2> QED BY <1>5, <2>1, <2>3
<1>7. PICK own : own = [i \in 0 .. n |-> cells[k + i]]
  OBVIOUS
<1>8. own = Own(str, cells, k)
  BY <1>1, <1>7 DEF Own
<1>9. own \in [0 .. n -> Cell]
  BY <1>1, <1>7
<1>10. ASSUME NEW i \in 0 .. n - 1
       PROVE  own[i] = q[i + 1]
  <2>1. /\ i \in 0 .. n /\ i + 1 \in 1 .. n /\ (k + 1) + (i + 1) - 1 = k + i + 1
        /\ k + i + 1 \in 1 .. m /\ (k + i + 1) - 1 = k + i
    BY <1>2
  <2>2. q[i + 1] = u[k + i + 1]
    BY <1>6, <2>1
  <2>3. u[k + i + 1] = str.cells[k + i]
    BY <1>3, <2>1
  <2>4. own[i] = cells[k + i]
    BY <1>7, <2>1
  <2>5. cells[k + i] = str.cells[k + i]
    BY <1>1
  <2> QED BY <2>2, <2>3, <2>4, <2>5
<1> QED BY <1>1, <1>6, <1>8, <1>9, <1>10 DEF Holds

LEMMA AppendOwnKeepsInv ==
  ASSUME StringInv, NEW k \in Nat, HasRoom(k), AppendOwn(k)
  PROVE  /\ StringInv' /\ k < str.len
         /\ CText(str') = CText(str) \o SubSeq(CText(str), k + 1, str.len)
<1>1. Exists /\ k < str.len /\ CanHold(str.len, str.len - k) /\ iter' = NoIter
  BY DEF AppendOwn
<1>2. PICK v \in Roomy(str.len + (str.len - k)) :
        /\ str' = Appended(v, Own(v, v.cells, k), str.len - k)
        /\ held' = HeldWith(v)
  BY DEF AppendOwn
<1>3. v = str /\ HeldWith(v) = {v.buffer} /\ v.len + (str.len - k) < v.capacity
  BY <1>1, <1>2, RoomForOwn
<1>4. Shape(str) /\ Sized(str) /\ str.len \in Nat /\ str.capacity \in Nat
  BY <1>1, HolderIs
<1>5. \A i \in 0 .. str.len - k : str.cells[k + i] \in Cell
  <2>1. \A i \in 0 .. str.len - k : k + i \in 0 .. str.capacity - 1
    BY <1>1, <1>4, HolderIs
  <2>2. \A i \in 0 .. str.capacity - 1 : str.cells[i] \in Cell
    BY <1>4 DEF Shape
  <2> QED BY <2>1, <2>2
<1>6. PICK q : q = SubSeq(CText(str), k + 1, str.len)
  OBVIOUS
<1>7. q \in Seq(Value) /\ Len(q) = str.len - k /\ Holds(Own(str, str.cells, k), q)
  BY <1>1, <1>5, <1>6, OwnHolds
<1>8. str' = Appended(str, Own(str, str.cells, k), Len(q)) /\ held' = {str.buffer}
      /\ str.len + Len(q) < str.capacity
  BY <1>2, <1>3, <1>7
<1>9. StringInv' /\ CText(str') = CText(str) \o q
  BY <1>1, <1>4, <1>7, <1>8, AppendKeepsInv
<1> QED BY <1>1, <1>6, <1>9

\* The bytes from k on once the text u has moved up by their number.
MovedUp(u, k, n) == [i \in 1 .. n |-> u[IF k + i <= n THEN k + i ELSE k + i - n]]

LEMMA MovedUpHolds ==
  ASSUME StringInv, Exists, NEW k \in Nat, k < str.len, HasRoom(k),
         NEW q, q = MovedUp(CText(str), k, str.len - k)
  PROVE  /\ q \in Seq(Value) /\ Len(q) = str.len - k
         /\ Holds(Own(str, Shifted(str, str.len - k), k), q)
<1>1. PICK u, m, n : u = CText(str) /\ m = str.len /\ n = str.len - k
  OBVIOUS
<1>2. /\ m \in Nat /\ n \in Nat \ {0} /\ n = m - k /\ k < m
      /\ str.capacity \in Nat /\ m + n < str.capacity /\ Shape(str)
  BY <1>1, HolderIs DEF HasRoom
<1>3. u \in Seq(Value) /\ Len(u) = m /\ \A i \in 1 .. m : u[i] = str.cells[i - 1]
  BY <1>1, TextIs DEF StringInv
<1>4. PICK cells : cells = Shifted(str, n)
  OBVIOUS
<1>5. /\ cells \in [0 .. str.capacity - 1 -> Cell]
      /\ \A i \in 0 .. m : cells[i] = IF i < n THEN str.cells[i] ELSE str.cells[i - n]
  <2>1. IsShifted(cells, str, n)
    BY <1>1, <1>2, <1>4, ShiftedIs
  <2>2. \A i \in 0 .. m : i \in 0 .. str.capacity - 1 /\ (i >= n => i \in n .. m + n)
    BY <1>2
  <2> QED BY <1>1, <2>1, <2>2 DEF IsShifted
<1>6. q = [i \in 1 .. n |-> u[IF k + i <= n THEN k + i ELSE k + i - n]]
  BY <1>1 DEF MovedUp
<1>7. ASSUME NEW i \in 1 .. n
      PROVE  (IF k + i <= n THEN k + i ELSE k + i - n) \in 1 .. m
  BY <1>2
<1>8. \A i \in 1 .. m : u[i] \in Value
  BY <1>3
<1>9. q \in Seq(Value) /\ Len(q) = n
  <2>1. \A i \in 1 .. n : q[i] \in Value
    BY <1>6, <1>7, <1>8
  <2>2. PICK e : e = [i \in 1 .. n |-> q[i]]
    OBVIOUS
  <2>3. e = q
    BY <1>6, <2>2
  <2>4. n \in Nat /\ e \in [1 .. n -> Value]
    BY <1>2, <2>1, <2>2
  <2>5. e \in Seq(Value) /\ Len(e) = n
    BY <2>4
  <2> QED BY <2>3, <2>5
<1>10. PICK own : own = [i \in 0 .. n |-> cells[k + i]]
  OBVIOUS
<1>11. own = Own(str, cells, k)
  BY <1>1, <1>10 DEF Own
<1>12. own \in [0 .. n -> Cell]
  <2>1. \A i \in 0 .. n : k + i \in 0 .. str.capacity - 1
    BY <1>2
  <2>2. \A i \in 0 .. str.capacity - 1 : cells[i] \in Cell
    BY <1>5
  <2>3. \A i \in 0 .. n : cells[k + i] \in Cell
    BY <2>1, <2>2
  <2> QED BY <1>10, <2>3
<1>13. ASSUME NEW i \in 0 .. n - 1
       PROVE  own[i] = q[i + 1]
  <2>1. i \in 0 .. n /\ i + 1 \in 1 .. n /\ k + i \in 0 .. m
    BY <1>2
  <2>2. PICK x, j : /\ x = k + i
                    /\ j = IF k + (i + 1) <= n THEN k + (i + 1) ELSE k + (i + 1) - n
    OBVIOUS
  <2>3. q[i + 1] = u[j] /\ j \in 1 .. m
    BY <1>6, <1>7, <2>1, <2>2
  <2>4. u[j] = str.cells[j - 1]
    BY <1>3, <2>3
  <2>5. own[i] = cells[x] /\ x \in 0 .. m
    BY <1>10, <2>1, <2>2
  <2>6. cells[x] = IF x < n THEN str.cells[x] ELSE str.cells[x - n]
    BY <1>5, <2>5
  <2>7. CASE x < n
    <3>1. j - 1 = x
      BY <1>2, <2>1, <2>2, <2>7
    <3> QED BY <2>3, <2>4, <2>5, <2>6, <2>7, <3>1
  <2>8. CASE ~ (x < n)
    <3>1. j - 1 = x - n
      BY <1>2, <2>1, <2>2, <2>8
    <3> QED BY <2>3, <2>4, <2>5, <2>6, <2>8, <3>1
  <2> QED BY <2>7, <2>8
<1> QED BY <1>1, <1>4, <1>9, <1>11, <1>12, <1>13 DEF Holds

LEMMA PrependOwnKeepsInv ==
  ASSUME StringInv, NEW k \in Nat, HasRoom(k), PrependOwn(k)
  PROVE  /\ StringInv' /\ k < str.len
         /\ CText(str') = MovedUp(CText(str), k, str.len - k) \o CText(str)
<1>1. Exists /\ k < str.len /\ CanHold(str.len, str.len - k) /\ iter' = NoIter
  BY DEF PrependOwn
<1>2. PICK v \in Roomy(str.len + (str.len - k)) :
        /\ str' = Prepended(v, Own(v, Shifted(v, str.len - k), k), str.len - k)
        /\ held' = HeldWith(v)
  BY DEF PrependOwn
<1>3. v = str /\ HeldWith(v) = {v.buffer} /\ v.len + (str.len - k) < v.capacity
  BY <1>1, <1>2, RoomForOwn
<1>4. Shape(str) /\ Sized(str)
  BY <1>1, HolderIs
<1>5. PICK q : q = MovedUp(CText(str), k, str.len - k)
  OBVIOUS
<1>6. /\ q \in Seq(Value) /\ Len(q) = str.len - k
      /\ Holds(Own(str, Shifted(str, str.len - k), k), q)
  BY <1>1, <1>5, MovedUpHolds
<1>7. PICK bytes : bytes = Own(str, Shifted(str, str.len - k), k)
  OBVIOUS
<1>8. /\ str' = Prepended(str, bytes, Len(q)) /\ held' = {str.buffer}
      /\ str.len + Len(q) < str.capacity /\ Holds(bytes, q)
  BY <1>2, <1>3, <1>6, <1>7
<1>9. StringInv' /\ CText(str') = q \o CText(str)
  BY <1>1, <1>4, <1>6, <1>8, PrependKeepsInv
<1> QED BY <1>1, <1>5, <1>9

LEMMA DestroyKeepsInv ==
  ASSUME StringInv, Destroy
  PROVE  StringInv' /\ CText(str') = << >>
<1>1. str' = NoString /\ iter' = NoIter
  BY DEF Destroy
<1>2. held' = {}
  BY HolderIs DEF Destroy
<1>3. IterInv'
  BY <1>1, NoIterInOrder
<1>4. Shape(str') /\ CText(str') = << >>
  BY <1>1, NoStringShape
<1> QED BY <1>1, <1>2, <1>3, <1>4, Zenon DEF StringInv

LEMMA ClearKeepsInv ==
  ASSUME StringInv, Clear
  PROVE  StringInv' /\ CText(str') = << >>
<1>1. Exists /\ str' = Cleared(str) /\ iter' = NoIter /\ held' = held
  BY DEF Clear, Cleared
<1>2. Shape(str) /\ Sized(str) /\ held = {str.buffer}
  BY <1>1, HolderIs
<1>3. /\ Shape(str') /\ str'.capacity = str.capacity /\ str'.buffer = str.buffer
      /\ CText(str') = << >>
  BY <1>1, <1>2, ClearedShape
<1>4. Sized(str') /\ held' = {str'.buffer}
  BY <1>1, <1>2, <1>3 DEF Sized
<1>5. StringInv'
  BY <1>1, <1>3, <1>4, StringBecomes
<1> QED BY <1>3, <1>5

LEMMA GetIteratorKeepsInv ==
  ASSUME StringInv, GetIterator
  PROVE  StringInv'
<1>1. /\ iter' = [on |-> TRUE, cursor |-> 0, end |-> str.len, hint |-> str.len,
                  given |-> << >>]
      /\ str' = str /\ held' = held /\ Exists
  BY DEF GetIterator, NoIter
<1>2. str.len \in Nat /\ Shape(str) /\ held = {str.buffer} /\ Sized(str)
  BY <1>1, HolderIs
<1>3. SubSeq(CText(str), 1, 0) = << >>
  BY <1>2, TextIs, SubSeqEmpty
<1>4. 0 \in 0 .. str.len /\ str.len - 0 = str.len
  BY <1>2
<1>5. /\ iter'.on /\ iter'.cursor = 0 /\ iter'.end = str.len /\ iter'.hint = str.len
      /\ iter'.given = << >>
      /\ iter' = [on |-> iter'.on, cursor |-> iter'.cursor, end |-> iter'.end,
                  hint |-> iter'.hint, given |-> iter'.given]
  BY <1>1
<1>6. IterInv'
  BY <1>1, <1>3, <1>4, <1>5 DEF IterInv
<1> QED BY <1>1, <1>2, <1>6 DEF StringInv

LEMMA IterNextKeepsInv ==
  ASSUME StringInv, IterNext
  PROVE  StringInv'
<1>1. /\ iter.on /\ iter.cursor # iter.end /\ str' = str /\ held' = held
      /\ iter' = [iter EXCEPT !.cursor = @ + 1, !.hint = IF @ > 0 THEN @ - 1 ELSE 0,
                              !.given = Append(@, str.cells[iter.cursor])]
  BY DEF IterNext
<1>2. PICK c, m, u, g : /\ c = iter.cursor /\ m = str.len /\ u = CText(str)
                        /\ g = iter.given
  OBVIOUS
<1>3. /\ c \in 0 .. m /\ iter.end = m /\ iter.hint = m - c /\ g = SubSeq(u, 1, c)
  BY <1>1, <1>2 DEF StringInv, IterInv
<1>4. /\ m \in Nat /\ u \in Seq(Value) /\ Len(u) = m
      /\ \A i \in 1 .. m : u[i] = str.cells[i - 1]
  BY <1>2, TextIs, ShapeNumbers DEF StringInv
<1>5. c \in Nat /\ c < m /\ c + 1 \in 1 .. m /\ (c + 1) - 1 = c /\ m - c > 0
  BY <1>1, <1>2, <1>3, <1>4
<1>6. str.cells[c] = u[c + 1]
  BY <1>4, <1>5
<1>7. Append(g, u[c + 1]) = SubSeq(u, 1, c + 1)
  <2>1. g \in Seq(Value)
    BY <1>3, <1>4, PrefixIs
  <2>2. g \o << u[c + 1] >> = SubSeq(u, 1, c + 1)
    BY <1>3, <1>4, <1>5, PrefixGrowsByOne
  <2>3. Append(g, u[c + 1]) = g \o << u[c + 1] >>
    BY <1>4, <1>5, <2>1, AppendIsConcat
  <2> QED BY <2>2, <2>3
<1>8. iter' = [on |-> iter.on, cursor |-> c + 1, end |-> m, hint |-> (m - c) - 1,
               given |-> Append(g, u[c + 1])]
  <2>1. iter = [on |-> iter.on, cursor |-> c, end |-> m, hint |-> m - c, given |-> g]
    BY <1>2, <1>3 DEF StringInv, IterInv
  <2>2. PICK x, h, y : x = c + 1 /\ h = (m - c) - 1 /\ y = Append(g, u[c + 1])
    OBVIOUS
  <2>3. /\ iter.cursor + 1 = x /\ Append(iter.given, str.cells[iter.cursor]) = y
        /\ (IF iter.hint > 0 THEN iter.hint - 1 ELSE 0) = h
    BY <1>2, <1>3, <1>5, <1>6, <2>2
  <2>4. iter' = [iter EXCEPT !.cursor = x, !.hint = h, !.given = y]
    BY <1>1, <2>3
  <2>5. iter' = [on |-> iter.on, cursor |-> x, end |-> m, hint |-> h, given |-> y]
    <3>1. PICK o, k : o = iter.on /\ k = m - c
      OBVIOUS
    <3>2. PICK it : it = [on |-> o, cursor |-> c, end |-> m, hint |-> k, given |-> g]
      OBVIOUS
    <3>3. PICK w : w = [it EXCEPT !.cursor = x, !.hint = h, !.given = y]
      OBVIOUS
    <3>4. w = [on |-> o, cursor |-> x, end |-> m, hint |-> h, given |-> y]
      BY <3>2, <3>3
    <3>5. iter = it
      BY <2>1, <3>1, <3>2, Zenon
    <3> QED BY <2>4, <3>1, <3>3, <3>4, <3>5, Zenon
  <2> QED BY <2>2, <2>5, Zenon
<1>9. /\ iter'.cursor = c + 1 /\ iter'.end = m /\ iter'.hint = (m - c) - 1
      /\ iter'.given = SubSeq(u, 1, c + 1)
      /\ iter' = [on |-> iter'.on, cursor |-> iter'.cursor, end |-> iter'.end,
                  hint |-> iter'.hint, given |-> iter'.given]
  BY <1>7, <1>8
<1>10. (m - c) - 1 = m - (c + 1) /\ c + 1 \in 0 .. m
  BY <1>4, <1>5
<1>11. IterInv'
  BY <1>1, <1>2, <1>9, <1>10 DEF IterInv
<1> QED BY <1>1, <1>11 DEF StringInv, Exists, IterInv, NoIter

\* Every step keeps the invariant and is a step of the contract or leaves the
\* text as it is.
LEMMA StringStep ==
  ASSUME StringInv, [Next]_vars
  PROVE  StringInv' /\ [Contract!Next]_(CText(str))
<1>1. CText(str)' = CText(str')
  BY DEF CText, StrLen
<1>2. ASSUME NEW t \in Texts, Create(t)
      PROVE  StringInv' /\ [Contract!Next]_(CText(str))
  BY <1>1, <1>2, CreateKeepsInv DEF Contract!Next, Contract!Create
<1>3. ASSUME NEW t \in Texts, AppendText(t)
      PROVE  StringInv' /\ [Contract!Next]_(CText(str))
  BY <1>1, <1>3, AppendTextKeepsInv DEF Contract!Next, Contract!Extend
<1>4. ASSUME NEW t \in Texts, Prepend(t)
      PROVE  StringInv' /\ [Contract!Next]_(CText(str))
  BY <1>1, <1>4, PrependTextKeepsInv DEF Contract!Next, Contract!Prepend
<1>5. CASE Destroy
  BY <1>1, <1>5, DestroyKeepsInv DEF Contract!Next, Contract!Clear
<1>6. CASE Clear
  BY <1>1, <1>6, ClearKeepsInv DEF Contract!Next, Contract!Clear
<1>7. CASE GetIterator \/ IterNext
  <2>1. StringInv'
    BY <1>7, GetIteratorKeepsInv, IterNextKeepsInv
  <2>2. CText(str') = CText(str)
    BY <1>7 DEF GetIterator, IterNext
  <2> QED BY <1>1, <2>1, <2>2
<1>8. ASSUME NEW k \in 0 .. str.len, HasRoom(k), AppendOwn(k)
      PROVE  StringInv' /\ [Contract!Next]_(CText(str))
  <2>1. k \in Nat /\ str.len \in Nat
    BY <1>8, HolderIs DEF AppendOwn
  <2>2. /\ StringInv' /\ k < str.len
        /\ CText(str') = CText(str) \o SubSeq(CText(str), k + 1, str.len)
    BY <1>8, <2>1, AppendOwnKeepsInv
  <2>3. Len(CText(str)) = str.len
    BY TextIs DEF StringInv
  <2>4. k + 1 \in 1 .. Len(CText(str))
    BY <2>1, <2>2, <2>3
  <2>5. Contract!AppendOwn
    BY <1>1, <2>2, <2>3, <2>4 DEF Contract!AppendOwn, Contract!Suffix
  <2> QED BY <2>2, <2>5 DEF Contract!Next
<1>9. ASSUME NEW k \in 0 .. str.len, HasRoom(k), PrependOwn(k)
      PROVE  StringInv' /\ [Contract!Next]_(CText(str))
  <2>1. k \in Nat /\ str.len \in Nat
    BY <1>9, HolderIs DEF PrependOwn
  <2>2. /\ StringInv' /\ k < str.len
        /\ CText(str') = MovedUp(CText(str), k, str.len - k) \o CText(str)
    BY <1>9, <2>1, PrependOwnKeepsInv
  <2>3. Len(CText(str)) = str.len
    BY TextIs DEF StringInv
  <2>4. k + 1 \in 1 .. Len(CText(str)) /\ (k + 1) - 1 = k
    BY <2>1, <2>2, <2>3
  <2>5. Contract!SuffixMovedUp(k + 1) = MovedUp(CText(str), k, str.len - k)
    BY <2>3, <2>4 DEF Contract!SuffixMovedUp, MovedUp
  <2>6. Contract!PrependOwn
    BY <1>1, <2>2, <2>4, <2>5 DEF Contract!PrependOwn
  <2> QED BY <2>2, <2>6 DEF Contract!Next
<1>10. CASE UNCHANGED vars
  <2>1. str' = str /\ held' = held /\ iter' = iter
    BY <1>10 DEF vars
  <2>2. StringInv'
    BY <2>1 DEF StringInv, IterInv
  <2> QED BY <1>1, <2>1, <2>2
<1>11. ASSUME NEW t \in Texts, Fails(t)
       PROVE  UNCHANGED vars
  BY <1>11 DEF Fails
<1> QED BY <1>2, <1>3, <1>4, <1>5, <1>6, <1>7, <1>8, <1>9, <1>10, <1>11 DEF Next, Others

(***************************************************************************)
(* The queries, which read cells, and what they mean for the text.         *)
(***************************************************************************)
LEMMA SubSeqIs ==
  ASSUME NEW T, NEW q \in Seq(T), NEW t \in Seq(T), NEW at \in Nat,
         at + Len(t) <= Len(q)
  PROVE  SubSeq(q, at + 1, at + Len(t)) = t <=> \A i \in 1 .. Len(t) : q[at + i] = t[i]
<1>1. PICK n, f, e : n = Len(t) /\ f = at + 1 /\ e = at + n
  OBVIOUS
<1>2. /\ n \in Nat /\ f \in 1 .. Len(q) + 1 /\ e \in f - 1 .. Len(q) /\ e - f + 1 = n
  BY <1>1
<1>3. PICK s : s = SubSeq(q, f, e)
  OBVIOUS
<1>4. s \in Seq(T) /\ Len(s) = n /\ \A i \in 1 .. n : s[i] = q[f + i - 1]
  BY <1>2, <1>3, SubSeqProperties
<1>5. \A i \in 1 .. n : f + i - 1 = at + i
  BY <1>1, <1>2
<1>6. \A i \in 1 .. n : s[i] = q[at + i]
  BY <1>4, <1>5
<1>7. s = t <=> \A i \in 1 .. n : s[i] = t[i]
  BY <1>1, <1>4, SeqEqual
<1> QED BY <1>1, <1>3, <1>6, <1>7

LEMMA IsPrefixIs ==
  ASSUME NEW T, NEW t \in Seq(T), NEW u \in Seq(T)
  PROVE  IsPrefix(t, u) <=> Len(t) <= Len(u) /\ \A i \in 1 .. Len(t) : t[i] = u[i]
<1>1. SubSeq(t, 1, Len(t)) = t
  BY WholePrefix
<1>2. ASSUME Len(t) <= Len(u)
      PROVE  t = SubSeq(u, 1, Len(t)) <=> \A i \in 1 .. Len(t) : t[i] = u[i]
  <2>1. PICK n, s : n = Len(t) /\ s = SubSeq(u, 1, n)
    OBVIOUS
  <2>2. n \in 0 .. Len(u)
    BY <1>2, <2>1
  <2>3. s \in Seq(T) /\ Len(s) = n /\ \A i \in 1 .. n : s[i] = u[i]
    BY <2>1, <2>2, PrefixIs
  <2>4. t = s <=> \A i \in 1 .. n : t[i] = s[i]
    BY <2>1, <2>3, SeqEqual
  <2> QED BY <2>1, <2>3, <2>4
<1> QED BY <1>1, <1>2 DEF IsPrefix

LEMMA ReverseIs ==
  ASSUME NEW T, NEW t \in Seq(T)
  PROVE  /\ Reverse(t) \in Seq(T) /\ Len(Reverse(t)) = Len(t)
         /\ \A i \in 1 .. Len(t) : Reverse(t)[i] = t[(Len(t) - i) + 1]
<1>1. PICK n, w : n = Len(t) /\ w = [i \in 1 .. n |-> t[(n - i) + 1]]
  OBVIOUS
<1>2. n \in Nat /\ \A i \in 1 .. n : (n - i) + 1 \in 1 .. n
  BY <1>1
<1>3. \A i \in 1 .. n : t[(n - i) + 1] \in T
  BY <1>1, <1>2
<1>4. w \in [1 .. n -> T]
  BY <1>1, <1>3
<1>5. w \in Seq(T) /\ Len(w) = n
  BY <1>2, <1>4, SeqDef, LenProperties
<1>6. w = Reverse(t)
  BY <1>1 DEF Reverse
<1> QED BY <1>1, <1>5, <1>6

LEMMA IsSuffixIs ==
  ASSUME NEW T, NEW t \in Seq(T), NEW u \in Seq(T)
  PROVE  IsSuffix(t, u) <=>
           Len(t) <= Len(u) /\ \A i \in 1 .. Len(t) : t[i] = u[(Len(u) - Len(t)) + i]
<1>1. PICK n, m, rt, ru : n = Len(t) /\ m = Len(u) /\ rt = Reverse(t) /\ ru = Reverse(u)
  OBVIOUS
<1>2. /\ n \in Nat /\ m \in Nat /\ rt \in Seq(T) /\ ru \in Seq(T)
      /\ Len(rt) = n /\ Len(ru) = m
      /\ \A i \in 1 .. n : rt[i] = t[(n - i) + 1]
      /\ \A i \in 1 .. m : ru[i] = u[(m - i) + 1]
  BY <1>1, ReverseIs
<1>3. IsSuffix(t, u) <=> n <= m /\ \A i \in 1 .. n : rt[i] = ru[i]
  <2>1. IsPrefix(rt, ru) <=> Len(rt) <= Len(ru) /\ \A i \in 1 .. Len(rt) : rt[i] = ru[i]
    <3>1. rt \in Seq(T) /\ ru \in Seq(T)
      BY <1>2
    <3> QED BY <3>1, IsPrefixIs
  <2>2. IsSuffix(t, u) <=> IsPrefix(rt, ru)
    BY <1>1 DEF IsSuffix
  <2> QED BY <1>2, <2>1, <2>2
<1>4. ASSUME n <= m
      PROVE  (\A i \in 1 .. n : rt[i] = ru[i]) <=> \A i \in 1 .. n : t[i] = u[(m - n) + i]
  <2>1. ASSUME \A i \in 1 .. n : rt[i] = ru[i], NEW i \in 1 .. n
        PROVE  t[i] = u[(m - n) + i]
    <3>1. PICK j : j = (n - i) + 1
      OBVIOUS
    <3>2. /\ j \in 1 .. n /\ j \in 1 .. m /\ (n - j) + 1 = i
          /\ (m - j) + 1 = (m - n) + i
      BY <1>2, <1>4, <3>1
    <3>3. rt[j] = t[i] /\ ru[j] = u[(m - n) + i]
      BY <1>2, <3>2
    <3> QED BY <2>1, <3>2, <3>3
  <2>2. ASSUME \A i \in 1 .. n : t[i] = u[(m - n) + i], NEW i \in 1 .. n
        PROVE  rt[i] = ru[i]
    <3>1. PICK j : j = (n - i) + 1
      OBVIOUS
    <3>2. /\ j \in 1 .. n /\ i \in 1 .. m /\ (m - i) + 1 = (m - n) + j
      BY <1>2, <1>4, <3>1
    <3>3. rt[i] = t[j] /\ ru[i] = u[(m - n) + j]
      BY <1>2, <3>1, <3>2
    <3> QED BY <2>2, <3>2, <3>3
  <2> QED BY <2>1, <2>2
<1> QED BY <1>1, <1>3, <1>4

LEMMA QueriesMeanText ==
  ASSUME StringInv
  PROVE  QueriesAgree
<1>1. PICK u, m : u = CText(str) /\ m = str.len
  OBVIOUS
<1>2. /\ StrLen(str) = m /\ u \in Seq(Value) /\ Len(u) = m /\ m \in Nat
      /\ \A i \in 1 .. m : u[i] = str.cells[i - 1]
  BY <1>1, TextIs, ShapeNumbers DEF StringInv
<1>3. str.cells[m] = NUL
  BY <1>1 DEF StringInv, Shape
<1> SUFFICES ASSUME NEW t \in Texts
             PROVE  /\ ContainsText(t) <=>
                         \E at \in 0 .. m - Len(t) : SubSeq(u, at + 1, at + Len(t)) = t
                    /\ StartsWith(t) <=> IsPrefix(t, u)
                    /\ EndsWith(t) <=> IsSuffix(t, u)
  BY <1>1 DEF QueriesAgree
<1>4. PICK n : n = Len(t)
  OBVIOUS
<1>5. t \in Seq(Value) /\ n \in Nat /\ \A i \in 1 .. n : t[i] # NUL
  BY <1>4, TextNoNul
<1>6. ASSUME NEW at \in 0 .. m - n
      PROVE  (\A i \in 1 .. n : str.cells[at + i - 1] = t[i])
               <=> SubSeq(u, at + 1, at + n) = t
  <2>1. at \in Nat /\ at + n <= Len(u)
    BY <1>2, <1>5
  <2>2. SubSeq(u, at + 1, at + n) = t <=> \A i \in 1 .. n : u[at + i] = t[i]
    <3>1. /\ u \in Seq(Value) /\ t \in Seq(Value) /\ at \in Nat
          /\ at + Len(t) <= Len(u)
      BY <1>2, <1>4, <1>5, <2>1
    <3>2. SubSeq(u, at + 1, at + Len(t)) = t <=> \A i \in 1 .. Len(t) : u[at + i] = t[i]
      BY <3>1, SubSeqIs, ZenonT(20)
    <3> QED BY <1>4, <3>2
  <2>3. \A i \in 1 .. n : at + i \in 1 .. m
    BY <1>2, <1>5, <2>1
  <2>4. \A i \in 1 .. n : u[at + i] = str.cells[at + i - 1]
    BY <1>2, <2>3
  <2> QED BY <2>2, <2>4
<1>7. ContainsText(t) <=> \E at \in 0 .. m - Len(t) : SubSeq(u, at + 1, at + Len(t)) = t
  BY <1>2, <1>4, <1>6 DEF ContainsText
<1>8. StartsWith(t) <=> IsPrefix(t, u)
  <2>1. IsPrefix(t, u) <=> n <= m /\ \A i \in 1 .. n : t[i] = u[i]
    BY <1>2, <1>4, <1>5, IsPrefixIs
  <2>2. StartsWith(t) <=> \A i \in 1 .. n : i <= m + 1 /\ str.cells[i - 1] = t[i]
    BY <1>2, <1>4 DEF StartsWith
  <2>3. ASSUME \A i \in 1 .. n : i <= m + 1 /\ str.cells[i - 1] = t[i]
        PROVE  n <= m
    <3>1. ASSUME ~ (n <= m)
          PROVE  FALSE
      <4>1. m + 1 \in 1 .. n /\ (m + 1) - 1 = m
        BY <1>2, <1>5, <3>1
      <4>2. str.cells[m] = t[m + 1]
        BY <2>3, <4>1
      <4> QED BY <1>3, <1>5, <4>1, <4>2
    <3> QED BY <3>1
  <2>4. ASSUME n <= m
        PROVE  \A i \in 1 .. n : i <= m + 1 /\ u[i] = str.cells[i - 1]
    <3>1. \A i \in 1 .. n : i \in 1 .. m /\ i <= m + 1
      BY <1>2, <1>5, <2>4
    <3> QED BY <1>2, <3>1
  <2>5. ASSUME \A i \in 1 .. n : i <= m + 1 /\ str.cells[i - 1] = t[i]
        PROVE  n <= m /\ \A i \in 1 .. n : t[i] = u[i]
    BY <2>3, <2>4, <2>5
  <2>6. ASSUME n <= m, \A i \in 1 .. n : t[i] = u[i]
        PROVE  \A i \in 1 .. n : i <= m + 1 /\ str.cells[i - 1] = t[i]
    BY <2>4, <2>6
  <2> QED BY <2>1, <2>2, <2>5, <2>6
<1>9. EndsWith(t) <=> IsSuffix(t, u)
  <2>1. IsSuffix(t, u) <=> n <= m /\ \A i \in 1 .. n : t[i] = u[(m - n) + i]
    <3>1. IsSuffix(t, u) <=>
            Len(t) <= Len(u) /\ \A i \in 1 .. Len(t) : t[i] = u[(Len(u) - Len(t)) + i]
      BY <1>2, <1>5, IsSuffixIs
    <3> QED BY <1>2, <1>4, <3>1
  <2>2. EndsWith(t) <=> n <= m /\ \A i \in 1 .. n : str.cells[m - n + i - 1] = t[i]
    BY <1>1, <1>4 DEF EndsWith
  <2>3. ASSUME n <= m
        PROVE  \A i \in 1 .. n : u[(m - n) + i] = str.cells[m - n + i - 1]
    <3>1. TAKE i \in 1 .. n
    <3>2. PICK j : j = (m - n) + i
      OBVIOUS
    <3>3. j \in 1 .. m /\ j - 1 = m - n + i - 1
      BY <1>2, <1>5, <2>3, <3>2
    <3>4. u[j] = str.cells[j - 1]
      BY <1>2, <3>3
    <3> QED BY <3>2, <3>3, <3>4
  <2> QED BY <2>1, <2>2, <2>3
<1> QED BY <1>7, <1>8, <1>9

LEMMA StringInvImplies == StringInv => Consistent
<1> SUFFICES ASSUME StringInv PROVE Consistent
  OBVIOUS
<1>1. Shape(str) /\ StrLen(str) = str.len
  BY TextIs DEF StringInv
<1>2. TypeOK
  <2>1. DOMAIN str.cells = 0 .. str.capacity - 1
    BY <1>1 DEF Shape
  <2>2. str.capacity \in 1 .. SizeMax /\ str.len \in 0 .. str.capacity - 1
    BY <1>1 DEF Shape
  <2>3. Exists => HeaderSize + str.capacity <= SizeMax
    BY HolderIs DEF Sized
  <2> QED BY <2>1, <2>2, <2>3 DEF TypeOK
<1>3. Terminated
  BY <1>1 DEF Terminated, Shape
<1>4. HeldExactly
  BY DEF HeldExactly, StringInv
<1>5. IteratorIsExact
  BY DEF IteratorIsExact, StringInv, IterInv
<1> QED BY <1>2, <1>3, <1>4, <1>5, QueriesMeanText DEF Consistent

(***************************************************************************)
(* The four of them, whichever a behaviour uses.                           *)
(***************************************************************************)
TextVars == <<used, vars, cursorVars, iterVars, fileVars>>

LEMMA PartSteps ==
  ASSUME [TextNext]_TextVars
  PROVE  /\ [Next]_vars /\ [Cursor!Next]_cursorVars
         /\ [Iterators!Next]_iterVars /\ [Files!Next]_fileVars
BY DEF TextNext, TextVars, UseString, UseCursor, UseIterator, UseFile

\* A cursor tells of each byte of its buffer once and in order, skip_while goes
\* exactly as far as its predicate accepts, and copies of an iterator share
\* their walk exactly when they share a context.
THEOREM WalksAreRight == TextSpec => []WalksAreExact
<1> DEFINE WInv == CursorInv /\ IteratorInv
<1>1. TextInit => WInv
  BY CursorInvInit, IteratorInvInit DEF TextInit
<1>2. WInv /\ [TextNext]_TextVars => WInv'
  BY PartSteps, CursorInvNext, IteratorInvNext
<1>3. WInv => WalksAreExact
  BY CursorInvImplies, IteratorInvImplies DEF WalksAreExact
<1> QED BY <1>1, <1>2, <1>3, PTL DEF TextSpec, TextVars

\* The status of a read_all or write_all is true whichever call of the system
\* fails and whatever is written between any two: a read that fails keeps
\* nothing, one that succeeds has the bytes it counts, the file's if that was
\* left alone, and the file of a write that succeeds is the data.
THEOREM FilesAreRight == TextSpec => []FilesAreTrue
<1>1. TextInit => FileInv
  BY FileInvInit DEF TextInit
<1>2. FileInv /\ [TextNext]_TextVars => FileInv'
  BY PartSteps, FileInvNext
<1>3. FileInv => FilesAreTrue
  BY FileInvImplies DEF FilesAreTrue
<1> QED BY <1>1, <1>2, <1>3, PTL DEF TextSpec, TextVars

\* Through growths in place or elsewhere, shifts, clears and failures, the
\* bytes before the first NUL are len texts' bytes, the NUL and the header fit
\* the one buffer held, an iterator gives those bytes and the queries answer
\* for them, whatever a longer text left behind the NUL.
THEOREM StringsAreConsistent == TextSpec => []Consistent
<1>1. TextInit => StringInv
  BY StringInvInit DEF TextInit
<1>2. StringInv /\ [TextNext]_TextVars => StringInv'
  BY PartSteps, StringStep
<1>3. StringInv => Consistent
  BY StringInvImplies
<1> QED BY <1>1, <1>2, <1>3, PTL DEF TextSpec, TextVars

\* The string implements its contract: each operation makes of the text the
\* callers see what its name says, or leaves it alone: also an append of a
\* suffix of the string that fits, and a prepend of the whole string. A prepend
\* of a proper suffix adds the bytes found where it stood once the text moved up.
THEOREM StringImplements == TextSpec => ImplementsContract
<1>1. TextInit => StringInv
  BY StringInvInit DEF TextInit
<1>2. TextInit => Contract!Init
  <2> SUFFICES ASSUME TextInit PROVE Contract!Init
    OBVIOUS
  <2>1. str = NoString
    BY DEF TextInit, Init
  <2> QED BY <2>1, NoStringShape DEF Contract!Init
<1>3. StringInv /\ [TextNext]_TextVars => StringInv' /\ [Contract!Next]_(CText(str))
  BY PartSteps, StringStep
<1> QED BY <1>1, <1>2, <1>3, PTL DEF TextSpec, TextVars, ImplementsContract, Contract!Spec

=============================================================================
