------------------------- MODULE GeneralHeapProofs --------------------------
(***************************************************************************)
(* Invariants of GeneralHeap for every buffer size, request, header size   *)
(* and alignment: first the list and its owners, then the bytes and what   *)
(* owners read back, then the sum k4c_heap_available takes over the list,  *)
(* then what may fragment the list and what a dealloc gives back.          *)
(***************************************************************************)
EXTENDS GeneralHeap, SequenceTheorems, WellFoundedInduction, TLAPS

(***************************************************************************)
(* Inserting into and removing from a sequence.                            *)
(***************************************************************************)
LEMMA Inserted ==
  ASSUME NEW S, NEW s \in Seq(S), NEW i \in 1 .. Len(s) + 1, NEW e \in S
  PROVE  /\ InsertAt(s, i, e) \in Seq(S)
         /\ Len(InsertAt(s, i, e)) = Len(s) + 1
         /\ \A j \in 1 .. Len(s) + 1 :
              InsertAt(s, i, e)[j] =
                IF j < i THEN s[j] ELSE IF j = i THEN e ELSE s[j - 1]
<1> DEFINE a == SubSeq(s, 1, i - 1)
           b == SubSeq(s, i, Len(s))
<1>1. Len(s) \in Nat /\ \A j \in 1 .. Len(s) : s[j] \in S
  BY LenProperties, ElementOfSeq
<1>2. /\ a \in Seq(S) /\ Len(a) = i - 1
      /\ \A j \in 1 .. i - 1 : a[j] = s[j]
  <2>1. \A j \in 1 .. i - 1 : s[j] \in S
    BY <1>1
  <2> QED BY <1>1, <2>1, SubSeqProperties
<1>3. /\ b \in Seq(S) /\ Len(b) = Len(s) - i + 1
      /\ \A j \in 1 .. Len(s) - i + 1 : b[j] = s[i + j - 1]
  <2>1. \A j \in i .. Len(s) : s[j] \in S
    BY <1>1
  <2> QED BY <1>1, <2>1, SubSeqProperties
<1> HIDE DEF a, b
<1>4. <<e>> \in Seq(S) /\ Len(<<e>>) = 1 /\ <<e>>[1] = e
  OBVIOUS
<1>5. /\ a \o <<e>> \in Seq(S) /\ Len(a \o <<e>>) = i
      /\ \A j \in 1 .. i : (a \o <<e>>)[j] = IF j < i THEN s[j] ELSE e
  <2>1. /\ a \o <<e>> \in Seq(S) /\ Len(a \o <<e>>) = Len(a) + 1
        /\ \A j \in 1 .. Len(a) + 1 :
             (a \o <<e>>)[j] = IF j <= Len(a) THEN a[j] ELSE <<e>>[j - Len(a)]
    BY <1>2, <1>4, ConcatProperties
  <2> QED BY <1>1, <1>2, <1>4, <2>1
<1> DEFINE c == a \o <<e>>
<1> HIDE DEF c
<1>6. /\ c \o b \in Seq(S) /\ Len(c \o b) = Len(s) + 1
      /\ \A j \in 1 .. Len(s) + 1 :
           (c \o b)[j] = IF j <= i THEN c[j] ELSE b[j - i]
  <2>1. c \in Seq(S) /\ Len(c) = i
    BY <1>5 DEF c
  <2>2. /\ c \o b \in Seq(S) /\ Len(c \o b) = Len(c) + Len(b)
        /\ \A j \in 1 .. Len(c) + Len(b) :
             (c \o b)[j] = IF j <= Len(c) THEN c[j] ELSE b[j - Len(c)]
    BY <1>3, <2>1, ConcatProperties
  <2> QED BY <1>1, <1>3, <2>1, <2>2
<1>7. InsertAt(s, i, e) = c \o b
  BY DEF InsertAt, a, b, c
<1>8. \A j \in 1 .. Len(s) + 1 :
        (c \o b)[j] = IF j < i THEN s[j] ELSE IF j = i THEN e ELSE s[j - 1]
  <2> TAKE j \in 1 .. Len(s) + 1
  <2>1. CASE j <= i
    BY <1>1, <1>5, <1>6, <2>1 DEF c
  <2>2. CASE ~ (j <= i)
    <3>1. j - i \in 1 .. Len(s) - i + 1 /\ i + (j - i) - 1 = j - 1
      BY <1>1, <2>2
    <3>2. (c \o b)[j] = b[j - i]
      BY <1>1, <1>6, <2>2
    <3>3. b[j - i] = s[i + (j - i) - 1]
      BY <1>3, <3>1
    <3>4. (c \o b)[j] = s[j - 1]
      BY <3>1, <3>2, <3>3
    <3>5. ~ (j < i) /\ j # i
      BY <1>1, <2>2
    <3> QED BY <3>4, <3>5
  <2> QED BY <2>1, <2>2
<1> QED BY <1>6, <1>7, <1>8

LEMMA Removed ==
  ASSUME NEW S, NEW s \in Seq(S), NEW i \in 1 .. Len(s)
  PROVE  /\ RemoveAt(s, i) \in Seq(S)
         /\ Len(RemoveAt(s, i)) = Len(s) - 1
         /\ \A j \in 1 .. Len(s) - 1 :
              RemoveAt(s, i)[j] = IF j < i THEN s[j] ELSE s[j + 1]
<1> DEFINE a == SubSeq(s, 1, i - 1)
           b == SubSeq(s, i + 1, Len(s))
<1>1. Len(s) \in Nat /\ \A j \in 1 .. Len(s) : s[j] \in S
  BY LenProperties, ElementOfSeq
<1>2. /\ a \in Seq(S) /\ Len(a) = i - 1
      /\ \A j \in 1 .. i - 1 : a[j] = s[j]
  <2>1. \A j \in 1 .. i - 1 : s[j] \in S
    BY <1>1
  <2> QED BY <1>1, <2>1, SubSeqProperties
<1>3. /\ b \in Seq(S) /\ Len(b) = Len(s) - i
      /\ \A j \in 1 .. Len(s) - i : b[j] = s[i + j]
  <2>1. \A j \in i + 1 .. Len(s) : s[j] \in S
    BY <1>1
  <2>2. /\ b \in Seq(S)
        /\ Len(b) = IF i + 1 <= Len(s) THEN Len(s) - (i + 1) + 1 ELSE 0
        /\ \A j \in 1 .. Len(s) - (i + 1) + 1 : b[j] = s[(i + 1) + j - 1]
    BY <1>1, <2>1, SubSeqProperties
  <2> HIDE DEF b
  <2> QED BY <1>1, <2>2
<1> HIDE DEF a, b
<1>4. /\ a \o b \in Seq(S) /\ Len(a \o b) = Len(a) + Len(b)
      /\ \A j \in 1 .. Len(a) + Len(b) :
           (a \o b)[j] = IF j <= Len(a) THEN a[j] ELSE b[j - Len(a)]
  BY <1>2, <1>3, ConcatProperties
<1>5. RemoveAt(s, i) = a \o b
  BY DEF RemoveAt, a, b
<1>6. \A j \in 1 .. Len(s) - 1 : (a \o b)[j] = IF j < i THEN s[j] ELSE s[j + 1]
  <2> TAKE j \in 1 .. Len(s) - 1
  <2>1. CASE j < i
    BY <1>1, <1>2, <1>3, <1>4, <2>1
  <2>2. CASE ~ (j < i)
    <3> DEFINE k == j - (i - 1)
    <3>1. k \in 1 .. Len(s) - i /\ i + k = j + 1 /\ j \in 1 .. Len(a) + Len(b)
      BY <1>1, <1>2, <1>3, <2>2
    <3>2. (a \o b)[j] = b[k]
      BY <1>1, <1>2, <1>4, <2>2, <3>1
    <3> HIDE DEF k
    <3>3. b[k] = s[i + k]
      BY <1>3, <3>1
    <3>4. (a \o b)[j] = s[j + 1]
      BY <3>1, <3>2, <3>3
    <3>5. ~ (j < i)
      BY <1>1, <2>2
    <3> QED BY <3>4, <3>5
  <2> QED BY <2>1, <2>2
<1> QED BY <1>1, <1>2, <1>3, <1>4, <1>5, <1>6

(***************************************************************************)
(* The block list.  Ordered is what makes addresses tell blocks apart: of  *)
(* two neighbours Tiled says it, of two blocks further apart it would take *)
(* an induction over the list, so it is carried as a conjunct of its own.  *)
(***************************************************************************)
Ordered(bs) ==
  \A i, j \in 1 .. Len(bs) : i < j => End(bs[i]) <= bs[j].addr

Chain(bs, cap) ==
  /\ bs \in Seq(Block) /\ Len(bs) >= 1
  /\ bs[1].addr = 0
  /\ \A i \in 1 .. Len(bs) :
       End(bs[i]) = IF i = Len(bs) THEN cap ELSE bs[i + 1].addr
  /\ Ordered(bs)

\* A used block at address a with room for s bytes.
Holds(bs, a, s) ==
  \E i \in 1 .. Len(bs) : bs[i].addr = a /\ ~ bs[i].free /\ bs[i].size >= s

UsedAddrs(bs) == {bs[i].addr : i \in {j \in 1 .. Len(bs) : ~ bs[j].free}}

LEMMA BlockFields ==
  ASSUME NEW bs \in Seq(Block), NEW i \in 1 .. Len(bs)
  PROVE  bs[i] \in Block /\ bs[i].addr \in Nat /\ bs[i].size \in Nat /\ bs[i].free \in BOOLEAN
<1>1. bs[i] \in Block
  BY ElementOfSeq
<1> QED BY <1>1 DEF Block

LEMMA HeaderPositive == Header \in Nat /\ Header > 0
BY HeaderAssumption

LEMMA ChainBlock ==
  ASSUME NEW bs, NEW cap, Chain(bs, cap), NEW j \in 1 .. Len(bs)
  PROVE  /\ bs[j].addr \in Nat /\ bs[j].size \in Nat
         /\ Payload(bs[j]) = bs[j].addr + Header /\ Payload(bs[j]) \in Nat
         /\ End(bs[j]) = Payload(bs[j]) + bs[j].size /\ End(bs[j]) \in Nat
         /\ End(bs[j]) = IF j = Len(bs) THEN cap ELSE bs[j + 1].addr
<1>1. bs[j].addr \in Nat /\ bs[j].size \in Nat
  <2>1. bs \in Seq(Block)
    BY DEF Chain
  <2> QED BY <2>1, BlockFields
<1>2. Payload(bs[j]) = bs[j].addr + Header
  BY DEF Payload
<1>3. Payload(bs[j]) \in Nat
  BY <1>1, <1>2, HeaderPositive
<1>4. End(bs[j]) = Payload(bs[j]) + bs[j].size
  BY DEF End
<1>5. End(bs[j]) \in Nat
  BY <1>1, <1>3, <1>4
<1>6. End(bs[j]) = IF j = Len(bs) THEN cap ELSE bs[j + 1].addr
  BY DEF Chain
<1> QED BY <1>1, <1>2, <1>3, <1>4, <1>5, <1>6

LEMMA Addresses ==
  ASSUME NEW bs, NEW cap, Chain(bs, cap),
         NEW i \in 1 .. Len(bs), NEW j \in 1 .. Len(bs), bs[i].addr = bs[j].addr
  PROVE  i = j
<1>1. bs \in Seq(Block) /\ Len(bs) \in Nat
  BY LenProperties DEF Chain
<1>2. /\ bs[i].addr \in Nat /\ bs[j].addr \in Nat
      /\ bs[i].addr < End(bs[i]) /\ bs[j].addr < End(bs[j])
      /\ End(bs[i]) \in Nat /\ End(bs[j]) \in Nat
  <2>1. ASSUME NEW k \in 1 .. Len(bs)
        PROVE  bs[k].addr \in Nat /\ End(bs[k]) \in Nat /\ bs[k].addr < End(bs[k])
    <3>1. /\ bs[k].addr \in Nat /\ bs[k].size \in Nat /\ End(bs[k]) \in Nat
          /\ Payload(bs[k]) = bs[k].addr + Header
          /\ End(bs[k]) = Payload(bs[k]) + bs[k].size
      BY ChainBlock
    <3> QED BY <3>1, HeaderPositive, SMTT(20)
  <2> QED BY <2>1
<1>3. ~ (i < j)
  <2>1. i < j => End(bs[i]) <= bs[j].addr
    BY DEF Chain, Ordered
  <2> QED BY <1>2, <2>1
<1>4. ~ (j < i)
  <2>1. j < i => End(bs[j]) <= bs[i].addr
    BY DEF Chain, Ordered
  <2> QED BY <1>2, <2>1
<1> QED BY <1>1, <1>3, <1>4

Sized(bs, i, n) == [bs EXCEPT ![i].size = n]

LEMMA Resized ==
  ASSUME NEW bs \in Seq(Block), NEW i \in 1 .. Len(bs), NEW n \in Nat
  PROVE  LET t == Sized(bs, i, n) IN
         /\ t \in Seq(Block) /\ Len(t) = Len(bs)
         /\ t[i].addr = bs[i].addr /\ t[i].size = n /\ t[i].free = bs[i].free
         /\ \A j \in 1 .. Len(bs) : j # i => t[j] = bs[j]
<1> DEFINE t == Sized(bs, i, n)
<1>1. bs[i] \in Block /\ [bs[i] EXCEPT !.size = n] \in Block
  BY BlockFields DEF Block
<1>2. t = [bs EXCEPT ![i] = [bs[i] EXCEPT !.size = n]]
  BY DEF Sized
<1>3. /\ t \in Seq(Block) /\ Len(t) = Len(bs)
      /\ \A j \in 1 .. Len(bs) :
           t[j] = IF j = i THEN [bs[i] EXCEPT !.size = n] ELSE bs[j]
  BY <1>1, <1>2, ExceptSeq
<1>4. /\ [bs[i] EXCEPT !.size = n].addr = bs[i].addr
      /\ [bs[i] EXCEPT !.size = n].size = n
      /\ [bs[i] EXCEPT !.size = n].free = bs[i].free
  BY <1>1 DEF Block
<1> QED BY <1>3, <1>4

Marking(bs, i, b) == [bs EXCEPT ![i].free = b]

\* r is the list bs with block i marked.
IsMarked(r, bs, i) ==
  /\ r \in Seq(Block) /\ Len(r) = Len(bs)
  /\ r[i].addr = bs[i].addr /\ r[i].size = bs[i].size
  /\ \A j \in 1 .. Len(bs) : j # i => r[j] = bs[j]

LEMMA Marked ==
  ASSUME NEW bs \in Seq(Block), NEW i \in 1 .. Len(bs), NEW b \in BOOLEAN
  PROVE  IsMarked(Marking(bs, i, b), bs, i) /\ Marking(bs, i, b)[i].free = b
<1> DEFINE t == Marking(bs, i, b)
<1>1. bs[i] \in Block /\ [bs[i] EXCEPT !.free = b] \in Block
  BY BlockFields DEF Block
<1>2. t = [bs EXCEPT ![i] = [bs[i] EXCEPT !.free = b]]
  BY DEF Marking
<1> HIDE DEF t
<1>3. /\ t \in Seq(Block) /\ Len(t) = Len(bs)
      /\ \A j \in 1 .. Len(bs) :
           t[j] = IF j = i THEN [bs[i] EXCEPT !.free = b] ELSE bs[j]
  BY <1>1, <1>2, ExceptSeq
<1>4. /\ [bs[i] EXCEPT !.free = b].addr = bs[i].addr
      /\ [bs[i] EXCEPT !.free = b].size = bs[i].size
      /\ [bs[i] EXCEPT !.free = b].free = b
  BY <1>1 DEF Block
<1> QED BY <1>3, <1>4 DEF IsMarked, t

\* r is the list bs with block i cut to n bytes, the rest a free block.
IsCut(r, bs, i, n) ==
  /\ r \in Seq(Block) /\ Len(r) = Len(bs) + 1
  /\ \A j \in 1 .. i - 1 : r[j] = bs[j]
  /\ r[i].addr = bs[i].addr /\ r[i].size = n /\ r[i].free = bs[i].free
  /\ r[i + 1].addr = Payload(bs[i]) + n
  /\ r[i + 1].size = (bs[i].size - n) - Header /\ r[i + 1].free = TRUE
  /\ \A j \in i + 1 .. Len(bs) : r[j + 1] = bs[j]

\* r is the list bs with block i + 1 swallowed by block i.
IsJoin(r, bs, i) ==
  /\ r \in Seq(Block) /\ Len(r) = Len(bs) - 1
  /\ \A j \in 1 .. i - 1 : r[j] = bs[j]
  /\ r[i].addr = bs[i].addr /\ r[i].size = bs[i].size + Header + bs[i + 1].size
  /\ r[i].free = bs[i].free
  /\ \A j \in i + 1 .. Len(bs) - 1 : r[j] = bs[j + 1]

LEMMA SplitShape ==
  ASSUME NEW bs \in Seq(Block), NEW i \in 1 .. Len(bs), NEW n \in Nat
  PROVE  IF bs[i].size - n <= Header + Align
         THEN Split(bs, i, n) = bs ELSE IsCut(Split(bs, i, n), bs, i, n)
<1>1. CASE bs[i].size - n <= Header + Align
  BY <1>1 DEF Split
<1>2. CASE ~ (bs[i].size - n <= Header + Align)
  <2> DEFINE t == Sized(bs, i, n)
             e == [addr |-> Payload(bs[i]) + n,
                   size |-> (bs[i].size - n) - Header, free |-> TRUE]
             r == Split(bs, i, n)
  <2>1. Len(bs) \in Nat /\ bs[i].addr \in Nat /\ bs[i].size \in Nat
    BY LenProperties, BlockFields
  <2>2. /\ t \in Seq(Block) /\ Len(t) = Len(bs)
        /\ t[i].addr = bs[i].addr /\ t[i].size = n /\ t[i].free = bs[i].free
        /\ \A j \in 1 .. Len(bs) : j # i => t[j] = bs[j]
    BY Resized
  <2>3. e \in Block
    <3>1. (bs[i].size - n) - Header \in Nat
      BY <1>2, <2>1, HeaderPositive, AlignAssumption
    <3>2. Payload(bs[i]) + n \in Nat
      BY <2>1, HeaderPositive, SMTT(20) DEF Payload
    <3> QED BY <3>1, <3>2 DEF Block
  <2>4. /\ e.addr = Payload(bs[i]) + n
        /\ e.size = (bs[i].size - n) - Header
        /\ e.free = TRUE
    OBVIOUS
  <2>5. r = InsertAt(t, i + 1, e)
    BY <1>2 DEF Split, Sized
  <2> HIDE DEF t, e, r
  <2>6. /\ r \in Seq(Block) /\ Len(r) = Len(t) + 1
        /\ \A j \in 1 .. Len(t) + 1 :
             r[j] = IF j < i + 1 THEN t[j] ELSE IF j = i + 1 THEN e ELSE t[j - 1]
    <3> DEFINE k == i + 1
    <3>1. k \in 1 .. Len(t) + 1 /\ t \in Seq(Block)
      BY <2>1, <2>2
    <3> HIDE DEF k
    <3>2. /\ InsertAt(t, k, e) \in Seq(Block)
          /\ Len(InsertAt(t, k, e)) = Len(t) + 1
          /\ \A j \in 1 .. Len(t) + 1 :
               InsertAt(t, k, e)[j] =
                 IF j < k THEN t[j] ELSE IF j = k THEN e ELSE t[j - 1]
      BY <2>3, <3>1, Inserted
    <3> QED BY <2>5, <3>2 DEF k
  <2>7. ASSUME NEW j \in 1 .. i - 1
        PROVE  r[j] = bs[j]
    <3>1. j \in 1 .. Len(t) + 1 /\ j < i + 1 /\ j # i /\ j \in 1 .. Len(bs)
      BY <2>1, <2>2
    <3> QED BY <2>2, <2>6, <3>1
  <2>8. r[i] = t[i] /\ r[i + 1] = e
    BY <2>1, <2>2, <2>6
  <2>9. ASSUME NEW j \in i + 1 .. Len(bs)
        PROVE  r[j + 1] = bs[j]
    <3>1. j + 1 \in 1 .. Len(t) + 1 /\ ~ (j + 1 < i + 1) /\ j + 1 # i + 1
          /\ (j + 1) - 1 = j /\ j # i /\ j \in 1 .. Len(bs)
      BY <2>1, <2>2
    <3> QED BY <2>2, <2>6, <3>1
  <2>10. IsCut(r, bs, i, n)
    BY <2>2, <2>4, <2>6, <2>7, <2>8, <2>9 DEF IsCut
  <2> QED BY <1>2, <2>10 DEF r
<1> QED BY <1>1, <1>2

LEMMA AbsorbShape ==
  ASSUME NEW bs \in Seq(Block), NEW i \in 1 .. Len(bs), i + 1 \in 1 .. Len(bs)
  PROVE  IsJoin(Absorb(bs, i), bs, i)
<1> DEFINE n == bs[i].size + Header + bs[i + 1].size
           t == Sized(bs, i, n)
           r == Absorb(bs, i)
<1>1. /\ Len(bs) \in Nat /\ bs[i].size \in Nat /\ bs[i + 1].size \in Nat
  <2>1. \A j \in 1 .. Len(bs) : bs[j].size \in Nat
    BY BlockFields
  <2> QED BY <2>1, LenProperties
<1>2. n \in Nat
  BY <1>1, HeaderPositive, SMTT(20)
<1>3. r = RemoveAt(t, i + 1)
  BY DEF Absorb, Sized
<1> HIDE DEF n
<1>4. /\ t \in Seq(Block) /\ Len(t) = Len(bs)
      /\ t[i].addr = bs[i].addr /\ t[i].size = n /\ t[i].free = bs[i].free
      /\ \A j \in 1 .. Len(bs) : j # i => t[j] = bs[j]
  BY <1>2, Resized
<1> HIDE DEF t, r
<1>5. /\ r \in Seq(Block) /\ Len(r) = Len(t) - 1
      /\ \A j \in 1 .. Len(t) - 1 : r[j] = IF j < i + 1 THEN t[j] ELSE t[j + 1]
  <2>1. i + 1 \in 1 .. Len(t) /\ t \in Seq(Block)
    BY <1>4
  <2>2. /\ RemoveAt(t, i + 1) \in Seq(Block)
        /\ Len(RemoveAt(t, i + 1)) = Len(t) - 1
        /\ \A j \in 1 .. Len(t) - 1 :
             RemoveAt(t, i + 1)[j] = IF j < i + 1 THEN t[j] ELSE t[j + 1]
    BY <2>1, Removed
  <2> QED BY <1>3, <2>2
<1>6. ASSUME NEW j \in 1 .. i - 1
      PROVE  r[j] = bs[j]
  <2>1. j \in 1 .. Len(t) - 1 /\ j < i + 1 /\ j # i /\ j \in 1 .. Len(bs)
    BY <1>1, <1>4
  <2> QED BY <1>4, <1>5, <2>1
<1>7. r[i] = t[i]
  BY <1>1, <1>4, <1>5
<1>8. ASSUME NEW j \in i + 1 .. Len(bs) - 1
      PROVE  r[j] = bs[j + 1]
  <2>1. j \in 1 .. Len(t) - 1 /\ ~ (j < i + 1) /\ j + 1 # i /\ j + 1 \in 1 .. Len(bs)
    BY <1>1, <1>4
  <2> QED BY <1>4, <1>5, <2>1
<1> QED BY <1>4, <1>5, <1>6, <1>7, <1>8 DEF IsJoin, n, r

(***************************************************************************)
(* Every list operation keeps the chain, the used blocks and their rooms.  *)
(***************************************************************************)
LEMMA CutKeeps ==
  ASSUME NEW bs, NEW cap, Chain(bs, cap), NEW i \in 1 .. Len(bs), NEW n \in Nat,
         bs[i].size - n > Header + Align, NEW r, IsCut(r, bs, i, n)
  PROVE  /\ Chain(r, cap)
         /\ UsedAddrs(r) = UsedAddrs(bs)
         /\ \A a, s \in Nat : Holds(bs, a, s) /\ (a # bs[i].addr \/ s <= n) =>
              Holds(r, a, s)
<1>1. bs \in Seq(Block) /\ Len(bs) \in Nat
  BY LenProperties DEF Chain
<1>2. ASSUME NEW j \in 1 .. Len(bs)
      PROVE  /\ bs[j].addr \in Nat /\ bs[j].size \in Nat
             /\ Payload(bs[j]) = bs[j].addr + Header /\ Payload(bs[j]) \in Nat
             /\ End(bs[j]) = Payload(bs[j]) + bs[j].size /\ End(bs[j]) \in Nat
             /\ End(bs[j]) = IF j = Len(bs) THEN cap ELSE bs[j + 1].addr
  BY ChainBlock
<1>3. /\ r \in Seq(Block) /\ Len(r) = Len(bs) + 1
      /\ \A j \in 1 .. i - 1 : r[j] = bs[j]
      /\ r[i].addr = bs[i].addr /\ r[i].size = n /\ r[i].free = bs[i].free
      /\ r[i + 1].addr = Payload(bs[i]) + n
      /\ r[i + 1].size = (bs[i].size - n) - Header /\ r[i + 1].free = TRUE
      /\ \A j \in i + 1 .. Len(bs) : r[j + 1] = bs[j]
  BY DEF IsCut
<1>4. /\ End(r[i]) = Payload(bs[i]) + n
      /\ End(r[i + 1]) = End(bs[i])
  <2>1. End(r[i]) = Payload(bs[i]) + n
    BY <1>3 DEF End, Payload
  <2>2. End(r[i + 1]) = (Payload(bs[i]) + n) + Header + ((bs[i].size - n) - Header)
    BY <1>3 DEF End, Payload
  <2> QED BY <1>2, <2>1, <2>2, HeaderAssumption, SMTT(20)
\* A position of r is before i, i, i + 1, or one past a position after i.
<1>5. ASSUME NEW j \in 1 .. Len(r)
      PROVE  \/ j \in 1 .. i - 1 \/ j = i \/ j = i + 1
             \/ \E p \in i + 1 .. Len(bs) : j = p + 1
  <2>1. CASE j > i + 1
    <3>1. j - 1 \in i + 1 .. Len(bs) /\ j = (j - 1) + 1
      BY <1>1, <1>3, <2>1
    <3> QED BY <3>1
  <2>2. CASE ~ (j > i + 1)
    BY <1>1, <1>3, <2>2
  <2> QED BY <2>1, <2>2
<1>6. Len(r) >= 1 /\ r[1].addr = 0
  <2>1. bs[1].addr = 0
    BY DEF Chain
  <2>2. CASE i = 1
    BY <1>1, <1>3, <2>1, <2>2
  <2>3. CASE i # 1
    <3>1. 1 \in 1 .. i - 1
      BY <2>3
    <3> QED BY <1>1, <1>3, <2>1, <3>1
  <2> QED BY <2>2, <2>3
<1>7. ASSUME NEW j \in 1 .. Len(r)
      PROVE  End(r[j]) = IF j = Len(r) THEN cap ELSE r[j + 1].addr
  <2>1. CASE j \in 1 .. i - 1
    <3>1. /\ j \in 1 .. Len(bs) /\ j # Len(bs) /\ j # Len(r) /\ r[j] = bs[j]
          /\ j + 1 = i \/ j + 1 \in 1 .. i - 1
      BY <1>1, <1>3, <2>1
    <3>2. r[j + 1].addr = bs[j + 1].addr
      BY <1>3, <3>1
    <3> QED BY <1>2, <3>1, <3>2
  <2>2. CASE j = i
    <3>1. j # Len(r)
      BY <1>1, <1>3, <2>2
    <3> QED BY <1>3, <1>4, <2>2, <3>1
  <2>3. CASE j = i + 1
    <3>1. CASE i = Len(bs)
      BY <1>1, <1>2, <1>3, <1>4, <2>3, <3>1
    <3>2. CASE i # Len(bs)
      <4>1. i + 1 \in i + 1 .. Len(bs) /\ j # Len(r)
        BY <1>1, <1>3, <2>3, <3>2
      <4>2. r[j + 1] = bs[i + 1]
        BY <1>3, <2>3, <4>1
      <4> QED BY <1>2, <1>4, <2>3, <3>2, <4>1, <4>2
    <3> QED BY <3>1, <3>2
  <2>4. ASSUME NEW p \in i + 1 .. Len(bs), j = p + 1
        PROVE  End(r[j]) = IF j = Len(r) THEN cap ELSE r[j + 1].addr
    <3>1. p \in 1 .. Len(bs) /\ r[j] = bs[p] /\ (j = Len(r) <=> p = Len(bs))
      BY <1>1, <1>3, <2>4
    <3>2. CASE p = Len(bs)
      BY <1>2, <3>1, <3>2
    <3>3. CASE p # Len(bs)
      <4>1. p + 1 \in i + 1 .. Len(bs)
        BY <1>1, <3>3
      <4>2. r[j + 1] = bs[p + 1]
        BY <1>3, <2>4, <4>1
      <4> QED BY <1>2, <3>1, <3>3, <4>2
    <3> QED BY <3>2, <3>3
  <2> QED BY <1>5, <2>1, <2>2, <2>3, <2>4
\* Every new block lies inside the block it comes from.
<1>8. ASSUME NEW j \in 1 .. Len(r), NEW p \in 1 .. Len(bs),
             p = IF j <= i THEN j ELSE j - 1
      PROVE  /\ End(r[j]) \in Nat /\ r[j].addr \in Nat
             /\ End(r[j]) <= End(bs[p]) /\ bs[p].addr <= r[j].addr
  <2>1. /\ bs[p].addr \in Nat /\ bs[p].size \in Nat /\ End(bs[p]) \in Nat
        /\ Payload(bs[p]) = bs[p].addr + Header
        /\ End(bs[p]) = Payload(bs[p]) + bs[p].size
    BY <1>2
  <2>2. CASE j \in 1 .. i - 1
    <3>1. j = p /\ r[j] = bs[p]
      BY <1>1, <1>3, <1>8, <2>2
    <3> QED BY <2>1, <3>1
  <2>3. CASE j = i
    <3>1. p = i
      BY <1>8, <2>3
    <3>2. r[j].addr = bs[p].addr /\ End(r[j]) = Payload(bs[p]) + n
      BY <1>3, <1>4, <2>3, <3>1
    <3>3. bs[p].size - n > Header + Align
      BY <3>1
    <3>4. n <= bs[p].size
      BY <2>1, <3>3, AlignAssumption, HeaderAssumption
    <3>5. r[j].addr \in Nat /\ bs[p].addr <= r[j].addr
      BY <2>1, <3>2
    <3>6. \A x, y \in Nat : n <= y => x + n \in Nat /\ x + n <= x + y
      OBVIOUS
    <3>7. Payload(bs[p]) \in Nat
      BY <2>1, HeaderAssumption, SMTT(20)
    <3> QED BY <2>1, <3>2, <3>4, <3>5, <3>6, <3>7
  <2>4. CASE j = i + 1
    <3>1. p = i
      BY <1>8, <2>4
    <3>2. r[j].addr = Payload(bs[p]) + n /\ End(r[j]) = End(bs[p])
      BY <1>3, <1>4, <2>4, <3>1
    <3>3. \A x, y \in Nat : x <= (x + y) + n /\ (x + y) + n \in Nat
      OBVIOUS
    <3>4. bs[p].addr <= r[j].addr /\ r[j].addr \in Nat
      <4>1. r[j].addr = (bs[p].addr + Header) + n
        BY <2>1, <3>2
      <4>2. bs[p].addr \in Nat /\ Header \in Nat
        BY <2>1, HeaderPositive
      <4> QED BY <3>3, <4>1, <4>2
    <3>5. End(r[j]) \in Nat /\ End(r[j]) <= End(bs[p])
      <4>1. End(bs[p]) \in Nat
        BY <2>1
      <4> QED BY <3>2, <4>1
    <3> QED BY <3>4, <3>5
  <2>5. ASSUME NEW q \in i + 1 .. Len(bs), j = q + 1
        PROVE  r[j] = bs[p]
    <3>1. p = q
      BY <1>8, <2>5
    <3> QED BY <1>3, <2>5, <3>1
  <2>6. r[j] = bs[p] => /\ End(r[j]) \in Nat /\ r[j].addr \in Nat
                        /\ End(r[j]) <= End(bs[p]) /\ bs[p].addr <= r[j].addr
    BY <2>1
  <2>7. CASE \E q \in i + 1 .. Len(bs) : j = q + 1
    BY <2>5, <2>6, <2>7
  <2>8. \/ j \in 1 .. i - 1 \/ j = i \/ j = i + 1
        \/ \E q \in i + 1 .. Len(bs) : j = q + 1
    BY <1>5
  <2> QED BY <2>2, <2>3, <2>4, <2>7, <2>8
<1>9. Ordered(r)
  <2> SUFFICES ASSUME NEW a \in 1 .. Len(r), NEW b \in 1 .. Len(r), a < b
               PROVE  End(r[a]) <= r[b].addr
    BY DEF Ordered
  <2>1. CASE a = i /\ b = i + 1
    <3>1. End(r[a]) = Payload(bs[i]) + n /\ r[b].addr = Payload(bs[i]) + n
      BY <1>3, <1>4, <2>1
    <3> QED BY <1>2, <3>1
  <2>2. CASE ~ (a = i /\ b = i + 1)
    <3> DEFINE p == IF a <= i THEN a ELSE a - 1
               q == IF b <= i THEN b ELSE b - 1
    <3>1. p < q /\ p \in 1 .. Len(bs) /\ q \in 1 .. Len(bs)
      BY <1>1, <1>3, <2>2
    <3>2. p = (IF a <= i THEN a ELSE a - 1) /\ q = (IF b <= i THEN b ELSE b - 1)
      OBVIOUS
    <3> HIDE DEF p, q
    <3>3. /\ End(r[a]) \in Nat /\ End(r[a]) <= End(bs[p])
          /\ r[b].addr \in Nat /\ bs[q].addr <= r[b].addr
      BY <1>8, <3>1, <3>2
    <3>4. End(bs[p]) <= bs[q].addr
      BY <3>1 DEF Chain, Ordered
    <3>5. End(bs[p]) \in Nat /\ bs[q].addr \in Nat
      BY <1>2, <3>1
    <3> QED BY <3>3, <3>4, <3>5, SMTT(20)
  <2> QED BY <2>1, <2>2
<1>10. Chain(r, cap)
  BY <1>3, <1>6, <1>7, <1>9 DEF Chain
<1>11. ASSUME NEW p \in 1 .. Len(bs)
       PROVE  \E j \in 1 .. Len(r) :
                /\ r[j].addr = bs[p].addr /\ r[j].free = bs[p].free
                /\ r[j].size = IF p = i THEN n ELSE bs[p].size
  <2>1. CASE p < i
    <3>1. p \in 1 .. i - 1 /\ p \in 1 .. Len(r)
      BY <1>1, <1>3, <2>1
    <3> QED BY <1>3, <2>1, <3>1
  <2>2. CASE p = i
    <3>1. p \in 1 .. Len(r)
      BY <1>1, <1>3
    <3> QED BY <1>3, <2>2, <3>1
  <2>3. CASE ~ (p <= i)
    <3>1. p \in i + 1 .. Len(bs) /\ p + 1 \in 1 .. Len(r) /\ p # i
      BY <1>1, <1>3, <2>3
    <3> QED BY <1>3, <3>1
  <2> QED BY <2>1, <2>2, <2>3
<1>12. UsedAddrs(r) = UsedAddrs(bs)
  <2>1. ASSUME NEW j \in 1 .. Len(r), ~ r[j].free
        PROVE  \E p \in 1 .. Len(bs) : ~ bs[p].free /\ bs[p].addr = r[j].addr
    <3>1. CASE j \in 1 .. i - 1
      <4>1. j \in 1 .. Len(bs)
        BY <1>1, <3>1
      <4> QED BY <1>3, <2>1, <3>1, <4>1
    <3>2. CASE j = i
      BY <1>3, <2>1, <3>2
    <3>3. CASE j = i + 1
      BY <1>3, <2>1, <3>3
    <3>4. ASSUME NEW p \in i + 1 .. Len(bs), j = p + 1
          PROVE  p \in 1 .. Len(bs) /\ r[j] = bs[p]
      BY <1>1, <1>3, <3>4
    <3> QED BY <1>5, <2>1, <3>1, <3>2, <3>3, <3>4
  <2>2. ASSUME NEW p \in 1 .. Len(bs), ~ bs[p].free
        PROVE  \E j \in 1 .. Len(r) : ~ r[j].free /\ bs[p].addr = r[j].addr
    BY <1>11, <2>2
  <2> QED BY <2>1, <2>2, SMTT(20) DEF UsedAddrs
<1>13. ASSUME NEW a \in Nat, NEW s \in Nat, Holds(bs, a, s), a # bs[i].addr \/ s <= n
       PROVE  Holds(r, a, s)
  <2>1. PICK p \in 1 .. Len(bs) : bs[p].addr = a /\ ~ bs[p].free /\ bs[p].size >= s
    BY <1>13 DEF Holds
  <2>2. PICK j \in 1 .. Len(r) :
          /\ r[j].addr = bs[p].addr /\ r[j].free = bs[p].free
          /\ r[j].size = IF p = i THEN n ELSE bs[p].size
    BY <1>11
  <2>3. r[j].size >= s
    BY <1>2, <1>13, <2>1, <2>2
  <2> QED BY <2>1, <2>2, <2>3 DEF Holds
<1> QED BY <1>10, <1>12, <1>13

LEMMA JoinKeeps ==
  ASSUME NEW bs, NEW cap, Chain(bs, cap), NEW i \in 1 .. Len(bs),
         i + 1 \in 1 .. Len(bs), bs[i + 1].free, NEW r, IsJoin(r, bs, i)
  PROVE  /\ Chain(r, cap)
         /\ UsedAddrs(r) = UsedAddrs(bs)
         /\ \A a, s \in Nat : Holds(bs, a, s) => Holds(r, a, s)
<1>1. bs \in Seq(Block) /\ Len(bs) \in Nat
  BY LenProperties DEF Chain
<1>2. ASSUME NEW j \in 1 .. Len(bs)
      PROVE  /\ bs[j].addr \in Nat /\ bs[j].size \in Nat
             /\ Payload(bs[j]) = bs[j].addr + Header /\ Payload(bs[j]) \in Nat
             /\ End(bs[j]) = Payload(bs[j]) + bs[j].size /\ End(bs[j]) \in Nat
             /\ End(bs[j]) = IF j = Len(bs) THEN cap ELSE bs[j + 1].addr
  BY ChainBlock
<1>3. /\ r \in Seq(Block) /\ Len(r) = Len(bs) - 1
      /\ \A j \in 1 .. i - 1 : r[j] = bs[j]
      /\ r[i].addr = bs[i].addr /\ r[i].size = bs[i].size + Header + bs[i + 1].size
      /\ r[i].free = bs[i].free
      /\ \A j \in i + 1 .. Len(bs) - 1 : r[j] = bs[j + 1]
  BY DEF IsJoin
<1>4. End(r[i]) = End(bs[i + 1])
  <2>1. End(r[i]) = (bs[i].addr + Header) + (bs[i].size + Header + bs[i + 1].size)
    BY <1>3 DEF End, Payload
  <2>2. End(bs[i]) = bs[i + 1].addr
    BY <1>1, <1>2
  <2>3. /\ End(bs[i]) = (bs[i].addr + Header) + bs[i].size
        /\ End(bs[i + 1]) = (bs[i + 1].addr + Header) + bs[i + 1].size
        /\ bs[i].addr \in Nat /\ bs[i].size \in Nat
        /\ bs[i + 1].addr \in Nat /\ bs[i + 1].size \in Nat
    BY <1>2
  <2>4. \A x, y, u, v \in Nat :
          (x + Header) + y = u => (x + Header) + (y + Header + v) = (u + Header) + v
    BY HeaderAssumption
  <2>5. (bs[i].addr + Header) + bs[i].size = bs[i + 1].addr
    BY <2>2, <2>3
  <2> QED BY <2>1, <2>3, <2>4, <2>5, SMTT(20)
<1>5. Len(r) >= 1 /\ r[1].addr = 0
  <2>1. bs[1].addr = 0
    BY DEF Chain
  <2>2. CASE i = 1
    BY <1>1, <1>3, <2>1, <2>2
  <2>3. CASE i # 1
    <3>1. 1 \in 1 .. i - 1
      BY <2>3
    <3> QED BY <1>1, <1>3, <2>1, <3>1
  <2> QED BY <2>2, <2>3
\* A block of r stands for the block at p of bs, up to the end of the one at q.
<1>6. ASSUME NEW j \in 1 .. Len(r)
      PROVE  LET p == IF j <= i THEN j ELSE j + 1
                 q == IF j < i THEN j ELSE j + 1
             IN  /\ p \in 1 .. Len(bs) /\ q \in 1 .. Len(bs)
                 /\ r[j].addr = bs[p].addr /\ End(r[j]) = End(bs[q])
                 /\ r[j].free = bs[p].free
                 /\ j = Len(r) <=> q = Len(bs)
  <2>0. Len(bs) \in Nat /\ Len(r) = Len(bs) - 1 /\ i \in Nat /\ j \in Nat
    BY <1>1, <1>3
  <2>1. CASE j < i
    <3>1. /\ j \in 1 .. i - 1 /\ j \in 1 .. Len(bs) /\ j <= i
          /\ j # Len(r) /\ j # Len(bs)
      BY <2>0, <2>1
    <3>2. r[j] = bs[j]
      BY <1>3, <3>1
    <3> QED BY <2>1, <3>1, <3>2
  <2>2. CASE j = i
    <3>1. /\ j \in 1 .. Len(bs) /\ j + 1 \in 1 .. Len(bs)
          /\ j = Len(r) <=> j + 1 = Len(bs)
      BY <2>0, <2>2
    <3>2. j <= i /\ ~ (j < i)
      BY <2>2
    <3>3. /\ r[j].addr = bs[j].addr /\ r[j].free = bs[j].free
          /\ End(r[j]) = End(bs[j + 1])
      BY <1>3, <1>4, <2>2
    <3> QED BY <3>1, <3>2, <3>3
  <2>3. CASE j > i
    <3>1. /\ j \in i + 1 .. Len(bs) - 1 /\ j + 1 \in 1 .. Len(bs)
          /\ ~ (j <= i) /\ ~ (j < i)
          /\ j = Len(r) <=> j + 1 = Len(bs)
      BY <2>0, <2>3
    <3>2. r[j] = bs[j + 1]
      BY <1>3, <3>1
    <3> QED BY <3>1, <3>2
  <2> QED BY <2>0, <2>1, <2>2, <2>3
<1>7. ASSUME NEW j \in 1 .. Len(r)
      PROVE  End(r[j]) = IF j = Len(r) THEN cap ELSE r[j + 1].addr
  <2> DEFINE q == IF j < i THEN j ELSE j + 1
  <2>1. /\ q \in 1 .. Len(bs) /\ End(r[j]) = End(bs[q])
        /\ j = Len(r) <=> q = Len(bs)
    BY <1>6
  <2>2. j # Len(r) => /\ j + 1 \in 1 .. Len(r)
                      /\ q + 1 = IF j + 1 <= i THEN j + 1 ELSE (j + 1) + 1
    BY <1>1, <1>3, SMTT(20)
  <2> HIDE DEF q
  <2>3. j # Len(r) => r[j + 1].addr = bs[q + 1].addr
    BY <1>6, <2>2
  <2>4. End(bs[q]) = IF q = Len(bs) THEN cap ELSE bs[q + 1].addr
    BY <1>2, <2>1
  <2> QED BY <2>1, <2>3, <2>4
<1>8. Ordered(r)
  <2> SUFFICES ASSUME NEW a \in 1 .. Len(r), NEW b \in 1 .. Len(r), a < b
               PROVE  End(r[a]) <= r[b].addr
    BY DEF Ordered
  <2> DEFINE q == IF a < i THEN a ELSE a + 1
             p == IF b <= i THEN b ELSE b + 1
  <2>1. /\ q \in 1 .. Len(bs) /\ End(r[a]) = End(bs[q])
        /\ p \in 1 .. Len(bs) /\ r[b].addr = bs[p].addr
    BY <1>6
  <2>2. q < p
    BY <1>1, <1>3
  <2> HIDE DEF p, q
  <2> QED BY <2>1, <2>2 DEF Chain, Ordered
<1>9. Chain(r, cap)
  BY <1>3, <1>5, <1>7, <1>8 DEF Chain
<1>10. ASSUME NEW p \in 1 .. Len(bs), p # i + 1
       PROVE  \E j \in 1 .. Len(r) :
                /\ r[j].addr = bs[p].addr /\ r[j].free = bs[p].free
                /\ r[j].size >= bs[p].size
  <2>1. CASE p < i
    <3>1. p \in 1 .. i - 1 /\ p \in 1 .. Len(r)
      BY <1>1, <1>3, <2>1
    <3>2. r[p] = bs[p] /\ bs[p].size \in Nat
      BY <1>2, <1>3, <3>1
    <3> QED BY <3>1, <3>2
  <2>2. CASE p = i
    <3>1. p \in 1 .. Len(r)
      BY <1>1, <1>3, <2>2
    <3>2. /\ r[p].size = bs[p].size + Header + bs[i + 1].size
          /\ bs[p].size \in Nat /\ bs[i + 1].size \in Nat
      BY <1>2, <1>3, <2>2
    <3>3. r[p].size >= bs[p].size
      BY <3>2, HeaderAssumption
    <3> QED BY <1>3, <2>2, <3>1, <3>3
  <2>3. CASE p > i
    <3>1. /\ p - 1 \in i + 1 .. Len(bs) - 1 /\ p - 1 \in 1 .. Len(r)
          /\ (p - 1) + 1 = p
      BY <1>1, <1>3, <1>10, <2>3
    <3>2. r[p - 1] = bs[p]
      BY <1>3, <3>1
    <3>3. bs[p].size >= bs[p].size
      BY <1>2
    <3> QED BY <3>1, <3>2, <3>3
  <2> QED BY <1>1, <2>1, <2>2, <2>3
<1>11. UsedAddrs(r) = UsedAddrs(bs)
  <2>1. ASSUME NEW j \in 1 .. Len(r), ~ r[j].free
        PROVE  \E p \in 1 .. Len(bs) : ~ bs[p].free /\ bs[p].addr = r[j].addr
    BY <1>6, <2>1
  <2>2. ASSUME NEW p \in 1 .. Len(bs), ~ bs[p].free
        PROVE  \E j \in 1 .. Len(r) : ~ r[j].free /\ bs[p].addr = r[j].addr
    <3>1. PICK j \in 1 .. Len(r) :
            /\ r[j].addr = bs[p].addr /\ r[j].free = bs[p].free
            /\ r[j].size >= bs[p].size
      BY <1>10, <2>2
    <3> QED BY <2>2, <3>1
  <2>3. UsedAddrs(r) \subseteq UsedAddrs(bs)
    BY <2>1 DEF UsedAddrs
  <2>4. UsedAddrs(bs) \subseteq UsedAddrs(r)
    BY <2>2 DEF UsedAddrs
  <2> QED BY <2>3, <2>4
<1>12. ASSUME NEW a \in Nat, NEW s \in Nat, Holds(bs, a, s)
       PROVE  Holds(r, a, s)
  <2>1. PICK p \in 1 .. Len(bs) : bs[p].addr = a /\ ~ bs[p].free /\ bs[p].size >= s
    BY <1>12 DEF Holds
  <2>2. PICK j \in 1 .. Len(r) :
          /\ r[j].addr = bs[p].addr /\ r[j].free = bs[p].free
          /\ r[j].size >= bs[p].size
    BY <1>10, <2>1
  <2>3. bs[p].size \in Nat /\ r[j].size \in Nat
    BY <1>2, <1>3, BlockFields
  <2>4. r[j].size >= s
    BY <2>1, <2>2, <2>3, SMTT(20)
  <2> QED BY <2>1, <2>2, <2>4 DEF Holds
<1> QED BY <1>9, <1>11, <1>12

\* What marking keeps whatever the mark is.
LEMMA MarkKeeps ==
  ASSUME NEW bs, NEW cap, Chain(bs, cap), NEW i \in 1 .. Len(bs),
         NEW r, IsMarked(r, bs, i)
  PROVE  /\ Chain(r, cap)
         /\ UsedAddrs(r) \ {bs[i].addr} = UsedAddrs(bs) \ {bs[i].addr}
         /\ bs[i].addr \in UsedAddrs(r) <=> ~ r[i].free
         /\ \A a, s \in Nat : Holds(bs, a, s) /\ (a # bs[i].addr \/ ~ r[i].free) =>
              Holds(r, a, s)
<1>1. bs \in Seq(Block) /\ Len(bs) \in Nat
  BY LenProperties DEF Chain
<1>2. /\ r \in Seq(Block) /\ Len(r) = Len(bs)
      /\ \A j \in 1 .. Len(bs) : r[j].addr = bs[j].addr /\ r[j].size = bs[j].size
      /\ \A j \in 1 .. Len(bs) : j # i => r[j].free = bs[j].free
  BY DEF IsMarked
<1>3. \A j \in 1 .. Len(bs) : End(r[j]) = End(bs[j])
  BY <1>2 DEF End, Payload
<1>4. Chain(r, cap)
  <2>1. Ordered(r)
    BY <1>2, <1>3 DEF Chain, Ordered
  <2>2. ASSUME NEW j \in 1 .. Len(r)
        PROVE  End(r[j]) = IF j = Len(r) THEN cap ELSE r[j + 1].addr
    <3>1. j # Len(bs) => j + 1 \in 1 .. Len(bs)
      BY <1>1, <1>2
    <3>2. End(bs[j]) = IF j = Len(bs) THEN cap ELSE bs[j + 1].addr
      BY <1>2 DEF Chain
    <3>3. j # Len(bs) => r[j + 1].addr = bs[j + 1].addr
      BY <1>2, <3>1
    <3>4. End(r[j]) = End(bs[j]) /\ Len(r) = Len(bs)
      BY <1>2, <1>3
    <3> QED BY <3>2, <3>3, <3>4
  <2>3. Len(r) >= 1 /\ r[1].addr = 0
    BY <1>1, <1>2 DEF Chain
  <2> QED BY <1>2, <2>1, <2>2, <2>3 DEF Chain
<1>5. \A j \in 1 .. Len(bs) : bs[j].addr = bs[i].addr => j = i
  BY Addresses
<1>6. ASSUME NEW a
      PROVE  /\ a \in UsedAddrs(r) <=> \E j \in 1 .. Len(bs) : a = bs[j].addr /\ ~ r[j].free
             /\ a \in UsedAddrs(bs) <=> \E j \in 1 .. Len(bs) : a = bs[j].addr /\ ~ bs[j].free
  BY <1>2 DEF UsedAddrs
<1>7. UsedAddrs(r) \ {bs[i].addr} = UsedAddrs(bs) \ {bs[i].addr}
  BY <1>2, <1>5, <1>6
<1>8. bs[i].addr \in UsedAddrs(r) <=> ~ r[i].free
  BY <1>2, <1>5, <1>6
<1>9. ASSUME NEW a \in Nat, NEW s \in Nat, Holds(bs, a, s),
             a # bs[i].addr \/ ~ r[i].free
      PROVE  Holds(r, a, s)
  <2>1. PICK p \in 1 .. Len(bs) : bs[p].addr = a /\ ~ bs[p].free /\ bs[p].size >= s
    BY <1>2, <1>9 DEF Holds
  <2>2. ~ r[p].free
    BY <1>2, <1>9, <2>1
  <2> QED BY <1>2, <2>1, <2>2 DEF Holds
<1> QED BY <1>4, <1>7, <1>8, <1>9

LEMMA SplitKeeps ==
  ASSUME NEW bs, NEW cap, Chain(bs, cap), NEW i \in 1 .. Len(bs), NEW n \in Nat,
         NEW r, r = Split(bs, i, n)
  PROVE  /\ Chain(r, cap)
         /\ UsedAddrs(r) = UsedAddrs(bs)
         /\ \A a, s \in Nat : Holds(bs, a, s) /\ (a # bs[i].addr \/ s <= n) => Holds(r, a, s)
         /\ i \in 1 .. Len(r) /\ r[i].addr = bs[i].addr /\ r[i].free = bs[i].free
         /\ n <= bs[i].size => n <= r[i].size
<1>1. bs \in Seq(Block) /\ Len(bs) \in Nat
  BY LenProperties DEF Chain
<1>2. bs[i].size \in Nat
  BY <1>1, BlockFields
<1>3. CASE bs[i].size - n <= Header + Align
  <2>1. r = bs
    BY <1>1, <1>3, SplitShape
  <2> QED BY <2>1
<1>4. CASE ~ (bs[i].size - n <= Header + Align)
  <2>1. IsCut(r, bs, i, n)
    BY <1>1, <1>4, SplitShape
  <2>2. bs[i].size - n > Header + Align
    BY <1>2, <1>4, HeaderAssumption, AlignAssumption
  <2>3. i \in 1 .. Len(r) /\ r[i].addr = bs[i].addr /\ r[i].size = n
        /\ r[i].free = bs[i].free
    BY <1>1, <2>1 DEF IsCut
  <2> QED BY <2>1, <2>2, <2>3, CutKeeps
<1> QED BY <1>3, <1>4

LEMMA AbsorbKeeps ==
  ASSUME NEW bs, NEW cap, Chain(bs, cap), NEW i \in 1 .. Len(bs), FreeAt(bs, i + 1),
         NEW r, r = Absorb(bs, i)
  PROVE  /\ Chain(r, cap)
         /\ UsedAddrs(r) = UsedAddrs(bs)
         /\ \A a, s \in Nat : Holds(bs, a, s) => Holds(r, a, s)
         /\ i \in 1 .. Len(r) /\ r[i].addr = bs[i].addr /\ r[i].free = bs[i].free
         /\ r[i].size = bs[i].size + Header + bs[i + 1].size
<1>1. bs \in Seq(Block) /\ Len(bs) \in Nat /\ DOMAIN bs = 1 .. Len(bs)
  BY LenProperties DEF Chain
<1>2. i + 1 \in 1 .. Len(bs) /\ bs[i + 1].free
  BY <1>1 DEF FreeAt
<1>3. IsJoin(r, bs, i)
  BY <1>1, <1>2, AbsorbShape
<1>4. /\ i \in 1 .. Len(r) /\ r[i].addr = bs[i].addr /\ r[i].free = bs[i].free
      /\ r[i].size = bs[i].size + Header + bs[i + 1].size
  BY <1>1, <1>2, <1>3 DEF IsJoin
<1> QED BY <1>2, <1>3, <1>4, JoinKeeps

LEMMA CoalesceKeeps ==
  ASSUME NEW bs, NEW cap, Chain(bs, cap), NEW i \in 1 .. Len(bs), bs[i].free,
         NEW r, r = Coalesce(bs, i)
  PROVE  /\ Chain(r, cap)
         /\ UsedAddrs(r) = UsedAddrs(bs)
         /\ \A a, s \in Nat : Holds(bs, a, s) => Holds(r, a, s)
<1> DEFINE joined == IF FreeAt(bs, i + 1) THEN Absorb(bs, i) ELSE bs
<1>1. /\ Chain(joined, cap)
      /\ UsedAddrs(joined) = UsedAddrs(bs)
      /\ \A a, s \in Nat : Holds(bs, a, s) => Holds(joined, a, s)
      /\ i \in 1 .. Len(joined) /\ joined[i].free
  BY AbsorbKeeps
<1>2. r = IF FreeAt(joined, i - 1) THEN Absorb(joined, i - 1) ELSE joined
  BY DEF Coalesce
<1> HIDE DEF joined
<1>3. CASE FreeAt(joined, i - 1)
  <2>1. /\ joined \in Seq(Block) /\ Len(joined) \in Nat
        /\ DOMAIN joined = 1 .. Len(joined)
    BY <1>1, LenProperties DEF Chain
  <2>2. /\ i - 1 \in 1 .. Len(joined) /\ (i - 1) + 1 = i
        /\ FreeAt(joined, (i - 1) + 1)
    BY <1>1, <1>3, <2>1 DEF FreeAt
  <2>3. r = Absorb(joined, i - 1)
    BY <1>2, <1>3
  <2>4. /\ Chain(r, cap)
        /\ UsedAddrs(r) = UsedAddrs(joined)
        /\ \A a, s \in Nat : Holds(joined, a, s) => Holds(r, a, s)
    BY <1>1, <2>2, <2>3, AbsorbKeeps
  <2> QED BY <1>1, <2>4
<1>4. CASE ~ FreeAt(joined, i - 1)
  BY <1>1, <1>2, <1>4
<1> QED BY <1>3, <1>4

LEMMA FreeKeeps ==
  ASSUME NEW bs, NEW cap, Chain(bs, cap), NEW i \in 1 .. Len(bs),
         NEW r, r = FreeBlocks(bs, i)
  PROVE  /\ Chain(r, cap)
         /\ UsedAddrs(r) = UsedAddrs(bs) \ {bs[i].addr}
         /\ \A a, s \in Nat : Holds(bs, a, s) /\ a # bs[i].addr => Holds(r, a, s)
<1> DEFINE t == Marking(bs, i, TRUE)
<1>1. bs \in Seq(Block)
  BY DEF Chain
<1>2. IsMarked(t, bs, i) /\ t[i].free
  BY <1>1, Marked
<1>3. r = Coalesce(t, i)
  BY DEF FreeBlocks, Marking
<1> HIDE DEF t
<1>4. /\ Chain(t, cap)
      /\ UsedAddrs(t) \ {bs[i].addr} = UsedAddrs(bs) \ {bs[i].addr}
      /\ bs[i].addr \in UsedAddrs(t) <=> ~ t[i].free
      /\ \A a, s \in Nat : Holds(bs, a, s) /\ (a # bs[i].addr \/ ~ t[i].free) =>
           Holds(t, a, s)
  BY <1>2, MarkKeeps
<1>5. i \in 1 .. Len(t)
  BY <1>2 DEF IsMarked
<1>6. /\ Chain(r, cap)
      /\ UsedAddrs(r) = UsedAddrs(t)
      /\ \A a, s \in Nat : Holds(t, a, s) => Holds(r, a, s)
  BY <1>2, <1>3, <1>4, <1>5, CoalesceKeeps
<1> QED BY <1>2, <1>4, <1>6

LEMMA AllocKeeps ==
  ASSUME NEW bs, NEW cap, Chain(bs, cap), NEW i \in 1 .. Len(bs), NEW n \in Nat,
         Fits(bs, i, n), NEW r, r = AllocBlocks(bs, i, n)
  PROVE  /\ Chain(r, cap)
         /\ UsedAddrs(r) = UsedAddrs(bs) \cup {bs[i].addr}
         /\ bs[i].addr \notin UsedAddrs(bs)
         /\ \A a, s \in Nat : Holds(bs, a, s) /\ a # bs[i].addr => Holds(r, a, s)
         /\ Holds(r, bs[i].addr, n)
<1> PICK t : t = Split(bs, i, n)
  OBVIOUS
<1>1. bs \in Seq(Block) /\ Len(bs) \in Nat /\ DOMAIN bs = 1 .. Len(bs)
  BY LenProperties DEF Chain
<1>2. bs[i].free /\ n <= bs[i].size
  <2>1. bs[i].size \in Nat
    BY <1>1, BlockFields
  <2> QED BY <2>1 DEF Fits, FreeAt
<1>3. /\ Chain(t, cap)
      /\ UsedAddrs(t) = UsedAddrs(bs)
      /\ \A a, s \in Nat : Holds(bs, a, s) /\ (a # bs[i].addr \/ s <= n) => Holds(t, a, s)
      /\ i \in 1 .. Len(t) /\ t[i].addr = bs[i].addr /\ n <= t[i].size
  BY <1>2, SplitKeeps
<1>4. r = Marking(t, i, FALSE) /\ t \in Seq(Block)
  BY <1>3 DEF AllocBlocks, Marking, Chain
<1>5. IsMarked(r, t, i) /\ r[i].free = FALSE
  <2>1. IsMarked(Marking(t, i, FALSE), t, i) /\ Marking(t, i, FALSE)[i].free = FALSE
    BY <1>3, <1>4, Marked
  <2> QED BY <1>4, <2>1
<1>6. /\ Chain(r, cap)
      /\ UsedAddrs(r) \ {t[i].addr} = UsedAddrs(t) \ {t[i].addr}
      /\ t[i].addr \in UsedAddrs(r) <=> ~ r[i].free
      /\ \A a, s \in Nat : Holds(t, a, s) /\ (a # t[i].addr \/ ~ r[i].free) =>
           Holds(r, a, s)
  BY <1>3, <1>5, MarkKeeps
<1>7. UsedAddrs(r) = UsedAddrs(bs) \cup {bs[i].addr}
  BY <1>3, <1>5, <1>6
<1>8. Holds(r, bs[i].addr, n)
  <2>1. r[i].addr = bs[i].addr /\ r[i].size = t[i].size /\ i \in 1 .. Len(r)
    BY <1>3, <1>5 DEF IsMarked
  <2>2. t[i].size \in Nat
    BY <1>3, <1>4, BlockFields
  <2> QED BY <1>3, <1>5, <2>1, <2>2 DEF Holds
<1>9. bs[i].addr \notin UsedAddrs(bs)
  <2>1. \A j \in 1 .. Len(bs) : bs[j].addr = bs[i].addr => j = i
    BY Addresses
  <2> QED BY <1>2, <2>1 DEF UsedAddrs
<1> QED BY <1>3, <1>5, <1>6, <1>7, <1>8, <1>9

(***************************************************************************)
(* Owners and used blocks.                                                 *)
(***************************************************************************)
Allocation == [ptr : Nat, size : Nat]

\* Owned, in terms of the operators above.
Matched(bs, lv) ==
  /\ \A h \in Handle : lv[h] # NULL =>
       lv[h].ptr - Header \in Nat /\ Holds(bs, lv[h].ptr - Header, lv[h].size)
  /\ \A a \in UsedAddrs(bs) : \E h \in Handle : lv[h] # NULL /\ lv[h].ptr - Header = a
  /\ \A g, h \in Handle :
       lv[g] # NULL /\ lv[h] # NULL /\ lv[g].ptr = lv[h].ptr => g = h

\* The address an allocation keeps busy.
Busy(v) == IF v = NULL THEN {} ELSE {v.ptr - Header}

\* From bs to r the used blocks follow an owner that trades allocation u for v.
Follows(bs, r, u, v) ==
  /\ UsedAddrs(r) = (UsedAddrs(bs) \ Busy(u)) \cup Busy(v)
  /\ Busy(v) \cap (UsedAddrs(bs) \ Busy(u)) = {}
  /\ \A a, s \in Nat : Holds(bs, a, s) /\ a \notin Busy(u) => Holds(r, a, s)
  /\ v # NULL => v.ptr - Header \in Nat /\ Holds(r, v.ptr - Header, v.size)

LEMMA Rebound ==
  ASSUME NEW bs, NEW r, NEW lv \in [Handle -> Allocation], Matched(bs, lv),
         NEW h \in Handle, NEW v \in Allocation, NEW lw, lw = [lv EXCEPT ![h] = v],
         Follows(bs, r, lv[h], v)
  PROVE  Matched(r, lw) /\ lw \in [Handle -> Allocation]
<1>1. /\ lw \in [Handle -> Allocation] /\ lw[h] = v
      /\ \A g \in Handle \ {h} : lw[g] = lv[g]
  OBVIOUS
<1>2. /\ UsedAddrs(r) = (UsedAddrs(bs) \ Busy(lv[h])) \cup Busy(v)
      /\ Busy(v) \cap (UsedAddrs(bs) \ Busy(lv[h])) = {}
      /\ \A a, s \in Nat : Holds(bs, a, s) /\ a \notin Busy(lv[h]) => Holds(r, a, s)
      /\ v # NULL => v.ptr - Header \in Nat /\ Holds(r, v.ptr - Header, v.size)
  BY DEF Follows
<1>3. \A g \in Handle : lv[g].ptr \in Nat /\ lv[g].size \in Nat
  BY DEF Allocation
<1>4. ASSUME NEW g \in Handle \ {h}, lv[g] # NULL
      PROVE  /\ lv[g].ptr - Header \notin Busy(lv[h])
             /\ lv[g].ptr - Header \in UsedAddrs(bs)
  <2>1. lv[g].ptr - Header \in UsedAddrs(bs)
    BY <1>4 DEF Matched, Holds, UsedAddrs
  <2>2. lv[h] # NULL => lv[g].ptr # lv[h].ptr
    BY <1>4 DEF Matched
  <2>3. lv[h] # NULL => lv[g].ptr - Header # lv[h].ptr - Header
    BY <1>3, <2>2, HeaderAssumption
  <2> QED BY <2>1, <2>3 DEF Busy
<1>5. ASSUME NEW g \in Handle, lw[g] # NULL
      PROVE  lw[g].ptr - Header \in Nat /\ Holds(r, lw[g].ptr - Header, lw[g].size)
  <2>1. CASE g = h
    BY <1>1, <1>2, <1>5, <2>1
  <2>2. CASE g # h
    <3>1. /\ lv[g] # NULL /\ lw[g] = lv[g]
          /\ lv[g].ptr - Header \in Nat /\ Holds(bs, lv[g].ptr - Header, lv[g].size)
      BY <1>1, <1>5, <2>2 DEF Matched
    <3> QED BY <1>2, <1>3, <1>4, <2>2, <3>1
  <2> QED BY <2>1, <2>2
<1>6. ASSUME NEW a \in UsedAddrs(r)
      PROVE  \E g \in Handle : lw[g] # NULL /\ lw[g].ptr - Header = a
  <2>1. CASE a \in Busy(v)
    BY <1>1, <2>1 DEF Busy
  <2>2. CASE a \notin Busy(v)
    <3>1. a \in UsedAddrs(bs) /\ a \notin Busy(lv[h])
      BY <1>2, <2>2
    <3>2. PICK g \in Handle : lv[g] # NULL /\ lv[g].ptr - Header = a
      BY <3>1 DEF Matched
    <3>3. g # h
      BY <3>1, <3>2 DEF Busy
    <3> QED BY <1>1, <3>2, <3>3
  <2> QED BY <2>1, <2>2
<1>7. ASSUME NEW g \in Handle \ {h}, lv[g] # NULL, v # NULL
      PROVE  lv[g].ptr # v.ptr
  BY <1>2, <1>4, <1>7 DEF Busy
<1>8. ASSUME NEW f \in Handle, NEW g \in Handle,
             lw[f] # NULL, lw[g] # NULL, lw[f].ptr = lw[g].ptr
      PROVE  f = g
  <2>1. CASE f # h /\ g # h
    BY <1>1, <1>8, <2>1 DEF Matched
  <2>2. CASE f = h /\ g # h
    BY <1>1, <1>7, <1>8, <2>2
  <2>3. CASE f # h /\ g = h
    BY <1>1, <1>7, <1>8, <2>3
  <2> QED BY <2>1, <2>2, <2>3
<1> QED BY <1>1, <1>5, <1>6, <1>8 DEF Matched

(***************************************************************************)
(* Sizes.                                                                  *)
(***************************************************************************)
LEMMA SmallModulo ==
  ASSUME NEW m \in Nat, NEW x \in 0 .. m
  PROVE  x % (m + 1) = x
OBVIOUS

\* A size that can be rounded up is not made smaller, and stays a size_t.
LEMMA RoundsUp ==
  ASSUME NEW n \in SizeT, ~ AlignUpOverflows(n, Align)
  PROVE  AlignUp(n, Align) \in SizeT /\ n <= AlignUp(n, Align)
<1> DEFINE x == n + (Align - 1)
<1>1. x \in 0 .. SizeMax
  BY AlignAssumption, SizeMaxAssumption DEF AlignUpOverflows, AddOverflows, SizeT
<1>2. x % (SizeMax + 1) = x
  BY <1>1, SmallModulo, SizeMaxAssumption
<1>3. x % Align \in 0 .. Align - 1
  BY <1>1, AlignAssumption
<1>4. AlignUp(n, Align) = x - (x % Align)
  BY <1>2 DEF AlignUp
<1>5. n \in Nat
  BY DEF SizeT
<1>6. n <= x - (x % Align) /\ x - (x % Align) <= x
  BY <1>3, <1>5, AlignAssumption
<1> QED BY <1>1, <1>3, <1>4, <1>5, <1>6, SizeMaxAssumption DEF SizeT

(***************************************************************************)
(* The inductive invariant.                                                *)
(***************************************************************************)
Inv ==
  /\ TypeOK
  /\ IF capacity = 0 THEN blocks = << >> ELSE Chain(blocks, capacity)
  /\ Matched(blocks, live)
  /\ HostBalanced

\* What the list operations leave is enough for the rest of Inv.
LEMMA NoBlocks ==
  UsedAddrs(<< >>) = {} /\ \A a, s : ~ Holds(<< >>, a, s)
BY DEF UsedAddrs, Holds

LEMMA NullIsAllocation == NULL \in Allocation /\ NULL.ptr = 0
BY DEF NULL, Allocation

LEMMA InitInv == Init => Inv
<1> SUFFICES ASSUME Init PROVE Inv
  OBVIOUS
<1> USE DEF Init
<1>1. live \in [Handle -> Allocation]
  BY NullIsAllocation
<1>2. TypeOK
  <2>1. DOMAIN mem = 0 .. capacity - 1 /\ blocks \in Seq(Block) /\ host = {}
    OBVIOUS
  <2> QED BY <1>1, <2>1 DEF TypeOK, Allocation
<1>3. Matched(blocks, live)
  BY NoBlocks DEF Matched
<1> QED BY <1>2, <1>3 DEF Inv, HostBalanced

LEMMA CreateInv ==
  ASSUME Inv, NEW c \in CreateSizes, Create(c)
  PROVE  Inv'
<1> USE DEF Create
<1>1. capacity' \in Nat /\ capacity' >= c /\ c > Header + Align /\ c \in Nat
  <2>1. c \in SizeT /\ c > Header + Align
    BY CreateSizesAssumption
  <2> QED BY <2>1, RoundsUp DEF SizeT
<1>2. capacity' # 0 /\ capacity' - Header \in Nat
  BY <1>1, HeaderAssumption, AlignAssumption
<1> DEFINE b == [addr |-> 0, size |-> capacity' - Header, free |-> TRUE]
<1>3. b \in Block /\ b.addr = 0 /\ b.size = capacity' - Header /\ b.free = TRUE
  BY <1>2 DEF Block
<1>4. blocks' = <<b>>
  OBVIOUS
<1> HIDE DEF b
<1>5. /\ blocks' \in Seq(Block) /\ Len(blocks') = 1 /\ blocks'[1] = b
      /\ End(b) = capacity'
  <2>1. <<b>> \in Seq(Block) /\ Len(<<b>>) = 1 /\ <<b>>[1] = b
    BY <1>3
  <2>2. (0 + Header) + (capacity' - Header) = capacity'
    BY <1>1, HeaderAssumption
  <2> QED BY <1>3, <1>4, <2>1, <2>2 DEF End, Payload
<1>6. Chain(blocks', capacity')
  <2>1. Ordered(blocks')
    BY <1>5 DEF Ordered
  <2>2. 1 .. Len(blocks') = {1}
    BY <1>5
  <2>3. \A i \in 1 .. Len(blocks') :
          End(blocks'[i]) = IF i = Len(blocks') THEN capacity' ELSE blocks'[i + 1].addr
    BY <1>5, <2>2
  <2>4. Len(blocks') >= 1 /\ blocks'[1].addr = 0
    BY <1>3, <1>5
  <2> QED BY <1>5, <2>1, <2>3, <2>4 DEF Chain
<1>7. \A h \in Handle : live[h] = NULL
  BY NoBlocks DEF Inv, Matched
<1>8. UsedAddrs(blocks') = {}
  BY <1>3, <1>5 DEF UsedAddrs
<1>9. Matched(blocks', live')
  BY <1>7, <1>8 DEF Matched
<1>10. HostBalanced'
  BY <1>2 DEF Inv, HostBalanced
<1>11. TypeOK'
  <2>1. DOMAIN mem' = 0 .. capacity' - 1
    OBVIOUS
  <2>2. host' \subseteq ToSet(CreateSteps)
    BY <1>10, <1>2 DEF HostBalanced
  <2> QED BY <1>1, <1>5, <2>1, <2>2 DEF TypeOK, Inv
<1>12. IF capacity' = 0 THEN blocks' = << >> ELSE Chain(blocks', capacity')
  BY <1>2, <1>6
<1> QED BY <1>9, <1>10, <1>11, <1>12 DEF Inv

LEMMA CreateFailsInv ==
  ASSUME Inv, NEW k \in DOMAIN CreateSteps, CreateFails(k)
  PROVE  Inv'
<1> USE DEF CreateFails
<1>1. host = {} /\ capacity = 0
  BY DEF Inv, HostBalanced
<1>2. host' = {}
  <2>1. k \in {1, 2, 3}
    BY DEF CreateSteps
  <2>2. CASE k = 1
    BY <1>1, <2>2 DEF CreateSteps, CreateCleanup
  <2>3. CASE k = 2
    BY <1>1, <2>3 DEF CreateSteps, CreateCleanup
  <2>4. CASE k = 3
    BY <1>1, <2>4 DEF CreateSteps, CreateCleanup
  <2> QED BY <2>1, <2>2, <2>3, <2>4
<1>3. TypeOK' /\ HostBalanced'
  BY <1>1, <1>2 DEF Inv, TypeOK, HostBalanced
<1>4. Matched(blocks', live')
  BY DEF Inv
<1> QED BY <1>1, <1>3, <1>4 DEF Inv

LEMMA DestroyInv ==
  ASSUME Inv, Destroy
  PROVE  Inv'
<1> USE DEF Destroy
<1>1. host' = {}
  BY DEF Inv, HostBalanced, ToSet, CreateSteps
<1>2. Matched(blocks', live')
  BY NoBlocks DEF Matched
<1>3. live' \in [Handle -> Allocation]
  BY NullIsAllocation
<1>4. DOMAIN mem' = 0 .. capacity' - 1 /\ blocks' \in Seq(Block) /\ capacity' = 0
  OBVIOUS
<1>5. TypeOK'
  BY <1>1, <1>3, <1>4 DEF TypeOK, Allocation
<1> QED BY <1>1, <1>2, <1>4, <1>5 DEF Inv, HostBalanced

\* While an owner holds an allocation there is a heap.
LEMMA LiveHeap ==
  ASSUME Inv, NEW h \in Handle, live[h] # NULL
  PROVE  capacity # 0 /\ Chain(blocks, capacity)
BY NoBlocks DEF Inv, Matched

\* The block an owner's pointer leads to is the one the owner holds.
LEMMA OwnBlock ==
  ASSUME Inv, NEW h \in Handle, live[h] # NULL,
         NEW i \in DOMAIN blocks, HoldsPayload(blocks, i, live[h].ptr)
  PROVE  /\ i \in 1 .. Len(blocks)
         /\ blocks[i].addr = live[h].ptr - Header /\ blocks[i].addr \in Nat
         /\ ~ blocks[i].free /\ live[h].size <= blocks[i].size
         /\ Busy(live[h]) = {blocks[i].addr}
<1>1. Chain(blocks, capacity)
  BY LiveHeap
<1>2. blocks \in Seq(Block) /\ DOMAIN blocks = 1 .. Len(blocks)
  BY <1>1, LenProperties DEF Chain
<1>3. blocks[i].addr \in Nat
  BY <1>2, BlockFields
<1>4. live[h].ptr \in Nat
  BY DEF Inv, TypeOK
<1>5. blocks[i].addr = live[h].ptr - Header
  BY <1>3, <1>4, HeaderAssumption DEF HoldsPayload, Payload
<1>6. Holds(blocks, blocks[i].addr, live[h].size)
  BY <1>5 DEF Inv, Matched
<1>7. PICK j \in 1 .. Len(blocks) :
        blocks[j].addr = blocks[i].addr /\ ~ blocks[j].free /\ blocks[j].size >= live[h].size
  BY <1>6 DEF Holds
<1>8. i = j
  BY <1>1, <1>2, <1>7, Addresses
<1>9. blocks[i].size \in Nat /\ live[h].size \in Nat
  BY <1>2, BlockFields DEF Inv, TypeOK
<1> QED BY <1>2, <1>3, <1>5, <1>7, <1>8, <1>9 DEF Busy

\* The parts of Inv that every step of a live heap has in common.
LEMMA HeapStep ==
  ASSUME Inv, capacity # 0, UNCHANGED <<host, capacity>>,
         Chain(blocks', capacity), DOMAIN mem' = DOMAIN mem,
         Matched(blocks', live'), live' \in [Handle -> Allocation]
  PROVE  Inv'
<1>1. HostBalanced'
  BY DEF Inv, HostBalanced
<1>2. TypeOK'
  BY DEF Inv, TypeOK, Chain, Allocation
<1> QED BY <1>1, <1>2 DEF Inv

\* Requests are sizes; what is rounded from them has room for them.
LEMMA Request ==
  ASSUME NEW n \in Requests, ~ AlignUpOverflows(n, Align)
  PROVE  n \in Nat /\ AlignUp(n, Align) \in Nat /\ n <= AlignUp(n, Align)
BY RoundsUp, RequestsAssumption, SizeMaxAssumption DEF SizeT

LEMMA NewAllocation ==
  ASSUME NEW p \in Nat, NEW n \in Nat, p > 0, NEW v, v = [ptr |-> p, size |-> n]
  PROVE  v \in Allocation /\ v # NULL /\ v.ptr = p /\ v.size = n /\ Busy(v) = {p - Header}
<1>1. v \in Allocation /\ v.ptr = p /\ v.size = n
  BY DEF Allocation
<1>2. v # NULL
  BY <1>1, NullIsAllocation
<1> QED BY <1>1, <1>2 DEF Busy

LEMMA HoldsLess ==
  ASSUME NEW bs \in Seq(Block), NEW a, NEW s \in Nat, NEW t \in Nat, s <= t, Holds(bs, a, t)
  PROVE  Holds(bs, a, s)
<1>1. PICK i \in 1 .. Len(bs) : bs[i].addr = a /\ ~ bs[i].free /\ bs[i].size >= t
  BY DEF Holds
<1>2. bs[i].size \in Nat
  BY BlockFields
<1> QED BY <1>1, <1>2 DEF Holds

LEMMA AllocInv ==
  ASSUME Inv, NEW h \in Handle, NEW n \in Requests, Alloc(h, n)
  PROVE  Inv'
<1> DEFINE size == AlignUp(n, Align)
<1>1. /\ capacity # 0 /\ live[h] = NULL /\ ~ AlignUpOverflows(n, Align)
      /\ UNCHANGED <<host, capacity>>
  BY DEF Alloc
<1>2. n \in Nat /\ size \in Nat /\ n <= size
  BY <1>1, Request
<1>3. PICK i \in DOMAIN blocks :
        /\ FirstFit(blocks, i, size)
        /\ blocks' = AllocBlocks(blocks, i, size)
        /\ live' = [live EXCEPT ![h] = [ptr |-> Payload(blocks[i]), size |-> n]]
        /\ mem' = Settled(Written(mem, blocks, blocks', h, Payload(blocks[i]),
                                  Cells(live'[h])), blocks', live')
  BY DEF Alloc
<1> HIDE DEF size
<1>4. Chain(blocks, capacity) /\ live \in [Handle -> Allocation] /\ Matched(blocks, live)
  BY <1>1 DEF Inv, TypeOK, Allocation
<1>5. blocks \in Seq(Block) /\ i \in 1 .. Len(blocks)
  BY <1>4, LenProperties DEF Chain
<1>6. blocks[i].addr \in Nat
  BY <1>5, BlockFields
<1>7. /\ Chain(blocks', capacity)
      /\ UsedAddrs(blocks') = UsedAddrs(blocks) \cup {blocks[i].addr}
      /\ blocks[i].addr \notin UsedAddrs(blocks)
      /\ \A a, s \in Nat : Holds(blocks, a, s) /\ a # blocks[i].addr => Holds(blocks', a, s)
      /\ Holds(blocks', blocks[i].addr, size)
  BY <1>2, <1>3, <1>4, <1>5, AllocKeeps DEF FirstFit
<1> DEFINE v == [ptr |-> Payload(blocks[i]), size |-> n]
<1>8. /\ v \in Allocation /\ v # NULL /\ Busy(v) = {v.ptr - Header}
      /\ v.size = n /\ v.ptr - Header = blocks[i].addr
  <2>1. /\ Payload(blocks[i]) \in Nat /\ Payload(blocks[i]) > 0
        /\ Payload(blocks[i]) - Header = blocks[i].addr
    BY <1>6, HeaderAssumption DEF Payload
  <2> QED BY <1>2, <2>1, NewAllocation
<1>9. live' = [live EXCEPT ![h] = v]
  BY <1>3
<1> HIDE DEF v
<1>10. Busy(live[h]) = {}
  BY <1>1 DEF Busy
<1>11. Holds(blocks', v.ptr - Header, v.size)
  BY <1>2, <1>7, <1>8, HoldsLess DEF Chain
<1>12. \A a, s \in Nat : Holds(blocks, a, s) => Holds(blocks', a, s)
  <2>1. \A s : ~ Holds(blocks, blocks[i].addr, s)
    BY <1>7 DEF Holds, UsedAddrs
  <2> QED BY <1>7, <2>1
<1>13. Matched(blocks', live') /\ live' \in [Handle -> Allocation]
  <2>1. UsedAddrs(blocks') = (UsedAddrs(blocks) \ Busy(live[h])) \cup Busy(v)
    BY <1>7, <1>8, <1>10
  <2>2. Busy(v) \cap (UsedAddrs(blocks) \ Busy(live[h])) = {}
    BY <1>7, <1>8
  <2>3. \A a, s \in Nat :
          Holds(blocks, a, s) /\ a \notin Busy(live[h]) => Holds(blocks', a, s)
    BY <1>12
  <2>4. v # NULL => v.ptr - Header \in Nat /\ Holds(blocks', v.ptr - Header, v.size)
    BY <1>6, <1>8, <1>11
  <2>5. Follows(blocks, blocks', live[h], v)
    BY <2>1, <2>2, <2>3, <2>4 DEF Follows
  <2> QED BY <1>4, <1>8, <1>9, <2>5, Rebound
<1>14. DOMAIN mem' = DOMAIN mem
  BY <1>3 DEF Settled, Written
<1> QED BY <1>1, <1>7, <1>13, <1>14, HeapStep

LEMMA DeallocInv ==
  ASSUME Inv, NEW h \in Handle, Dealloc(h)
  PROVE  Inv'
<1>1. live[h] # NULL /\ UNCHANGED <<host, capacity>>
  BY DEF Dealloc
<1>2. PICK i \in DOMAIN blocks :
        HoldsPayload(blocks, i, live[h].ptr) /\ blocks' = FreeBlocks(blocks, i)
  BY DEF Dealloc
<1>3. /\ Chain(blocks, capacity) /\ capacity # 0
      /\ live \in [Handle -> Allocation] /\ Matched(blocks, live)
  BY <1>1, LiveHeap DEF Inv, TypeOK, Allocation
<1>4. i \in 1 .. Len(blocks) /\ Busy(live[h]) = {blocks[i].addr}
  BY <1>1, <1>2, OwnBlock
<1>5. /\ Chain(blocks', capacity)
      /\ UsedAddrs(blocks') = UsedAddrs(blocks) \ {blocks[i].addr}
      /\ \A a, s \in Nat : Holds(blocks, a, s) /\ a # blocks[i].addr => Holds(blocks', a, s)
  BY <1>2, <1>3, <1>4, FreeKeeps
<1>6. live' = [live EXCEPT ![h] = NULL] /\ DOMAIN mem' = DOMAIN mem
  BY DEF Dealloc, Settled
<1>7. Busy(NULL) = {}
  BY DEF Busy
<1>8. Matched(blocks', live') /\ live' \in [Handle -> Allocation]
  <2>1. UsedAddrs(blocks') = (UsedAddrs(blocks) \ Busy(live[h])) \cup Busy(NULL)
    BY <1>4, <1>5, <1>7
  <2>2. Busy(NULL) \cap (UsedAddrs(blocks) \ Busy(live[h])) = {}
    BY <1>7
  <2>3. \A a, s \in Nat :
          Holds(blocks, a, s) /\ a \notin Busy(live[h]) => Holds(blocks', a, s)
    BY <1>4, <1>5
  <2>4. Follows(blocks, blocks', live[h], NULL)
    BY <2>1, <2>2, <2>3 DEF Follows
  <2> QED BY <1>3, <1>6, <2>4, NullIsAllocation, Rebound
<1> QED BY <1>1, <1>3, <1>5, <1>6, <1>8, HeapStep

(***************************************************************************)
(* Resizing.                                                               *)
(***************************************************************************)
\* A resize that keeps the pointer: the used blocks stay, the own one has
\* room for the new size.
LEMMA ResizedInPlace ==
  ASSUME Inv, NEW h \in Handle, live[h] # NULL, NEW n \in Nat,
         UNCHANGED <<host, capacity>>,
         live' = [live EXCEPT ![h].size = n],
         DOMAIN mem' = DOMAIN mem,
         Chain(blocks', capacity),
         UsedAddrs(blocks') = UsedAddrs(blocks),
         \A a, s \in Nat :
           Holds(blocks, a, s) /\ (a # live[h].ptr - Header \/ s <= n) => Holds(blocks', a, s),
         Holds(blocks', live[h].ptr - Header, n)
  PROVE  Inv'
<1>1. /\ Chain(blocks, capacity) /\ capacity # 0
      /\ live \in [Handle -> Allocation] /\ Matched(blocks, live)
  BY LiveHeap DEF Inv, TypeOK, Allocation
<1>2. live[h] \in Allocation /\ live[h].ptr - Header \in Nat /\ live[h].ptr \in Nat
  BY <1>1 DEF Matched, Allocation
<1> DEFINE v == [live[h] EXCEPT !.size = n]
<1>3. v = [ptr |-> live[h].ptr, size |-> n]
  BY <1>2 DEF Allocation
<1>4. live' = [live EXCEPT ![h] = v]
  OBVIOUS
<1> HIDE DEF v
<1>5. /\ v \in Allocation /\ v # NULL /\ Busy(v) = {live[h].ptr - Header}
      /\ v.ptr = live[h].ptr /\ v.size = n
  <2>1. live[h].ptr > 0
    BY <1>2, HeaderAssumption
  <2> QED BY <1>2, <1>3, <2>1, NewAllocation
<1>6. Busy(live[h]) = Busy(v) /\ Busy(v) \subseteq UsedAddrs(blocks)
  <2>1. Holds(blocks, live[h].ptr - Header, live[h].size)
    BY <1>1 DEF Matched
  <2> QED BY <1>5, <2>1 DEF Busy, Holds, UsedAddrs
<1>7. Matched(blocks', live') /\ live' \in [Handle -> Allocation]
  <2>1. UsedAddrs(blocks') = (UsedAddrs(blocks) \ Busy(live[h])) \cup Busy(v)
    BY <1>6
  <2>2. Busy(v) \cap (UsedAddrs(blocks) \ Busy(live[h])) = {}
    BY <1>6
  <2>3. \A a, s \in Nat :
          Holds(blocks, a, s) /\ a \notin Busy(live[h]) => Holds(blocks', a, s)
    BY <1>5, <1>6
  <2>4. v # NULL => v.ptr - Header \in Nat /\ Holds(blocks', v.ptr - Header, v.size)
    BY <1>2, <1>5
  <2>5. Follows(blocks, blocks', live[h], v)
    BY <2>1, <2>2, <2>3, <2>4 DEF Follows
  <2>6. PICK w : w = [live EXCEPT ![h] = v]
    OBVIOUS
  <2>7. Matched(blocks', w) /\ w \in [Handle -> Allocation]
    BY <1>1, <1>5, <2>5, <2>6, Rebound
  <2> QED BY <1>4, <2>6, <2>7
<1> QED BY <1>1, <1>7, HeapStep

LEMMA ResizeInBlockInv ==
  ASSUME Inv, NEW h \in Handle, live[h] # NULL, NEW n \in Requests,
         ~ AlignUpOverflows(n, Align), UNCHANGED <<host, capacity>>,
         NEW i \in DOMAIN blocks, ResizeInBlock(h, n, i)
  PROVE  Inv'
<1> DEFINE size == AlignUp(n, Align)
<1>1. n \in Nat /\ size \in Nat /\ n <= size
  BY Request
<1>2. /\ HoldsPayload(blocks, i, live[h].ptr)
      /\ blocks[i].size >= size
      /\ blocks' = Split(blocks, i, size)
      /\ live' = [live EXCEPT ![h].size = n]
      /\ DOMAIN mem' = DOMAIN mem
  BY DEF ResizeInBlock, Settled, Written
<1> HIDE DEF size
<1>3. Chain(blocks, capacity) /\ blocks \in Seq(Block)
  BY LiveHeap DEF Chain
<1>4. /\ i \in 1 .. Len(blocks) /\ blocks[i].addr = live[h].ptr - Header
      /\ ~ blocks[i].free
  BY <1>2, OwnBlock
<1>5. size <= blocks[i].size
  <2>1. blocks[i].size \in Nat
    BY <1>3, <1>4, BlockFields
  <2> QED BY <1>1, <1>2, <2>1
<1>6. /\ Chain(blocks', capacity)
      /\ UsedAddrs(blocks') = UsedAddrs(blocks)
      /\ \A a, s \in Nat :
           Holds(blocks, a, s) /\ (a # blocks[i].addr \/ s <= size) => Holds(blocks', a, s)
      /\ i \in 1 .. Len(blocks') /\ blocks'[i].addr = blocks[i].addr
      /\ blocks'[i].free = blocks[i].free /\ size <= blocks'[i].size
  <2>1. blocks' = Split(blocks, i, size) /\ size \in Nat /\ i \in 1 .. Len(blocks)
    BY <1>1, <1>2, <1>4
  <2>2. /\ Chain(blocks', capacity)
        /\ UsedAddrs(blocks') = UsedAddrs(blocks)
        /\ \A a, s \in Nat :
             Holds(blocks, a, s) /\ (a # blocks[i].addr \/ s <= size) => Holds(blocks', a, s)
        /\ i \in 1 .. Len(blocks') /\ blocks'[i].addr = blocks[i].addr
        /\ blocks'[i].free = blocks[i].free
        /\ size <= blocks[i].size => size <= blocks'[i].size
    BY <1>3, <2>1, SplitKeeps
  <2> QED BY <1>5, <2>2
<1>7. Holds(blocks', live[h].ptr - Header, n)
  <2>1. blocks'[i].size \in Nat
    BY <1>6, BlockFields DEF Chain
  <2>2. blocks'[i].size >= n
    BY <1>1, <1>6, <2>1
  <2> QED BY <1>4, <1>6, <2>2 DEF Holds
<1>8. \A a, s \in Nat :
        Holds(blocks, a, s) /\ (a # live[h].ptr - Header \/ s <= n) => Holds(blocks', a, s)
  BY <1>1, <1>4, <1>6
<1> QED BY <1>1, <1>2, <1>6, <1>7, <1>8, ResizedInPlace

LEMMA ResizeIntoNextInv ==
  ASSUME Inv, NEW h \in Handle, live[h] # NULL, NEW n \in Requests,
         ~ AlignUpOverflows(n, Align), UNCHANGED <<host, capacity>>,
         NEW i \in DOMAIN blocks, ResizeIntoNext(h, n, i)
  PROVE  Inv'
<1> DEFINE size == AlignUp(n, Align)
<1>1. n \in Nat /\ size \in Nat /\ n <= size
  BY Request
<1>2. /\ HoldsPayload(blocks, i, live[h].ptr)
      /\ FreeAt(blocks, i + 1)
      /\ blocks[i].size + Header + blocks[i + 1].size >= size
      /\ blocks' = Split(Absorb(blocks, i), i, size)
      /\ live' = [live EXCEPT ![h].size = n]
      /\ DOMAIN mem' = DOMAIN mem
  BY DEF ResizeIntoNext, CanAbsorb, Settled, Written
<1> HIDE DEF size
<1>3. Chain(blocks, capacity) /\ blocks \in Seq(Block)
  BY LiveHeap DEF Chain
<1>4. /\ i \in 1 .. Len(blocks) /\ blocks[i].addr = live[h].ptr - Header
      /\ ~ blocks[i].free
  BY <1>2, OwnBlock
<1> DEFINE joined == Absorb(blocks, i)
<1>5. /\ Chain(joined, capacity)
      /\ UsedAddrs(joined) = UsedAddrs(blocks)
      /\ \A a, s \in Nat : Holds(blocks, a, s) => Holds(joined, a, s)
      /\ i \in 1 .. Len(joined) /\ joined[i].addr = blocks[i].addr
      /\ joined[i].free = blocks[i].free
      /\ joined[i].size = blocks[i].size + Header + blocks[i + 1].size
  BY <1>2, <1>3, <1>4, AbsorbKeeps
<1>6. blocks' = Split(joined, i, size)
  BY <1>2
<1> HIDE DEF joined
<1>7. size <= joined[i].size
  <2>1. joined[i].size \in Nat /\ joined[i].size >= size
    BY <1>2, <1>5, BlockFields DEF Chain
  <2> QED BY <1>1, <2>1
<1>8. /\ Chain(blocks', capacity)
      /\ UsedAddrs(blocks') = UsedAddrs(joined)
      /\ \A a, s \in Nat :
           Holds(joined, a, s) /\ (a # joined[i].addr \/ s <= size) => Holds(blocks', a, s)
      /\ i \in 1 .. Len(blocks') /\ blocks'[i].addr = joined[i].addr
      /\ blocks'[i].free = joined[i].free /\ size <= blocks'[i].size
  BY <1>1, <1>5, <1>6, <1>7, SplitKeeps
<1>9. Holds(blocks', live[h].ptr - Header, n)
  <2>1. blocks'[i].size \in Nat
    BY <1>8, BlockFields DEF Chain
  <2>2. blocks'[i].size >= n
    BY <1>1, <1>8, <2>1
  <2> QED BY <1>4, <1>5, <1>8, <2>2 DEF Holds
<1>10. \A a, s \in Nat :
         Holds(blocks, a, s) /\ (a # live[h].ptr - Header \/ s <= n) => Holds(blocks', a, s)
  BY <1>1, <1>4, <1>5, <1>8
<1> QED BY <1>1, <1>2, <1>5, <1>8, <1>9, <1>10, ResizedInPlace

\* A resize that moves: the new block is taken, then the old one given back.
LEMMA ResizeMovesInv ==
  ASSUME Inv, NEW h \in Handle, live[h] # NULL, NEW n \in Requests,
         ~ AlignUpOverflows(n, Align), UNCHANGED <<host, capacity>>,
         NEW i \in DOMAIN blocks, ResizeMoves(h, n, i)
  PROVE  Inv'
<1> DEFINE size == AlignUp(n, Align)
<1>1. n \in Nat /\ size \in Nat /\ n <= size
  BY Request
<1>2. PICK j \in DOMAIN blocks :
        /\ FirstFit(blocks, j, size)
        /\ \E k \in DOMAIN AllocBlocks(blocks, j, size) :
             /\ HoldsPayload(AllocBlocks(blocks, j, size), k, live[h].ptr)
             /\ blocks' = FreeBlocks(AllocBlocks(blocks, j, size), k)
        /\ live' = [live EXCEPT ![h] = [ptr |-> Payload(blocks[j]), size |-> n]]
        /\ DOMAIN mem' = DOMAIN mem
  BY DEF ResizeMoves, Settled, Written, Copied
<1> HIDE DEF size
<1>3. PICK moved : moved = AllocBlocks(blocks, j, size)
  OBVIOUS
<1>4. PICK k \in DOMAIN moved :
        HoldsPayload(moved, k, live[h].ptr) /\ blocks' = FreeBlocks(moved, k)
  BY <1>2, <1>3
<1>5. /\ Chain(blocks, capacity) /\ capacity # 0
      /\ live \in [Handle -> Allocation] /\ Matched(blocks, live)
  BY LiveHeap DEF Inv, TypeOK, Allocation
<1>6. j \in 1 .. Len(blocks) /\ blocks[j].addr \in Nat
  <2>1. blocks \in Seq(Block) /\ j \in 1 .. Len(blocks)
    BY <1>5, LenProperties DEF Chain
  <2> QED BY <2>1, BlockFields
<1>7. /\ Chain(moved, capacity)
      /\ UsedAddrs(moved) = UsedAddrs(blocks) \cup {blocks[j].addr}
      /\ blocks[j].addr \notin UsedAddrs(blocks)
      /\ \A a, s \in Nat : Holds(blocks, a, s) /\ a # blocks[j].addr => Holds(moved, a, s)
      /\ Holds(moved, blocks[j].addr, size)
  BY <1>1, <1>2, <1>3, <1>5, <1>6, AllocKeeps DEF FirstFit
<1>8. /\ k \in 1 .. Len(moved) /\ moved[k].addr = live[h].ptr - Header
      /\ live[h].ptr - Header \in UsedAddrs(blocks)
  <2>1. moved \in Seq(Block) /\ k \in 1 .. Len(moved)
    BY <1>7, LenProperties DEF Chain
  <2>2. moved[k].addr \in Nat
    BY <2>1, BlockFields
  <2>3. moved[k].addr = live[h].ptr - Header
    BY <1>4, <2>2, HeaderAssumption DEF HoldsPayload, Payload
  <2>4. Holds(blocks, live[h].ptr - Header, live[h].size)
    BY <1>5 DEF Matched
  <2> QED BY <2>1, <2>3, <2>4 DEF Holds, UsedAddrs
<1>9. /\ Chain(blocks', capacity)
      /\ UsedAddrs(blocks') = UsedAddrs(moved) \ {moved[k].addr}
      /\ \A a, s \in Nat : Holds(moved, a, s) /\ a # moved[k].addr => Holds(blocks', a, s)
  BY <1>4, <1>7, <1>8, FreeKeeps
<1> DEFINE v == [ptr |-> Payload(blocks[j]), size |-> n]
<1>10. /\ v \in Allocation /\ v # NULL /\ Busy(v) = {v.ptr - Header}
       /\ v.size = n /\ v.ptr - Header = blocks[j].addr
  <2>1. /\ Payload(blocks[j]) \in Nat /\ Payload(blocks[j]) > 0
        /\ Payload(blocks[j]) - Header = blocks[j].addr
    BY <1>6, HeaderAssumption DEF Payload
  <2> QED BY <1>1, <2>1, NewAllocation
<1>11. live' = [live EXCEPT ![h] = v]
  BY <1>2
<1> HIDE DEF v
<1>12. Busy(live[h]) = {moved[k].addr}
  BY <1>8 DEF Busy
<1>13. blocks[j].addr # moved[k].addr
  BY <1>7, <1>8
<1>14. Holds(blocks', blocks[j].addr, n)
  <2>1. Holds(blocks', blocks[j].addr, size)
    BY <1>1, <1>6, <1>7, <1>9, <1>13
  <2> QED BY <1>1, <1>9, <2>1, HoldsLess DEF Chain
<1>15. ASSUME NEW a \in Nat, NEW s \in Nat, Holds(blocks, a, s), a # moved[k].addr
       PROVE  Holds(blocks', a, s)
  <2>1. a # blocks[j].addr
    BY <1>7, <1>15 DEF Holds, UsedAddrs
  <2> QED BY <1>7, <1>9, <1>15, <2>1
<1>16. Matched(blocks', live') /\ live' \in [Handle -> Allocation]
  <2>1. UsedAddrs(blocks') = (UsedAddrs(blocks) \ Busy(live[h])) \cup Busy(v)
    BY <1>7, <1>9, <1>10, <1>12, <1>13
  <2>2. Busy(v) \cap (UsedAddrs(blocks) \ Busy(live[h])) = {}
    BY <1>7, <1>10
  <2>3. \A a, s \in Nat :
          Holds(blocks, a, s) /\ a \notin Busy(live[h]) => Holds(blocks', a, s)
    BY <1>12, <1>15
  <2>4. v # NULL => v.ptr - Header \in Nat /\ Holds(blocks', v.ptr - Header, v.size)
    BY <1>6, <1>10, <1>14
  <2>5. Follows(blocks, blocks', live[h], v)
    BY <2>1, <2>2, <2>3, <2>4 DEF Follows
  <2> QED BY <1>5, <1>10, <1>11, <2>5, Rebound
<1> QED BY <1>2, <1>5, <1>9, <1>16, HeapStep

LEMMA ResizeInv ==
  ASSUME Inv, NEW h \in Handle, NEW n \in Requests, Resize(h, n)
  PROVE  Inv'
<1>1. /\ live[h] # NULL /\ ~ AlignUpOverflows(n, Align) /\ UNCHANGED <<host, capacity>>
  BY DEF Resize
<1>2. PICK i \in DOMAIN blocks :
        ResizeInBlock(h, n, i) \/ ResizeIntoNext(h, n, i) \/ ResizeMoves(h, n, i)
  BY DEF Resize
<1>3. CASE ResizeInBlock(h, n, i)
  BY <1>1, <1>3, ResizeInBlockInv
<1>4. CASE ResizeIntoNext(h, n, i)
  BY <1>1, <1>4, ResizeIntoNextInv
<1>5. CASE ResizeMoves(h, n, i)
  BY <1>1, <1>5, ResizeMovesInv
<1> QED BY <1>2, <1>3, <1>4, <1>5

LEMMA UnchangedInv == Inv /\ UNCHANGED vars => Inv'
BY DEF Inv, TypeOK, Matched, HostBalanced, vars

LEMMA NextInv == Inv /\ [Next]_vars => Inv'
<1> SUFFICES ASSUME Inv, [Next]_vars PROVE Inv'
  OBVIOUS
<1>1. CASE UNCHANGED vars
  BY <1>1, UnchangedInv
<1>2. ASSUME NEW c \in CreateSizes, Create(c)
      PROVE  Inv'
  BY <1>2, CreateInv
<1>3. ASSUME NEW c \in CreateSizes, CreateOverflows(c)
      PROVE  Inv'
  BY <1>3, UnchangedInv DEF CreateOverflows
<1>4. ASSUME NEW k \in DOMAIN CreateSteps, CreateFails(k)
      PROVE  Inv'
  BY <1>4, CreateFailsInv
<1>5. CASE Destroy
  BY <1>5, DestroyInv
<1>6. ASSUME NEW h \in Handle, Dealloc(h)
      PROVE  Inv'
  BY <1>6, DeallocInv
<1>7. ASSUME NEW h \in Handle, NEW n \in Requests, Alloc(h, n)
      PROVE  Inv'
  BY <1>7, AllocInv
<1>8. ASSUME NEW h \in Handle, NEW n \in Requests, AllocFails(h, n)
      PROVE  Inv'
  BY <1>8, UnchangedInv DEF AllocFails
<1>9. ASSUME NEW h \in Handle, NEW n \in Requests, Resize(h, n)
      PROVE  Inv'
  BY <1>9, ResizeInv
<1>10. ASSUME NEW h \in Handle, NEW n \in Requests, ResizeFails(h, n)
       PROVE  Inv'
  BY <1>10, UnchangedInv DEF ResizeFails
<1> QED BY <1>1, <1>2, <1>3, <1>4, <1>5, <1>6, <1>7, <1>8, <1>9, <1>10 DEF Next

\* general_heap.c: every operation keeps the list of blocks in address order,
\* without gaps, and its used blocks matched with the owners.
THEOREM Invariance == Spec => []Inv
BY InitInv, NextInv, PTL DEF Spec

(***************************************************************************)
(* What follows from it.                                                   *)
(***************************************************************************)
\* The variables keep their types, for every buffer size and every request.
THEOREM TypeCorrect == Spec => []TypeOK
<1>1. Inv => TypeOK
  BY DEF Inv
<1> QED BY <1>1, Invariance, PTL

\* k4c_heap_create gives back what it took before a failure, k4c_heap_destroy
\* the rest.
THEOREM HostIsBalanced == Spec => []HostBalanced
<1>1. Inv => HostBalanced
  BY DEF Inv
<1> QED BY <1>1, Invariance, PTL

\* After any sequence of splits and merges, headers and payloads cover the
\* buffer without a gap or an overlap.
THEOREM BlocksTileTheBuffer == Spec => []Tiled
<1>1. Inv => Tiled
  <2> SUFFICES ASSUME Inv PROVE Tiled
    OBVIOUS
  <2>1. CASE capacity = 0
    BY <2>1 DEF Inv, Tiled
  <2>2. CASE capacity # 0
    <3>1. Chain(blocks, capacity) /\ DOMAIN blocks = 1 .. Len(blocks)
      BY <2>2, LenProperties DEF Inv, Chain
    <3>2. blocks # << >>
      <4>1. Len(blocks) >= 1
        BY <3>1 DEF Chain
      <4>2. Len(<< >>) = 0
        BY SMTT(20)
      <4> QED BY <4>1, <4>2, SMTT(20)
    <3>3. blocks[1].addr = 0
      BY <3>1, ZenonT(20) DEF Chain
    <3>4. \A i \in DOMAIN blocks :
            End(blocks[i]) = IF i = Len(blocks) THEN capacity ELSE blocks[i + 1].addr
      BY <3>1 DEF Chain
    <3>5. capacity = 0 <=> blocks = << >>
      BY <2>2, <3>2
    <3> QED BY <3>3, <3>4, <3>5, Zenon DEF Tiled
  <2> QED BY <2>1, <2>2
<1> QED BY <1>1, Invariance, PTL

\* Allocation, release and all three ways of resizing keep owners and used
\* blocks in one-to-one correspondence: no block is handed out twice, none is
\* lost, and none is smaller than what its owner asked for.
THEOREM BlocksAreOwned == Spec => []Owned
<1>1. Inv => Owned
  <2> SUFFICES ASSUME Inv PROVE Owned
    OBVIOUS
  <2>1. Matched(blocks, live) /\ DOMAIN blocks = 1 .. Len(blocks)
    BY LenProperties DEF Inv, TypeOK
  <2>2. ASSUME NEW i \in 1 .. Len(blocks)
        PROVE  blocks[i].addr \in Nat /\ blocks[i].size \in Nat
    BY BlockFields DEF Inv, TypeOK
  <2>3. ASSUME NEW h \in Handle, live[h] # NULL
        PROVE  /\ live[h].ptr \in Nat
               /\ \E i \in DOMAIN blocks :
                    /\ HoldsPayload(blocks, i, live[h].ptr)
                    /\ ~ blocks[i].free /\ blocks[i].size >= live[h].size
    <3>1. live[h].ptr \in Nat
      BY DEF Inv, TypeOK
    <3>2. PICK i \in 1 .. Len(blocks) :
            /\ blocks[i].addr = live[h].ptr - Header
            /\ ~ blocks[i].free /\ blocks[i].size >= live[h].size
      BY <2>1, <2>3 DEF Matched, Holds
    <3>3. Payload(blocks[i]) = live[h].ptr
      BY <3>1, <3>2, HeaderAssumption DEF Payload
    <3> QED BY <2>1, <3>1, <3>2, <3>3 DEF HoldsPayload
  <2>4. ASSUME NEW i \in DOMAIN blocks, ~ blocks[i].free
        PROVE  \E h \in Handle : live[h] # NULL /\ live[h].ptr = Payload(blocks[i])
    <3>1. i \in 1 .. Len(blocks) /\ blocks[i].addr \in UsedAddrs(blocks)
      BY <2>1, <2>4 DEF UsedAddrs
    <3>2. PICK h \in Handle : live[h] # NULL /\ live[h].ptr - Header = blocks[i].addr
      BY <2>1, <3>1 DEF Matched
    <3>3. live[h].ptr = Payload(blocks[i])
      BY <2>2, <2>3, <3>1, <3>2, HeaderAssumption DEF Payload
    <3> QED BY <3>2, <3>3
  <2> QED BY <2>1, <2>3, <2>4 DEF Owned, Matched
<1> QED BY <1>1, Invariance, PTL

\* general_heap.c as a whole: whatever the calls and the failures, the heap
\* stays a well-formed list of blocks that its owners' pointers match.
THEOREM HeapIsConsistent == Spec => []Consistent
BY TypeCorrect, BlocksTileTheBuffer, BlocksAreOwned, HostIsBalanced, PTL DEF Consistent

(***************************************************************************)
(* Alignment.                                                              *)
(***************************************************************************)
LEMMA Division ==
  ASSUME NEW n \in Nat \ {0}, NEW a \in Int
  PROVE  a = n * (a \div n) + (a % n) /\ a \div n \in Int /\ a % n \in 0 .. n - 1
OBVIOUS

LEMMA MultipleOf ==
  ASSUME NEW n \in Nat \ {0}, NEW q \in Int
  PROVE  (n * q) % n = 0
OBVIOUS

LEMMA SumOfMultiples ==
  ASSUME NEW a \in Nat, NEW b \in Nat, a % Align = 0, b % Align = 0
  PROVE  (a + b) % Align = 0
<1> DEFINE p == a \div Align
           q == b \div Align
<1>1. Align \in Nat \ {0}
  BY AlignAssumption
<1>2. a = Align * p /\ p \in Int /\ b = Align * q /\ q \in Int
  BY <1>1, Division
<1> HIDE DEF p, q
<1>3. a + b = Align * (p + q) /\ p + q \in Int
  BY <1>1, <1>2
<1> QED BY <1>1, <1>3, MultipleOf

LEMMA DifferenceOfMultiples ==
  ASSUME NEW a \in Nat, NEW b \in Nat, a % Align = 0, b % Align = 0
  PROVE  (a - b) % Align = 0
<1> DEFINE p == a \div Align
           q == b \div Align
<1>1. Align \in Nat \ {0}
  BY AlignAssumption
<1>2. a = Align * p /\ p \in Int /\ b = Align * q /\ q \in Int
  BY <1>1, Division
<1> HIDE DEF p, q
<1>3. a - b = Align * (p - q) /\ p - q \in Int
  BY <1>1, <1>2
<1> QED BY <1>1, <1>3, MultipleOf

\* What is rounded up is a multiple of Align, and not 0.
LEMMA RoundedIsEven ==
  ASSUME NEW n \in SizeT \ {0}, ~ AlignUpOverflows(n, Align)
  PROVE  /\ AlignUp(n, Align) \in Nat /\ AlignUp(n, Align) % Align = 0
         /\ AlignUp(n, Align) >= Align
<1> DEFINE x == n + (Align - 1)
<1>1. x \in 0 .. SizeMax /\ n \in Nat /\ Align \in Nat \ {0}
  BY AlignAssumption, SizeMaxAssumption DEF AlignUpOverflows, AddOverflows, SizeT
<1>2. x % (SizeMax + 1) = x
  BY <1>1, SmallModulo, SizeMaxAssumption
<1>3. AlignUp(n, Align) = x - (x % Align)
  BY <1>2 DEF AlignUp
<1>4. x >= Align /\ x \in Int
  BY <1>1
<1> HIDE DEF x
<1> DEFINE q == x \div Align
<1>5. x = Align * q + (x % Align) /\ q \in Int /\ x % Align \in 0 .. Align - 1
  BY <1>1, <1>4, Division
<1> HIDE DEF q
<1>6. q >= 1
  <2>1. ASSUME q <= 0 PROVE Align * q <= 0
    <3>1. 0 - q \in Nat /\ Align * (0 - q) \in Nat /\ Align * q = 0 - Align * (0 - q)
      BY <1>1, <1>5, <2>1
    <3> QED BY <3>1
  <2>2. Align * q \in Int
    BY <1>1, <1>5
  <2> QED BY <1>1, <1>4, <1>5, <2>1, <2>2
<1>7. Align * q >= Align /\ Align * q \in Nat
  <2>1. q - 1 \in Nat /\ Align * (q - 1) \in Nat /\ Align * q = Align * (q - 1) + Align
    BY <1>1, <1>5, <1>6
  <2> QED BY <1>1, <2>1
<1>8. AlignUp(n, Align) = Align * q
  BY <1>3, <1>4, <1>5, <1>7
<1> QED BY <1>1, <1>5, <1>7, <1>8, MultipleOf

\* Aligned, of a list.
Even(bs) ==
  \A i \in 1 .. Len(bs) :
    bs[i].addr % Align = 0 /\ bs[i].size % Align = 0 /\ bs[i].size >= Align

\* No header of r is where bs has none.
Within(r, bs) == \A j \in 1 .. Len(r) : \E k \in 1 .. Len(bs) : r[j].addr = bs[k].addr

LEMMA CutEven ==
  ASSUME NEW bs \in Seq(Block), Even(bs), NEW i \in 1 .. Len(bs), NEW n \in Nat,
         n % Align = 0, n >= Align, bs[i].size - n > Header + Align,
         NEW r, IsCut(r, bs, i, n)
  PROVE  Even(r)
<1>1. Len(bs) \in Nat /\ bs[i].addr \in Nat /\ bs[i].size \in Nat
  BY LenProperties, BlockFields
<1>2. Header \in Nat /\ Header % Align = 0 /\ Align \in Nat
  BY HeaderAssumption, AlignAssumption
<1>3. bs[i].addr % Align = 0 /\ bs[i].size % Align = 0
  BY DEF Even
<1>4. ((bs[i].addr + Header) + n) % Align = 0
  <2>1. (bs[i].addr + Header) % Align = 0
    BY <1>1, <1>2, <1>3, SumOfMultiples
  <2>2. bs[i].addr + Header \in Nat
    BY <1>1, <1>2
  <2> QED BY <2>1, <2>2, SumOfMultiples
<1>5. ((bs[i].size - n) - Header) % Align = 0 /\ (bs[i].size - n) - Header >= Align
  <2>1. (bs[i].size - n) % Align = 0
    BY <1>1, <1>3, DifferenceOfMultiples
  <2>2. bs[i].size - n \in Nat
    BY <1>1, <1>2
  <2>3. ((bs[i].size - n) - Header) % Align = 0
    BY <1>2, <2>1, <2>2, DifferenceOfMultiples
  <2> QED BY <1>1, <1>2, <2>3
<1>6. ASSUME NEW j \in 1 .. Len(r)
      PROVE  r[j].addr % Align = 0 /\ r[j].size % Align = 0 /\ r[j].size >= Align
  <2>1. CASE j < i
    <3>1. r[j] = bs[j] /\ j \in 1 .. Len(bs)
      BY <1>1, <2>1, SMTT(20) DEF IsCut
    <3> QED BY <3>1 DEF Even
  <2>2. CASE j = i
    BY <1>3, <2>2 DEF IsCut
  <2>3. CASE j = i + 1
    BY <1>4, <1>5, <2>3 DEF IsCut, Payload
  <2>4. CASE j > i + 1
    <3>1. j - 1 \in i + 1 .. Len(bs) /\ j - 1 \in 1 .. Len(bs) /\ (j - 1) + 1 = j
      BY <1>1, <2>4 DEF IsCut
    <3>2. r[j] = bs[j - 1]
      <4>1. \A m \in i + 1 .. Len(bs) : r[m + 1] = bs[m]
        BY DEF IsCut
      <4>2. r[(j - 1) + 1] = bs[j - 1]
        BY <3>1, <4>1
      <4> QED BY <3>1, <4>2
    <3> QED BY <3>1, <3>2 DEF Even
  <2>5. j < i \/ j = i \/ j = i + 1 \/ j > i + 1
    BY <1>1
  <2> QED BY <2>1, <2>2, <2>3, <2>4, <2>5
<1> QED BY <1>6 DEF Even

LEMMA JoinEven ==
  ASSUME NEW bs \in Seq(Block), NEW i \in 1 .. Len(bs), i + 1 \in 1 .. Len(bs),
         NEW r, IsJoin(r, bs, i)
  PROVE  Within(r, bs) /\ (Even(bs) => Even(r))
<1>1. /\ Len(bs) \in Nat /\ Len(r) = Len(bs) - 1
      /\ bs[i].size \in Nat /\ bs[i + 1].size \in Nat
  <2>1. \A j \in 1 .. Len(bs) : bs[j].size \in Nat
    BY BlockFields
  <2> QED BY <2>1, LenProperties DEF IsJoin
<1>2. Header \in Nat /\ Header % Align = 0 /\ Align \in Nat
  BY HeaderAssumption, AlignAssumption
<1>3. ASSUME Even(bs)
      PROVE  /\ (bs[i].size + Header + bs[i + 1].size) % Align = 0
             /\ bs[i].size + Header + bs[i + 1].size >= Align
  <2>1. bs[i].size % Align = 0 /\ bs[i + 1].size % Align = 0 /\ bs[i].size >= Align
    BY <1>3 DEF Even
  <2>2. (bs[i].size + Header) % Align = 0
    BY <1>1, <1>2, <2>1, SumOfMultiples
  <2>3. bs[i].size + Header \in Nat
    BY <1>1, <1>2
  <2>4. (bs[i].size + Header + bs[i + 1].size) % Align = 0
    BY <1>1, <2>1, <2>2, <2>3, SumOfMultiples
  <2> QED BY <1>1, <1>2, <2>1, <2>4, SMTT(20)
<1>4. ASSUME NEW j \in 1 .. Len(r)
      PROVE  /\ \E k \in 1 .. Len(bs) : r[j].addr = bs[k].addr
             /\ Even(bs) =>
                  r[j].addr % Align = 0 /\ r[j].size % Align = 0 /\ r[j].size >= Align
  <2>1. CASE j < i
    <3>1. r[j] = bs[j] /\ j \in 1 .. Len(bs)
      BY <1>1, <2>1 DEF IsJoin
    <3> QED BY <3>1 DEF Even
  <2>2. CASE j = i
    BY <1>3, <2>2 DEF IsJoin, Even
  <2>3. CASE j > i
    <3>1. j \in i + 1 .. Len(bs) - 1 /\ j + 1 \in 1 .. Len(bs)
      BY <1>1, <2>3
    <3>2. r[j] = bs[j + 1]
      BY <3>1 DEF IsJoin
    <3> QED BY <3>1, <3>2 DEF Even
  <2>4. j < i \/ j = i \/ j > i
    BY <1>1
  <2> QED BY <2>1, <2>2, <2>3, <2>4
<1> QED BY <1>4 DEF Even, Within

LEMMA MarkEven ==
  ASSUME NEW bs \in Seq(Block), NEW i \in 1 .. Len(bs), NEW r, IsMarked(r, bs, i)
  PROVE  Within(r, bs) /\ (Even(bs) => Even(r))
<1>1. /\ Len(r) = Len(bs)
      /\ \A j \in 1 .. Len(bs) : r[j].addr = bs[j].addr /\ r[j].size = bs[j].size
  BY DEF IsMarked
<1> QED BY <1>1 DEF Even, Within

LEMMA SplitEven ==
  ASSUME NEW bs \in Seq(Block), Even(bs), NEW i \in 1 .. Len(bs), NEW n \in Nat,
         n % Align = 0, n >= Align
  PROVE  Even(Split(bs, i, n))
<1>1. bs[i].size \in Nat
  BY BlockFields
<1>2. CASE bs[i].size - n <= Header + Align
  <2>1. Split(bs, i, n) = bs
    BY <1>2, SplitShape
  <2> QED BY <2>1
<1>3. CASE ~ (bs[i].size - n <= Header + Align)
  <2>1. IsCut(Split(bs, i, n), bs, i, n)
    BY <1>3, SplitShape
  <2>2. bs[i].size - n > Header + Align
    BY <1>1, <1>3, HeaderAssumption, AlignAssumption
  <2> QED BY <2>1, <2>2, CutEven
<1> QED BY <1>2, <1>3

LEMMA AbsorbEven ==
  ASSUME NEW bs \in Seq(Block), NEW i \in 1 .. Len(bs), FreeAt(bs, i + 1)
  PROVE  Within(Absorb(bs, i), bs) /\ (Even(bs) => Even(Absorb(bs, i)))
<1>1. i + 1 \in 1 .. Len(bs)
  BY LenProperties DEF FreeAt
<1>2. IsJoin(Absorb(bs, i), bs, i)
  BY <1>1, AbsorbShape
<1> QED BY <1>1, <1>2, JoinEven

LEMMA CoalesceEven ==
  ASSUME NEW bs, NEW cap, Chain(bs, cap), NEW i \in 1 .. Len(bs), bs[i].free
  PROVE  Within(Coalesce(bs, i), bs) /\ (Even(bs) => Even(Coalesce(bs, i)))
<1> DEFINE joined == IF FreeAt(bs, i + 1) THEN Absorb(bs, i) ELSE bs
           r == Coalesce(bs, i)
<1>1. bs \in Seq(Block)
  BY DEF Chain
<1>2. /\ Chain(joined, cap) /\ i \in 1 .. Len(joined) /\ joined[i].free
  BY AbsorbKeeps
<1>3. Within(joined, bs) /\ (Even(bs) => Even(joined))
  <2>1. Within(bs, bs)
    BY DEF Within
  <2> QED BY <1>1, <2>1, AbsorbEven
<1>4. r = IF FreeAt(joined, i - 1) THEN Absorb(joined, i - 1) ELSE joined
  BY DEF Coalesce
<1> HIDE DEF joined, r
<1>5. CASE FreeAt(joined, i - 1)
  <2>1. /\ joined \in Seq(Block) /\ Len(joined) \in Nat
        /\ DOMAIN joined = 1 .. Len(joined)
    BY <1>2, LenProperties DEF Chain
  <2>2. /\ i - 1 \in 1 .. Len(joined) /\ (i - 1) + 1 = i
        /\ FreeAt(joined, (i - 1) + 1)
    BY <1>2, <1>5, <2>1 DEF FreeAt
  <2>3. r = Absorb(joined, i - 1)
    BY <1>4, <1>5
  <2>4. Within(r, joined) /\ (Even(joined) => Even(r))
    BY <2>1, <2>2, <2>3, AbsorbEven
  <2> QED BY <1>3, <2>4 DEF Within, r
<1>6. CASE ~ FreeAt(joined, i - 1)
  BY <1>3, <1>4, <1>6 DEF r
<1> QED BY <1>5, <1>6

LEMMA FreeEven ==
  ASSUME NEW bs, NEW cap, Chain(bs, cap), NEW i \in 1 .. Len(bs)
  PROVE  Within(FreeBlocks(bs, i), bs) /\ (Even(bs) => Even(FreeBlocks(bs, i)))
<1> DEFINE t == Marking(bs, i, TRUE)
<1>1. bs \in Seq(Block)
  BY DEF Chain
<1>2. IsMarked(t, bs, i) /\ t[i].free
  BY <1>1, Marked
<1>3. FreeBlocks(bs, i) = Coalesce(t, i)
  BY DEF FreeBlocks, Marking
<1> HIDE DEF t
<1>4. Chain(t, cap)
  BY <1>2, MarkKeeps
<1>5. Within(t, bs) /\ (Even(bs) => Even(t)) /\ i \in 1 .. Len(t)
  BY <1>1, <1>2, MarkEven DEF IsMarked
<1>6. Within(Coalesce(t, i), t) /\ (Even(t) => Even(Coalesce(t, i)))
  BY <1>2, <1>4, <1>5, CoalesceEven
<1> QED BY <1>3, <1>5, <1>6 DEF Within

LEMMA AllocEven ==
  ASSUME NEW bs, NEW cap, Chain(bs, cap), Even(bs), NEW i \in 1 .. Len(bs), NEW n \in Nat,
         n % Align = 0, n >= Align
  PROVE  Even(AllocBlocks(bs, i, n))
<1> PICK t : t = Split(bs, i, n)
  OBVIOUS
<1>1. bs \in Seq(Block)
  BY DEF Chain
<1>2. Even(t) /\ Chain(t, cap) /\ i \in 1 .. Len(t)
  BY <1>1, SplitEven, SplitKeeps
<1>3. t \in Seq(Block) /\ AllocBlocks(bs, i, n) = Marking(t, i, FALSE)
  BY <1>2 DEF Chain, AllocBlocks, Marking
<1>4. IsMarked(Marking(t, i, FALSE), t, i)
  BY <1>2, <1>3, Marked
<1> QED BY <1>2, <1>3, <1>4, MarkEven

(***************************************************************************)
(* The cells of the list.                                                  *)
(***************************************************************************)
LEMMA HeaderCellsAre ==
  ASSUME NEW bs, NEW c
  PROVE  c \in HeaderCells(bs) <=>
           \E i \in DOMAIN bs : c \in bs[i].addr .. (bs[i].addr + Header) - 1
BY DEF HeaderCells, Payload

LEMMA FewerHeaders ==
  ASSUME NEW bs \in Seq(Block), NEW r \in Seq(Block), Within(r, bs)
  PROVE  HeaderCells(r) \subseteq HeaderCells(bs)
<1> SUFFICES ASSUME NEW c \in HeaderCells(r) PROVE c \in HeaderCells(bs)
  OBVIOUS
<1>1. DOMAIN r = 1 .. Len(r) /\ DOMAIN bs = 1 .. Len(bs)
  BY LenProperties
<1>2. PICK j \in DOMAIN r : c \in r[j].addr .. (r[j].addr + Header) - 1
  BY HeaderCellsAre
<1>3. PICK k \in DOMAIN bs : r[j].addr = bs[k].addr
  BY <1>1 DEF Within
<1> QED BY <1>2, <1>3, HeaderCellsAre

\* No block reaches beyond the buffer.
LEMMA EndsInside ==
  ASSUME NEW bs, NEW cap, Chain(bs, cap), NEW i \in 1 .. Len(bs)
  PROVE  End(bs[i]) <= cap /\ cap \in Nat
<1>1. Len(bs) \in Nat /\ Len(bs) \in 1 .. Len(bs)
  BY LenProperties DEF Chain
<1> DEFINE last == Len(bs)
<1>2. /\ End(bs[last]) = cap /\ End(bs[last]) \in Nat /\ End(bs[i]) \in Nat
      /\ bs[last].addr \in Nat /\ bs[last].size \in Nat
      /\ End(bs[last]) = Payload(bs[last]) + bs[last].size
      /\ Payload(bs[last]) = bs[last].addr + Header
  BY <1>1, ChainBlock
<1>3. i < last => End(bs[i]) <= bs[last].addr
  BY <1>1 DEF Chain, Ordered
<1>4. i = last \/ i < last
  BY <1>1
<1> HIDE DEF last
<1> QED BY <1>2, <1>3, <1>4, HeaderPositive, SMTT(20)

\* A cell of one block's payload is in no header and no other payload.
LEMMA PayloadCells ==
  ASSUME NEW bs, NEW cap, Chain(bs, cap), NEW i \in 1 .. Len(bs),
         NEW c \in Payload(bs[i]) .. End(bs[i]) - 1
  PROVE  /\ c \in 0 .. cap - 1 /\ c \notin HeaderCells(bs)
         /\ \A j \in 1 .. Len(bs) \ {i} : c \notin Payload(bs[j]) .. End(bs[j]) - 1
<1>1. DOMAIN bs = 1 .. Len(bs) /\ Len(bs) \in Nat
  BY LenProperties DEF Chain
<1>2. /\ bs[i].addr \in Nat /\ Payload(bs[i]) \in Nat /\ End(bs[i]) \in Nat
      /\ Payload(bs[i]) = bs[i].addr + Header
      /\ c \in Nat /\ Payload(bs[i]) <= c /\ c < End(bs[i])
  <2>1. /\ bs[i].addr \in Nat /\ Payload(bs[i]) \in Nat /\ End(bs[i]) \in Nat
        /\ Payload(bs[i]) = bs[i].addr + Header
    BY ChainBlock
  <2> QED BY <2>1
<1>3. c \in 0 .. cap - 1
  BY <1>2, EndsInside
<1>4. ASSUME NEW j \in 1 .. Len(bs)
      PROVE  /\ c \notin bs[j].addr .. (bs[j].addr + Header) - 1
             /\ j # i => c \notin Payload(bs[j]) .. End(bs[j]) - 1
  <2>1. PICK a, p, e : a = bs[j].addr /\ p = Payload(bs[j]) /\ e = End(bs[j])
    OBVIOUS
  <2>2. a \in Nat /\ p \in Nat /\ e \in Nat /\ p = a + Header /\ p <= e
    <3>1. /\ bs[j].addr \in Nat /\ bs[j].size \in Nat
          /\ Payload(bs[j]) = bs[j].addr + Header /\ Payload(bs[j]) \in Nat
          /\ End(bs[j]) = Payload(bs[j]) + bs[j].size /\ End(bs[j]) \in Nat
      BY ChainBlock
    <3>2. PICK s \in Nat : e = p + s
      BY <2>1, <3>1
    <3> QED BY <2>1, <3>1, <3>2
  <2>3. CASE j = i
    <3>1. p <= c
      BY <1>2, <2>1, <2>3
    <3>2. c \notin a .. (a + Header) - 1
      BY <1>2, <2>2, <3>1
    <3> QED BY <2>1, <2>3, <3>2
  <2>4. CASE j < i
    <3>1. PICK x \in Nat : x = bs[i].addr
      BY <1>2
    <3>2. e <= x
      BY <2>1, <2>4, <3>1 DEF Chain, Ordered
    <3>3. x + Header <= c
      BY <1>2, <3>1
    <3>4. e <= c
      BY <1>2, <2>2, <3>1, <3>2, <3>3, HeaderPositive, SMTT(20)
    <3>5. c \notin a .. p - 1 /\ c \notin p .. e - 1
      BY <1>2, <2>2, <3>4
    <3> QED BY <2>1, <2>2, <3>5
  <2>5. CASE i < j
    <3>1. PICK x \in Nat : x = End(bs[i])
      BY <1>2
    <3>2. x <= a /\ c < x
      BY <1>2, <2>1, <2>5, <3>1 DEF Chain, Ordered
    <3>3. c < a
      BY <1>2, <2>2, <3>1, <3>2
    <3>4. a <= p
      BY <2>2, HeaderPositive
    <3>5. c \notin a .. p - 1 /\ c \notin p .. e - 1
      BY <1>2, <2>2, <3>3, <3>4
    <3> QED BY <2>1, <2>2, <3>5
  <2>6. j = i \/ j < i \/ i < j
    BY <1>1
  <2> QED BY <2>3, <2>4, <2>5, <2>6
<1>5. c \notin HeaderCells(bs)
  BY <1>1, <1>4, HeaderCellsAre
<1> QED BY <1>3, <1>4, <1>5

\* The s bytes behind the header at address a.
Room(a, s) == a + Header .. (a + Header + s) - 1

LEMMA CellsAreRoom ==
  ASSUME NEW a, a.ptr \in Nat, a.size \in Nat
  PROVE  Cells(a) = Room(a.ptr - Header, a.size)
<1>1. (a.ptr - Header) + Header = a.ptr
  BY HeaderPositive
<1>2. Room(a.ptr - Header, a.size) = a.ptr .. (a.ptr + a.size) - 1
  BY <1>1 DEF Room
<1> QED BY <1>2 DEF Cells

LEMMA HeldCells ==
  ASSUME NEW bs, NEW cap, Chain(bs, cap), NEW a \in Nat, NEW s \in Nat, Holds(bs, a, s),
         NEW c \in Room(a, s)
  PROVE  c \in 0 .. cap - 1 /\ c \notin HeaderCells(bs)
<1>1. PICK i \in 1 .. Len(bs) : bs[i].addr = a /\ bs[i].size >= s
  BY DEF Holds
<1>2. /\ bs[i].addr \in Nat /\ bs[i].size \in Nat /\ Payload(bs[i]) = bs[i].addr + Header
      /\ End(bs[i]) = Payload(bs[i]) + bs[i].size
  BY ChainBlock
<1>3. c \in Payload(bs[i]) .. End(bs[i]) - 1
  BY <1>1, <1>2, HeaderPositive DEF Room
<1> QED BY <1>3, PayloadCells

LEMMA HeldApart ==
  ASSUME NEW bs, NEW cap, Chain(bs, cap),
         NEW a \in Nat, NEW s \in Nat, Holds(bs, a, s),
         NEW b \in Nat, NEW t \in Nat, Holds(bs, b, t), a # b,
         NEW c \in Room(a, s)
  PROVE  c \notin Room(b, t)
<1>1. PICK i \in 1 .. Len(bs) : bs[i].addr = a /\ bs[i].size >= s
  BY DEF Holds
<1>2. PICK j \in 1 .. Len(bs) : bs[j].addr = b /\ bs[j].size >= t
  BY DEF Holds
<1>3. \A k \in 1 .. Len(bs) :
        /\ bs[k].addr \in Nat /\ bs[k].size \in Nat /\ Payload(bs[k]) = bs[k].addr + Header
        /\ End(bs[k]) = Payload(bs[k]) + bs[k].size
  BY ChainBlock
<1>4. c \in Payload(bs[i]) .. End(bs[i]) - 1
  <2>1. /\ bs[i].size \in Nat /\ Payload(bs[i]) = bs[i].addr + Header
        /\ End(bs[i]) = Payload(bs[i]) + bs[i].size
    BY <1>3
  <2> QED BY <1>1, <2>1, HeaderPositive, SMTT(20) DEF Room
<1>5. j \in 1 .. Len(bs) \ {i}
  BY <1>1, <1>2
<1>6. c \notin Payload(bs[j]) .. End(bs[j]) - 1
  BY <1>4, <1>5, PayloadCells
<1>7. Room(b, t) \subseteq Payload(bs[j]) .. End(bs[j]) - 1
  <2>1. /\ bs[j].size \in Nat /\ Payload(bs[j]) = bs[j].addr + Header
        /\ End(bs[j]) = Payload(bs[j]) + bs[j].size
    BY <1>3
  <2> QED BY <1>2, <2>1, HeaderPositive, SMTT(20) DEF Room
<1> QED BY <1>6, <1>7

\* A cell an owner asked for is in the buffer, in no header, and of no other owner.
LEMMA OwnCells ==
  ASSUME NEW bs, NEW cap, Chain(bs, cap), NEW lv \in [Handle -> Allocation],
         Matched(bs, lv), NEW h \in Handle, NEW c \in Cells(lv[h])
  PROVE  /\ lv[h] # NULL
         /\ c \in 0 .. cap - 1 /\ c \notin HeaderCells(bs)
         /\ \A g \in Handle \ {h} : c \notin Cells(lv[g])
<1>1. \A g \in Handle : lv[g].ptr \in Nat /\ lv[g].size \in Nat
  BY DEF Allocation
<1>2. \A g \in Handle : Cells(lv[g]) # {} => lv[g] # NULL
  <2>1. Cells(NULL) = {}
    BY DEF Cells, NULL
  <2> QED BY <2>1
<1>3. ASSUME NEW g \in Handle, lv[g] # NULL
      PROVE  /\ lv[g].ptr - Header \in Nat
             /\ Holds(bs, lv[g].ptr - Header, lv[g].size)
             /\ Cells(lv[g]) = Room(lv[g].ptr - Header, lv[g].size)
  <2>1. lv[g].ptr - Header \in Nat /\ Holds(bs, lv[g].ptr - Header, lv[g].size)
    BY <1>3 DEF Matched
  <2>2. Cells(lv[g]) = Room(lv[g].ptr - Header, lv[g].size)
    <3>1. lv[g].ptr \in Nat /\ lv[g].size \in Nat
      BY <1>1
    <3> QED BY <3>1, CellsAreRoom
  <2> QED BY <2>1, <2>2
<1>4. lv[h] # NULL
  BY <1>2
<1>5. c \in Room(lv[h].ptr - Header, lv[h].size)
  BY <1>3, <1>4
<1>6. c \in 0 .. cap - 1 /\ c \notin HeaderCells(bs)
  BY <1>1, <1>3, <1>4, <1>5, HeldCells
<1>7. ASSUME NEW g \in Handle \ {h}, lv[g] # NULL
      PROVE  c \notin Cells(lv[g])
  <2>1. lv[g].ptr # lv[h].ptr
    BY <1>4, <1>7 DEF Matched
  <2>2. lv[g].ptr - Header # lv[h].ptr - Header
    BY <1>1, <2>1, HeaderPositive
  <2>3. c \notin Room(lv[g].ptr - Header, lv[g].size)
    BY <1>1, <1>3, <1>4, <1>5, <1>7, <2>2, HeldApart
  <2> QED BY <1>3, <1>7, <2>3
<1> QED BY <1>2, <1>4, <1>6, <1>7

LEMMA HeadersInside ==
  ASSUME NEW bs, NEW cap, Chain(bs, cap), NEW c \in HeaderCells(bs)
  PROVE  c \in 0 .. cap - 1
<1>1. DOMAIN bs = 1 .. Len(bs)
  BY LenProperties DEF Chain
<1>2. PICK i \in 1 .. Len(bs) : c \in bs[i].addr .. (bs[i].addr + Header) - 1
  BY <1>1, HeaderCellsAre
<1>3. /\ bs[i].addr \in Nat /\ bs[i].size \in Nat /\ Payload(bs[i]) = bs[i].addr + Header
      /\ End(bs[i]) = Payload(bs[i]) + bs[i].size
  BY ChainBlock
<1>4. End(bs[i]) <= cap /\ cap \in Nat
  BY EndsInside
<1> QED BY <1>2, <1>3, <1>4, HeaderPositive

(***************************************************************************)
(* The buffer.                                                             *)
(***************************************************************************)
\* m holds every header of the list bs, unharmed.
Headed(m, bs) == \A c \in HeaderCells(bs) : m[c] = HeaderByte

\* mm is m after owner h filled cells of its range at p, and the list became r.
Wrote(mm, m, bs, r, lw, h, p, fill) ==
  mm = Settled(Written(m, bs, r, h, p, fill), r, lw)

\* What the owners other than h asked for is in mm as it is in m.
Untouched(mm, m, lw, h) ==
  \A g \in Handle \ {h} : \A c \in Cells(lw[g]) : mm[c] = m[c]

\* What owner h asked for, with the filled cells as written and the rest as in m.
Filled(mm, m, lw, h, p, fill) ==
  \A c \in Cells(lw[h]) : mm[c] = IF c \in fill THEN Byte(h, c - p) ELSE m[c]

\* A call that places headers and fills cells of one owner: the headers of the
\* new list are unharmed, and so are the cells of the other owners.
LEMMA WriteKeeps ==
  ASSUME NEW cap, NEW m, DOMAIN m = 0 .. cap - 1, NEW bs, Headed(m, bs),
         NEW r, Chain(r, cap), NEW lw \in [Handle -> Allocation], Matched(r, lw),
         NEW h \in Handle, NEW p, NEW fill, fill \subseteq Cells(lw[h]),
         NEW mm, Wrote(mm, m, bs, r, lw, h, p, fill)
  PROVE  /\ Headed(mm, r)
         /\ Filled(mm, m, lw, h, p, fill)
         /\ Untouched(mm, m, lw, h)
<1> PICK w : w = Written(m, bs, r, h, p, fill)
  OBVIOUS
<1>0. mm = Settled(w, r, lw)
  BY DEF Wrote
<1>1. /\ DOMAIN w = 0 .. cap - 1
      /\ \A c \in DOMAIN m :
           /\ c \in fill => w[c] = Byte(h, c - p)
           /\ c \notin fill /\ c \notin HeaderCells(r) => w[c] = m[c]
           /\ c \notin fill /\ c \in HeaderCells(r) => w[c] = HeaderByte
  <2>1. DOMAIN w = 0 .. cap - 1
    BY DEF Written
  <2>2. ASSUME NEW c \in DOMAIN m
        PROVE  /\ c \in fill => w[c] = Byte(h, c - p)
               /\ c \notin fill /\ c \notin HeaderCells(r) => w[c] = m[c]
               /\ c \notin fill /\ c \in HeaderCells(r) => w[c] = HeaderByte
    BY DEF Written, Headed
  <2> QED BY <2>1, <2>2
<1>2. /\ \A c \in HeaderCells(r) : mm[c] = w[c]
      /\ \A g \in Handle : \A c \in Cells(lw[g]) : mm[c] = w[c]
  <2>1. ASSUME NEW c \in DOMAIN w,
               c \in HeaderCells(r) \/ \E g \in Handle : c \in Cells(lw[g])
        PROVE  mm[c] = w[c]
    BY <1>0, <2>1 DEF Settled
  <2>2. \A c \in HeaderCells(r) : c \in DOMAIN w
    BY <1>1, HeadersInside
  <2>3. \A g \in Handle : \A c \in Cells(lw[g]) : c \in DOMAIN w
    BY <1>1, OwnCells
  <2> QED BY <2>1, <2>2, <2>3
<1>3. ASSUME NEW c \in HeaderCells(r)
      PROVE  mm[c] = HeaderByte
  <2>1. c \in DOMAIN m
    BY HeadersInside
  <2>2. c \notin fill
    BY OwnCells
  <2> QED BY <1>1, <1>2, <2>1, <2>2
<1>4. ASSUME NEW c \in Cells(lw[h])
      PROVE  mm[c] = IF c \in fill THEN Byte(h, c - p) ELSE m[c]
  <2>1. c \in DOMAIN m /\ c \notin HeaderCells(r)
    BY OwnCells
  <2> QED BY <1>1, <1>2, <2>1
<1>5. ASSUME NEW g \in Handle \ {h}, NEW c \in Cells(lw[g])
      PROVE  mm[c] = m[c]
  <2>1. c \in DOMAIN m /\ c \notin HeaderCells(r) /\ c \notin Cells(lw[h])
    BY OwnCells
  <2>2. c \notin fill
    BY <2>1
  <2>3. w[c] = m[c]
    BY <1>1, <2>1, <2>2
  <2> QED BY <1>2, <2>3
<1> QED BY <1>3, <1>4, <1>5 DEF Headed, Filled, Untouched

(***************************************************************************)
(* The contract of Allocator, and the bytes it is about.                   *)
(***************************************************************************)
\* What Inv leaves open: the alignment of the list, and the headers in the
\* buffer.  Both depend on it, since a stray write or copy is one that leaves
\* its block.
Undamaged == Even(blocks) /\ Headed(mem, blocks)

\* What the owner of an allocation reads from the buffer.
ReadBack(m, a) == [k \in 1 .. a.size |-> m[a.ptr + k - 1]]

LEMMA ReadsTheSame ==
  ASSUME NEW m, NEW q, NEW a, NEW b, a.size = b.size,
         \A k \in 1 .. a.size : m[a.ptr + k - 1] = q[b.ptr + k - 1]
  PROVE  ReadBack(m, a) = ReadBack(q, b)
BY DEF ReadBack

LEMMA NullReadsNothing ==
  ASSUME NEW m
  PROVE  ReadBack(m, NULL) = << >>
BY DEF ReadBack, NULL

LEMMA ReadsCells ==
  ASSUME NEW a \in Allocation, NEW k \in 1 .. a.size
  PROVE  a.ptr + k - 1 \in Cells(a) /\ (a.ptr + k - 1) - a.ptr = k - 1
<1>1. a.ptr \in Nat /\ a.size \in Nat
  BY DEF Allocation
<1> QED BY <1>1 DEF Cells

\* The other owners keep what they hold and read, if the cells of theirs do.
LEMMA OthersAreKept ==
  ASSUME Inv, NEW h \in Handle,
         \A g \in Handle \ {h} : live'[g] = live[g],
         \A g \in Handle \ {h} : \A c \in Cells(live[g]) : mem'[c] = mem[c]
  PROVE  AllocatorView!OthersKept(h)
<1>1. ASSUME NEW g \in Handle \ {h}
      PROVE  ReadBack(mem', live'[g]) = ReadBack(mem, live[g])
  <2>1. live[g] \in Allocation
    BY DEF Inv, TypeOK, Allocation
  <2>2. \A k \in 1 .. live[g].size : live[g].ptr + k - 1 \in Cells(live[g])
    BY <2>1, ReadsCells
  <2>3. \A k \in 1 .. live[g].size : mem'[live[g].ptr + k - 1] = mem[live[g].ptr + k - 1]
    BY <2>2
  <2>4. live'[g].size = live[g].size /\ live'[g].ptr = live[g].ptr
    OBVIOUS
  <2> QED BY <2>3, <2>4, ReadsTheSame
<1> QED BY <1>1 DEF AllocatorView!OthersKept, ReadBack

\* Matched blocks that are aligned give their owners aligned, separate ranges.
LEMMA SeparateAfter ==
  ASSUME Inv', Even(blocks')
  PROVE  AllocatorView!Separate'
<1>1. live' \in [Handle -> Allocation] /\ Matched(blocks', live')
  BY DEF Inv, TypeOK, Allocation
<1>2. ASSUME NEW h \in Handle, live'[h] # NULL
      PROVE  /\ live'[h].ptr % Align = 0
             /\ Cells(live'[h]) \subseteq 0 .. capacity' - 1
             /\ \A g \in Handle \ {h} : Cells(live'[g]) \cap Cells(live'[h]) = {}
  <2>1. Chain(blocks', capacity')
    BY <1>1, <1>2, NoBlocks DEF Inv, Matched
  <2>2. PICK i \in 1 .. Len(blocks') : blocks'[i].addr = live'[h].ptr - Header
    BY <1>1, <1>2 DEF Matched, Holds
  <2>3. live'[h].ptr \in Nat /\ blocks'[i].addr \in Nat
    BY <1>1, <2>1, <2>2, ChainBlock DEF Allocation
  <2>4. live'[h].ptr = blocks'[i].addr + Header
    BY <2>2, <2>3, HeaderPositive
  <2>5. blocks'[i].addr % Align = 0
    BY DEF Even
  <2>6. live'[h].ptr % Align = 0
    BY <2>3, <2>4, <2>5, HeaderAssumption, SumOfMultiples
  <2>7. \A c \in Cells(live'[h]) :
          c \in 0 .. capacity' - 1 /\ \A g \in Handle \ {h} : c \notin Cells(live'[g])
    BY <1>1, <2>1, OwnCells
  <2> QED BY <2>6, <2>7
<1>3. AllocatorView!NULL = NULL /\ \A a : AllocatorView!Cells(a) = Cells(a)
  BY DEF AllocatorView!NULL, NULL, AllocatorView!Cells, Cells
<1>4. /\ \A h \in Handle : live'[h] # NULL =>
           /\ live'[h].ptr % Align = 0
           /\ Cells(live'[h]) \subseteq 0 .. capacity' - 1
           /\ \A g \in Handle \ {h} :
                live'[g] # NULL => Cells(live'[g]) \cap Cells(live'[h]) = {}
  BY <1>2
<1> QED BY <1>3, <1>4 DEF AllocatorView!Separate, AllocatorView!Cells, Cells

\* A request is rounded to a multiple of the alignment, and not to 0.
LEMMA RoundedRequest ==
  ASSUME NEW n \in Requests, ~ AlignUpOverflows(n, Align)
  PROVE  /\ n \in Nat /\ n > 0 /\ n <= AlignUp(n, Align)
         /\ AlignUp(n, Align) \in Nat /\ AlignUp(n, Align) % Align = 0
         /\ AlignUp(n, Align) >= Align
<1>1. n \in SizeT \ {0} /\ n \in Nat
  BY RequestsAssumption, SizeMaxAssumption DEF SizeT
<1> QED BY <1>1, Request, RoundedIsEven

\* The list and the buffer while there is a heap.
LEMMA HeapNow ==
  ASSUME Inv, capacity # 0
  PROVE  /\ Chain(blocks, capacity) /\ blocks \in Seq(Block)
         /\ DOMAIN blocks = 1 .. Len(blocks) /\ DOMAIN mem = 0 .. capacity - 1
         /\ live \in [Handle -> Allocation] /\ Matched(blocks, live)
<1>1. Chain(blocks, capacity)
  BY DEF Inv
<1> QED BY <1>1, LenProperties DEF Inv, TypeOK, Chain, Allocation

LEMMA HeapThen ==
  ASSUME Inv', capacity' # 0
  PROVE  /\ Chain(blocks', capacity')
         /\ live' \in [Handle -> Allocation] /\ Matched(blocks', live')
BY DEF Inv, TypeOK, Allocation

LEMMA AllocBytes ==
  ASSUME Inv, Inv', Undamaged, NEW h \in Handle, NEW n \in Requests, Alloc(h, n)
  PROVE  Undamaged' /\ AllocatorView!Alloc(h)
<1> DEFINE size == AlignUp(n, Align)
<1>1. /\ capacity # 0 /\ live[h] = NULL /\ ~ AlignUpOverflows(n, Align)
      /\ capacity' = capacity
  BY DEF Alloc
<1>2. n \in Nat /\ n > 0 /\ size \in Nat /\ size % Align = 0 /\ size >= Align
  BY <1>1, RoundedRequest
<1>3. PICK i \in DOMAIN blocks :
        /\ blocks' = AllocBlocks(blocks, i, size)
        /\ live' = [live EXCEPT ![h] = [ptr |-> Payload(blocks[i]), size |-> n]]
        /\ mem' = Settled(Written(mem, blocks, blocks', h, Payload(blocks[i]),
                                  Cells(live'[h])), blocks', live')
  BY DEF Alloc
<1> HIDE DEF size
<1>4. /\ Chain(blocks, capacity) /\ i \in 1 .. Len(blocks) /\ DOMAIN mem = 0 .. capacity - 1
      /\ live \in [Handle -> Allocation]
  BY <1>1, HeapNow
<1>5. Even(blocks')
  BY <1>2, <1>3, <1>4, AllocEven DEF Undamaged
<1>6. /\ Chain(blocks', capacity)
      /\ live' \in [Handle -> Allocation] /\ Matched(blocks', live')
  BY <1>1, HeapThen
<1>7. /\ live'[h] = [ptr |-> Payload(blocks[i]), size |-> n]
      /\ \A g \in Handle \ {h} : live'[g] = live[g]
  BY <1>3, <1>4
<1>8. /\ live'[h].ptr = Payload(blocks[i]) /\ live'[h].size = n /\ live'[h] # NULL
      /\ live'[h] \in Allocation
  BY <1>2, <1>6, <1>7 DEF NULL
<1>9. /\ Headed(mem', blocks')
      /\ \A c \in Cells(live'[h]) : mem'[c] = Byte(h, c - Payload(blocks[i]))
      /\ \A g \in Handle \ {h} : \A c \in Cells(live'[g]) : mem'[c] = mem[c]
  <2>1. Wrote(mem', mem, blocks, blocks', live', h, Payload(blocks[i]), Cells(live'[h]))
    BY <1>3 DEF Wrote
  <2>2. Headed(mem, blocks) /\ Cells(live'[h]) \subseteq Cells(live'[h])
    BY DEF Undamaged
  <2>3. /\ Headed(mem', blocks')
        /\ Filled(mem', mem, live', h, Payload(blocks[i]), Cells(live'[h]))
        /\ Untouched(mem', mem, live', h)
    BY <1>4, <1>6, <2>1, <2>2, WriteKeeps
  <2> QED BY <2>3 DEF Filled, Untouched
<1>10. ReadBack(mem', live'[h]) = [k \in 1 .. live'[h].size |-> Byte(h, k - 1)]
  <2>1. ASSUME NEW k \in 1 .. live'[h].size
        PROVE  mem'[live'[h].ptr + k - 1] = Byte(h, k - 1)
    <3>1. /\ live'[h].ptr + k - 1 \in Cells(live'[h])
          /\ (live'[h].ptr + k - 1) - live'[h].ptr = k - 1
      BY <1>8, ReadsCells
    <3> QED BY <1>8, <1>9, <3>1
  <2> QED BY <2>1 DEF ReadBack
<1>11. AllocatorView!OthersKept(h)
  BY <1>7, <1>9, OthersAreKept
<1>12. AllocatorView!Separate'
  BY <1>5, SeparateAfter
<1>13. AllocatorView!Alloc(h)
  BY <1>1, <1>8, <1>10, <1>11, <1>12
     DEF AllocatorView!Alloc, AllocatorView!NULL, NULL, AllocatorView!Byte, Byte, ReadBack
<1> QED BY <1>5, <1>9, <1>13 DEF Undamaged

LEMMA DeallocBytes ==
  ASSUME Inv, Inv', Undamaged, NEW h \in Handle, Dealloc(h)
  PROVE  Undamaged' /\ AllocatorView!Dealloc(h)
<1>1. /\ live[h] # NULL /\ capacity' = capacity
      /\ live' = [live EXCEPT ![h] = NULL] /\ mem' = Settled(mem, blocks', live')
  BY DEF Dealloc
<1>2. PICK i \in DOMAIN blocks : blocks' = FreeBlocks(blocks, i)
  BY DEF Dealloc
<1>3. capacity # 0
  BY <1>1, LiveHeap
<1>4. /\ Chain(blocks, capacity) /\ i \in 1 .. Len(blocks) /\ blocks \in Seq(Block)
      /\ DOMAIN mem = 0 .. capacity - 1 /\ live \in [Handle -> Allocation]
      /\ Matched(blocks, live)
  BY <1>3, HeapNow
<1>5. Chain(blocks', capacity) /\ blocks' \in Seq(Block)
  BY <1>1, <1>3, HeapThen DEF Chain
<1>6. Even(blocks') /\ HeaderCells(blocks') \subseteq HeaderCells(blocks)
  <2>1. Within(blocks', blocks) /\ Even(blocks')
    BY <1>2, <1>4, FreeEven DEF Undamaged
  <2> QED BY <1>4, <1>5, <2>1, FewerHeaders
<1>7. live'[h] = NULL /\ \A g \in Handle \ {h} : live'[g] = live[g]
  BY <1>1, <1>4
<1>8. ASSUME NEW c \in DOMAIN mem,
             c \in HeaderCells(blocks') \/ \E g \in Handle : c \in Cells(live'[g])
      PROVE  mem'[c] = mem[c]
  BY <1>1, <1>8 DEF Settled
<1>9. Headed(mem', blocks')
  <2>1. \A c \in HeaderCells(blocks') : c \in DOMAIN mem
    BY <1>4, <1>5, HeadersInside
  <2>2. \A c \in HeaderCells(blocks') : mem[c] = HeaderByte
    BY <1>6 DEF Undamaged, Headed
  <2> QED BY <1>8, <2>1, <2>2 DEF Headed
<1>10. \A g \in Handle \ {h} : \A c \in Cells(live[g]) : mem'[c] = mem[c]
  <2>1. ASSUME NEW g \in Handle \ {h}, NEW c \in Cells(live[g])
        PROVE  mem'[c] = mem[c]
    <3>1. c \in DOMAIN mem
      BY <1>4, OwnCells
    <3> QED BY <1>7, <1>8, <3>1
  <2> QED BY <2>1
<1>11. AllocatorView!OthersKept(h)
  BY <1>7, <1>10, OthersAreKept
<1>12. ReadBack(mem', live'[h]) = << >>
  BY <1>7, NullReadsNothing
<1>13. AllocatorView!Dealloc(h)
  BY <1>1, <1>7, <1>11, <1>12
     DEF AllocatorView!Dealloc, AllocatorView!NULL, NULL, ReadBack
<1> QED BY <1>6, <1>9, <1>13 DEF Undamaged

\* A resize leaves the owner its first bytes, whichever way it was served.
LEMMA ResizedReads ==
  ASSUME Inv, Inv', Even(blocks'), NEW h \in Handle, live[h] # NULL, NEW n \in Nat, n > 0,
         NEW p \in Nat, live'[h] = [ptr |-> p, size |-> n], capacity' = capacity,
         \A g \in Handle \ {h} : live'[g] = live[g],
         Untouched(mem', mem, live', h),
         \A k \in 1 .. n : mem'[p + k - 1] =
           IF k <= live[h].size THEN mem[live[h].ptr + k - 1] ELSE Byte(h, k - 1)
  PROVE  AllocatorView!Resize(h)
<1>1. live[h].size \in Nat /\ live[h].ptr \in Nat
  BY DEF Inv, TypeOK
<1>2. live'[h].ptr = p /\ live'[h].size = n /\ live'[h] # NULL
  BY DEF NULL
<1>3. ReadBack(mem', live'[h]) =
        [k \in 1 .. live'[h].size |->
           IF k <= live[h].size THEN ReadBack(mem, live[h])[k] ELSE Byte(h, k - 1)]
  <2>1. \A k \in 1 .. n : k <= live[h].size =>
          ReadBack(mem, live[h])[k] = mem[live[h].ptr + k - 1]
    BY <1>1 DEF ReadBack
  <2> QED BY <1>2, <2>1 DEF ReadBack
<1>4. AllocatorView!OthersKept(h)
  <2>1. \A g \in Handle \ {h} : \A c \in Cells(live[g]) : mem'[c] = mem[c]
    BY DEF Untouched
  <2> QED BY <2>1, OthersAreKept
<1>5. AllocatorView!Separate'
  BY SeparateAfter
<1> QED BY <1>2, <1>3, <1>4, <1>5
        DEF AllocatorView!Resize, AllocatorView!NULL, NULL, AllocatorView!Byte, Byte, ReadBack

\* The cells a resize to n bytes adds to those of owner h.
LEMMA GrownCells ==
  ASSUME NEW h \in Handle, live[h] \in Allocation, NEW p \in Nat, NEW n \in Nat,
         NEW k \in 1 .. n
  PROVE  /\ p + k - 1 \in Cells([ptr |-> p, size |-> n]) /\ (p + k - 1) - p = k - 1
         /\ p + k - 1 \in Grown(h, p, n) <=> ~ (k <= live[h].size)
<1>1. live[h].size \in Nat
  BY DEF Allocation
<1>2. /\ Cells([ptr |-> p, size |-> n]) = p .. p + n - 1
      /\ Cells([ptr |-> p, size |-> live[h].size]) = p .. p + live[h].size - 1
  BY DEF Cells
<1>3. p + k - 1 \in p .. p + n - 1 /\ (p + k - 1) - p = k - 1
  OBVIOUS
<1>4. p + k - 1 \in p .. p + live[h].size - 1 <=> k <= live[h].size
  BY <1>1
<1> QED BY <1>2, <1>3, <1>4 DEF Grown

\* The two resizes that keep the pointer, once the new list is known to be even.
LEMMA InPlaceBytes ==
  ASSUME Inv, Inv', Undamaged, Even(blocks'), NEW h \in Handle, live[h] # NULL,
         NEW n \in Nat, n > 0, capacity' = capacity,
         live' = [live EXCEPT ![h].size = n],
         Wrote(mem', mem, blocks, blocks', live', h, live[h].ptr, Grown(h, live[h].ptr, n))
  PROVE  Undamaged' /\ AllocatorView!Resize(h)
<1> DEFINE p == live[h].ptr
<1>1. capacity # 0
  BY LiveHeap
<1>2. DOMAIN mem = 0 .. capacity - 1 /\ live \in [Handle -> Allocation]
  BY <1>1, HeapNow
<1>3. /\ Chain(blocks', capacity)
      /\ live' \in [Handle -> Allocation] /\ Matched(blocks', live')
  BY <1>1, HeapThen
<1>4. live[h] \in Allocation /\ p \in Nat
  BY <1>2 DEF Allocation
<1>5. live'[h] = [ptr |-> p, size |-> n] /\ \A g \in Handle \ {h} : live'[g] = live[g]
  <2>1. live'[h] = [live[h] EXCEPT !.size = n]
    BY <1>2
  <2> QED BY <1>2, <1>4, <2>1 DEF Allocation
<1>6. Grown(h, p, n) \subseteq Cells(live'[h])
  BY <1>5 DEF Grown
<1>7. Headed(mem, blocks)
  BY DEF Undamaged
<1>8. Wrote(mem', mem, blocks, blocks', live', h, p, Grown(h, p, n))
  OBVIOUS
<1> HIDE DEF p
<1>9. /\ Headed(mem', blocks')
      /\ Filled(mem', mem, live', h, p, Grown(h, p, n))
      /\ Untouched(mem', mem, live', h)
  BY <1>2, <1>3, <1>6, <1>7, <1>8, WriteKeeps
<1>10. ASSUME NEW k \in 1 .. n
       PROVE  mem'[p + k - 1] = IF k <= live[h].size THEN mem[live[h].ptr + k - 1]
                                ELSE Byte(h, k - 1)
  <2>1. /\ p + k - 1 \in Cells(live'[h]) /\ (p + k - 1) - p = k - 1
        /\ p + k - 1 \in Grown(h, p, n) <=> ~ (k <= live[h].size)
    BY <1>4, <1>5, GrownCells
  <2>2. mem'[p + k - 1] = IF p + k - 1 \in Grown(h, p, n)
                          THEN Byte(h, (p + k - 1) - p) ELSE mem[p + k - 1]
    BY <1>9, <2>1 DEF Filled
  <2>3. mem[live[h].ptr + k - 1] = mem[p + k - 1]
    BY DEF p
  <2> QED BY <2>1, <2>2, <2>3
<1>11. AllocatorView!Resize(h)
  BY <1>4, <1>5, <1>9, <1>10, ResizedReads
<1> QED BY <1>9, <1>11 DEF Undamaged

LEMMA ResizeInBlockBytes ==
  ASSUME Inv, Inv', Undamaged, NEW h \in Handle, live[h] # NULL, NEW n \in Requests,
         ~ AlignUpOverflows(n, Align), capacity' = capacity,
         NEW i \in DOMAIN blocks, ResizeInBlock(h, n, i)
  PROVE  Undamaged' /\ AllocatorView!Resize(h)
<1> DEFINE size == AlignUp(n, Align)
<1>1. n \in Nat /\ n > 0 /\ size \in Nat /\ size % Align = 0 /\ size >= Align
  BY RoundedRequest
<1>2. /\ blocks' = Split(blocks, i, size)
      /\ live' = [live EXCEPT ![h].size = n]
      /\ Wrote(mem', mem, blocks, blocks', live', h, live[h].ptr, Grown(h, live[h].ptr, n))
  BY DEF ResizeInBlock, Wrote
<1> HIDE DEF size
<1>3. blocks \in Seq(Block) /\ i \in 1 .. Len(blocks)
  BY LiveHeap, HeapNow
<1>4. Even(blocks')
  BY <1>1, <1>2, <1>3, SplitEven DEF Undamaged
<1> QED BY <1>1, <1>2, <1>4, InPlaceBytes

LEMMA ResizeIntoNextBytes ==
  ASSUME Inv, Inv', Undamaged, NEW h \in Handle, live[h] # NULL, NEW n \in Requests,
         ~ AlignUpOverflows(n, Align), capacity' = capacity,
         NEW i \in DOMAIN blocks, ResizeIntoNext(h, n, i)
  PROVE  Undamaged' /\ AllocatorView!Resize(h)
<1> DEFINE size == AlignUp(n, Align)
<1>1. n \in Nat /\ n > 0 /\ size \in Nat /\ size % Align = 0 /\ size >= Align
  BY RoundedRequest
<1>2. /\ FreeAt(blocks, i + 1)
      /\ blocks' = Split(Absorb(blocks, i), i, size)
      /\ live' = [live EXCEPT ![h].size = n]
      /\ Wrote(mem', mem, blocks, blocks', live', h, live[h].ptr, Grown(h, live[h].ptr, n))
  BY DEF ResizeIntoNext, CanAbsorb, Wrote
<1> HIDE DEF size
<1>3. Chain(blocks, capacity) /\ blocks \in Seq(Block) /\ i \in 1 .. Len(blocks)
  BY LiveHeap, HeapNow
<1>4. PICK joined : joined = Absorb(blocks, i)
  OBVIOUS
<1>5. joined \in Seq(Block) /\ i \in 1 .. Len(joined) /\ Even(joined)
  <2>1. Even(joined)
    BY <1>2, <1>3, <1>4, AbsorbEven DEF Undamaged
  <2>2. Chain(joined, capacity) /\ i \in 1 .. Len(joined)
    BY <1>2, <1>3, <1>4, AbsorbKeeps
  <2> QED BY <2>1, <2>2 DEF Chain
<1>6. Even(blocks')
  BY <1>1, <1>2, <1>4, <1>5, SplitEven
<1> QED BY <1>1, <1>2, <1>6, InPlaceBytes

\* Between the allocation and the free of a moving resize: the list has the old
\* block, the new one, and those of all other owners.
LEMMA MovedList ==
  ASSUME Inv, NEW h \in Handle, live[h] # NULL, NEW size \in Nat, NEW j \in DOMAIN blocks,
         FirstFit(blocks, j, size), NEW moved, moved = AllocBlocks(blocks, j, size)
  PROVE  /\ Chain(moved, capacity) /\ blocks[j].addr \in Nat
         /\ Holds(moved, blocks[j].addr, size)
         /\ \A g \in Handle : live[g] # NULL =>
              /\ live[g].ptr - Header \in Nat /\ live[g].ptr - Header # blocks[j].addr
              /\ Holds(moved, live[g].ptr - Header, live[g].size)
<1>1. /\ Chain(blocks, capacity) /\ Matched(blocks, live) /\ j \in 1 .. Len(blocks)
      /\ live \in [Handle -> Allocation] /\ blocks[j].addr \in Nat
  <2>1. /\ Chain(blocks, capacity) /\ Matched(blocks, live) /\ j \in 1 .. Len(blocks)
        /\ live \in [Handle -> Allocation]
    BY LiveHeap, HeapNow
  <2> QED BY <2>1, ChainBlock
<1>2. /\ Chain(moved, capacity)
      /\ blocks[j].addr \notin UsedAddrs(blocks)
      /\ \A a, s \in Nat : Holds(blocks, a, s) /\ a # blocks[j].addr => Holds(moved, a, s)
      /\ Holds(moved, blocks[j].addr, size)
  BY <1>1, AllocKeeps DEF FirstFit
<1>3. ASSUME NEW g \in Handle, live[g] # NULL
      PROVE  /\ live[g].ptr - Header \in Nat /\ live[g].ptr - Header # blocks[j].addr
             /\ Holds(moved, live[g].ptr - Header, live[g].size)
  <2>1. live[g].ptr - Header \in Nat /\ Holds(blocks, live[g].ptr - Header, live[g].size)
    BY <1>1, <1>3 DEF Matched
  <2>2. live[g].ptr - Header # blocks[j].addr
    BY <1>2, <2>1 DEF Holds, UsedAddrs
  <2>3. live[g].size \in Nat
    BY <1>1 DEF Allocation
  <2> QED BY <1>2, <2>1, <2>2, <2>3
<1> QED BY <1>1, <1>2, <1>3

\* Writing the new header and copying the old bytes stays within the new block.
LEMMA CopyKeeps ==
  ASSUME Inv, Undamaged, NEW h \in Handle, live[h] # NULL, NEW size \in Nat,
         NEW j \in DOMAIN blocks, FirstFit(blocks, j, size),
         NEW moved, moved = AllocBlocks(blocks, j, size),
         NEW p, p = Payload(blocks[j]), NEW n \in Nat, n < size,
         NEW copied, copied = Copied(Written(mem, blocks, moved, h, p, {}),
                                     p, live[h].ptr, n)
  PROVE  /\ DOMAIN copied = 0 .. capacity - 1
         /\ Headed(copied, moved)
         /\ \A g \in Handle \ {h} : \A c \in Cells(live[g]) : copied[c] = mem[c]
         /\ \A c \in Cells(live[h]) : c < live[h].ptr + n =>
              copied[p + (c - live[h].ptr)] = mem[c]
<1>1. /\ Chain(moved, capacity) /\ blocks[j].addr \in Nat
      /\ Holds(moved, blocks[j].addr, size)
      /\ \A g \in Handle : live[g] # NULL =>
           /\ live[g].ptr - Header \in Nat /\ live[g].ptr - Header # blocks[j].addr
           /\ Holds(moved, live[g].ptr - Header, live[g].size)
  BY MovedList
<1>2. DOMAIN mem = 0 .. capacity - 1 /\ live \in [Handle -> Allocation]
  BY LiveHeap, HeapNow
<1>3. p = blocks[j].addr + Header /\ p \in Nat
  BY <1>1, HeaderPositive DEF Payload
<1>4. p .. p + n - 1 \subseteq Room(blocks[j].addr, size)
  BY <1>1, <1>3, HeaderPositive DEF Room
<1>5. \A c \in Room(blocks[j].addr, size) :
        c \in 0 .. capacity - 1 /\ c \notin HeaderCells(moved)
  BY <1>1, HeldCells
<1> PICK w : w = Written(mem, blocks, moved, h, p, {})
  OBVIOUS
<1>6. /\ DOMAIN w = DOMAIN mem
      /\ \A c \in HeaderCells(moved) : w[c] = HeaderByte
      /\ \A c \in DOMAIN mem : c \notin HeaderCells(moved) => w[c] = mem[c]
  <2>1. DOMAIN w = DOMAIN mem
    BY DEF Written
  <2>2. \A c \in HeaderCells(moved) : c \in DOMAIN mem
    BY <1>1, <1>2, HeadersInside
  <2>3. \A c \in HeaderCells(moved) : w[c] = HeaderByte
    BY <2>2 DEF Written, Undamaged, Headed
  <2>4. \A c \in DOMAIN mem : c \notin HeaderCells(moved) => w[c] = mem[c]
    BY DEF Written
  <2> QED BY <2>1, <2>3, <2>4
<1>7. copied = [c \in DOMAIN w |->
                  IF c \in p .. p + n - 1 THEN w[live[h].ptr + (c - p)] ELSE w[c]]
  BY DEF Copied
<1>8. Headed(copied, moved)
  <2>1. ASSUME NEW c \in HeaderCells(moved)
        PROVE  copied[c] = HeaderByte
    <3>1. c \in DOMAIN w
      BY <1>1, <1>2, <1>6, HeadersInside
    <3>2. c \notin p .. p + n - 1
      BY <1>4, <1>5
    <3> QED BY <1>6, <1>7, <3>1, <3>2
  <2> QED BY <2>1 DEF Headed
<1>9. ASSUME NEW g \in Handle, NEW c \in Cells(live[g])
      PROVE  w[c] = mem[c] /\ c \in DOMAIN w /\ c \notin p .. p + n - 1
  <2>1. live[g].ptr \in Nat /\ live[g].size \in Nat
    BY <1>2 DEF Allocation
  <2>2. live[g] # NULL
    <3>1. Cells(NULL) = {}
      BY DEF Cells, NULL
    <3> QED BY <3>1
  <2>3. c \in Room(live[g].ptr - Header, live[g].size)
    <3>1. Cells(live[g]) = Room(live[g].ptr - Header, live[g].size)
      BY <2>1, CellsAreRoom
    <3> QED BY <3>1
  <2>4. c \in 0 .. capacity - 1 /\ c \notin HeaderCells(moved)
    BY <1>1, <2>1, <2>2, <2>3, HeldCells
  <2>5. c \notin Room(blocks[j].addr, size)
    BY <1>1, <2>1, <2>2, <2>3, HeldApart
  <2> QED BY <1>2, <1>4, <1>6, <2>4, <2>5
<1>10. \A g \in Handle \ {h} : \A c \in Cells(live[g]) : copied[c] = mem[c]
  BY <1>7, <1>9
<1>11. ASSUME NEW c \in Cells(live[h]), c < live[h].ptr + n
       PROVE  copied[p + (c - live[h].ptr)] = mem[c]
  <2> DEFINE d == p + (c - live[h].ptr)
  <2>1. live[h].ptr \in Nat /\ live[h].size \in Nat
    BY <1>2 DEF Allocation
  <2>2. c \in Nat /\ live[h].ptr <= c
    BY <2>1 DEF Cells
  <2>3. d \in p .. p + n - 1 /\ live[h].ptr + (d - p) = c
    BY <1>3, <1>11, <2>1, <2>2
  <2> HIDE DEF d
  <2>4. d \in DOMAIN w
    BY <1>2, <1>4, <1>5, <1>6, <2>3
  <2>5. copied[d] = w[c]
    BY <1>7, <2>3, <2>4
  <2>6. w[c] = mem[c]
    BY <1>9
  <2> QED BY <2>5, <2>6 DEF d
<1>12. DOMAIN copied = 0 .. capacity - 1
  BY <1>2, <1>6, <1>7
<1> QED BY <1>8, <1>10, <1>11, <1>12

LEMMA ResizeMovesBytes ==
  ASSUME Inv, Inv', Undamaged, NEW h \in Handle, live[h] # NULL, NEW n \in Requests,
         ~ AlignUpOverflows(n, Align), capacity' = capacity,
         NEW i \in DOMAIN blocks, ResizeMoves(h, n, i)
  PROVE  Undamaged' /\ AllocatorView!Resize(h)
<1> DEFINE size == AlignUp(n, Align)
<1>1. n \in Nat /\ n > 0 /\ n <= size /\ size \in Nat /\ size % Align = 0 /\ size >= Align
  BY RoundedRequest
<1>2. PICK j \in DOMAIN blocks :
        LET ptr == Payload(blocks[j])
            moved == AllocBlocks(blocks, j, size)
            copied == Copied(Written(mem, blocks, moved, h, ptr, {}),
                             ptr, live[h].ptr, blocks[i].size)
        IN  /\ FirstFit(blocks, j, size)
            /\ \E k \in DOMAIN moved :
                 HoldsPayload(moved, k, live[h].ptr) /\ blocks' = FreeBlocks(moved, k)
            /\ live' = [live EXCEPT ![h] = [ptr |-> ptr, size |-> n]]
            /\ mem' = Settled(Written(copied, moved, blocks', h, ptr, Grown(h, ptr, n)),
                              blocks', live')
  BY DEF ResizeMoves
<1>3. HoldsPayload(blocks, i, live[h].ptr) /\ blocks[i].size < size
  BY DEF ResizeMoves
<1> HIDE DEF size
<1>4. PICK p : p = Payload(blocks[j])
  OBVIOUS
<1>5. PICK moved : moved = AllocBlocks(blocks, j, size)
  OBVIOUS
<1>6. PICK copied : copied = Copied(Written(mem, blocks, moved, h, p, {}),
                                    p, live[h].ptr, blocks[i].size)
  OBVIOUS
<1>7. /\ FirstFit(blocks, j, size)
      /\ live' = [live EXCEPT ![h] = [ptr |-> p, size |-> n]]
      /\ Wrote(mem', copied, moved, blocks', live', h, p, Grown(h, p, n))
  BY <1>2, <1>4, <1>5, <1>6 DEF Wrote
<1>8. PICK k \in DOMAIN moved : blocks' = FreeBlocks(moved, k)
  BY <1>2, <1>5
<1>9. /\ Chain(blocks, capacity) /\ blocks \in Seq(Block) /\ capacity # 0
      /\ j \in 1 .. Len(blocks) /\ i \in 1 .. Len(blocks)
      /\ live \in [Handle -> Allocation]
  BY LiveHeap, HeapNow
<1>10. /\ Chain(blocks', capacity)
       /\ live' \in [Handle -> Allocation] /\ Matched(blocks', live')
  BY <1>9, HeapThen
<1>11. Chain(moved, capacity) /\ blocks[j].addr \in Nat /\ k \in 1 .. Len(moved)
  <2>1. Chain(moved, capacity) /\ blocks[j].addr \in Nat
    BY <1>1, <1>5, <1>7, MovedList
  <2> QED BY <2>1, LenProperties DEF Chain
<1>12. Even(blocks')
  <2>1. Even(moved)
    BY <1>1, <1>5, <1>9, AllocEven DEF Undamaged
  <2> QED BY <1>8, <1>11, <2>1, FreeEven
<1>13. /\ blocks[i].size \in Nat /\ live[h].size <= blocks[i].size
       /\ live[h].ptr \in Nat /\ live[h].size \in Nat
  <2>1. blocks[i].size \in Nat /\ live[h].ptr \in Nat /\ live[h].size \in Nat
    BY <1>9, BlockFields DEF Allocation
  <2> QED BY <1>3, <2>1, OwnBlock
<1>14. p \in Nat
  BY <1>4, <1>11, HeaderPositive DEF Payload
<1>15. /\ DOMAIN copied = 0 .. capacity - 1
       /\ Headed(copied, moved)
       /\ \A g \in Handle \ {h} : \A c \in Cells(live[g]) : copied[c] = mem[c]
       /\ \A c \in Cells(live[h]) : c < live[h].ptr + blocks[i].size =>
            copied[p + (c - live[h].ptr)] = mem[c]
  BY <1>1, <1>3, <1>4, <1>5, <1>6, <1>7, <1>13, CopyKeeps
<1>16. /\ live'[h] = [ptr |-> p, size |-> n]
       /\ \A g \in Handle \ {h} : live'[g] = live[g]
  BY <1>7, <1>9
<1>17. Grown(h, p, n) \subseteq Cells(live'[h])
  BY <1>16 DEF Grown
<1>18. /\ Headed(mem', blocks')
       /\ Filled(mem', copied, live', h, p, Grown(h, p, n))
       /\ Untouched(mem', copied, live', h)
  BY <1>7, <1>10, <1>15, <1>17, WriteKeeps
<1>19. Untouched(mem', mem, live', h)
  BY <1>15, <1>16, <1>18 DEF Untouched
<1>20. ASSUME NEW x \in 1 .. n
       PROVE  mem'[p + x - 1] = IF x <= live[h].size THEN mem[live[h].ptr + x - 1]
                                ELSE Byte(h, x - 1)
  <2>1. /\ p + x - 1 \in Cells(live'[h]) /\ (p + x - 1) - p = x - 1
        /\ p + x - 1 \in Grown(h, p, n) <=> ~ (x <= live[h].size)
    BY <1>1, <1>9, <1>14, <1>16, GrownCells
  <2>2. mem'[p + x - 1] = IF p + x - 1 \in Grown(h, p, n)
                          THEN Byte(h, (p + x - 1) - p) ELSE copied[p + x - 1]
    BY <1>18, <2>1 DEF Filled
  <2>3. ASSUME x <= live[h].size
        PROVE  copied[p + x - 1] = mem[live[h].ptr + x - 1]
    <3>1. x \in 1 .. live[h].size /\ live[h] \in Allocation
      BY <1>9, <1>13, <2>3
    <3>2. live[h].ptr + x - 1 \in Cells(live[h])
      BY <3>1, ReadsCells
    <3>3. /\ live[h].ptr + x - 1 < live[h].ptr + blocks[i].size
          /\ p + ((live[h].ptr + x - 1) - live[h].ptr) = p + x - 1
      BY <1>13, <1>14, <3>1
    <3>4. copied[p + ((live[h].ptr + x - 1) - live[h].ptr)] = mem[live[h].ptr + x - 1]
      BY <1>15, <3>2, <3>3
    <3> QED BY <3>3, <3>4
  <2> QED BY <2>1, <2>2, <2>3
<1>21. AllocatorView!Resize(h)
  BY <1>1, <1>12, <1>14, <1>16, <1>19, <1>20, ResizedReads
<1> QED BY <1>12, <1>18, <1>21 DEF Undamaged

LEMMA ResizeBytes ==
  ASSUME Inv, Inv', Undamaged, NEW h \in Handle, NEW n \in Requests, Resize(h, n)
  PROVE  Undamaged' /\ AllocatorView!Resize(h)
<1>1. live[h] # NULL /\ ~ AlignUpOverflows(n, Align) /\ capacity' = capacity
  BY DEF Resize
<1>2. PICK i \in DOMAIN blocks :
        ResizeInBlock(h, n, i) \/ ResizeIntoNext(h, n, i) \/ ResizeMoves(h, n, i)
  BY DEF Resize
<1>3. CASE ResizeInBlock(h, n, i)
  BY <1>1, <1>3, ResizeInBlockBytes
<1>4. CASE ResizeIntoNext(h, n, i)
  BY <1>1, <1>4, ResizeIntoNextBytes
<1>5. CASE ResizeMoves(h, n, i)
  BY <1>1, <1>5, ResizeMovesBytes
<1> QED BY <1>2, <1>3, <1>4, <1>5

LEMMA OneHeader ==
  ASSUME NEW m \in Nat, NEW c \in Nat, c <= m, c > Header + Align
  PROVE  m - Header >= Align /\ m > Header /\ 0 .. Header - 1 \subseteq 0 .. m - 1
<1>1. Header \in Nat /\ Align \in Nat
  BY HeaderPositive, AlignAssumption
<1> QED BY <1>1

LEMMA CreateBytes ==
  ASSUME Inv, NEW c \in CreateSizes, Create(c)
  PROVE  Undamaged' /\ AllocatorView!Open
<1>1. c \in SizeT \ {0} /\ c > Header + Align /\ c \in Nat
  <2>1. c \in SizeT /\ c > Header + Align /\ c \in Nat
    BY CreateSizesAssumption, SizeMaxAssumption DEF SizeT
  <2> QED BY <2>1, HeaderAssumption, AlignAssumption
<1>2. /\ capacity = 0 /\ ~ AlignUpOverflows(c, Align) /\ capacity' = AlignUp(c, Align)
      /\ blocks' = << [addr |-> 0, size |-> capacity' - Header, free |-> TRUE] >>
      /\ mem' = [x \in 0 .. capacity' - 1 |-> IF x < Header THEN HeaderByte ELSE Junk]
      /\ live' = live
  BY DEF Create
<1>3. capacity' \in Nat /\ capacity' % Align = 0 /\ c <= capacity'
  BY <1>1, <1>2, RoundedIsEven, RoundsUp
<1>4. (capacity' - Header) % Align = 0 /\ capacity' - Header >= Align
      /\ capacity' > Header /\ 0 .. Header - 1 \subseteq 0 .. capacity' - 1
  <2>1. (capacity' - Header) % Align = 0
    BY <1>3, HeaderAssumption, DifferenceOfMultiples
  <2> QED BY <1>1, <1>3, <2>1, OneHeader
<1>5. /\ DOMAIN blocks' = {1} /\ Len(blocks') = 1 /\ blocks'[1].addr = 0
      /\ blocks'[1].size = capacity' - Header
  <2>1. DOMAIN blocks' = 1 .. 1 /\ Len(blocks') = 1
    BY <1>2
  <2> QED BY <1>2, <2>1
<1>6. 0 % Align = 0
  BY AlignAssumption
<1>7. Even(blocks')
  BY <1>4, <1>5, <1>6 DEF Even
<1>8. Headed(mem', blocks')
  <2>1. ASSUME NEW x \in HeaderCells(blocks')
        PROVE  mem'[x] = HeaderByte
    <3>1. x \in 0 .. (0 + Header) - 1
      BY <1>5, HeaderCellsAre
    <3>2. x < Header /\ x \in 0 .. Header - 1
      BY <3>1, HeaderPositive
    <3>3. x \in 0 .. capacity' - 1
      BY <1>4, <3>2
    <3> QED BY <1>2, <3>2, <3>3
  <2> QED BY <2>1 DEF Headed
<1>9. \A h \in Handle : live[h] = NULL
  BY <1>2, NoBlocks DEF Inv, Matched
<1>10. \A h \in Handle : ReadBack(mem', live'[h]) = ReadBack(mem, live[h])
  BY <1>2, <1>9, NullReadsNothing
<1>11. [h \in Handle |-> ReadBack(mem', live'[h])] = [h \in Handle |-> ReadBack(mem, live[h])]
  BY <1>10
<1>12. capacity' > 0
  BY <1>3, <1>4, HeaderPositive
<1>13. AllocatorView!Open
  BY <1>2, <1>11, <1>12 DEF AllocatorView!Open, ReadBack
<1> QED BY <1>7, <1>8, <1>13 DEF Undamaged

LEMMA NothingIsUndamaged ==
  ASSUME NEW m
  PROVE  Even(<< >>) /\ Headed(m, << >>)
BY DEF Even, Headed, HeaderCells

LEMMA DestroyBytes ==
  ASSUME Destroy
  PROVE  Undamaged' /\ AllocatorView!Release
<1>1. live' = [h \in Handle |-> NULL] /\ capacity' = 0 /\ blocks' = << >>
  BY DEF Destroy
<1>2. \A h \in Handle : ReadBack(mem', live'[h]) = << >>
  BY <1>1, NullReadsNothing
<1>3. [h \in Handle |-> ReadBack(mem', live'[h])] = [h \in Handle |-> << >>]
  BY <1>2
<1>4. AllocatorView!Release
  BY <1>1, <1>3 DEF AllocatorView!Release, AllocatorView!NULL, NULL, ReadBack
<1> QED BY <1>1, <1>4, NothingIsUndamaged DEF Undamaged

LEMMA NextBytes ==
  ASSUME Inv, Inv', Undamaged, [Next]_vars
  PROVE  Undamaged' /\ [AllocatorView!Next]_AllocatorView!allocVars
<1>1. ASSUME NEW c \in CreateSizes, Create(c)
      PROVE  Undamaged' /\ AllocatorView!Next
  BY <1>1, CreateBytes DEF AllocatorView!Next
<1>2. CASE Destroy
  BY <1>2, DestroyBytes DEF AllocatorView!Next
<1>3. CASE UNCHANGED <<capacity, live, mem, blocks>>
  BY <1>3 DEF AllocatorView!allocVars, Undamaged
<1>4. CASE (\E c \in CreateSizes : CreateOverflows(c))
           \/ (\E k \in DOMAIN CreateSteps : CreateFails(k))
           \/ (\E h \in Handle, n \in Requests : AllocFails(h, n) \/ ResizeFails(h, n))
           \/ UNCHANGED vars
  BY <1>3, <1>4 DEF CreateOverflows, CreateFails, AllocFails, ResizeFails, vars
<1>5. ASSUME NEW h \in Handle, Dealloc(h)
      PROVE  Undamaged' /\ AllocatorView!Next
  BY <1>5, DeallocBytes DEF AllocatorView!Next
<1>6. ASSUME NEW h \in Handle, NEW n \in Requests, Alloc(h, n) \/ Resize(h, n)
      PROVE  Undamaged' /\ AllocatorView!Next
  <2>1. Undamaged' /\ (AllocatorView!Alloc(h) \/ AllocatorView!Resize(h))
    BY <1>6, AllocBytes, ResizeBytes
  <2> QED BY <2>1 DEF AllocatorView!Next
<1> QED BY <1>1, <1>2, <1>4, <1>5, <1>6 DEF Next

LEMMA UndamagedInvariance == Spec => []Undamaged
<1>1. Init => Undamaged
  BY NothingIsUndamaged DEF Init, Undamaged
<1>2. Inv /\ Inv' /\ Undamaged /\ [Next]_vars => Undamaged'
  BY NextBytes
<1> QED BY <1>1, <1>2, Invariance, PTL DEF Spec

\* Every payload the heap hands out or will hand out is aligned, whatever
\* sequence of splits, merges, tails cut off and moves made the list.
THEOREM PayloadsAreAligned == Spec => []Aligned
<1>1. Inv /\ Undamaged => Aligned
  <2> SUFFICES ASSUME Inv, Undamaged, NEW i \in DOMAIN blocks
               PROVE  /\ Payload(blocks[i]) % Align = 0
                      /\ blocks[i].size % Align = 0 /\ blocks[i].size >= Align
    BY DEF Aligned
  <2>1. i \in 1 .. Len(blocks) /\ blocks[i].addr \in Nat
    BY LenProperties, BlockFields DEF Inv, TypeOK
  <2>2. /\ blocks[i].addr % Align = 0
        /\ blocks[i].size % Align = 0 /\ blocks[i].size >= Align
    BY <2>1 DEF Undamaged, Even
  <2>3. (blocks[i].addr + Header) % Align = 0
    BY <2>1, <2>2, HeaderAssumption, SumOfMultiples
  <2> QED BY <2>2, <2>3 DEF Payload
<1> QED BY <1>1, Invariance, UndamagedInvariance, PTL

\* No copy of a moving resize, no new header and no byte an owner writes lands
\* on a header of the list.
THEOREM HeadersAreIntact == Spec => []HeadersIntact
<1>1. Undamaged => HeadersIntact
  BY DEF Undamaged, Headed, HeadersIntact
<1> QED BY <1>1, UndamagedInvariance, PTL

\* ImplementsAllocator of GeneralHeap: allocation, release and all three ways of
\* resizing give what allocator.h promises, aligned ranges of one owner each,
\* whose bytes stay readable until the owner gives them back.
THEOREM HeapIsAnAllocator == Spec => ImplementsAllocator
<1>1. Init => AllocatorView!Init
  <2> SUFFICES ASSUME Init PROVE AllocatorView!Init
    OBVIOUS
  <2>1. live = [h \in Handle |-> NULL] /\ capacity = 0
    BY DEF Init
  <2>2. \A h \in Handle : ReadBack(mem, live[h]) = << >>
    BY <2>1, NullReadsNothing
  <2>3. [h \in Handle |-> ReadBack(mem, live[h])] = [h \in Handle |-> << >>]
    BY <2>2
  <2> QED BY <2>1, <2>3 DEF AllocatorView!Init, AllocatorView!NULL, NULL, ReadBack
<1>2. Inv /\ Inv' /\ Undamaged /\ [Next]_vars
        => [AllocatorView!Next]_AllocatorView!allocVars
  BY NextBytes
<1> QED
  BY <1>1, <1>2, Invariance, UndamagedInvariance, PTL
     DEF Spec, ImplementsAllocator, AllocatorView!Spec

(***************************************************************************)
(* The byte counts.  k4c_heap_available is a fold over the list, which the *)
(* library computes by a recursive function on sets of indices; Sums says  *)
(* what that function is, of the indices for which p holds.                *)
(***************************************************************************)
LEMMA Least ==
  ASSUME NEW T, T \subseteq Nat, T # {}
  PROVE  \E m \in T : \A k \in T : m <= k
<1>1. PICK m \in T : \A k \in T : <<k, m>> \notin OpToRel(<, Nat)
  BY WFMin, NatLessThanWellFounded, Zenon
<1>2. m \in Nat /\ \A k \in T : k \in Nat
  OBVIOUS
<1>3. \A k \in T : ~ (k < m)
  BY <1>1, <1>2, Zenon DEF OpToRel
<1> QED BY <1>2, <1>3

LEMMA LargestIndex ==
  ASSUME NEW n \in Nat, NEW s \in SUBSET (1 .. n), s # {}
  PROVE  Max(s) \in s /\ \A x \in s : x <= Max(s)
<1> DEFINE T == {m \in Nat : \A x \in s : x <= m}
<1>1. T \subseteq Nat /\ n \in T
  OBVIOUS
<1>2. PICK m \in T : \A k \in T : m <= k
  BY <1>1, Least
<1>3. m \in s
  <2>1. m # 0
    <3>1. PICK x \in s : x \in 1 .. n
      OBVIOUS
    <3> QED BY <1>2, <3>1
  <2>2. ASSUME m \notin s PROVE m - 1 \in T
    BY <1>2, <2>1, <2>2
  <2> QED BY <1>2, <2>2
<1>4. \E y \in s : \A x \in s : y >= x
  BY <1>2, <1>3
<1>5. Max(s) \in s /\ \A x \in s : Max(s) >= x
  BY <1>4, Zenon DEF Max
<1> QED BY <1>5

SumOf(f, s, p, w) ==
  IF s = {} THEN 0
  ELSE IF p[Max(s)] THEN f[s \ {Max(s)}] + w[Max(s)] ELSE f[s \ {Max(s)}]

Sums(f, n, p, w) == f = [s \in SUBSET (1 .. n) |-> SumOf(f, s, p, w)]

LEMMA SumsExist ==
  ASSUME NEW n \in Nat, NEW p, NEW w
  PROVE  \E f : Sums(f, n, p, w)
<1> DEFINE T == {k \in Nat : ~ \E f : Sums(f, k, p, w)}
<1> SUFFICES ASSUME T # {} PROVE FALSE
  OBVIOUS
<1>1. PICK m \in T : \A k \in T : m <= k
  BY Least
<1>2. m # 0
  <2> DEFINE e == [s \in SUBSET (1 .. 0) |-> 0]
  <2>1. \A s \in SUBSET (1 .. 0) : SumOf(e, s, p, w) = 0
    BY DEF SumOf
  <2>2. Sums(e, 0, p, w)
    BY <2>1 DEF Sums
  <2> QED BY <1>1, <2>2
<1>3. m - 1 \in Nat /\ m \in Nat
  BY <1>2
<1>4. PICK g : Sums(g, m - 1, p, w)
  BY <1>1, <1>3
<1> DEFINE f == [s \in SUBSET (1 .. m) |->
                   IF m \in s THEN IF p[m] THEN g[s \ {m}] + w[m] ELSE g[s \ {m}]
                   ELSE g[s]]
<1>5. ASSUME NEW s \in SUBSET (1 .. m) PROVE f[s] = SumOf(f, s, p, w)
  <2>1. CASE m \in s
    <3>1. Max(s) = m
      <4>1. Max(s) \in s /\ \A x \in s : x <= Max(s)
        BY <1>3, <2>1, LargestIndex
      <4>2. Max(s) \in 1 .. m /\ m <= Max(s)
        BY <2>1, <4>1
      <4> QED BY <1>3, <4>2
    <3>2. s \ {m} \in SUBSET (1 .. m) /\ m \notin s \ {m}
      OBVIOUS
    <3>3. f[s \ {m}] = g[s \ {m}]
      BY <3>2
    <3> QED BY <2>1, <3>1, <3>3 DEF SumOf
  <2>2. CASE m \notin s
    <3>1. s \in SUBSET (1 .. m - 1)
      BY <1>3, <2>2
    <3>2. f[s] = g[s]
      BY <2>2
    <3>3. g[s] = SumOf(g, s, p, w)
      BY <1>4, <3>1 DEF Sums
    <3>4. s \ {Max(s)} \in SUBSET (1 .. m) /\ m \notin s \ {Max(s)}
      BY <2>2
    <3>5. f[s \ {Max(s)}] = g[s \ {Max(s)}]
      BY <3>4
    <3> HIDE DEF f
    <3> QED BY <3>2, <3>3, <3>5 DEF SumOf
  <2> QED BY <2>1, <2>2
<1>6. f = [s \in SUBSET (1 .. m) |-> SumOf(f, s, p, w)]
  BY <1>5
<1>7. Sums(f, m, p, w)
  BY <1>6 DEF Sums
<1> QED BY <1>1, <1>7

LEMMA SumsStep ==
  ASSUME NEW n \in Nat, NEW p, NEW w, NEW f, Sums(f, n, p, w)
  PROVE  /\ f[1 .. 0] = 0
         /\ \A k \in 1 .. n :
              f[1 .. k] = IF p[k] THEN f[1 .. k - 1] + w[k] ELSE f[1 .. k - 1]
<1>1. f[1 .. 0] = 0
  <2>1. 1 .. 0 = {} /\ {} \in SUBSET (1 .. n)
    OBVIOUS
  <2> QED BY <2>1 DEF Sums, SumOf
<1>2. ASSUME NEW k \in 1 .. n
      PROVE  f[1 .. k] = IF p[k] THEN f[1 .. k - 1] + w[k] ELSE f[1 .. k - 1]
  <2>1. 1 .. k \in SUBSET (1 .. n) /\ k \in 1 .. k
    OBVIOUS
  <2>2. Max(1 .. k) = k
    <3>1. Max(1 .. k) \in 1 .. k /\ k <= Max(1 .. k)
      BY <2>1, LargestIndex
    <3> QED BY <3>1
  <2>3. (1 .. k) \ {k} = 1 .. k - 1
    OBVIOUS
  <2>4. f[1 .. k] = SumOf(f, 1 .. k, p, w)
    BY <2>1 DEF Sums
  <2> QED BY <2>1, <2>2, <2>3, <2>4 DEF SumOf
<1> QED BY <1>1, <1>2

FreeOf(bs) == [i \in 1 .. Len(bs) |-> bs[i].free]
UsedOf(bs) == [i \in 1 .. Len(bs) |-> ~ bs[i].free]
SizesOf(bs) == [i \in 1 .. Len(bs) |-> bs[i].size]

LEMMA BlockFills ==
  ASSUME NEW a \in Nat, NEW b \in Nat, NEW e \in Nat, NEW h \in Nat, NEW u \in Nat
  PROVE  /\ (a + u) + b + (e + h) = (a + b + e) + h + u
         /\ a + (b + u) + (e + h) = (a + b + e) + h + u
         /\ a + u \in Nat /\ b + u \in Nat
OBVIOUS

PrefixFills(bs, f, g, k) ==
  /\ f[1 .. k] \in Nat /\ g[1 .. k] \in Nat
  /\ f[1 .. k] + g[1 .. k] + k * Header = IF k = 0 THEN 0 ELSE End(bs[k])

\* The headers and the free and used bytes of the first k blocks fill the
\* buffer up to where block k ends.
LEMMA BytesOfPrefix ==
  ASSUME NEW bs, NEW cap, Chain(bs, cap), NEW f, NEW g,
         Sums(f, Len(bs), FreeOf(bs), SizesOf(bs)),
         Sums(g, Len(bs), UsedOf(bs), SizesOf(bs))
  PROVE  \A k \in 0 .. Len(bs) : PrefixFills(bs, f, g, k)
<1> DEFINE P(k) == PrefixFills(bs, f, g, k)
           T == {k \in 0 .. Len(bs) : ~ P(k)}
<1>0. Len(bs) \in Nat /\ bs \in Seq(Block)
  BY LenProperties DEF Chain
<1>1. f[1 .. 0] = 0 /\ g[1 .. 0] = 0
  BY <1>0, SumsStep
<1>2. ASSUME NEW k \in 1 .. Len(bs)
      PROVE  /\ f[1 .. k] = IF bs[k].free THEN f[1 .. k - 1] + bs[k].size ELSE f[1 .. k - 1]
             /\ g[1 .. k] = IF bs[k].free THEN g[1 .. k - 1] ELSE g[1 .. k - 1] + bs[k].size
  <2> DEFINE p == FreeOf(bs)
             q == UsedOf(bs)
             w == SizesOf(bs)
  <2>1. p[k] = bs[k].free /\ q[k] = ~ bs[k].free /\ w[k] = bs[k].size
    BY DEF FreeOf, UsedOf, SizesOf
  <2>2. Sums(f, Len(bs), p, w) /\ Sums(g, Len(bs), q, w)
    OBVIOUS
  <2> HIDE DEF p, q, w
  <2>3. f[1 .. k] = IF p[k] THEN f[1 .. k - 1] + w[k] ELSE f[1 .. k - 1]
    BY <1>0, <2>2, SumsStep
  <2>4. g[1 .. k] = IF q[k] THEN g[1 .. k - 1] + w[k] ELSE g[1 .. k - 1]
    BY <1>0, <2>2, SumsStep
  <2> QED BY <2>1, <2>3, <2>4
<1>3. P(0)
  BY <1>1, HeaderPositive DEF PrefixFills
<1>4. ASSUME NEW k \in 1 .. Len(bs), P(k - 1)
      PROVE  P(k)
  <2> USE DEF PrefixFills
  <2>1. /\ bs[k].size \in Nat /\ bs[k].addr \in Nat /\ bs[k].free \in BOOLEAN
        /\ End(bs[k]) = bs[k].addr + Header + bs[k].size
    BY <1>0, BlockFields DEF End, Payload
  <2>2. f[1 .. k - 1] + g[1 .. k - 1] + (k - 1) * Header = bs[k].addr
    <3>1. CASE k = 1
      BY <1>4, <3>1 DEF Chain
    <3>2. CASE k # 1
      <4>1. k - 1 \in 1 .. Len(bs) /\ k - 1 # Len(bs) /\ (k - 1) + 1 = k
        BY <1>0, <3>2
      <4>2. End(bs[k - 1]) = bs[k].addr
        BY <4>1 DEF Chain
      <4> QED BY <1>4, <4>1, <4>2
    <3> QED BY <3>1, <3>2
  <2>3. PICK a, b, c, d, e, z :
          /\ a = f[1 .. k - 1] /\ b = g[1 .. k - 1] /\ c = f[1 .. k] /\ d = g[1 .. k]
          /\ e = (k - 1) * Header /\ z = k * Header
    OBVIOUS
  <2>4. z = e + Header /\ e \in Nat
    BY <2>3, HeaderPositive
  <2>5. a \in Nat /\ b \in Nat /\ a + b + e = bs[k].addr
    BY <1>4, <2>2, <2>3
  <2>6. /\ c = IF bs[k].free THEN a + bs[k].size ELSE a
        /\ d = IF bs[k].free THEN b ELSE b + bs[k].size
    BY <1>2, <2>3
  <2>7. c \in Nat /\ d \in Nat /\ c + d + z = bs[k].addr + Header + bs[k].size
    <3>1. PICK h \in Nat, u \in Nat : h = Header /\ u = bs[k].size
      BY <2>1, HeaderPositive
    <3>2. /\ (a + u) + b + (e + h) = (a + b + e) + h + u
          /\ a + (b + u) + (e + h) = (a + b + e) + h + u
          /\ a + u \in Nat /\ b + u \in Nat
      BY <2>4, <2>5, <3>1, BlockFills, SMTT(20)
    <3>3. CASE bs[k].free
      BY <2>4, <2>5, <2>6, <3>1, <3>2, <3>3
    <3>4. CASE ~ bs[k].free
      BY <2>4, <2>5, <2>6, <3>1, <3>2, <3>4
    <3> QED BY <3>3, <3>4
  <2>8. k # 0
    OBVIOUS
  <2> QED BY <2>1, <2>3, <2>7, <2>8
<1> HIDE DEF P
<1>5. T = {}
  <2> SUFFICES ASSUME T # {} PROVE FALSE
    OBVIOUS
  <2>0. T \subseteq Nat
    BY <1>0
  <2>1. PICK m \in T : \A k \in T : m <= k
    BY <2>0, Least
  <2>2. m # 0 /\ m \in 0 .. Len(bs)
    BY <1>3
  <2>3. m \in 1 .. Len(bs) /\ m - 1 \in 0 .. Len(bs) /\ ~ (m <= m - 1)
    BY <1>0, <2>2
  <2>4. P(m - 1)
    BY <2>1, <2>3
  <2> QED BY <1>4, <2>3, <2>4
<1>6. \A k \in 0 .. Len(bs) : P(k)
  BY <1>5
<1> QED BY <1>6 DEF P

\* The fold over the free blocks, and the one over the used.
LEMMA FoldsAreSums ==
  ASSUME NEW bs \in Seq(Block)
  PROVE  /\ \E f : /\ Sums(f, Len(bs), FreeOf(bs), SizesOf(bs))
                  /\ FoldLeft(LAMBDA total, b : IF b.free THEN total + b.size ELSE total,
                              0, bs) = f[1 .. Len(bs)]
         /\ \E g : /\ Sums(g, Len(bs), UsedOf(bs), SizesOf(bs))
                  /\ FoldLeft(LAMBDA total, b : IF b.free THEN total ELSE total + b.size,
                              0, bs) = g[1 .. Len(bs)]
<1> DEFINE n == Len(bs)
           p == FreeOf(bs)
           q == UsedOf(bs)
           w == SizesOf(bs)
           F(f) == f = [s \in SUBSET DOMAIN bs |->
                          IF s = {} THEN 0
                          ELSE IF bs[Max(s)].free THEN f[s \ {Max(s)}] + bs[Max(s)].size
                          ELSE f[s \ {Max(s)}]]
           G(f) == f = [s \in SUBSET DOMAIN bs |->
                          IF s = {} THEN 0
                          ELSE IF bs[Max(s)].free THEN f[s \ {Max(s)}]
                          ELSE f[s \ {Max(s)}] + bs[Max(s)].size]
<1>1. n \in Nat /\ DOMAIN bs = 1 .. n
  BY LenProperties
<1>2. FoldLeft(LAMBDA total, b : IF b.free THEN total + b.size ELSE total, 0, bs)
        = (CHOOSE f : F(f))[DOMAIN bs]
  BY SMT DEF FoldLeft, MapThenFoldSet
<1>3. FoldLeft(LAMBDA total, b : IF b.free THEN total ELSE total + b.size, 0, bs)
        = (CHOOSE f : G(f))[DOMAIN bs]
  BY SMT DEF FoldLeft, MapThenFoldSet
<1>4. ASSUME NEW f PROVE /\ F(f) <=> Sums(f, n, p, w)
                         /\ G(f) <=> Sums(f, n, q, w)
  <2>1. ASSUME NEW s \in SUBSET (1 .. n)
        PROVE  /\ SumOf(f, s, p, w)
                    = IF s = {} THEN 0
                      ELSE IF bs[Max(s)].free THEN f[s \ {Max(s)}] + bs[Max(s)].size
                      ELSE f[s \ {Max(s)}]
               /\ SumOf(f, s, q, w)
                    = IF s = {} THEN 0
                      ELSE IF bs[Max(s)].free THEN f[s \ {Max(s)}]
                      ELSE f[s \ {Max(s)}] + bs[Max(s)].size
    <3>1. CASE s = {}
      BY <3>1 DEF SumOf
    <3>2. CASE s # {}
      <4>1. Max(s) \in 1 .. n
        BY <1>1, <3>2, LargestIndex
      <4>2. p[Max(s)] = bs[Max(s)].free /\ q[Max(s)] = ~ bs[Max(s)].free
            /\ w[Max(s)] = bs[Max(s)].size
        BY <4>1 DEF FreeOf, UsedOf, SizesOf
      <4> HIDE DEF p, q, w
      <4> QED BY <3>2, <4>2 DEF SumOf
    <3> QED BY <3>1, <3>2
  <2>2. [s \in SUBSET (1 .. n) |-> SumOf(f, s, p, w)]
          = [s \in SUBSET DOMAIN bs |->
               IF s = {} THEN 0
               ELSE IF bs[Max(s)].free THEN f[s \ {Max(s)}] + bs[Max(s)].size
               ELSE f[s \ {Max(s)}]]
    BY <1>1, <2>1
  <2>3. [s \in SUBSET (1 .. n) |-> SumOf(f, s, q, w)]
          = [s \in SUBSET DOMAIN bs |->
               IF s = {} THEN 0
               ELSE IF bs[Max(s)].free THEN f[s \ {Max(s)}]
               ELSE f[s \ {Max(s)}] + bs[Max(s)].size]
    BY <1>1, <2>1
  <2> HIDE DEF p, q, w, n
  <2> QED BY <2>2, <2>3 DEF Sums
<1> HIDE DEF F, G, p, q, w, n
<1>5. F(CHOOSE f : F(f)) /\ G(CHOOSE f : G(f))
  <2>1. (\E f : F(f)) /\ (\E f : G(f))
    BY <1>1, <1>4, SumsExist
  <2> QED BY <2>1, Zenon
<1>6. \E f : Sums(f, n, p, w) /\ (CHOOSE h : F(h))[DOMAIN bs] = f[1 .. n]
  BY <1>1, <1>4, <1>5
<1>7. \E f : Sums(f, n, q, w) /\ (CHOOSE h : G(h))[DOMAIN bs] = f[1 .. n]
  BY <1>1, <1>4, <1>5
<1> QED BY <1>2, <1>3, <1>6, <1>7, Zenon DEF n, p, q, w

LEMMA AvailableNow ==
  ASSUME Inv
  PROVE  AvailableIsExact
<1>1. PICK bs, cap : bs = blocks /\ cap = capacity
  OBVIOUS
<1>2. bs \in Seq(Block) /\ cap \in Nat /\ Len(bs) \in Nat
  BY <1>1, LenProperties DEF Inv, TypeOK
<1>3. PICK f : /\ Sums(f, Len(bs), FreeOf(bs), SizesOf(bs))
               /\ FoldLeft(LAMBDA total, b : IF b.free THEN total + b.size ELSE total, 0, bs)
                    = f[1 .. Len(bs)]
  BY <1>2, FoldsAreSums
<1>4. PICK g : /\ Sums(g, Len(bs), UsedOf(bs), SizesOf(bs))
               /\ FoldLeft(LAMBDA total, b : IF b.free THEN total ELSE total + b.size, 0, bs)
                    = g[1 .. Len(bs)]
  BY <1>2, FoldsAreSums
<1>5. /\ f[1 .. Len(bs)] \in Nat /\ g[1 .. Len(bs)] \in Nat
      /\ f[1 .. Len(bs)] + g[1 .. Len(bs)] + Len(bs) * Header = cap
  <2>1. CASE cap = 0
    <3>1. Len(bs) = 0
      BY <1>1, <2>1 DEF Inv
    <3>2. f[1 .. 0] = 0 /\ g[1 .. 0] = 0
      <4>1. PICK p, q, w : Sums(f, Len(bs), p, w) /\ Sums(g, Len(bs), q, w)
        BY <1>3, <1>4
      <4> QED BY <1>2, <4>1, SumsStep
    <3> QED BY <2>1, <3>1, <3>2, HeaderPositive
  <2>2. CASE cap # 0
    <3>1. Chain(bs, cap)
      BY <1>1, <2>2 DEF Inv
    <3>2. Len(bs) \in 0 .. Len(bs) /\ Len(bs) # 0 /\ Len(bs) \in 1 .. Len(bs)
      BY <1>2, <3>1 DEF Chain
    <3>3. End(bs[Len(bs)]) = cap
      BY <3>1, <3>2 DEF Chain
    <3>4. \A k \in 0 .. Len(bs) : PrefixFills(bs, f, g, k)
      <4>1. /\ Sums(f, Len(bs), FreeOf(bs), SizesOf(bs))
            /\ Sums(g, Len(bs), UsedOf(bs), SizesOf(bs))
        BY <1>3, <1>4
      <4> QED BY <3>1, <4>1, BytesOfPrefix
    <3> QED BY <3>2, <3>3, <3>4 DEF PrefixFills
  <2> QED BY <2>1, <2>2
<1>6. PICK x, y, z : x = f[1 .. Len(bs)] /\ y = g[1 .. Len(bs)] /\ z = Len(bs) * Header
  OBVIOUS
<1>7. x \in Nat /\ y \in Nat /\ z \in Nat /\ x + y + z = cap
  BY <1>2, <1>5, <1>6, HeaderPositive
<1>8. x + z + y = cap
  BY <1>7
<1> QED BY <1>1, <1>3, <1>4, <1>6, <1>8 DEF AvailableIsExact, Available

\* Every byte of the buffer is a header's, a free block's or a used one's: what
\* k4c_heap_available reports is exact after any splits, merges and moves.
THEOREM AvailableIsAlwaysExact == Spec => []AvailableIsExact
BY AvailableNow, Invariance, PTL

\* The bytes of the buffer agree with the list: aligned payloads, headers no
\* one has written over, and no byte lost or counted twice.
THEOREM BytesAreAccounted == Spec => []BytesAccounted
<1>1. Aligned /\ HeadersIntact /\ AvailableIsExact => BytesAccounted
  BY DEF BytesAccounted
<1> QED BY <1>1, PayloadsAreAligned, HeadersAreIntact, AvailableIsAlwaysExact, PTL

(***************************************************************************)
(* Fragmentation.  Apart from a tail cut off, no operation leaves two free *)
(* blocks side by side where there were none.                              *)
(***************************************************************************)
Parted(bs, j) == ~ (bs[j].free /\ bs[j + 1].free)

Coalesced(bs) == \A j \in 1 .. Len(bs) - 1 : Parted(bs, j)

LEMMA CoalescedNow ==
  ASSUME NEW bs \in Seq(Block)
  PROVE  /\ DOMAIN bs = 1 .. Len(bs) /\ Len(bs) \in Nat
         /\ Coalesced(bs) <=> \A i \in DOMAIN bs : ~ (FreeAt(bs, i) /\ FreeAt(bs, i + 1))
<1>1. DOMAIN bs = 1 .. Len(bs) /\ Len(bs) \in Nat
  BY LenProperties
<1>2. ASSUME Coalesced(bs), NEW i \in DOMAIN bs, FreeAt(bs, i), FreeAt(bs, i + 1)
      PROVE  FALSE
  <2>1. i \in 1 .. Len(bs) - 1
    BY <1>1, <1>2 DEF FreeAt
  <2> QED BY <1>2, <2>1 DEF Coalesced, Parted, FreeAt
<1>3. ASSUME \A i \in DOMAIN bs : ~ (FreeAt(bs, i) /\ FreeAt(bs, i + 1)),
             NEW j \in 1 .. Len(bs) - 1
      PROVE  Parted(bs, j)
  <2>1. j \in DOMAIN bs /\ j + 1 \in DOMAIN bs
    BY <1>1
  <2> QED BY <1>3, <2>1 DEF Parted, FreeAt
<1> QED BY <1>1, <1>2, <1>3 DEF Coalesced

LEMMA JoinParts ==
  ASSUME NEW bs \in Seq(Block), NEW i \in 1 .. Len(bs), i + 1 \in 1 .. Len(bs),
         NEW r, IsJoin(r, bs, i), NEW j \in 1 .. Len(r) - 1,
         IF j < i THEN Parted(bs, j)
         ELSE IF j = i THEN ~ (bs[i].free /\ bs[i + 2].free)
         ELSE Parted(bs, j + 1)
  PROVE  Parted(r, j)
<1>1. Len(bs) \in Nat /\ Len(r) = Len(bs) - 1 /\ i \in Nat /\ j \in Nat
  BY LenProperties DEF IsJoin
<1>2. r[i].free = bs[i].free
  BY DEF IsJoin
<1>3. CASE j < i - 1
  <2>1. j \in 1 .. i - 1 /\ j + 1 \in 1 .. i - 1 /\ j < i
    BY <1>1, <1>3
  <2>2. r[j] = bs[j] /\ r[j + 1] = bs[j + 1]
    BY <2>1 DEF IsJoin
  <2> QED BY <2>1, <2>2 DEF Parted
<1>4. CASE j = i - 1
  <2>1. j \in 1 .. i - 1 /\ j + 1 = i /\ j < i
    BY <1>1, <1>4
  <2>2. r[j] = bs[j]
    BY <2>1 DEF IsJoin
  <2> QED BY <1>2, <2>1, <2>2 DEF Parted
<1>5. CASE j = i
  <2>1. i + 1 \in i + 1 .. Len(bs) - 1 /\ (i + 1) + 1 = i + 2 /\ ~ (j < i)
    BY <1>1, <1>5
  <2>2. r[i + 1] = bs[i + 2]
    BY <2>1 DEF IsJoin
  <2> QED BY <1>2, <1>5, <2>1, <2>2 DEF Parted
<1>6. CASE j > i
  <2>1. j \in i + 1 .. Len(bs) - 1 /\ j + 1 \in i + 1 .. Len(bs) - 1
        /\ ~ (j < i) /\ j # i
    BY <1>1, <1>6
  <2>2. r[j] = bs[j + 1] /\ r[j + 1] = bs[(j + 1) + 1]
    BY <2>1 DEF IsJoin
  <2> QED BY <2>1, <2>2 DEF Parted
<1> QED BY <1>1, <1>3, <1>4, <1>5, <1>6

LEMMA CutParts ==
  ASSUME NEW bs \in Seq(Block), NEW i \in 1 .. Len(bs), NEW n \in Nat,
         NEW r, IsCut(r, bs, i, n), NEW j \in 1 .. Len(r) - 1, j # i,
         Coalesced(bs), i + 1 \in 1 .. Len(bs) => ~ bs[i + 1].free
  PROVE  Parted(r, j)
<1>1. Len(bs) \in Nat /\ Len(r) = Len(bs) + 1 /\ i \in Nat /\ j \in Nat
  BY LenProperties DEF IsCut
<1>2. r[i].free = bs[i].free
  BY DEF IsCut
<1>3. CASE j < i - 1
  <2>1. j \in 1 .. i - 1 /\ j + 1 \in 1 .. i - 1 /\ j \in 1 .. Len(bs) - 1
    BY <1>1, <1>3
  <2>2. r[j] = bs[j] /\ r[j + 1] = bs[j + 1]
    BY <2>1 DEF IsCut
  <2> QED BY <2>1, <2>2 DEF Parted, Coalesced
<1>4. CASE j = i - 1
  <2>1. j \in 1 .. i - 1 /\ j + 1 = i /\ j \in 1 .. Len(bs) - 1
    BY <1>1, <1>4
  <2>2. r[j] = bs[j]
    BY <2>1 DEF IsCut
  <2> QED BY <1>2, <2>1, <2>2 DEF Parted, Coalesced
<1>5. CASE j = i + 1
  <2>1. i + 1 \in i + 1 .. Len(bs) /\ i + 1 \in 1 .. Len(bs)
    BY <1>1, <1>5
  <2>2. r[(i + 1) + 1] = bs[i + 1]
    BY <2>1 DEF IsCut
  <2> QED BY <1>5, <2>1, <2>2 DEF Parted
<1>6. CASE j > i + 1
  <2> DEFINE k == j - 1
  <2>1. k \in i + 1 .. Len(bs) /\ k + 1 \in i + 1 .. Len(bs) /\ k \in 1 .. Len(bs) - 1
        /\ k + 1 = j
    BY <1>1, <1>6
  <2> HIDE DEF k
  <2>2. r[k + 1] = bs[k] /\ r[(k + 1) + 1] = bs[k + 1]
    BY <2>1 DEF IsCut
  <2> QED BY <2>1, <2>2 DEF Parted, Coalesced
<1> QED BY <1>1, <1>3, <1>4, <1>5, <1>6

LEMMA Between ==
  ASSUME NEW n \in Nat, NEW j \in 1 .. n - 1
  PROVE  j \in 1 .. n /\ j + 1 \in 1 .. n
OBVIOUS

\* Cutting a block whose successor is used, and marking it used.
LEMMA AllocCoalesced ==
  ASSUME NEW bs \in Seq(Block), NEW i \in 1 .. Len(bs), NEW n \in Nat,
         Coalesced(bs), bs[i].free
  PROVE  Coalesced(AllocBlocks(bs, i, n))
<1>a. PICK t : t = Split(bs, i, n)
  OBVIOUS
<1>b. PICK r : r = Marking(t, i, FALSE)
  OBVIOUS
<1>0. Len(bs) \in Nat
  BY LenProperties
<1>1. i + 1 \in 1 .. Len(bs) => ~ bs[i + 1].free
  <2>1. i + 1 \in 1 .. Len(bs) => i \in 1 .. Len(bs) - 1
    BY <1>0
  <2> QED BY <2>1 DEF Coalesced, Parted
<1>2. /\ t \in Seq(Block) /\ i \in 1 .. Len(t)
      /\ \A j \in 1 .. Len(t) - 1 : j # i => Parted(t, j)
  <2>1. CASE bs[i].size - n <= Header + Align
    <3>1. t = bs
      BY <1>a, <2>1, SplitShape
    <3> QED BY <3>1 DEF Coalesced
  <2>2. CASE ~ (bs[i].size - n <= Header + Align)
    <3>1. IsCut(t, bs, i, n)
      BY <1>a, <2>2, SplitShape
    <3>2. t \in Seq(Block) /\ i \in 1 .. Len(t)
      BY <1>0, <3>1 DEF IsCut
    <3> QED BY <1>1, <3>1, <3>2, CutParts
  <2> QED BY <2>1, <2>2
<1>3. IsMarked(r, t, i) /\ ~ r[i].free
  BY <1>b, <1>2, Marked
<1>4. Len(t) \in Nat /\ Len(r) = Len(t) /\ \A j \in 1 .. Len(t) : j # i => r[j] = t[j]
  BY <1>2, <1>3, LenProperties DEF IsMarked
<1>5. ASSUME NEW j \in 1 .. Len(r) - 1 PROVE Parted(r, j)
  <2>1. CASE j = i \/ j + 1 = i
    BY <1>3, <2>1 DEF Parted
  <2>2. CASE j # i /\ j + 1 # i
    <3>1. j \in 1 .. Len(t) /\ j + 1 \in 1 .. Len(t) /\ j \in 1 .. Len(t) - 1
      <4>1. j \in 1 .. Len(t) - 1
        BY <1>4
      <4> QED BY <1>4, <4>1, Between
    <3>2. r[j] = t[j] /\ r[j + 1] = t[j + 1]
      BY <1>4, <2>2, <3>1
    <3> QED BY <1>2, <2>2, <3>1, <3>2 DEF Parted
  <2> QED BY <2>1, <2>2
<1> QED BY <1>a, <1>b, <1>5 DEF Coalesced, AllocBlocks, Marking

\* Coalescing the one free block that may have free neighbours, which afterwards
\* is free and no smaller.
LEMMA CoalesceParts ==
  ASSUME NEW bs \in Seq(Block), NEW i \in 1 .. Len(bs), bs[i].free,
         NEW r, r = Coalesce(bs, i)
  PROVE  /\ (\A j \in 1 .. Len(bs) - 1 : j # i - 1 /\ j # i => Parted(bs, j))
              => Coalesced(r)
         /\ r \in Seq(Block)
         /\ \E k \in 1 .. Len(r) : r[k].free /\ r[k].size >= bs[i].size
<1>a. PICK t : t = IF FreeAt(bs, i + 1) THEN Absorb(bs, i) ELSE bs
  OBVIOUS
<1>0. Len(bs) \in Nat /\ DOMAIN bs = 1 .. Len(bs) /\ bs[i].size \in Nat
  BY LenProperties, BlockFields
<1>1. /\ t \in Seq(Block) /\ i \in 1 .. Len(t) /\ t[i].free /\ t[i].size >= bs[i].size
      /\ (\A j \in 1 .. Len(bs) - 1 : j # i - 1 /\ j # i => Parted(bs, j))
           => \A j \in 1 .. Len(t) - 1 : j # i - 1 => Parted(t, j)
  <2>1. CASE FreeAt(bs, i + 1)
    <3>1. i + 1 \in 1 .. Len(bs) /\ bs[i + 1].free /\ bs[i + 1].size \in Nat
      BY <1>0, <2>1, BlockFields DEF FreeAt
    <3>2. IsJoin(t, bs, i)
      BY <1>a, <2>1, <3>1, AbsorbShape
    <3>3. /\ t \in Seq(Block) /\ Len(t) = Len(bs) - 1
          /\ t[i].free /\ t[i].size = bs[i].size + Header + bs[i + 1].size
      BY <3>2 DEF IsJoin
    <3>4. i \in 1 .. Len(t)
      BY <1>0, <3>1, <3>3
    <3>5. t[i].size >= bs[i].size
      BY <1>0, <3>1, <3>3, HeaderPositive
    <3>6. ASSUME \A j \in 1 .. Len(bs) - 1 : j # i - 1 /\ j # i => Parted(bs, j),
                 NEW j \in 1 .. Len(t) - 1, j # i - 1
          PROVE  Parted(t, j)
      <4>1. j \in 1 .. Len(bs) - 1 /\ j + 1 \in 1 .. Len(bs) - 1 /\ i \in Nat
        BY <1>0, <3>3
      <4>2. CASE j < i
        <5>1. Parted(bs, j)
          <6>1. j # i /\ j # i - 1
            BY <3>6, <4>1, <4>2
          <6> QED BY <3>6, <4>1, <6>1
        <5> QED BY <3>1, <3>2, <4>2, <5>1, JoinParts
      <4>3. CASE j = i
        <5>1. Parted(bs, i + 1) /\ (i + 1) + 1 = i + 2
          BY <3>6, <4>1, <4>3
        <5>2. ~ bs[i + 2].free
          BY <3>1, <5>1 DEF Parted
        <5> QED BY <3>1, <3>2, <4>1, <4>3, <5>2, JoinParts
      <4>4. CASE j > i
        <5>1. ~ (j < i) /\ j # i /\ j + 1 # i - 1 /\ j + 1 # i
          BY <4>1, <4>4
        <5>2. Parted(bs, j + 1)
          BY <3>6, <4>1, <5>1
        <5> QED BY <3>1, <3>2, <5>1, <5>2, JoinParts
      <4> QED BY <4>1, <4>2, <4>3, <4>4
    <3> QED BY <3>3, <3>4, <3>5, <3>6
  <2>2. CASE ~ FreeAt(bs, i + 1)
    <3>1. t = bs
      BY <1>a, <2>2
    <3>2. ASSUME i \in 1 .. Len(bs) - 1 PROVE Parted(bs, i)
      <4>1. i + 1 \in DOMAIN bs
        BY <1>0, <3>2
      <4> QED BY <2>2, <4>1 DEF FreeAt, Parted
    <3> QED BY <1>0, <3>1, <3>2
  <2> QED BY <2>1, <2>2
<1>2. r = IF FreeAt(t, i - 1) THEN Absorb(t, i - 1) ELSE t
  BY <1>a DEF Coalesce
<1>3. Len(t) \in Nat /\ DOMAIN t = 1 .. Len(t) /\ t[i].size \in Nat
  BY <1>1, LenProperties, BlockFields
<1>4. CASE FreeAt(t, i - 1)
  <2>a. PICK p : p = i - 1
    OBVIOUS
  <2>1. /\ p \in 1 .. Len(t) /\ p + 1 = i /\ p + 2 = i + 1 /\ p + 1 \in 1 .. Len(t)
        /\ t[p].free /\ t[p].size \in Nat
    BY <1>1, <1>3, <1>4, <2>a, BlockFields, SMTT(20) DEF FreeAt
  <2>2. IsJoin(r, t, p)
    BY <1>1, <1>2, <1>4, <2>a, <2>1, AbsorbShape
  <2>3. /\ r \in Seq(Block) /\ Len(r) = Len(t) - 1
        /\ r[p].free /\ r[p].size = t[p].size + Header + t[p + 1].size
    BY <2>1, <2>2 DEF IsJoin
  <2>4. p \in 1 .. Len(r)
    BY <1>3, <2>1, <2>3
  <2>5. r[p].size >= bs[i].size
    <3>1. r[p].size = t[p].size + Header + t[i].size
      BY <2>1, <2>3
    <3> QED BY <1>0, <1>1, <1>3, <2>1, <3>1, HeaderPositive, SMTT(20)
  <2>6. ASSUME \A j \in 1 .. Len(t) - 1 : j # i - 1 => Parted(t, j),
               NEW j \in 1 .. Len(r) - 1
        PROVE  Parted(r, j)
    <3>1. j \in 1 .. Len(t) - 1 /\ j + 1 \in 1 .. Len(t) - 1 /\ p \in Nat /\ p = i - 1
          /\ i \in Nat
      BY <1>3, <2>a, <2>1, <2>3, SMTT(20)
    <3>2. CASE j < p
      <4>1. j # i - 1
        BY <3>1, <3>2
      <4>2. Parted(t, j)
        BY <2>6, <3>1, <4>1
      <4> QED BY <1>1, <2>1, <2>2, <3>2, <4>2, JoinParts
    <3>3. CASE j = p
      <4>1. Parted(t, p + 1) /\ (p + 1) + 1 = p + 2
        BY <2>6, <3>1, <3>3
      <4>2. ~ t[p + 2].free
        BY <1>1, <2>1, <4>1 DEF Parted
      <4>3. ~ (j < p)
        BY <3>1, <3>3
      <4> QED BY <1>1, <2>1, <2>2, <3>3, <4>2, <4>3, JoinParts
    <3>4. CASE j > p
      <4>1. ~ (j < p) /\ j # p /\ j + 1 # i - 1
        BY <3>1, <3>4
      <4>2. Parted(t, j + 1)
        BY <2>6, <3>1, <4>1
      <4> QED BY <1>1, <2>1, <2>2, <4>1, <4>2, JoinParts
    <3> QED BY <3>1, <3>2, <3>3, <3>4
  <2> QED BY <1>1, <2>3, <2>4, <2>5, <2>6 DEF Coalesced
<1>5. CASE ~ FreeAt(t, i - 1)
  <2>1. r = t
    BY <1>2, <1>5
  <2>2. ASSUME i - 1 \in 1 .. Len(t) - 1 PROVE Parted(t, i - 1)
    <3>1. i - 1 \in DOMAIN t
      BY <1>3, <2>2
    <3> QED BY <1>5, <3>1 DEF FreeAt, Parted
  <2> QED BY <1>1, <2>1, <2>2 DEF Coalesced
<1> QED BY <1>4, <1>5

LEMMA FreeCoalesced ==
  ASSUME NEW bs \in Seq(Block), NEW i \in 1 .. Len(bs), NEW r, r = FreeBlocks(bs, i)
  PROVE  /\ Coalesced(bs) => Coalesced(r)
         /\ r \in Seq(Block)
         /\ \E k \in 1 .. Len(r) : r[k].free /\ r[k].size >= bs[i].size
<1>a. PICK t : t = Marking(bs, i, TRUE)
  OBVIOUS
<1>1. IsMarked(t, bs, i) /\ t[i].free
  BY <1>a, Marked
<1>2. r = Coalesce(t, i)
  BY <1>a DEF FreeBlocks, Marking
<1>3. /\ t \in Seq(Block) /\ i \in 1 .. Len(t) /\ t[i].size = bs[i].size /\ Len(t) = Len(bs)
      /\ \A j \in 1 .. Len(bs) : j # i => t[j] = bs[j]
  BY <1>1 DEF IsMarked
<1>4. Len(bs) \in Nat
  BY LenProperties
<1>5. ASSUME Coalesced(bs), NEW j \in 1 .. Len(t) - 1, j # i - 1, j # i
      PROVE  Parted(t, j)
  <2>1. j \in 1 .. Len(bs) - 1
    BY <1>3
  <2>2. j \in 1 .. Len(bs) /\ j + 1 \in 1 .. Len(bs) /\ j + 1 # i
    BY <1>4, <1>5, <2>1
  <2>3. t[j] = bs[j] /\ t[j + 1] = bs[j + 1]
    BY <1>3, <1>5, <2>2
  <2> QED BY <1>5, <2>1, <2>3 DEF Parted, Coalesced
<1>6. /\ (\A j \in 1 .. Len(t) - 1 : j # i - 1 /\ j # i => Parted(t, j)) => Coalesced(r)
      /\ r \in Seq(Block)
      /\ \E k \in 1 .. Len(r) : r[k].free /\ r[k].size >= t[i].size
  BY <1>1, <1>2, <1>3, CoalesceParts
<1> QED BY <1>3, <1>5, <1>6

\* Swallowing the free successor of a used block and cutting off what is not
\* needed leaves at most that rest free.
LEMMA IntoNextCoalesced ==
  ASSUME NEW bs \in Seq(Block), NEW i \in 1 .. Len(bs), NEW n \in Nat,
         Coalesced(bs), FreeAt(bs, i + 1), NEW r, r = Split(Absorb(bs, i), i, n)
  PROVE  Coalesced(r) /\ r \in Seq(Block)
<1>a. PICK t : t = Absorb(bs, i)
  OBVIOUS
<1>0. Len(bs) \in Nat /\ DOMAIN bs = 1 .. Len(bs)
  BY LenProperties
<1>1. i + 1 \in 1 .. Len(bs) /\ bs[i + 1].free /\ i \in 1 .. Len(bs) - 1
  BY <1>0 DEF FreeAt
<1>2. ~ bs[i].free
  BY <1>1 DEF Coalesced, Parted
<1>3. IsJoin(t, bs, i)
  BY <1>a, <1>1, AbsorbShape
<1>4. t \in Seq(Block) /\ Len(t) = Len(bs) - 1 /\ ~ t[i].free
  BY <1>2, <1>3 DEF IsJoin
<1>5. i \in 1 .. Len(t) /\ Len(t) \in Nat
  BY <1>0, <1>1, <1>4
<1>6. ASSUME NEW j \in 1 .. Len(t) - 1 PROVE Parted(t, j)
  <2>1. j \in 1 .. Len(bs) - 1 /\ j + 1 \in 1 .. Len(bs) - 1
    BY <1>0, <1>4
  <2>2. Parted(bs, j) /\ Parted(bs, j + 1)
    BY <2>1 DEF Coalesced
  <2> QED BY <1>1, <1>2, <1>3, <2>2, JoinParts
<1>7. i + 1 \in 1 .. Len(t) => ~ t[i + 1].free
  <2> SUFFICES ASSUME i + 1 \in 1 .. Len(t) PROVE ~ t[i + 1].free
    OBVIOUS
  <2>1. i + 1 \in i + 1 .. Len(bs) - 1 /\ i + 1 \in 1 .. Len(bs) - 1
    BY <1>0, <1>4
  <2>2. t[i + 1] = bs[(i + 1) + 1]
    BY <1>3, <2>1 DEF IsJoin
  <2>3. Parted(bs, i + 1)
    BY <2>1 DEF Coalesced
  <2> QED BY <1>1, <2>2, <2>3 DEF Parted
<1>8. Coalesced(t)
  BY <1>6 DEF Coalesced
<1>9. CASE t[i].size - n <= Header + Align
  <2>1. r = t
    BY <1>a, <1>4, <1>5, <1>9, SplitShape
  <2> QED BY <1>4, <1>8, <2>1
<1>10. CASE ~ (t[i].size - n <= Header + Align)
  <2>1. IsCut(r, t, i, n)
    BY <1>a, <1>4, <1>5, <1>10, SplitShape
  <2>2. r \in Seq(Block) /\ r[i].free = t[i].free
    BY <2>1 DEF IsCut
  <2>3. ASSUME NEW j \in 1 .. Len(r) - 1 PROVE Parted(r, j)
    <3>1. CASE j = i
      BY <1>4, <2>2, <3>1 DEF Parted
    <3>2. CASE j # i
      BY <1>4, <1>5, <1>7, <1>8, <2>1, <3>2, CutParts
    <3> QED BY <3>1, <3>2
  <2> QED BY <2>2, <2>3 DEF Coalesced
<1> QED BY <1>9, <1>10

LEMMA FullyCoalescedIs ==
  ASSUME Inv
  PROVE  FullyCoalesced <=> Coalesced(blocks)
<1>1. PICK bs : bs = blocks
  OBVIOUS
<1>2. bs \in Seq(Block)
  BY <1>1 DEF Inv, TypeOK
<1> QED BY <1>1, <1>2, CoalescedNow DEF FullyCoalesced

LEMMA FullyCoalescedThen ==
  ASSUME Inv'
  PROVE  FullyCoalesced' <=> Coalesced(blocks')
<1>1. PICK bs : bs = blocks'
  OBVIOUS
<1>2. bs \in Seq(Block)
  BY <1>1 DEF Inv, TypeOK
<1> QED BY <1>1, <1>2, CoalescedNow DEF FullyCoalesced

LEMMA StaysCoalesced ==
  ASSUME Inv, NEW h \in Handle, NEW n \in Requests, Coalesced(blocks)
  PROVE  /\ Alloc(h, n) => Coalesced(blocks')
         /\ Dealloc(h) => Coalesced(blocks')
         /\ Resize(h, n) =>
              Coalesced(blocks') \/ \E i \in DOMAIN blocks : ResizeInBlock(h, n, i)
<1>1. PICK bs : bs = blocks
  OBVIOUS
<1>2. bs \in Seq(Block) /\ DOMAIN bs = 1 .. Len(bs) /\ Coalesced(bs)
  BY <1>1, LenProperties DEF Inv, TypeOK
<1>3. ASSUME Alloc(h, n) PROVE Coalesced(blocks')
  <2>1. AlignUp(n, Align) \in Nat
    BY <1>3, Request DEF Alloc
  <2>2. PICK i \in DOMAIN blocks : /\ FirstFit(blocks, i, AlignUp(n, Align))
                                   /\ blocks' = AllocBlocks(blocks, i, AlignUp(n, Align))
    BY <1>3 DEF Alloc
  <2>3. i \in 1 .. Len(bs) /\ bs[i].free
    BY <1>1, <1>2, <2>2 DEF FirstFit, Fits, FreeAt
  <2> QED BY <1>1, <1>2, <2>1, <2>2, <2>3, AllocCoalesced
<1>4. ASSUME Dealloc(h) PROVE Coalesced(blocks')
  <2>1. PICK i \in DOMAIN blocks : blocks' = FreeBlocks(blocks, i)
    BY <1>4 DEF Dealloc
  <2> QED BY <1>1, <1>2, <2>1, FreeCoalesced
<1>5. ASSUME Resize(h, n)
      PROVE  Coalesced(blocks') \/ \E i \in DOMAIN blocks : ResizeInBlock(h, n, i)
  <2> PICK size : size = AlignUp(n, Align)
    OBVIOUS
  <2>1. size \in Nat
    BY <1>5, Request DEF Resize
  <2>2. PICK i \in DOMAIN blocks :
          ResizeInBlock(h, n, i) \/ ResizeIntoNext(h, n, i) \/ ResizeMoves(h, n, i)
    BY <1>5 DEF Resize
  <2>3. ASSUME ResizeIntoNext(h, n, i) PROVE Coalesced(blocks')
    <3>1. blocks' = Split(Absorb(bs, i), i, size) /\ FreeAt(bs, i + 1) /\ i \in 1 .. Len(bs)
      BY <1>1, <1>2, <2>3 DEF ResizeIntoNext, CanAbsorb
    <3> QED BY <1>2, <2>1, <3>1, IntoNextCoalesced
  <2>4. ASSUME ResizeMoves(h, n, i) PROVE Coalesced(blocks')
    <3>1. PICK j \in DOMAIN blocks :
            /\ FirstFit(blocks, j, size)
            /\ \E k \in DOMAIN AllocBlocks(blocks, j, size) :
                 blocks' = FreeBlocks(AllocBlocks(blocks, j, size), k)
      BY <2>4 DEF ResizeMoves
    <3>2. j \in 1 .. Len(bs) /\ bs[j].free
      BY <1>1, <1>2, <3>1 DEF FirstFit, Fits, FreeAt
    <3>a. PICK m : m = AllocBlocks(bs, j, size)
      OBVIOUS
    <3>3. Coalesced(m)
      BY <1>2, <2>1, <3>a, <3>2, AllocCoalesced
    <3>4. m \in Seq(Block)
      <4>1. capacity # 0
        BY <1>1, <3>2, NoBlocks DEF Inv
      <4>2. Chain(bs, capacity) /\ Fits(bs, j, size)
        BY <1>1, <3>1, <4>1 DEF Inv, FirstFit
      <4>3. Chain(m, capacity)
        BY <2>1, <3>a, <3>2, <4>2, AllocKeeps
      <4> QED BY <4>3 DEF Chain
    <3>5. PICK k \in DOMAIN m : blocks' = FreeBlocks(m, k)
      BY <1>1, <3>a, <3>1
    <3>6. k \in 1 .. Len(m)
      BY <3>4, LenProperties
    <3> QED BY <3>3, <3>4, <3>5, <3>6, FreeCoalesced
  <2> QED BY <2>2, <2>3, <2>4
<1> QED BY <1>3, <1>4, <1>5

\* From a list without neighbouring free blocks only a resize that cuts a tail
\* off leads to one with them: never an allocation, a release or a move.
THEOREM OnlyTailsFragment == Spec => OnlyShrinkFragments
<1>1. Inv /\ Inv' /\ [Next]_vars =>
        [ FullyCoalesced /\ ~ FullyCoalesced' =>
            \E h \in Handle, n \in Requests, i \in DOMAIN blocks :
               ResizeInBlock(h, n, i) ]_vars
  <2> SUFFICES ASSUME Inv, Inv', Next, Coalesced(blocks), ~ Coalesced(blocks')
               PROVE  \E h \in Handle, n \in Requests, i \in DOMAIN blocks :
                         ResizeInBlock(h, n, i)
    BY FullyCoalescedIs, FullyCoalescedThen
  <2>1. ASSUME NEW c \in CreateSizes, Create(c) PROVE FALSE
    <3>1. Len(blocks') = 1
      BY <2>1 DEF Create
    <3> QED BY <3>1 DEF Coalesced
  <2>2. ASSUME Destroy PROVE FALSE
    <3>1. Len(blocks') = 0
      BY <2>2 DEF Destroy
    <3> QED BY <3>1 DEF Coalesced
  <2>3. ASSUME UNCHANGED blocks PROVE FALSE
    BY <2>3
  <2>4. CASE (\E c \in CreateSizes : CreateOverflows(c))
             \/ (\E k \in DOMAIN CreateSteps : CreateFails(k))
             \/ (\E h \in Handle, n \in Requests : AllocFails(h, n) \/ ResizeFails(h, n))
    BY <2>3, <2>4 DEF CreateOverflows, CreateFails, AllocFails, ResizeFails, vars
  <2>5. ASSUME NEW h \in Handle, NEW n \in Requests, Alloc(h, n) \/ Resize(h, n)
        PROVE  \E i \in DOMAIN blocks : ResizeInBlock(h, n, i)
    BY <2>5, StaysCoalesced
  <2>6. ASSUME NEW h \in Handle, Dealloc(h) PROVE FALSE
    <3>1. PICK i \in DOMAIN blocks : blocks' = FreeBlocks(blocks, i)
      BY <2>6 DEF Dealloc
    <3>a. PICK bs : bs = blocks
      OBVIOUS
    <3>2. bs \in Seq(Block) /\ DOMAIN bs = 1 .. Len(bs) /\ Coalesced(bs)
      BY <3>a, LenProperties DEF Inv, TypeOK
    <3> QED BY <3>a, <3>1, <3>2, FreeCoalesced
  <2> QED BY <2>1, <2>2, <2>4, <2>5, <2>6 DEF Next
<1>2. Spec => []Inv /\ [][Next]_vars
  BY Invariance DEF Spec
<1> QED BY <1>1, <1>2, PTL DEF OnlyShrinkFragments

\* No multiple of Align that has room for n is less than n rounded up, also
\* where the rounding wraps.
LEMMA RoundsNoFurther ==
  ASSUME NEW n \in Nat, NEW m \in Nat, m % Align = 0, n <= m
  PROVE  AlignUp(n, Align) <= m
<1>1. Align \in Nat \ {0} /\ SizeMax + 1 \in Nat \ {0}
  BY AlignAssumption, SizeMaxAssumption
<1>a. PICK x, w : x = n + (Align - 1) /\ w = (n + (Align - 1)) % (SizeMax + 1)
  OBVIOUS
<1>2. x \in Nat /\ w \in Nat /\ w <= x
  <2>1. x \in Nat
    BY <1>a, <1>1
  <2>2. PICK s \in Nat \ {0} : s = SizeMax + 1
    BY <1>1
  <2>3. PICK d : d = x \div s
    OBVIOUS
  <2>4. w = x % s
    BY <1>a, <2>2
  <2>5. x = s * d + w /\ d \in Int /\ w \in 0 .. s - 1
    <3>1. x = s * (x \div s) + (x % s) /\ x \div s \in Int /\ x % s \in 0 .. s - 1
      BY <2>1, Division
    <3> QED BY <2>3, <2>4, <3>1
  <2>6. d \in Nat
    <3>1. ASSUME d < 0 PROVE FALSE
      <4>1. 0 - (d + 1) \in Nat /\ s * (0 - (d + 1)) \in Nat
            /\ s * d = 0 - s * (0 - (d + 1)) - s
        BY <2>2, <2>5, <3>1
      <4> QED BY <2>1, <2>2, <2>5, <4>1
    <3> QED BY <2>5, <3>1
  <2>7. s * d \in Nat
    BY <2>2, <2>6
  <2> QED BY <2>1, <2>5, <2>7
<1>3. AlignUp(n, Align) = w - (w % Align)
  BY <1>a DEF AlignUp
<1>b. PICK q, p : q = w \div Align /\ p = m \div Align
  OBVIOUS
<1>4. w = Align * q + (w % Align) /\ q \in Int /\ w % Align \in 0 .. Align - 1
  BY <1>b, <1>1, <1>2, Division
<1>5. m = Align * p /\ p \in Int
  BY <1>b, <1>1, Division
<1>c. PICK a, z : a \in Nat \ {0} /\ a = Align /\ z = w % Align
  BY <1>1
<1>6. q <= p
  <2>1. ASSUME q >= p + 1 PROVE FALSE
    <3>1. q - (p + 1) \in Nat /\ a * (q - (p + 1)) \in Nat
          /\ a * q = a * (q - (p + 1)) + a * p + a
      BY <1>4, <1>5, <1>c, <2>1
    <3>2. a * q >= m + a
      BY <1>5, <1>c, <3>1
    <3>3. a * q <= w /\ w <= n + (a - 1) /\ a * q \in Int
      <4>1. x = n + (a - 1)
        BY <1>a, <1>c
      <4>2. w = a * q + z /\ z \in 0 .. a - 1 /\ a * q \in Int
        BY <1>4, <1>c
      <4> QED BY <1>2, <4>1, <4>2
    <3>4. PICK y \in Int : y = a * q
      BY <3>3
    <3>5. y >= m + a /\ y <= n + (a - 1) /\ n <= m
      BY <1>2, <3>2, <3>3, <3>4, <1>c
    <3> QED BY <1>c, <3>5
  <2> QED BY <1>4, <1>5, <2>1
<1>7. a * q <= a * p
  <2>1. p - q \in Nat /\ a * (p - q) \in Nat /\ a * p = a * q + a * (p - q) /\ a * q \in Int
    BY <1>4, <1>5, <1>6, <1>c
  <2> QED BY <2>1
<1>8. AlignUp(n, Align) = a * q
  BY <1>2, <1>3, <1>4, <1>c
<1> QED BY <1>5, <1>7, <1>8, <1>c

\* What an owner gives back can be had again at once, whatever the list: the
\* freed block, or what it was joined to, has room for the same request.
THEOREM DeallocServesAgain == Spec => DeallocGivesBack
<1>1. Inv /\ Inv' /\ Undamaged /\ [Next]_vars =>
        [ \A h \in Handle : Dealloc(h) =>
            \E i \in DOMAIN blocks' :
              Fits(blocks', i, AlignUp(live[h].size, Align)) ]_vars
  <2> SUFFICES ASSUME Inv, Inv', Undamaged, NEW h \in Handle, Dealloc(h)
               PROVE  \E i \in DOMAIN blocks' :
                        Fits(blocks', i, AlignUp(live[h].size, Align))
    OBVIOUS
  <2>1. PICK i \in DOMAIN blocks : /\ HoldsPayload(blocks, i, live[h].ptr)
                                   /\ blocks' = FreeBlocks(blocks, i)
    BY DEF Dealloc
  <2>2. live[h] # NULL
    BY DEF Dealloc
  <2>3. i \in 1 .. Len(blocks) /\ live[h].size <= blocks[i].size
    BY <2>1, <2>2, OwnBlock
  <2>a. PICK bs, r, z : bs = blocks /\ r = blocks' /\ z = live[h].size
    OBVIOUS
  <2>4. bs \in Seq(Block) /\ z \in Nat
    BY <2>a DEF Inv, TypeOK
  <2>5. bs[i].size \in Nat /\ bs[i].size % Align = 0 /\ z <= bs[i].size
    BY <2>a, <2>3, <2>4, BlockFields DEF Undamaged, Even
  <2>6. AlignUp(z, Align) <= bs[i].size
    BY <2>4, <2>5, RoundsNoFurther
  <2>7. r \in Seq(Block) /\ \E k \in 1 .. Len(r) : r[k].free /\ r[k].size >= bs[i].size
    BY <2>a, <2>1, <2>3, <2>4, FreeCoalesced
  <2>8. PICK k \in 1 .. Len(r) : r[k].free /\ r[k].size >= bs[i].size
    BY <2>7
  <2>9. r[k].size \in Nat /\ k \in DOMAIN r /\ AlignUp(z, Align) \in Int
    <3>1. AlignUp(z, Align) \in Int
      BY <2>4, AlignAssumption, SizeMaxAssumption DEF AlignUp
    <3> QED BY <2>7, <3>1, BlockFields, LenProperties
  <2>10. r[k].size >= AlignUp(z, Align)
    BY <2>5, <2>6, <2>8, <2>9
  <2> QED BY <2>a, <2>8, <2>9, <2>10 DEF Fits, FreeAt
<1>2. Spec => []Inv /\ []Undamaged /\ [][Next]_vars
  BY Invariance, UndamagedInvariance DEF Spec
<1> QED BY <1>1, <1>2, PTL DEF DeallocGivesBack

=============================================================================
