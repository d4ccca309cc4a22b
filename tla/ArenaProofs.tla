---------------------------- MODULE ArenaProofs -----------------------------
(***************************************************************************)
(* The arena's invariants for every width of size_t, alignment, header and *)
(* request.  Apart keeps headers and payloads of live allocations from one *)
(* another, and a resize in place relies on the header it reads, so Apart  *)
(* and HeadersIntact hold only together; the arithmetic on a size_t comes  *)
(* down to a few facts on %.                                               *)
(*                                                                         *)
(* The last part is about the test allocator, which is checked with the    *)
(* arena in one run: its counts, for any owners, blocks and failures.      *)
(***************************************************************************)
EXTENDS MCAllocators, FiniteSetTheorems, TLAPS

(***************************************************************************)
(* Division and rounding.                                                  *)
(***************************************************************************)
LEMMA SmallModulo ==
  ASSUME NEW m \in Nat, NEW x \in 0 .. m
  PROVE  x % (m + 1) = x
  OBVIOUS

LEMMA DivMod ==
  ASSUME NEW n \in Nat \ {0}, NEW a \in Int
  PROVE  a = n * (a \div n) + (a % n) /\ a \div n \in Int /\ a % n \in 0 .. n - 1
  OBVIOUS

LEMMA Remainder ==
  ASSUME NEW n \in Nat \ {0}, NEW q \in Int, NEW r \in 0 .. n - 1
  PROVE  (n * q + r) % n = r
  OBVIOUS

LEMMA SumOfMultiples ==
  ASSUME NEW n \in Nat \ {0}, NEW a \in Nat, NEW b \in Nat, a % n = 0, b % n = 0
  PROVE  (a + b) % n = 0
<1> DEFINE p == a \div n
           q == b \div n
<1>1. a = n * p /\ p \in Int /\ b = n * q /\ q \in Int
  BY DivMod
<1> HIDE DEF p, q
<1>2. a + b = n * (p + q) + 0 /\ p + q \in Int /\ 0 \in 0 .. n - 1
  BY <1>1
<1> QED BY <1>2, Remainder

\* What k4c_align_up returns for a size that can be rounded up: the multiple
\* of Align in the Align numbers from n on.
LEMMA RoundsUp ==
  ASSUME NEW n \in SizeT, ~ AlignUpOverflows(n, Align)
  PROVE  /\ AlignUp(n, Align) \in SizeT
         /\ AlignUp(n, Align) % Align = 0
         /\ n <= AlignUp(n, Align) /\ AlignUp(n, Align) <= n + Align - 1
<1> DEFINE x == n + (Align - 1)
<1>1. x \in 0 .. SizeMax /\ n \in Nat
  BY AlignAssumption, SizeMaxAssumption DEF AlignUpOverflows, AddOverflows, SizeT
<1>2. x % (SizeMax + 1) = x
  BY <1>1, SmallModulo, SizeMaxAssumption
<1>3. AlignUp(n, Align) = x - (x % Align)
  BY <1>2 DEF AlignUp
<1>4. x = Align * (x \div Align) + (x % Align) /\ x \div Align \in Int
      /\ x % Align \in 0 .. Align - 1
  BY <1>1, AlignAssumption, DivMod
<1>5. AlignUp(n, Align) = Align * (x \div Align) + 0 /\ 0 \in 0 .. Align - 1
  BY <1>1, <1>3, <1>4, AlignAssumption
<1>6. AlignUp(n, Align) % Align = 0
  BY <1>4, <1>5, AlignAssumption, Remainder
<1>7. n <= x - (x % Align) /\ x - (x % Align) <= n + Align - 1 /\ x - (x % Align) \in Nat
  BY <1>1, <1>4, AlignAssumption
<1> QED BY <1>1, <1>3, <1>4, <1>6, <1>7, SizeMaxAssumption DEF SizeT

LEMMA HeaderShape == Header \in Nat /\ Header > 0 /\ Header <= SizeMax /\ Header % Align = 0
<1>1. HeaderStruct \in SizeT /\ ~ AlignUpOverflows(HeaderStruct, Align)
  BY HeaderAssumption, AlignAssumption, SizeMaxAssumption
     DEF AlignUpOverflows, AddOverflows, SizeT
<1>2. /\ Header \in SizeT /\ Header % Align = 0 /\ HeaderStruct <= Header
  BY <1>1, RoundsUp DEF Header
<1> QED BY <1>2, HeaderAssumption, SizeMaxAssumption DEF SizeT

LEMMA MinusSmall ==
  ASSUME NEW a \in SizeT, NEW b \in 0 .. a
  PROVE  Minus(a, b) = a - b /\ Minus(a, b) \in SizeT
<1>1. a - b \in 0 .. SizeMax
  BY SizeMaxAssumption DEF SizeT
<1> QED BY <1>1, SmallModulo, SizeMaxAssumption DEF Minus, SizeT

(***************************************************************************)
(* The inductive invariant.                                                *)
(***************************************************************************)
Allocation == [ptr : SizeT, size : SizeT]

\* The rounded size an owner's pointer stands for holds what it asked for.
Covered == \A h \in Handle : live[h] # NULL => live[h].size <= AlignUp(live[h].size, Align)

Inv == TypeOK /\ Apart /\ HeadersIntact /\ Covered /\ HostBalanced

Rounded(a) == AlignUp(a.size, Align)

\* What Apart says of an allocation and of two.
Below(a, top) == a.ptr >= Header /\ a.ptr % Align = 0 /\ a.ptr + Rounded(a) <= top
Away(a, b) == a.ptr + Rounded(a) <= b.ptr - Header \/ b.ptr + Rounded(b) <= a.ptr - Header

LEMMA RoundedIsNat ==
  ASSUME NEW a \in Allocation
  PROVE  Rounded(a) \in Nat /\ a.ptr \in Nat /\ a.size \in Nat
<1> DEFINE x == (a.size + (Align - 1)) % (SizeMax + 1)
<1>1. a.size \in Nat /\ a.ptr \in Nat
  BY SizeMaxAssumption DEF Allocation, SizeT
<1>2. x \in Nat
  <2>1. SizeMax + 1 \in Nat \ {0} /\ a.size + (Align - 1) \in Int
    BY <1>1, AlignAssumption, SizeMaxAssumption
  <2> QED BY <2>1, DivMod
<1>3. Rounded(a) = x - (x % Align)
  BY DEF Rounded, AlignUp
<1> HIDE DEF x
<1>4. x = Align * (x \div Align) + (x % Align) /\ x % Align \in 0 .. Align - 1
      /\ x \div Align \in Int
  BY <1>2, AlignAssumption, DivMod
<1>5. x - (x % Align) \in Nat
  <2> DEFINE y == Align * (x \div Align)
             r == x % Align
  <2>1. y \in Nat
    BY <1>2, AlignAssumption
  <2>2. x = y + r /\ r \in Nat
    BY <1>4, AlignAssumption
  <2> HIDE DEF y, r
  <2>3. x - r \in Nat
    BY <2>1, <2>2
  <2> QED BY <2>3 DEF r
<1> QED BY <1>1, <1>3, <1>5

\* Serves leaves room for the header and the payload behind the offset.
LEMMA ServedFits ==
  ASSUME TypeOK, NEW n \in Requests, Serves(n)
  PROVE  /\ n \in SizeT /\ n > 0
         /\ AlignUp(n, Align) \in Nat /\ AlignUp(n, Align) % Align = 0
         /\ n <= AlignUp(n, Align)
         /\ offset \in Nat /\ offset + Header + AlignUp(n, Align) <= capacity
<1> DEFINE size == AlignUp(n, Align)
<1>1. n \in SizeT /\ n > 0 /\ ~ AlignUpOverflows(n, Align)
  BY RequestsAssumption DEF Serves, SizeT
<1>2. size \in SizeT /\ size % Align = 0 /\ n <= size
  BY <1>1, RoundsUp
<1>3. /\ size <= capacity /\ Header <= Minus(capacity, size)
      /\ offset <= Minus(Minus(capacity, Header), size)
  BY DEF Serves
<1> HIDE DEF size
<1>4. capacity \in SizeT /\ capacity \in Nat /\ offset \in Nat /\ size \in 0 .. capacity
  BY <1>2, <1>3, SizeMaxAssumption DEF TypeOK, SizeT
<1>5. Header <= capacity - size
  BY <1>3, <1>4, MinusSmall
<1>6. Header \in 0 .. capacity /\ Header \in Nat /\ size \in Nat
  BY <1>4, <1>5, HeaderShape
<1>7. Minus(capacity, Header) = capacity - Header /\ Minus(capacity, Header) \in SizeT
  BY <1>4, <1>6, MinusSmall
<1>8. size \in 0 .. Minus(capacity, Header)
  BY <1>4, <1>5, <1>6, <1>7
<1>9. offset <= (capacity - Header) - size
  BY <1>3, <1>7, <1>8, MinusSmall
<1>10. offset + Header + size <= capacity
  BY <1>4, <1>6, <1>9
<1> QED BY <1>1, <1>2, <1>4, <1>6, <1>10 DEF size

(***************************************************************************)
(* An operation gives at most one owner another allocation, and never      *)
(* lowers the offset while others are live.                                *)
(***************************************************************************)
LEMMA ApartAs ==
  Apart <=> \A h \in Handle : live[h] # NULL =>
              /\ Below(live[h], offset)
              /\ \A g \in Handle \ {h} : live[g] # NULL => Away(live[h], live[g])
BY DEF Apart, Below, Away, Rounded

LEMMA ApartAfter ==
  (\A h \in Handle : live'[h] # NULL =>
     /\ Below(live'[h], offset')
     /\ \A g \in Handle \ {h} : live'[g] # NULL => Away(live'[h], live'[g])) => Apart'
BY DEF Apart, Below, Away, Rounded

LEMMA Rebound ==
  ASSUME live \in [Handle -> Allocation], Apart, offset \in Nat,
         NEW h \in Handle, NEW v \in Allocation, live' = [live EXCEPT ![h] = v],
         offset' \in Nat, offset <= offset',
         v # NULL => Below(v, offset'),
         v # NULL => \A g \in Handle \ {h} : live[g] # NULL => Away(v, live[g])
  PROVE  live' \in [Handle -> Allocation] /\ Apart'
<1>1. live' \in [Handle -> Allocation]
  OBVIOUS
<1>2. \A g \in Handle : live'[g] = IF g = h THEN v ELSE live[g]
  OBVIOUS
<1>3. ASSUME NEW g \in Handle, live'[g] # NULL
      PROVE  Below(live'[g], offset')
  <2>1. CASE g = h
    BY <1>2, <1>3, <2>1
  <2>2. CASE g # h
    <3>1. live[g] \in Allocation /\ Below(live[g], offset) /\ live'[g] = live[g]
      BY <1>2, <1>3, <2>2, ApartAs
    <3>2. Rounded(live[g]) \in Nat /\ live[g].ptr \in Nat
      BY <3>1, RoundedIsNat
    <3> QED BY <3>1, <3>2 DEF Below
  <2> QED BY <2>1, <2>2
<1>4. ASSUME NEW g \in Handle, live'[g] # NULL,
             NEW f \in Handle \ {g}, live'[f] # NULL
      PROVE  Away(live'[g], live'[f])
  <2>1. CASE g = h
    BY <1>2, <1>4, <2>1
  <2>2. CASE f = h
    <3>1. live'[f] = v /\ live'[g] = live[g]
      BY <1>2, <1>4, <2>2
    <3>2. Away(v, live[g])
      BY <1>4, <2>2, <3>1
    <3> QED BY <3>1, <3>2 DEF Away
  <2>3. CASE g # h /\ f # h
    BY <1>2, <1>4, <2>3, ApartAs
  <2> QED BY <2>1, <2>2, <2>3
<1> QED BY <1>1, <1>3, <1>4, ApartAfter

\* A range served at the offset lies above all others.
LEMMA NewRange ==
  ASSUME Inv, NEW n \in Requests, Serves(n), NEW v,
         v = [ptr |-> offset + Header, size |-> n]
  PROVE  /\ v \in Allocation /\ v # NULL /\ v.ptr = offset + Header /\ v.size = n
         /\ Rounded(v) = AlignUp(n, Align)
         /\ Below(v, offset + Header + AlignUp(n, Align))
         /\ \A g \in Handle : live[g] # NULL => Away(v, live[g])
<1>1. v.ptr = offset + Header /\ v.size = n /\ Rounded(v) = AlignUp(n, Align)
  BY DEF Rounded
<1>2. TypeOK
  BY DEF Inv
<1>3. /\ n \in SizeT /\ AlignUp(n, Align) \in Nat /\ offset \in Nat
      /\ offset + Header + AlignUp(n, Align) <= capacity
  BY <1>2, ServedFits
<1>4. capacity \in Nat /\ capacity <= SizeMax /\ offset % Align = 0
  BY <1>2, SizeMaxAssumption DEF TypeOK, SizeT
<1>5. v \in Allocation
  <2>1. offset + Header \in SizeT
    BY <1>3, <1>4, HeaderShape, SizeMaxAssumption DEF SizeT
  <2> QED BY <1>3, <2>1 DEF Allocation
<1>6. v # NULL
  BY <1>1, <1>3, HeaderShape DEF NULL
<1>7. Below(v, offset + Header + AlignUp(n, Align))
  <2>1. (offset + Header) % Align = 0
    BY <1>3, <1>4, HeaderShape, AlignAssumption, SumOfMultiples
  <2> QED BY <1>1, <1>3, <2>1, HeaderShape DEF Below
<1>8. ASSUME NEW g \in Handle, live[g] # NULL
      PROVE  Away(v, live[g])
  <2>1. live[g].ptr + Rounded(live[g]) <= offset
    BY <1>8, ApartAs DEF Inv, Below
  <2>2. v.ptr - Header = offset
    BY <1>1, <1>3, HeaderShape
  <2> QED BY <2>1, <2>2 DEF Away
<1> QED BY <1>1, <1>5, <1>6, <1>7, <1>8

(***************************************************************************)
(* Headers.  A cell below the offset that an operation leaves alone keeps  *)
(* the header that stands there.                                           *)
(***************************************************************************)
Intact(m, a) == m[a.ptr - Header] = HeaderWith(Rounded(a))

LEMMA HeadersAs ==
  /\ HeadersIntact <=> \A h \in Handle : live[h] # NULL => Intact(mem, live[h])
  /\ (\A h \in Handle : live'[h] # NULL => Intact(mem', live'[h])) => HeadersIntact'
BY DEF HeadersIntact, Intact, Rounded

LEMMA CoveredAs ==
  /\ Covered <=> \A h \in Handle : live[h] # NULL => live[h].size <= Rounded(live[h])
  /\ (\A h \in Handle : live'[h] # NULL => live'[h].size <= Rounded(live'[h])) => Covered'
BY DEF Covered, Rounded

LEMMA HeaderBelow ==
  ASSUME Inv, NEW h \in Handle, live[h] # NULL
  PROVE  /\ live[h].ptr - Header \in 0 .. offset - 1
         /\ live[h].ptr - Header \in DOMAIN mem
         /\ Intact(mem, live[h])
         /\ live[h] \in Allocation /\ live[h].ptr \in Nat /\ live[h].size \in Nat
         /\ Rounded(live[h]) \in Nat
<1>1. live[h] \in Allocation
  BY DEF Inv, TypeOK, Allocation
<1>2. live[h].ptr \in Nat /\ Rounded(live[h]) \in Nat /\ live[h].size \in Nat
  BY <1>1, RoundedIsNat
<1>3. Below(live[h], offset)
  BY ApartAs DEF Inv
<1>4. offset \in 0 .. capacity /\ DOMAIN mem = 0 .. capacity - 1 /\ capacity \in Nat
  BY SizeMaxAssumption DEF Inv, TypeOK, SizeT
<1>5. live[h].ptr - Header \in 0 .. offset - 1
  BY <1>2, <1>3, <1>4, HeaderShape DEF Below
<1> QED BY <1>1, <1>2, <1>4, <1>5, HeadersAs DEF Inv

LEMMA HeaderKept ==
  ASSUME Inv, NEW h \in Handle, live[h] # NULL,
         \A i \in 0 .. offset - 1 : mem'[i] = mem[i]
  PROVE  Intact(mem', live[h])
BY HeaderBelow DEF Intact

(***************************************************************************)
(* What is served at the offset, by alloc or by a resize that moves.       *)
(***************************************************************************)
LEMMA PlacedKeepsInv ==
  ASSUME Inv, NEW h \in Handle, NEW n \in Requests, Serves(n), capacity # 0,
         DOMAIN mem' = DOMAIN mem,
         \A i \in 0 .. offset - 1 : mem'[i] = mem[i],
         mem'[offset] = HeaderFor(n),
         offset' = offset + Header + AlignUp(n, Align),
         live' = [live EXCEPT ![h] = [ptr |-> offset + Header, size |-> n]],
         UNCHANGED <<host, capacity>>
  PROVE  Inv'
<1> DEFINE v == [ptr |-> offset + Header, size |-> n]
<1>1. /\ v \in Allocation /\ v # NULL /\ v.ptr = offset + Header /\ v.size = n
      /\ Rounded(v) = AlignUp(n, Align)
      /\ Below(v, offset + Header + AlignUp(n, Align))
      /\ \A g \in Handle : live[g] # NULL => Away(v, live[g])
  BY NewRange
<1>2. live' = [live EXCEPT ![h] = v]
  OBVIOUS
<1> HIDE DEF v
<1>3. TypeOK
  BY DEF Inv
<1>4. /\ n \in SizeT /\ AlignUp(n, Align) \in Nat /\ AlignUp(n, Align) % Align = 0
      /\ n <= AlignUp(n, Align)
      /\ offset \in Nat /\ offset + Header + AlignUp(n, Align) <= capacity
  BY <1>3, ServedFits
<1>5. /\ capacity \in Nat /\ capacity % Align = 0 /\ offset % Align = 0
      /\ live \in [Handle -> Allocation]
  BY <1>3, SizeMaxAssumption DEF TypeOK, SizeT, Allocation
<1>6. offset' \in Nat /\ offset <= offset' /\ offset' <= capacity
  BY <1>4, HeaderShape
<1>7. offset' % Align = 0
  <2>1. (offset + Header) % Align = 0 /\ offset + Header \in Nat
    BY <1>4, <1>5, HeaderShape, AlignAssumption, SumOfMultiples, SMTT(20)
  <2> QED BY <1>4, <2>1, AlignAssumption, SumOfMultiples
<1>8. live' \in [Handle -> Allocation] /\ Apart'
  BY <1>1, <1>2, <1>4, <1>5, <1>6, Rebound DEF Inv
<1>9. TypeOK'
  BY <1>3, <1>5, <1>6, <1>7, <1>8 DEF TypeOK, Allocation
<1>10. \A g \in Handle : live'[g] = IF g = h THEN v ELSE live[g]
  BY <1>2, <1>5
<1>11. HeadersIntact'
  <2>1. ASSUME NEW g \in Handle, live'[g] # NULL
        PROVE  Intact(mem', live'[g])
    <3>1. CASE g = h
      <4>1. v.ptr - Header = offset
        BY <1>1, <1>4, HeaderShape
      <4> QED BY <1>1, <1>10, <3>1, <4>1 DEF Intact, HeaderFor
    <3>2. CASE g # h
      <4>1. live'[g] = live[g] /\ live[g] # NULL
        BY <1>10, <2>1, <3>2
      <4> QED BY <4>1, HeaderKept
    <3> QED BY <3>1, <3>2
  <2> QED BY <2>1, HeadersAs
<1>12. Covered'
  <2>1. ASSUME NEW g \in Handle, live'[g] # NULL
        PROVE  live'[g].size <= Rounded(live'[g])
    <3>1. CASE g = h
      BY <1>1, <1>4, <1>10, <3>1
    <3>2. CASE g # h
      BY <1>10, <2>1, <3>2, CoveredAs DEF Inv
    <3> QED BY <3>1, <3>2
  <2> QED BY <2>1, CoveredAs
<1> QED BY <1>8, <1>9, <1>11, <1>12 DEF Inv, HostBalanced

LEMMA AllocKeepsInv ==
  ASSUME Inv, NEW h \in Handle, NEW n \in Requests, Alloc(h, n)
  PROVE  Inv'
<1>1. offset \in DOMAIN mem /\ 0 .. offset - 1 \subseteq DOMAIN mem /\ offset \in Nat
  <2>1. offset \in Nat /\ offset + Header + AlignUp(n, Align) <= capacity
        /\ AlignUp(n, Align) \in Nat
    BY ServedFits DEF Inv, Alloc
  <2>2. DOMAIN mem = 0 .. capacity - 1 /\ capacity \in Nat
    BY SizeMaxAssumption DEF Inv, TypeOK, SizeT
  <2> QED BY <2>1, <2>2, HeaderShape
<1>2. PICK written : mem' = Placed(n, written)
  BY DEF Alloc
<1>3. DOMAIN mem' = DOMAIN mem
  BY <1>2 DEF Placed
<1>4. mem'[offset] = HeaderFor(n)
  <2>1. offset \notin offset + 1 .. offset + Header - 1 /\ ~ (offset >= offset + Header)
    BY <1>1, HeaderShape
  <2> QED BY <1>1, <1>2, <2>1 DEF Placed
<1>5. ASSUME NEW i \in 0 .. offset - 1
      PROVE  mem'[i] = mem[i]
  <2>1. /\ i \in DOMAIN mem /\ i # offset /\ i \notin offset + 1 .. offset + Header - 1
        /\ ~ (i >= offset + Header)
    BY <1>1, <1>5, HeaderShape
  <2> QED BY <1>2, <2>1 DEF Placed
<1> QED BY <1>3, <1>4, <1>5, PlacedKeepsInv DEF Alloc

LEMMA ResizeMovesKeepsInv ==
  ASSUME Inv, NEW h \in Handle, NEW n \in Requests, ResizeMoves(h, n)
  PROVE  Inv'
<1>1. offset \in DOMAIN mem /\ 0 .. offset - 1 \subseteq DOMAIN mem /\ offset \in Nat
  <2>1. offset \in Nat /\ offset + Header + AlignUp(n, Align) <= capacity
        /\ AlignUp(n, Align) \in Nat
    BY ServedFits DEF Inv, ResizeMoves
  <2>2. DOMAIN mem = 0 .. capacity - 1 /\ capacity \in Nat
    BY SizeMaxAssumption DEF Inv, TypeOK, SizeT
  <2> QED BY <2>1, <2>2, HeaderShape
<1>2. PICK written : mem' = Placed(n, written)
  BY DEF ResizeMoves
<1>3. DOMAIN mem' = DOMAIN mem
  BY <1>2 DEF Placed
<1>4. mem'[offset] = HeaderFor(n)
  <2>1. offset \notin offset + 1 .. offset + Header - 1 /\ ~ (offset >= offset + Header)
    BY <1>1, HeaderShape
  <2> QED BY <1>1, <1>2, <2>1 DEF Placed
<1>5. ASSUME NEW i \in 0 .. offset - 1
      PROVE  mem'[i] = mem[i]
  <2>1. /\ i \in DOMAIN mem /\ i # offset /\ i \notin offset + 1 .. offset + Header - 1
        /\ ~ (i >= offset + Header)
    BY <1>1, <1>5, HeaderShape
  <2> QED BY <1>2, <2>1 DEF Placed
<1> QED BY <1>3, <1>4, <1>5, PlacedKeepsInv DEF ResizeMoves, MayResize

(***************************************************************************)
(* A resize in place.                                                      *)
(***************************************************************************)
LEMMA ResizeInPlaceKeepsInv ==
  ASSUME Inv, NEW h \in Handle, NEW n \in Requests, ResizeInPlace(h, n)
  PROVE  Inv'
<1> DEFINE v == [live[h] EXCEPT !.size = n]
<1>1. live[h] # NULL
  BY DEF ResizeInPlace, MayResize
<1>2. /\ live[h].ptr - Header \in 0 .. offset - 1 /\ live[h].ptr - Header \in DOMAIN mem
      /\ Intact(mem, live[h]) /\ live[h] \in Allocation
      /\ live[h].ptr \in Nat /\ live[h].size \in Nat /\ Rounded(live[h]) \in Nat
  BY <1>1, HeaderBelow
\* What the header says is what the owner's size rounds up to.
<1>3. AlignUp(n, Align) = Rounded(live[h])
  BY <1>2 DEF ResizeInPlace, HeaderSize, Intact, HeaderWith
<1>4. n \in SizeT /\ n \in Nat /\ n > 0 /\ n <= Rounded(live[h])
  <2>1. n \in SizeT /\ n \in Nat /\ n > 0 /\ ~ AlignUpOverflows(n, Align)
    BY RequestsAssumption, SizeMaxAssumption DEF ResizeInPlace, MayResize, SizeT
  <2> QED BY <1>3, <2>1, RoundsUp
<1>5. v \in Allocation /\ v.ptr = live[h].ptr /\ v.size = n
  BY <1>2, <1>4 DEF Allocation
<1>6. Rounded(v) = Rounded(live[h]) /\ v # NULL
  BY <1>3, <1>4, <1>5 DEF Rounded, NULL
<1>7. live \in [Handle -> Allocation] /\ live' = [live EXCEPT ![h] = v]
  BY DEF Inv, TypeOK, Allocation, ResizeInPlace
<1> HIDE DEF v
<1>8. Below(v, offset')
  BY <1>1, <1>5, <1>6, ApartAs DEF Inv, Below, ResizeInPlace
<1>9. \A g \in Handle \ {h} : live[g] # NULL => Away(v, live[g])
  BY <1>1, <1>5, <1>6, ApartAs DEF Inv, Away
<1>10. offset \in Nat /\ offset' = offset
  BY SizeMaxAssumption DEF Inv, TypeOK, SizeT, ResizeInPlace
<1>11. live' \in [Handle -> Allocation] /\ Apart'
  <2>1. offset \in Nat /\ offset' \in Nat /\ offset <= offset' /\ Apart
    BY <1>10 DEF Inv
  <2> QED BY ONLY <1>5, <1>7, <1>8, <1>9, <2>1, Rebound
<1>12. \A g \in Handle : live'[g] = IF g = h THEN v ELSE live[g]
  BY <1>7
<1>13. /\ DOMAIN mem' = DOMAIN mem
       /\ \A i \in DOMAIN mem :
            i \notin live[h].ptr + live[h].size .. live[h].ptr + n - 1 => mem'[i] = mem[i]
  BY DEF ResizeInPlace
<1>14. HeadersIntact'
  <2>1. ASSUME NEW g \in Handle, live'[g] # NULL
        PROVE  Intact(mem', live'[g])
    <3>1. live[g] # NULL /\ live'[g].ptr = live[g].ptr /\ Rounded(live'[g]) = Rounded(live[g])
      BY <1>1, <1>5, <1>6, <1>12, <2>1
    <3>2. /\ live[g].ptr - Header \in 0 .. offset - 1 /\ live[g].ptr - Header \in DOMAIN mem
          /\ Intact(mem, live[g]) /\ live[g].ptr \in Nat /\ Rounded(live[g]) \in Nat
      BY <3>1, HeaderBelow
    <3>3. live[g].ptr - Header \notin live[h].ptr + live[h].size .. live[h].ptr + n - 1
      <4>1. CASE g = h
        BY <1>2, <3>2, <4>1, HeaderShape
      <4>2. CASE g # h
        <5>1. Away(live[h], live[g])
          BY <1>1, <3>1, <4>2, ApartAs DEF Inv
        <5> QED BY <1>2, <1>4, <3>2, <5>1, HeaderShape DEF Away
      <4> QED BY <4>1, <4>2
    <3>4. mem'[live[g].ptr - Header] = mem[live[g].ptr - Header]
      BY <1>13, <3>2, <3>3
    <3> QED BY <3>1, <3>2, <3>4 DEF Intact
  <2> QED BY <2>1, HeadersAs
<1>15. Covered'
  <2>1. ASSUME NEW g \in Handle, live'[g] # NULL
        PROVE  live'[g].size <= Rounded(live'[g])
    <3>1. CASE g = h
      BY <1>4, <1>5, <1>6, <1>12, <3>1
    <3>2. CASE g # h
      BY <1>12, <2>1, <3>2, CoveredAs DEF Inv
    <3> QED BY <3>1, <3>2
  <2> QED BY <2>1, CoveredAs
<1>16. TypeOK'
  BY <1>10, <1>11, <1>13 DEF Inv, TypeOK, Allocation, ResizeInPlace
<1> QED BY <1>11, <1>14, <1>15, <1>16 DEF Inv, HostBalanced, ResizeInPlace

(***************************************************************************)
(* Every pointer ends: creation, destruction and reset.                    *)
(***************************************************************************)
LEMMA NoneLive ==
  ASSUME live' = [h \in Handle |-> NULL]
  PROVE  /\ live' \in [Handle -> Allocation]
         /\ Apart' /\ HeadersIntact' /\ Covered'
<1>1. NULL \in Allocation
  BY SizeMaxAssumption DEF NULL, Allocation, SizeT
<1>2. \A h \in Handle : live'[h] = NULL
  OBVIOUS
<1> QED BY <1>1, <1>2, ApartAfter, HeadersAs, CoveredAs

LEMMA ZeroModulo == 0 % Align = 0
BY AlignAssumption

LEMMA InitInv == Init => Inv
<1> SUFFICES ASSUME Init
             PROVE  Inv
  OBVIOUS
<1>1. \A h \in Handle : live[h] = NULL
  BY DEF Init
<1>2. NULL \in Allocation /\ live \in [Handle -> Allocation]
  BY SizeMaxAssumption DEF NULL, Allocation, SizeT, Init
<1>3. DOMAIN mem = 0 .. capacity - 1
  BY DEF Init
<1>4. TypeOK
  BY <1>2, <1>3, ZeroModulo, SizeMaxAssumption DEF TypeOK, Init, SizeT, Allocation
<1> QED BY <1>1, <1>4 DEF Inv, Apart, HeadersIntact, Covered, HostBalanced, Init

LEMMA CreateKeepsInv ==
  ASSUME Inv, NEW c \in CreateSizes, Create(c)
  PROVE  Inv'
<1>1. c \in SizeT /\ c \in Nat /\ c > 0 /\ ~ AlignUpOverflows(c, Align)
  BY CreateSizesAssumption, SizeMaxAssumption DEF Create, SizeT
<1>2. /\ AlignUp(c, Align) \in SizeT /\ AlignUp(c, Align) % Align = 0
      /\ c <= AlignUp(c, Align)
  BY <1>1, RoundsUp
<1>3. capacity' \in SizeT /\ capacity' \in Nat /\ capacity' % Align = 0 /\ capacity' # 0
  BY <1>1, <1>2, SizeMaxAssumption DEF Create, SizeT
<1>4. offset' = 0 /\ DOMAIN mem' = 0 .. capacity' - 1 /\ host' = {"arena", "buffer"}
      /\ live' = live
  BY DEF Create
<1>5. \A h \in Handle : live[h] = NULL
  <2>1. ASSUME NEW h \in Handle, live[h] # NULL
        PROVE  FALSE
    <3>1. capacity = 0 /\ offset = 0
      BY SizeMaxAssumption DEF Create, Inv, TypeOK
    <3>2. live[h].ptr - Header \in 0 .. offset - 1
      BY <2>1, HeaderBelow
    <3> QED BY <3>1, <3>2
  <2> QED BY <2>1
<1>6. \A h \in Handle : live'[h] = NULL
  BY <1>4, <1>5
<1>7. TypeOK'
  <2>1. offset' \in 0 .. capacity' /\ offset' % Align = 0
    BY <1>3, <1>4, ZeroModulo
  <2>2. live' \in [Handle -> [ptr : SizeT, size : SizeT]]
    BY <1>4 DEF Inv, TypeOK
  <2> QED BY <1>3, <1>4, <2>1, <2>2 DEF TypeOK
<1>8. HostBalanced'
  BY <1>3, <1>4 DEF HostBalanced
<1> QED BY <1>6, <1>7, <1>8, ApartAfter, HeadersAs, CoveredAs DEF Inv

LEMMA DestroyKeepsInv ==
  ASSUME Inv, Destroy
  PROVE  Inv'
<1>1. live' \in [Handle -> Allocation] /\ Apart' /\ HeadersIntact' /\ Covered'
  BY NoneLive DEF Destroy
<1>2. DOMAIN mem' = 0 .. capacity' - 1
  BY DEF Destroy
<1>3. TypeOK'
  BY <1>1, <1>2, ZeroModulo, SizeMaxAssumption DEF Destroy, TypeOK, SizeT, Allocation
<1> QED BY <1>1, <1>3 DEF Inv, Destroy, HostBalanced

LEMMA ResetKeepsInv ==
  ASSUME Inv, Reset
  PROVE  Inv'
<1>1. live' \in [Handle -> Allocation] /\ Apart' /\ HeadersIntact' /\ Covered'
  BY NoneLive DEF Reset
<1>2. capacity \in Nat
  BY SizeMaxAssumption DEF Inv, TypeOK, SizeT
<1>3. TypeOK'
  BY <1>1, <1>2, ZeroModulo DEF Inv, Reset, TypeOK, Allocation
<1> QED BY <1>1, <1>3 DEF Inv, Reset, HostBalanced

LEMMA DeallocKeepsInv ==
  ASSUME Inv, NEW h \in Handle, Dealloc(h)
  PROVE  Inv'
<1>1. NULL \in Allocation /\ live \in [Handle -> Allocation]
  BY SizeMaxAssumption DEF NULL, Allocation, SizeT, Inv, TypeOK
<1>2. live' = [live EXCEPT ![h] = NULL] /\ UNCHANGED <<host, capacity, offset, mem>>
  BY DEF Dealloc
<1>3. offset \in Nat /\ offset' \in Nat /\ offset <= offset' /\ Apart
  BY <1>2, SizeMaxAssumption DEF Inv, TypeOK, SizeT
<1>4. live' \in [Handle -> Allocation] /\ Apart'
  <2>1. live' = [live EXCEPT ![h] = NULL]
    BY <1>2
  <2> QED BY ONLY <1>1, <1>3, <2>1, Rebound
<1>5. \A g \in Handle : live'[g] # NULL => live'[g] = live[g] /\ live[g] # NULL
  BY <1>1, <1>2
<1>6. HeadersIntact'
  BY <1>2, <1>5, HeadersAs DEF Inv, Intact
<1>7. Covered'
  BY <1>5, CoveredAs DEF Inv
<1>8. TypeOK'
  BY <1>2, <1>4 DEF Inv, TypeOK, Allocation
<1> QED BY <1>2, <1>4, <1>6, <1>7, <1>8 DEF Inv, HostBalanced

LEMMA StutterKeepsInv == Inv /\ UNCHANGED vars => Inv'
BY DEF Inv, vars, TypeOK, Apart, HeadersIntact, Covered, HostBalanced

LEMMA NextInv == Inv /\ [Next]_vars => Inv'
<1> SUFFICES ASSUME Inv, [Next]_vars
             PROVE  Inv'
  OBVIOUS
<1>1. CASE \E c \in CreateSizes : Create(c)
  BY <1>1, CreateKeepsInv
<1>2. CASE CreateFails
  BY <1>2 DEF CreateFails, Inv, TypeOK, Apart, HeadersIntact, Covered, HostBalanced
<1>3. CASE Destroy
  BY <1>3, DestroyKeepsInv
<1>4. CASE Reset
  BY <1>4, ResetKeepsInv
<1>5. CASE \E n \in Requests : AllocFails(n)
  BY <1>5, StutterKeepsInv DEF AllocFails
<1>6. CASE \E h \in Handle : Dealloc(h)
  BY <1>6, DeallocKeepsInv
<1>7. CASE \E h \in Handle, n \in Requests : Alloc(h, n)
  BY <1>7, AllocKeepsInv
<1>8. CASE \E h \in Handle, n \in Requests : ResizeInPlace(h, n)
  BY <1>8, ResizeInPlaceKeepsInv
<1>9. CASE \E h \in Handle, n \in Requests : ResizeMoves(h, n)
  BY <1>9, ResizeMovesKeepsInv
<1>10. CASE \E h \in Handle, n \in Requests : ResizeFails(h, n)
  BY <1>10, StutterKeepsInv DEF ResizeFails
<1>11. CASE UNCHANGED vars
  BY <1>11, StutterKeepsInv
<1> QED BY <1>1, <1>2, <1>3, <1>4, <1>5, <1>6, <1>7, <1>8, <1>9, <1>10, <1>11 DEF Next

\* For any sizes and any sequence of calls: live allocations and their
\* headers stay apart below the offset, every header holds the rounded size
\* that a resize reads, and what is held from malloc is the arena or nothing.
THEOREM ArenaInvariant == Spec => []Inv
<1>1. Init => Inv
  BY InitInv
<1>2. Inv /\ [Next]_vars => Inv'
  BY NextInv
<1> QED BY <1>1, <1>2, PTL DEF Spec

\* The offset stays a multiple of the alignment within the capacity.
THEOREM ArenaTypes == Spec => []TypeOK
BY ArenaInvariant, PTL DEF Inv

\* No allocation, and no header, ever overlaps another's.
THEOREM ArenaApart == Spec => []Apart
BY ArenaInvariant, PTL DEF Inv

\* A resize always reads the rounded size its allocation was made with.
THEOREM ArenaHeaders == Spec => []HeadersIntact
BY ArenaInvariant, PTL DEF Inv

\* Neither creation, nor its failure, nor destruction leaks.
THEOREM ArenaHost == Spec => []HostBalanced
BY ArenaInvariant, PTL DEF Inv

(***************************************************************************)
(* The checks of an allocation refuse exactly what does not fit.           *)
(***************************************************************************)
LEMMA MultipleInWindow ==
  ASSUME NEW x \in Nat, NEW y \in Nat, x % Align = 0, y % Align = 0, NEW n \in Nat,
         n <= x, x <= n + Align - 1, n <= y, y <= n + Align - 1
  PROVE  x = y
<1> DEFINE p == x \div Align
           q == y \div Align
<1>1. Align \in Nat \ {0}
  BY AlignAssumption
<1>2. x = Align * p /\ p \in Int /\ y = Align * q /\ q \in Int
  BY <1>1, DivMod
<1> HIDE DEF p, q
<1>3. x - y < Align /\ y - x < Align
  BY <1>1
<1>4. ASSUME NEW a \in Int, NEW b \in Int, a < b
      PROVE  Align * b - Align * a >= Align
  <2>1. PICK d \in Nat : b = a + 1 + d
    <3>1. b - a - 1 \in Nat /\ b = a + 1 + (b - a - 1)
      BY <1>4
    <3> QED BY <3>1
  <2>2. Align * b = Align * a + Align + Align * d
    BY <1>1, <2>1
  <2>3. Align * d \in Nat /\ Align * a \in Int
    BY <1>1
  <2> QED BY <1>1, <2>2, <2>3
<1>5. ~ (p < q)
  BY <1>1, <1>2, <1>3, <1>4
<1>6. ~ (q < p)
  BY <1>1, <1>2, <1>3, <1>4
<1> QED BY <1>2, <1>5, <1>6

LEMMA ServesAsNeeded ==
  ASSUME TypeOK, NEW n \in Requests
  PROVE  Serves(n) <=>
           \E k \in n .. n + Align - 1 :
             k % Align = 0 /\ k <= SizeMax /\ offset + Header + k <= capacity
<1>1. n \in SizeT /\ n \in Nat /\ Align \in Nat \ {0} /\ SizeMax \in Nat
      /\ capacity \in SizeT /\ capacity \in Nat /\ offset \in Nat
  BY RequestsAssumption, AlignAssumption, SizeMaxAssumption DEF TypeOK, SizeT
<1>2. ASSUME Serves(n)
      PROVE  \E k \in n .. n + Align - 1 :
               k % Align = 0 /\ k <= SizeMax /\ offset + Header + k <= capacity
  <2>1. ~ AlignUpOverflows(n, Align)
    BY <1>2 DEF Serves
  <2>2. /\ AlignUp(n, Align) \in SizeT /\ AlignUp(n, Align) % Align = 0
        /\ n <= AlignUp(n, Align) /\ AlignUp(n, Align) <= n + Align - 1
    BY <1>1, <2>1, RoundsUp
  <2>3. AlignUp(n, Align) \in n .. n + Align - 1 /\ AlignUp(n, Align) <= SizeMax
    BY <1>1, <2>2 DEF SizeT
  <2>4. offset + Header + AlignUp(n, Align) <= capacity
    BY <1>2, ServedFits
  <2> QED BY <2>2, <2>3, <2>4
<1>3. ASSUME NEW k \in n .. n + Align - 1, k % Align = 0, k <= SizeMax,
             offset + Header + k <= capacity
      PROVE  Serves(n)
  <2>1. k \in Nat /\ n <= k /\ k <= n + Align - 1
    BY <1>1, <1>3
  <2>2. ~ AlignUpOverflows(n, Align)
    <3>1. SUFFICES ASSUME n + (Align - 1) > SizeMax
                   PROVE  FALSE
      BY <1>1 DEF AlignUpOverflows, AddOverflows
    \* The multiple of Align past SizeMax is its successor; none lies between.
    <3> DEFINE top == SizeMax + 1
    <3>2. top \in Nat /\ top % Align = 0
      BY <1>1, AlignAssumption
    <3>3. k < top /\ n <= top /\ top <= n + Align - 1
      BY <1>1, <1>3, <2>1, <3>1
    <3> HIDE DEF top
    <3>4. k = top
      BY <1>1, <1>3, <2>1, <3>2, <3>3, MultipleInWindow
    <3> QED BY <2>1, <3>2, <3>3, <3>4
  <2>3. /\ AlignUp(n, Align) \in Nat /\ AlignUp(n, Align) % Align = 0
        /\ n <= AlignUp(n, Align) /\ AlignUp(n, Align) <= n + Align - 1
    BY <1>1, <2>2, RoundsUp DEF SizeT
  <2>4. AlignUp(n, Align) = k
    BY <1>1, <1>3, <2>1, <2>3, MultipleInWindow
  <2>5. Header \in 0 .. capacity /\ Header \in Nat /\ k \in 0 .. capacity
        /\ k <= capacity /\ Header <= capacity - k /\ offset <= (capacity - Header) - k
        /\ k <= capacity - Header
    BY <1>1, <1>3, <2>1, HeaderShape
  <2>6. Minus(capacity, k) = capacity - k
    BY <1>1, <2>5, MinusSmall
  <2>7. Minus(capacity, Header) = capacity - Header /\ Minus(capacity, Header) \in SizeT
    BY <1>1, <2>5, MinusSmall
  <2>8. k \in 0 .. Minus(capacity, Header)
    BY <1>1, <2>1, <2>5, <2>7
  <2>9. Minus(Minus(capacity, Header), k) = (capacity - Header) - k
    BY <2>7, <2>8, MinusSmall
  <2> QED BY <2>2, <2>4, <2>5, <2>6, <2>9 DEF Serves
<1> QED BY <1>2, <1>3

\* No check of a request wraps: what fits behind the offset is served, and
\* nothing else.
THEOREM ArenaServes == Spec => []ServesExactly
<1>1. TypeOK => ServesExactly
  BY ServesAsNeeded DEF ServesExactly
<1> QED BY <1>1, ArenaTypes, PTL

\* Only a reset, or the end of the arena, gives bytes back, and then every
\* owner's pointer ends with it.
THEOREM ArenaReclaims == Spec => OnlyResetReclaims
<1>1. Inv /\ [Next]_vars =>
        [offset' < offset => offset' = 0 /\ \A h \in Handle : live'[h] = NULL]_vars
  <2> SUFFICES ASSUME Inv, Next, offset' < offset
               PROVE  offset' = 0 /\ \A h \in Handle : live'[h] = NULL
    OBVIOUS
  <2>1. offset \in Nat
    BY SizeMaxAssumption DEF Inv, TypeOK, SizeT
  <2>2. CASE Reset \/ Destroy
    BY <2>2 DEF Reset, Destroy
  <2>3. CASE \E h \in Handle, n \in Requests : Alloc(h, n) \/ ResizeMoves(h, n)
    <3>1. PICK n \in Requests : Serves(n) /\ offset' = offset + Header + AlignUp(n, Align)
      BY <2>3 DEF Alloc, ResizeMoves
    <3>2. AlignUp(n, Align) \in Nat
      BY <3>1, ServedFits DEF Inv
    <3> QED BY <2>1, <3>1, <3>2, HeaderShape
  <2>4. CASE CreateFails \/ (\E n \in Requests : AllocFails(n))
             \/ (\E h \in Handle : Dealloc(h))
             \/ (\E h \in Handle, n \in Requests : ResizeInPlace(h, n) \/ ResizeFails(h, n))
    BY <2>1, <2>4 DEF CreateFails, AllocFails, Dealloc, ResizeInPlace, ResizeFails, vars
  <2>5. CASE \E c \in CreateSizes : Create(c)
    <3>1. capacity = 0 /\ offset \in 0 .. capacity /\ offset' = 0
      BY <2>5 DEF Create, Inv, TypeOK
    <3> QED BY <3>1
  <2> QED BY <2>2, <2>3, <2>4, <2>5 DEF Next
<1> QED BY <1>1, ArenaInvariant, PTL DEF Spec, OnlyResetReclaims

\* arena.c as a whole: the invariant of every call.
THEOREM ArenaIsConsistent == Spec => []Consistent
BY ArenaTypes, ArenaHost, ArenaHeaders, ArenaApart, PTL DEF Consistent

(***************************************************************************)
(* The contract of Allocator.  What an owner reads back is in cells below  *)
(* the offset, where nobody else writes.                                   *)
(***************************************************************************)
\* What the owner of an allocation reads from the buffer.
ReadBack(m, a) == [k \in 1 .. a.size |-> m[a.ptr + k - 1]]

LEMMA ReadsTheSame ==
  ASSUME NEW m, NEW q, NEW a, NEW b, a.size = b.size,
         \A k \in 1 .. a.size : m[a.ptr + k - 1] = q[b.ptr + k - 1]
  PROVE  ReadBack(m, a) = ReadBack(q, b)
BY DEF ReadBack

LEMMA NullReadsNothing ==
  ASSUME NEW m
  PROVE  ReadBack(m, NULL) = << >>
BY DEF ReadBack, NULL

\* The other owners keep what they hold and read, if the cells of theirs do.
LEMMA OthersAreKept ==
  ASSUME Inv, NEW h \in Handle,
         \A g \in Handle \ {h} : live'[g] = live[g],
         \A g \in Handle \ {h} : live[g] # NULL =>
           \A k \in 1 .. live[g].size : mem'[live[g].ptr + k - 1] = mem[live[g].ptr + k - 1]
  PROVE  AllocatorView!OthersKept(h)
<1>1. ASSUME NEW g \in Handle \ {h}
      PROVE  ReadBack(mem', live'[g]) = ReadBack(mem, live[g])
  <2>1. CASE live[g] = NULL
    BY <2>1, NullReadsNothing
  <2>2. CASE live[g] # NULL
    BY <2>2, ReadsTheSame
  <2> QED BY <2>1, <2>2
<1> QED BY <1>1 DEF AllocatorView!OthersKept, ReadBack

\* The bytes an owner asked for lie below the offset.
LEMMA CellBelow ==
  ASSUME Inv, NEW g \in Handle, live[g] # NULL, NEW k \in 1 .. live[g].size
  PROVE  /\ live[g].ptr + k - 1 \in 0 .. offset - 1
         /\ live[g].ptr + k - 1 \in DOMAIN mem
<1>1. /\ live[g] \in Allocation /\ live[g].ptr \in Nat /\ live[g].size \in Nat
      /\ Rounded(live[g]) \in Nat
  BY HeaderBelow
<1>2. Below(live[g], offset) /\ live[g].size <= Rounded(live[g])
  BY ApartAs, CoveredAs DEF Inv
<1>3. offset \in 0 .. capacity /\ DOMAIN mem = 0 .. capacity - 1 /\ capacity \in Nat
  BY SizeMaxAssumption DEF Inv, TypeOK, SizeT
<1>4. live[g].ptr + k - 1 \in 0 .. offset - 1
  BY <1>1, <1>2, <1>3 DEF Below
<1> QED BY <1>3, <1>4

LEMMA SeparateAfter ==
  ASSUME Inv'
  PROVE  AllocatorView!Separate'
<1>1. /\ offset' \in 0 .. capacity' /\ capacity' \in Nat
      /\ \A h \in Handle : live'[h] \in Allocation
  BY SizeMaxAssumption DEF Inv, TypeOK, SizeT, Allocation
<1>2. \A h \in Handle : live'[h] # NULL =>
        /\ Below(live'[h], offset') /\ live'[h].size <= Rounded(live'[h])
        /\ \A g \in Handle \ {h} : live'[g] # NULL => Away(live'[h], live'[g])
  BY DEF Inv, Apart, Covered, Below, Away, Rounded
<1>3. \A h \in Handle : /\ live'[h].ptr \in Nat /\ live'[h].size \in Nat
                        /\ Rounded(live'[h]) \in Nat
  BY <1>1, RoundedIsNat
<1>4. ASSUME NEW h \in Handle, live'[h] # NULL
      PROVE  /\ live'[h].ptr % Align = 0
             /\ live'[h].ptr .. live'[h].ptr + live'[h].size - 1 \subseteq 0 .. capacity' - 1
  <2>1. live'[h].ptr + live'[h].size <= capacity' /\ live'[h].ptr % Align = 0
    BY <1>1, <1>2, <1>3, <1>4 DEF Below
  <2> QED BY <1>1, <1>3, <2>1
<1>5. ASSUME NEW h \in Handle, live'[h] # NULL,
             NEW g \in Handle \ {h}, live'[g] # NULL,
             NEW i \in live'[g].ptr .. live'[g].ptr + live'[g].size - 1,
             i \in live'[h].ptr .. live'[h].ptr + live'[h].size - 1
      PROVE  FALSE
  <2>1. Away(live'[h], live'[g]) /\ live'[h].size <= Rounded(live'[h])
        /\ live'[g].size <= Rounded(live'[g])
    BY <1>2, <1>5
  <2> QED BY <1>3, <1>5, <2>1, HeaderShape DEF Away
<1>6. AllocatorView!NULL = NULL
  BY DEF AllocatorView!NULL, NULL
<1> QED BY <1>4, <1>5, <1>6 DEF AllocatorView!Separate, AllocatorView!Cells

\* What is served at the offset leaves the cells of all others alone and has
\* the bytes that were written to it.
LEMMA PlacedBytes ==
  ASSUME Inv, NEW n \in Requests, Serves(n), NEW written, mem' = Placed(n, written)
  PROVE  /\ \A i \in 0 .. offset - 1 : mem'[i] = mem[i]
         /\ \A k \in 1 .. n : mem'[(offset + Header) + k - 1] = written[k - 1]
<1>1. TypeOK
  BY DEF Inv
<1>2. /\ n \in Nat /\ offset \in Nat /\ AlignUp(n, Align) \in Nat /\ n <= AlignUp(n, Align)
      /\ offset + Header + AlignUp(n, Align) <= capacity
  BY <1>1, ServedFits, SizeMaxAssumption DEF SizeT
<1>3. DOMAIN mem = 0 .. capacity - 1 /\ capacity \in Nat /\ Header \in Nat /\ Header > 0
  BY <1>1, HeaderShape, SizeMaxAssumption DEF TypeOK, SizeT
<1>4. ASSUME NEW i \in 0 .. offset - 1
      PROVE  mem'[i] = mem[i]
  <2>1. /\ i \in DOMAIN mem /\ i # offset /\ i \notin offset + 1 .. offset + Header - 1
        /\ ~ (i >= offset + Header)
    BY <1>2, <1>3
  <2> QED BY <2>1 DEF Placed
<1>5. ASSUME NEW k \in 1 .. n
      PROVE  mem'[(offset + Header) + k - 1] = written[k - 1]
  <2> DEFINE i == (offset + Header) + k - 1
  <2>1. /\ i \in DOMAIN mem /\ i # offset /\ i \notin offset + 1 .. offset + Header - 1
        /\ i >= offset + Header /\ i - offset - Header < AlignUp(n, Align)
        /\ i - offset - Header = k - 1
    BY <1>2, <1>3
  <2> HIDE DEF i
  <2>2. mem'[i] = written[i - offset - Header]
    BY <2>1 DEF Placed
  <2> QED BY <2>1, <2>2 DEF i
<1> QED BY <1>4, <1>5

LEMMA AllocIsAlloc ==
  ASSUME Inv, Inv', NEW h \in Handle, NEW n \in Requests, Alloc(h, n)
  PROVE  AllocatorView!Alloc(h)
<1> DEFINE written == [k \in SizeT |-> IF k < n THEN Byte(h, k) ELSE Junk]
<1>1. /\ live[h] = NULL /\ Serves(n) /\ capacity' = capacity
      /\ mem' = Placed(n, written)
      /\ live' = [live EXCEPT ![h] = [ptr |-> offset + Header, size |-> n]]
  BY DEF Alloc
<1>2. n \in Nat /\ n > 0 /\ n <= SizeMax
  BY RequestsAssumption, SizeMaxAssumption DEF SizeT
<1>3. \A k \in 1 .. n : written[k - 1] = Byte(h, k - 1)
  BY <1>2, SizeMaxAssumption DEF SizeT
<1> HIDE DEF written
<1>4. /\ \A i \in 0 .. offset - 1 : mem'[i] = mem[i]
      /\ \A k \in 1 .. n : mem'[(offset + Header) + k - 1] = written[k - 1]
  BY <1>1, PlacedBytes
<1>5. live \in [Handle -> Allocation]
  BY DEF Inv, TypeOK, Allocation
<1>6. /\ live'[h] = [ptr |-> offset + Header, size |-> n]
      /\ \A g \in Handle \ {h} : live'[g] = live[g]
  BY <1>1, <1>5
<1>7. live'[h].ptr = offset + Header /\ live'[h].size = n /\ live'[h] # NULL
  BY <1>2, <1>6 DEF NULL
<1>8. ReadBack(mem', live'[h]) = [k \in 1 .. live'[h].size |-> Byte(h, k - 1)]
  BY <1>3, <1>4, <1>7 DEF ReadBack
<1>9. AllocatorView!OthersKept(h)
  BY <1>4, <1>6, CellBelow, OthersAreKept
<1>10. AllocatorView!Separate'
  BY SeparateAfter
<1> QED BY <1>1, <1>7, <1>8, <1>9, <1>10
        DEF AllocatorView!Alloc, AllocatorView!NULL, NULL, AllocatorView!Byte, Byte, ReadBack

LEMMA ResizeMovesIsResize ==
  ASSUME Inv, Inv', NEW h \in Handle, NEW n \in Requests, ResizeMoves(h, n)
  PROVE  AllocatorView!Resize(h)
<1> DEFINE written == [k \in SizeT |->
                         CASE k >= live[h].size /\ k < n -> Byte(h, k)
                           [] k < live[h].size /\ k < Copied(h) -> mem[live[h].ptr + k]
                           [] OTHER -> Junk]
<1>1. /\ live[h] # NULL /\ Serves(n) /\ capacity' = capacity
      /\ mem' = Placed(n, written)
      /\ live' = [live EXCEPT ![h] = [ptr |-> offset + Header, size |-> n]]
  BY DEF ResizeMoves, MayResize
<1>2. n \in Nat /\ n > 0 /\ n <= SizeMax
  BY RequestsAssumption, SizeMaxAssumption DEF SizeT
\* The header covers what the owner asked for, so all of that is copied.
<1>3. live[h].size \in Nat /\ live[h].size <= Copied(h) /\ Copied(h) \in Nat
      /\ live[h].ptr \in Nat
  <2>1. /\ live[h].size \in Nat /\ live[h].ptr \in Nat /\ Intact(mem, live[h])
        /\ Rounded(live[h]) \in Nat
    BY <1>1, HeaderBelow
  <2>2. live[h].size <= Rounded(live[h])
    BY <1>1, CoveredAs DEF Inv
  <2> QED BY <2>1, <2>2 DEF Copied, HeaderSize, Intact, HeaderWith
<1>4. ASSUME NEW k \in 1 .. n
      PROVE  written[k - 1] = IF k <= live[h].size THEN mem[live[h].ptr + k - 1]
                              ELSE Byte(h, k - 1)
  <2>1. k - 1 \in SizeT /\ k - 1 < n /\ k - 1 \in Nat
    BY <1>2, SizeMaxAssumption DEF SizeT
  <2>2. CASE k <= live[h].size
    <3>1. /\ ~ (k - 1 >= live[h].size) /\ k - 1 < live[h].size /\ k - 1 < Copied(h)
          /\ live[h].ptr + (k - 1) = live[h].ptr + k - 1
      BY <1>3, <2>2
    <3> QED BY <2>1, <2>2, <3>1
  <2>3. CASE ~ (k <= live[h].size)
    <3>1. k - 1 >= live[h].size /\ ~ (k - 1 < live[h].size)
      BY <1>3, <2>1, <2>3
    <3>2. written[k - 1] = Byte(h, k - 1)
      BY <2>1, <3>1
    <3> QED BY <2>3, <3>2
  <2> QED BY <2>2, <2>3
<1> HIDE DEF written
<1>5. /\ \A i \in 0 .. offset - 1 : mem'[i] = mem[i]
      /\ \A k \in 1 .. n : mem'[(offset + Header) + k - 1] = written[k - 1]
  BY <1>1, PlacedBytes
<1>6. live \in [Handle -> Allocation]
  BY DEF Inv, TypeOK, Allocation
<1>7. /\ live'[h] = [ptr |-> offset + Header, size |-> n]
      /\ \A g \in Handle \ {h} : live'[g] = live[g]
  BY <1>1, <1>6
<1>8. live'[h].ptr = offset + Header /\ live'[h].size = n /\ live'[h] # NULL
  BY <1>2, <1>7 DEF NULL
<1>9. ReadBack(mem', live'[h]) =
        [k \in 1 .. live'[h].size |->
           IF k <= live[h].size THEN ReadBack(mem, live[h])[k] ELSE Byte(h, k - 1)]
  <2>1. \A k \in 1 .. n : k <= live[h].size =>
          ReadBack(mem, live[h])[k] = mem[live[h].ptr + k - 1]
    BY <1>3 DEF ReadBack
  <2> QED BY <1>4, <1>5, <1>8, <2>1 DEF ReadBack
<1>10. AllocatorView!OthersKept(h)
  BY <1>5, <1>7, CellBelow, OthersAreKept
<1>11. AllocatorView!Separate'
  BY SeparateAfter
<1> QED BY <1>1, <1>8, <1>9, <1>10, <1>11
        DEF AllocatorView!Resize, AllocatorView!NULL, NULL, AllocatorView!Byte, Byte, ReadBack

LEMMA ResizeInPlaceIsResize ==
  ASSUME Inv, Inv', NEW h \in Handle, NEW n \in Requests, ResizeInPlace(h, n)
  PROVE  AllocatorView!Resize(h)
<1> DEFINE added == live[h].ptr + live[h].size .. live[h].ptr + n - 1
<1>1. /\ live[h] # NULL /\ capacity' = capacity
      /\ mem' = [i \in DOMAIN mem |->
                   IF i \in added THEN Byte(h, i - live[h].ptr) ELSE mem[i]]
      /\ live' = [live EXCEPT ![h].size = n]
  BY DEF ResizeInPlace, MayResize
<1>2. n \in Nat /\ n > 0 /\ n <= Rounded(live[h])
  <2>1. n \in SizeT /\ n \in Nat /\ n > 0 /\ ~ AlignUpOverflows(n, Align)
    BY RequestsAssumption, SizeMaxAssumption DEF ResizeInPlace, MayResize, SizeT
  <2>2. AlignUp(n, Align) = Rounded(live[h])
    BY <1>1, HeaderBelow DEF ResizeInPlace, HeaderSize, Intact, HeaderWith
  <2> QED BY <2>1, <2>2, RoundsUp
<1>3. /\ live[h].size \in Nat /\ live[h].ptr \in Nat /\ Rounded(live[h]) \in Nat
      /\ live[h].size <= Rounded(live[h])
  BY <1>1, HeaderBelow, CoveredAs DEF Inv
<1>4. live \in [Handle -> Allocation]
  BY DEF Inv, TypeOK, Allocation
<1>5. /\ live'[h].ptr = live[h].ptr /\ live'[h].size = n /\ live'[h] # NULL
      /\ \A g \in Handle \ {h} : live'[g] = live[g]
  <2>1. live'[h] = [live[h] EXCEPT !.size = n]
    BY <1>1, <1>4
  <2>2. live'[h].ptr = live[h].ptr /\ live'[h].size = n
    BY <1>4, <2>1 DEF Allocation
  <2> QED BY <1>1, <1>2, <1>4, <2>2 DEF NULL
<1>6. ASSUME NEW k \in 1 .. n
      PROVE  mem'[live[h].ptr + k - 1] = IF k <= live[h].size THEN mem[live[h].ptr + k - 1]
                                         ELSE Byte(h, k - 1)
  <2>1. live[h].ptr + k - 1 \in DOMAIN mem
    <3>1. live[h].ptr + Rounded(live[h]) <= offset /\ offset <= capacity
      BY <1>1, ApartAs DEF Inv, TypeOK, Below
    <3>2. DOMAIN mem = 0 .. capacity - 1 /\ capacity \in Nat /\ offset \in Nat
      BY SizeMaxAssumption DEF Inv, TypeOK, SizeT
    <3> QED BY <1>2, <1>3, <3>1, <3>2, SMTT(20)
  <2>2. CASE k <= live[h].size
    <3>1. live[h].ptr + k - 1 \notin added
      BY <1>2, <1>3, <2>2
    <3> HIDE DEF added
    <3> QED BY <1>1, <2>1, <2>2, <3>1
  <2>3. CASE ~ (k <= live[h].size)
    <3>1. live[h].ptr + k - 1 \in added /\ (live[h].ptr + k - 1) - live[h].ptr = k - 1
      BY <1>2, <1>3, <2>3
    <3> HIDE DEF added
    <3> QED BY <1>1, <2>1, <2>3, <3>1
  <2> QED BY <2>2, <2>3
<1>7. ReadBack(mem', live'[h]) =
        [k \in 1 .. live'[h].size |->
           IF k <= live[h].size THEN ReadBack(mem, live[h])[k] ELSE Byte(h, k - 1)]
  <2>1. \A k \in 1 .. n : k <= live[h].size =>
          ReadBack(mem, live[h])[k] = mem[live[h].ptr + k - 1]
    BY <1>3 DEF ReadBack
  <2> QED BY <1>5, <1>6, <2>1 DEF ReadBack
<1>8. ASSUME NEW g \in Handle \ {h}, live[g] # NULL, NEW k \in 1 .. live[g].size
      PROVE  mem'[live[g].ptr + k - 1] = mem[live[g].ptr + k - 1]
  <2>1. live[g].ptr + k - 1 \in DOMAIN mem
    BY <1>8, CellBelow
  <2>2. /\ live[g].ptr \in Nat /\ live[g].size \in Nat /\ Rounded(live[g]) \in Nat
        /\ live[g].size <= Rounded(live[g])
    BY <1>8, HeaderBelow, CoveredAs DEF Inv
  <2>3. Away(live[h], live[g])
    BY <1>1, <1>8, ApartAs DEF Inv
  <2>4. live[g].ptr + k - 1 \notin added
    BY <1>2, <1>3, <2>2, <2>3, HeaderShape DEF Away
  <2> HIDE DEF added
  <2> QED BY <1>1, <2>1, <2>4
<1>9. AllocatorView!OthersKept(h)
  BY <1>5, <1>8, OthersAreKept
<1>10. AllocatorView!Separate'
  BY SeparateAfter
<1>11. live[h] # NULL /\ live'[h] # NULL /\ capacity' = capacity
  BY <1>1, <1>5
<1> QED BY <1>7, <1>9, <1>10, <1>11
        DEF AllocatorView!Resize, AllocatorView!NULL, NULL, AllocatorView!Byte, Byte, ReadBack

LEMMA EndIsRelease ==
  ASSUME Destroy \/ Reset
  PROVE  AllocatorView!Release
<1>1. live' = [h \in Handle |-> NULL] /\ capacity' \in {0, capacity}
  BY DEF Destroy, Reset
<1>2. \A h \in Handle : ReadBack(mem', live'[h]) = << >>
  BY <1>1, NullReadsNothing
<1>3. [h \in Handle |-> ReadBack(mem', live'[h])] = [h \in Handle |-> << >>]
  BY <1>2
<1> QED BY <1>1, <1>3 DEF AllocatorView!Release, AllocatorView!NULL, NULL, ReadBack

LEMMA DeallocIsDealloc ==
  ASSUME Inv, NEW h \in Handle, Dealloc(h)
  PROVE  AllocatorView!Dealloc(h)
<1>1. /\ live[h] # NULL /\ UNCHANGED <<mem, capacity>>
      /\ live' = [live EXCEPT ![h] = NULL]
  BY DEF Dealloc
<1>2. live'[h] = NULL /\ \A g \in Handle \ {h} : live'[g] = live[g]
  BY <1>1 DEF Inv, TypeOK
<1>3. AllocatorView!OthersKept(h)
  BY <1>1, <1>2, OthersAreKept
<1>4. ReadBack(mem', live'[h]) = << >>
  BY <1>2, NullReadsNothing
<1> QED BY <1>1, <1>2, <1>3, <1>4
        DEF AllocatorView!Dealloc, AllocatorView!NULL, NULL, ReadBack

LEMMA CreateIsOpen ==
  ASSUME Inv, Inv', NEW c \in CreateSizes, Create(c)
  PROVE  AllocatorView!Open
<1>1. capacity = 0 /\ live' = live
  BY DEF Create
<1>2. capacity' > 0
  <2>1. c \in SizeT /\ c \in Nat /\ c > 0 /\ ~ AlignUpOverflows(c, Align)
    BY CreateSizesAssumption, SizeMaxAssumption DEF Create, SizeT
  <2>2. AlignUp(c, Align) \in Nat /\ c <= AlignUp(c, Align)
    BY <2>1, RoundsUp, SizeMaxAssumption DEF SizeT
  <2> QED BY <2>1, <2>2 DEF Create
<1>3. \A h \in Handle : live[h] = NULL
  <2>1. ASSUME NEW h \in Handle, live[h] # NULL
        PROVE  FALSE
    <3>1. offset \in 0 .. capacity /\ live[h].ptr - Header \in 0 .. offset - 1
      BY <2>1, HeaderBelow DEF Inv, TypeOK
    <3> QED BY <1>1, <3>1
  <2> QED BY <2>1
<1>4. \A h \in Handle : ReadBack(mem', live'[h]) = ReadBack(mem, live[h])
  BY <1>1, <1>3, NullReadsNothing
<1>5. [h \in Handle |-> ReadBack(mem', live'[h])] = [h \in Handle |-> ReadBack(mem, live[h])]
  BY <1>4
<1> QED BY <1>1, <1>2, <1>5 DEF AllocatorView!Open, ReadBack

LEMMA NextIsNext ==
  ASSUME Inv, Inv', [Next]_vars
  PROVE  [AllocatorView!Next]_AllocatorView!allocVars
<1>1. ASSUME NEW c \in CreateSizes, Create(c)
      PROVE  AllocatorView!Next
  BY <1>1, CreateIsOpen DEF AllocatorView!Next
<1>2. CASE Destroy \/ Reset
  BY <1>2, EndIsRelease DEF AllocatorView!Next
<1>3. CASE UNCHANGED <<capacity, live, mem>>
  BY <1>3 DEF AllocatorView!allocVars
<1>4. CASE CreateFails \/ (\E n \in Requests : AllocFails(n))
           \/ (\E h \in Handle, n \in Requests : ResizeFails(h, n)) \/ UNCHANGED vars
  BY <1>3, <1>4 DEF CreateFails, AllocFails, ResizeFails, vars
<1>5. ASSUME NEW h \in Handle, Dealloc(h)
      PROVE  AllocatorView!Next
  BY <1>5, DeallocIsDealloc DEF AllocatorView!Next
<1>6. ASSUME NEW h \in Handle, NEW n \in Requests,
             Alloc(h, n) \/ ResizeInPlace(h, n) \/ ResizeMoves(h, n)
      PROVE  AllocatorView!Next
  <2>1. AllocatorView!Alloc(h) \/ AllocatorView!Resize(h)
    BY <1>6, AllocIsAlloc, ResizeInPlaceIsResize, ResizeMovesIsResize
  <2> QED BY <2>1 DEF AllocatorView!Next
<1> QED BY <1>1, <1>2, <1>4, <1>5, <1>6 DEF Next

\* ImplementsAllocator of Arena: with owners that resize in place and by moving,
\* deallocate in vain and are reset, the arena is an allocator as allocator.h
\* promises it: aligned ranges of one owner each, whose bytes stay readable.
THEOREM ArenaIsAnAllocator == Spec => ImplementsAllocator
<1>1. Init => AllocatorView!Init
  <2> SUFFICES ASSUME Init PROVE AllocatorView!Init
    OBVIOUS
  <2>1. live = [h \in Handle |-> NULL] /\ capacity = 0
    BY DEF Init
  <2>2. \A h \in Handle : ReadBack(mem, live[h]) = << >>
    BY <2>1, NullReadsNothing
  <2>3. [h \in Handle |-> ReadBack(mem, live[h])] = [h \in Handle |-> << >>]
    BY <2>2
  <2> QED BY <2>1, <2>3 DEF AllocatorView!Init, AllocatorView!NULL, NULL, ReadBack
<1>2. Inv /\ Inv' /\ [Next]_vars => [AllocatorView!Next]_AllocatorView!allocVars
  BY NextIsNext
<1> QED
  BY <1>1, <1>2, ArenaInvariant, PTL DEF Spec, ImplementsAllocator, AllocatorView!Spec

(***************************************************************************)
(* The test allocator.  What CountsAreTrue says of cardinalities follows   *)
(* from the blocks' having one owner each, which is what the steps keep.   *)
(***************************************************************************)
Counts ==
  [alloc : Nat, realloc : Nat, dealloc : Nat, outstanding : Nat, failed : Nat,
   fail_after : Nat \cup {NoFailure}]

OneOwnerEach ==
  /\ heap = {owned[h].ptr : h \in Handle} \ {NoBlock}
  /\ \A g, h \in Handle : owned[g].ptr = owned[h].ptr /\ owned[g].ptr # NoBlock => g = h

TestInv ==
  /\ tracker \in Counts /\ kept \in Nat
  /\ owned \in [Handle -> [ptr : Block \cup {NoBlock}, via : {"test", "libc"}]]
  /\ allowed \in [attempts : Nat, of : Nat \cup {NoFailure}]
  /\ OneOwnerEach
  /\ Test!OutstandingIsExact
  /\ Test!CountsBalance
  /\ tracker.fail_after # NoFailure =>
       /\ allowed.of # NoFailure
       /\ tracker.fail_after = allowed.of - allowed.attempts

LEMMA TestConstants ==
  /\ IsFiniteSet(Handle) /\ NoBlock \notin Block
  /\ Countdowns \subseteq Nat \cup {NoFailure}
<1>1. Test!IsFiniteSet(Handle) <=> IsFiniteSet(Handle)
  BY Zenon DEF Test!IsFiniteSet, IsFiniteSet
<1> QED BY <1>1, TestAssumption DEF Test!Assumptions, Test!HandleAssumption,
       Test!BlockAssumption, Test!CountdownsAssumption

LEMMA SameCardinality ==
  ASSUME NEW S
  PROVE  Test!Cardinality(S) = Cardinality(S)
BY Zenon DEF Test!Cardinality, Cardinality

\* One owner each makes as many blocks as owners that hold one.
LEMMA AsManyOwners ==
  ASSUME owned \in [Handle -> [ptr : Block \cup {NoBlock}, via : {"test", "libc"}]],
         OneOwnerEach
  PROVE  Cardinality(heap) = Cardinality({h \in Handle : owned[h].ptr # NoBlock})
<1> DEFINE holders == {h \in Handle : owned[h].ptr # NoBlock}
           f == [h \in holders |-> owned[h].ptr]
<1>1. IsFiniteSet(holders)
  <2>1. holders \in SUBSET Handle
    OBVIOUS
  <2> QED BY <2>1, TestConstants, FS_Subset
<1>2. f \in Bijection(holders, heap)
  BY DEF OneOwnerEach, Bijection, Injection, Surjection, IsInjective
<1>3. ExistsBijection(holders, heap)
  BY <1>2 DEF ExistsBijection
<1> HIDE DEF holders
<1> QED BY <1>1, <1>3, FS_Bijection DEF holders

LEMMA TestInvHolds == TestInv => TrackerIsTrue
<1> SUFFICES ASSUME TestInv PROVE TrackerIsTrue
  OBVIOUS
<1>1. Test!HeapIsOwned
  BY AsManyOwners, SameCardinality DEF TestInv, OneOwnerEach, Test!HeapIsOwned
<1>2. Test!AllowsExactly
  BY DEF TestInv, Test!AllowsExactly
<1> QED BY <1>1, <1>2 DEF TestInv, TrackerIsTrue, Test!CountsAreTrue

LEMMA TestInitInv == Test!Init => TestInv
<1> SUFFICES ASSUME Test!Init PROVE TestInv
  OBVIOUS
<1>1. owned \in [Handle -> [ptr : {NoBlock}, via : {"test", "libc"}]]
  BY DEF Test!Init
<1>2. Test!Tracked = {}
  BY <1>1 DEF Test!Tracked
<1>3. Test!Cardinality(Test!Tracked) = 0
  BY <1>2, SameCardinality, FS_EmptySet
<1>4. OneOwnerEach
  BY <1>1 DEF OneOwnerEach, Test!Init
<1>5. tracker \in Counts /\ kept = 0 /\ tracker.alloc = 0 /\ tracker.dealloc = 0
      /\ tracker.outstanding = 0 /\ tracker.fail_after = NoFailure
      /\ allowed \in [attempts : Nat, of : Nat \cup {NoFailure}]
  BY DEF Test!Init, Test!Cleared, Counts
<1> QED BY <1>1, <1>3, <1>4, <1>5
       DEF TestInv, Test!OutstandingIsExact, Test!CountsBalance
\* Owner h holds p from now on.
Gets(h, p) ==
  /\ owned' = [owned EXCEPT ![h].ptr = p]
  /\ heap' = (heap \ {owned[h].ptr}) \cup ({p} \ {NoBlock})

LEMMA GetsOwned ==
  ASSUME TestInv, NEW h \in Handle, NEW p \in Block \cup {NoBlock}, Gets(h, p),
         p \notin heap \ {owned[h].ptr}
  PROVE  owned' \in [Handle -> [ptr : Block \cup {NoBlock}, via : {"test", "libc"}]]
         /\ OneOwnerEach'
<1>1. owned \in [Handle -> [ptr : Block \cup {NoBlock}, via : {"test", "libc"}]]
      /\ heap = {owned[g].ptr : g \in Handle} \ {NoBlock}
      /\ \A f, g \in Handle : owned[f].ptr = owned[g].ptr /\ owned[f].ptr # NoBlock => f = g
  BY DEF TestInv, OneOwnerEach
<1>2. owned' = [owned EXCEPT ![h].ptr = p]
      /\ heap' = (heap \ {owned[h].ptr}) \cup ({p} \ {NoBlock})
  BY DEF Gets
<1>3. owned' \in [Handle -> [ptr : Block \cup {NoBlock}, via : {"test", "libc"}]]
  BY <1>1, <1>2
<1>4. \A g \in Handle : owned'[g].ptr = IF g = h THEN p ELSE owned[g].ptr
  BY <1>1, <1>2
<1>5. ASSUME NEW f \in Handle, NEW g \in Handle,
             owned'[f].ptr = owned'[g].ptr, owned'[f].ptr # NoBlock
      PROVE  f = g
  <2>1. CASE f # h /\ g # h
    BY <1>1, <1>4, <1>5, <2>1
  <2>2. ASSUME NEW k \in Handle, k # h, owned[k].ptr = p, p # NoBlock
        PROVE  FALSE
    <3>1. p \in heap
      BY <1>1, <2>2
    <3>2. owned[h].ptr = p
      BY <3>1
    <3> QED BY <1>1, <2>2, <3>2
  <2> QED BY <1>4, <1>5, <2>1, <2>2
<1>6. ASSUME NEW x PROVE x \in heap' <=> x \in {owned'[g].ptr : g \in Handle} \ {NoBlock}
  <2>1. CASE x = p
    BY <1>2, <1>4, <2>1
  <2>2. CASE x # p
    <3>1. x \in heap' <=> x \in heap /\ x # owned[h].ptr
      BY <1>2, <2>2
    <3>2. x \in heap <=> x # NoBlock /\ \E g \in Handle : x = owned[g].ptr
      BY <1>1
    <3>3. x \in heap /\ x # owned[h].ptr
            <=> x # NoBlock /\ \E g \in Handle : g # h /\ x = owned[g].ptr
      BY <1>1, <3>2
    <3>4. (\E g \in Handle : g # h /\ x = owned[g].ptr)
            <=> \E g \in Handle : x = owned'[g].ptr
      BY <1>4, <2>2
    <3> QED BY <3>1, <3>3, <3>4
  <2> QED BY <2>1, <2>2
<1>7. heap' = {owned'[g].ptr : g \in Handle} \ {NoBlock}
  BY <1>6
<1> QED BY <1>3, <1>5, <1>7 DEF OneOwnerEach

LEMMA TrackedIsFinite ==
  IsFiniteSet(Test!Tracked) /\ Cardinality(Test!Tracked) \in Nat
<1>1. Test!Tracked \in SUBSET Handle
  BY DEF Test!Tracked
<1>2. IsFiniteSet(Test!Tracked)
  BY <1>1, TestConstants, FS_Subset
<1> QED BY <1>2, FS_CardinalityType

\* The number of live blocks the tracker has seen, after owner h got p.
LEMMA GetsTracked ==
  ASSUME TestInv, NEW h \in Handle, NEW p \in Block \cup {NoBlock}, Gets(h, p)
  PROVE  LET was == owned[h].via = "test" /\ owned[h].ptr # NoBlock
             is == owned[h].via = "test" /\ p # NoBlock
         IN  Cardinality(Test!Tracked') =
               IF is /\ ~ was THEN Cardinality(Test!Tracked) + 1
               ELSE IF was /\ ~ is THEN Cardinality(Test!Tracked) - 1
               ELSE Cardinality(Test!Tracked)
<1> DEFINE was == owned[h].via = "test" /\ owned[h].ptr # NoBlock
           is == owned[h].via = "test" /\ p # NoBlock
<1>1. owned \in [Handle -> [ptr : Block \cup {NoBlock}, via : {"test", "libc"}]]
      /\ owned' = [owned EXCEPT ![h].ptr = p]
  BY DEF TestInv, Gets
<1>2. \A g \in Handle : /\ owned'[g].via = owned[g].via
                        /\ owned'[g].ptr = IF g = h THEN p ELSE owned[g].ptr
  BY <1>1
<1>3. h \in Test!Tracked <=> was
  BY DEF Test!Tracked
<1>4. Test!Tracked' = IF is THEN Test!Tracked \cup {h} ELSE Test!Tracked \ {h}
  BY <1>2 DEF Test!Tracked
<1> HIDE DEF was, is
<1>5. Cardinality(Test!Tracked \cup {h})
        = IF was THEN Cardinality(Test!Tracked) ELSE Cardinality(Test!Tracked) + 1
  BY <1>3, TrackedIsFinite, FS_AddElement
<1>6. Cardinality(Test!Tracked \ {h})
        = IF was THEN Cardinality(Test!Tracked) - 1 ELSE Cardinality(Test!Tracked)
  BY <1>3, TrackedIsFinite, FS_RemoveElement
<1>7. Cardinality(Test!Tracked') =
               IF is /\ ~ was THEN Cardinality(Test!Tracked) + 1
               ELSE IF was /\ ~ is THEN Cardinality(Test!Tracked) - 1
               ELSE Cardinality(Test!Tracked)
  BY <1>4, <1>5, <1>6
<1> QED BY <1>7 DEF was, is

LEMMA SameOwners ==
  ASSUME TestInv, UNCHANGED <<heap, owned>>
  PROVE  /\ owned' \in [Handle -> [ptr : Block \cup {NoBlock}, via : {"test", "libc"}]]
         /\ OneOwnerEach'
         /\ Test!Cardinality(Test!Tracked)' = Test!Cardinality(Test!Tracked)
BY DEF TestInv, OneOwnerEach, Test!Tracked

LEMMA CountsAre ==
  ASSUME NEW t, t \in Counts
  PROVE  /\ t.alloc \in Nat /\ t.realloc \in Nat /\ t.dealloc \in Nat
         /\ t.outstanding \in Nat /\ t.failed \in Nat
         /\ t.fail_after \in Nat \cup {NoFailure}
BY DEF Counts

Allocated(t, a, o) == [t EXCEPT !.alloc = a, !.outstanding = o]
Released(t, d, o) == [t EXCEPT !.dealloc = d, !.outstanding = o]

LEMMA CountsAllocated ==
  ASSUME NEW t, t \in Counts, NEW a \in Nat, NEW o \in Nat,
         NEW r, r = Allocated(t, a, o)
  PROVE  /\ r \in Counts /\ r.fail_after = t.fail_after
         /\ r.alloc = a /\ r.dealloc = t.dealloc /\ r.outstanding = o
BY DEF Counts, Allocated

LEMMA CountsReleased ==
  ASSUME NEW t, t \in Counts, NEW d \in Nat, NEW o \in Nat,
         NEW r, r = Released(t, d, o)
  PROVE  /\ r \in Counts /\ r.fail_after = t.fail_after
         /\ r.alloc = t.alloc /\ r.dealloc = d /\ r.outstanding = o
BY DEF Counts, Released

\* A countdown of one, here and in what is expected of it.
LEMMA CountsDown ==
  ASSUME TestInv, ~ Test!ShouldFail, Test!Allows
  PROVE  /\ allowed' \in [attempts : Nat, of : Nat \cup {NoFailure}]
         /\ Test!Passed(tracker) \in Counts
         /\ Test!Passed(tracker).outstanding = tracker.outstanding
         /\ Test!Passed(tracker).alloc = tracker.alloc
         /\ Test!Passed(tracker).dealloc = tracker.dealloc
         /\ Test!Passed(tracker).fail_after # NoFailure =>
              /\ allowed'.of # NoFailure
              /\ Test!Passed(tracker).fail_after = allowed'.of - allowed'.attempts
<1>1. tracker \in Counts /\ allowed \in [attempts : Nat, of : Nat \cup {NoFailure}]
      /\ (tracker.fail_after # NoFailure =>
            /\ allowed.of # NoFailure
            /\ tracker.fail_after = allowed.of - allowed.attempts)
  BY DEF TestInv
<1>2. tracker.fail_after # 0 /\ tracker.fail_after \in Nat \cup {NoFailure}
  BY <1>1, CountsAre DEF Test!ShouldFail
<1>3. allowed.attempts \in Nat /\ allowed.of \in Nat \cup {NoFailure}
  BY <1>1
<1>4. CASE tracker.fail_after = NoFailure
  <2>1. Test!Passed(tracker) = tracker
    BY <1>1, <1>4 DEF Test!Passed, Counts
  <2>2. allowed' \in [attempts : Nat, of : Nat \cup {NoFailure}]
    BY <1>1, <1>3 DEF Test!Allows
  <2> QED BY <1>1, <1>4, <2>1, <2>2
<1>5. CASE tracker.fail_after # NoFailure
  <2> DEFINE n == tracker.fail_after - 1
  <2>1. n \in Nat /\ allowed.of \in Nat /\ n = allowed.of - (allowed.attempts + 1)
    BY <1>1, <1>2, <1>3, <1>5
  <2>2. Test!Passed(tracker) = [tracker EXCEPT !.fail_after = n]
    BY <1>2, <1>5 DEF Test!Passed
  <2>3. allowed' = [allowed EXCEPT !.attempts = @ + 1]
    BY <1>1, <1>5 DEF Test!Allows
  <2> HIDE DEF n
  <2>4. /\ Test!Passed(tracker) \in Counts
        /\ Test!Passed(tracker).outstanding = tracker.outstanding
        /\ Test!Passed(tracker).alloc = tracker.alloc
        /\ Test!Passed(tracker).dealloc = tracker.dealloc
        /\ Test!Passed(tracker).fail_after = n
    BY <1>1, <2>1, <2>2 DEF Counts
  <2>5. /\ allowed' \in [attempts : Nat, of : Nat \cup {NoFailure}]
        /\ allowed'.of = allowed.of /\ allowed'.attempts = allowed.attempts + 1
    BY <1>1, <1>3, <2>3
  <2> QED BY <1>1, <1>5, <2>1, <2>4, <2>5
<1> QED BY <1>4, <1>5

\* An owner's call that let the attempt through: the counts move by d[1]
\* allocations and d[2] deallocations, owner h holds p.
LEMMA EventKeeps ==
  ASSUME TestInv, NEW h \in Handle, NEW p \in Block \cup {NoBlock}, Gets(h, p),
         p \notin heap \ {owned[h].ptr},
         tracker' \in Counts, UNCHANGED kept,
         tracker'.alloc - tracker'.dealloc - tracker'.outstanding
           = tracker.alloc - tracker.dealloc - tracker.outstanding,
         tracker'.outstanding =
           LET was == owned[h].via = "test" /\ owned[h].ptr # NoBlock
               is == owned[h].via = "test" /\ p # NoBlock
           IN  IF is /\ ~ was THEN tracker.outstanding + 1
               ELSE IF was /\ ~ is THEN tracker.outstanding - 1
               ELSE tracker.outstanding,
         allowed' \in [attempts : Nat, of : Nat \cup {NoFailure}],
         tracker'.fail_after # NoFailure =>
           /\ allowed'.of # NoFailure
           /\ tracker'.fail_after = allowed'.of - allowed'.attempts
  PROVE  TestInv'
<1>1. tracker.outstanding = Cardinality(Test!Tracked)
  BY SameCardinality DEF TestInv, Test!OutstandingIsExact
<1>2. tracker'.outstanding = Cardinality(Test!Tracked')
  BY <1>1, GetsTracked
<1>3. Test!OutstandingIsExact'
  BY <1>2, SameCardinality DEF Test!OutstandingIsExact
<1>4. Test!CountsBalance'
  <2>1. tracker \in Counts /\ kept \in Nat
        /\ tracker.alloc - tracker.dealloc = tracker.outstanding - kept
    BY DEF TestInv, Test!CountsBalance
  <2>2. /\ tracker.alloc \in Nat /\ tracker.dealloc \in Nat /\ tracker.outstanding \in Nat
        /\ tracker'.alloc \in Nat /\ tracker'.dealloc \in Nat /\ tracker'.outstanding \in Nat
    BY <2>1, CountsAre
  <2>3. tracker'.alloc - tracker'.dealloc = tracker'.outstanding - kept
    BY <2>1, <2>2
  <2> QED BY <2>3 DEF Test!CountsBalance
<1> QED BY <1>3, <1>4, GetsOwned DEF TestInv

LEMMA InitializeInv == TestInv /\ Test!Initialize => TestInv'
<1> SUFFICES ASSUME TestInv, Test!Initialize PROVE TestInv'
  OBVIOUS
<1>1. UNCHANGED <<heap, owned>> /\ Test!Tracked = {}
  BY DEF Test!Initialize
<1>2. Test!Cardinality(Test!Tracked)' = 0
  BY <1>1, SameOwners, SameCardinality, FS_EmptySet
<1>3. tracker' \in Counts /\ kept' = 0 /\ tracker'.alloc = 0 /\ tracker'.dealloc = 0
      /\ tracker'.outstanding = 0 /\ tracker'.fail_after = NoFailure
      /\ allowed' \in [attempts : Nat, of : Nat \cup {NoFailure}]
  BY DEF Test!Initialize, Test!Cleared, Counts
<1> QED BY <1>1, <1>2, <1>3, SameOwners
       DEF TestInv, Test!OutstandingIsExact, Test!CountsBalance

LEMMA SetFailAfterInv ==
  ASSUME TestInv, NEW n \in Countdowns, Test!SetFailAfter(n)
  PROVE  TestInv'
<1>1. UNCHANGED <<heap, owned, kept>> /\ tracker \in Counts
      /\ tracker' = [tracker EXCEPT !.fail_after = n]
      /\ allowed' = [attempts |-> 0, of |-> n]
  BY DEF Test!SetFailAfter, TestInv
<1>2. n \in Nat \cup {NoFailure}
  BY TestConstants
<1>3. /\ tracker' \in Counts /\ tracker'.fail_after = n
      /\ tracker'.alloc = tracker.alloc /\ tracker'.dealloc = tracker.dealloc
      /\ tracker'.outstanding = tracker.outstanding
  BY <1>1, <1>2 DEF Counts
<1>4. /\ allowed' \in [attempts : Nat, of : Nat \cup {NoFailure}]
      /\ (n # NoFailure => n = allowed'.of - allowed'.attempts /\ allowed'.of = n)
  BY <1>1, <1>2
<1>5. Test!OutstandingIsExact'
  BY <1>1, <1>3, SameOwners DEF TestInv, Test!OutstandingIsExact
<1>6. Test!CountsBalance'
  BY <1>1, <1>3 DEF TestInv, Test!CountsBalance
<1> QED BY <1>1, <1>3, <1>4, <1>5, <1>6, SameOwners DEF TestInv

LEMMA ResetCountsInv == TestInv /\ Test!ResetCounts => TestInv'
<1> SUFFICES ASSUME TestInv, Test!ResetCounts PROVE TestInv'
  OBVIOUS
<1>1. UNCHANGED <<heap, owned, allowed>> /\ tracker \in Counts
      /\ tracker' = [tracker EXCEPT !.alloc = 0, !.realloc = 0, !.dealloc = 0, !.failed = 0]
      /\ kept' = tracker.outstanding
  BY DEF Test!ResetCounts, TestInv
<1>2. /\ tracker' \in Counts /\ tracker'.fail_after = tracker.fail_after
      /\ tracker'.alloc = 0 /\ tracker'.dealloc = 0
      /\ tracker'.outstanding = tracker.outstanding
  BY <1>1 DEF Counts
<1>3. kept' \in Nat
  BY <1>1, CountsAre
<1>4. Test!OutstandingIsExact'
  BY <1>1, <1>2, SameOwners DEF TestInv, Test!OutstandingIsExact
<1>5. Test!CountsBalance'
  BY <1>1, <1>2, <1>3 DEF Test!CountsBalance
<1> QED BY <1>1, <1>2, <1>3, <1>4, <1>5, SameOwners DEF TestInv

\* A failure moves nothing but the count of failures and, when libc refused,
\* the countdown.
LEMMA FailureKeeps ==
  ASSUME TestInv, UNCHANGED <<heap, owned, kept>>, tracker' \in Counts,
         tracker'.alloc = tracker.alloc, tracker'.dealloc = tracker.dealloc,
         tracker'.outstanding = tracker.outstanding,
         allowed' \in [attempts : Nat, of : Nat \cup {NoFailure}],
         tracker'.fail_after # NoFailure =>
           /\ allowed'.of # NoFailure
           /\ tracker'.fail_after = allowed'.of - allowed'.attempts
  PROVE  TestInv'
<1>1. Test!OutstandingIsExact'
  BY SameOwners DEF TestInv, Test!OutstandingIsExact
<1>2. Test!CountsBalance'
  BY DEF TestInv, Test!CountsBalance
<1> QED BY <1>1, <1>2, SameOwners DEF TestInv

LEMMA FailsOnDemandInv ==
  ASSUME TestInv, NEW h \in Handle, Test!FailsOnDemand(h)
  PROVE  TestInv'
<1>1. UNCHANGED <<heap, owned, kept, allowed>> /\ tracker \in Counts
      /\ tracker' = [tracker EXCEPT !.failed = @ + 1]
  BY DEF Test!FailsOnDemand, TestInv
<1>2. /\ tracker' \in Counts /\ tracker'.fail_after = tracker.fail_after
      /\ tracker'.alloc = tracker.alloc /\ tracker'.dealloc = tracker.dealloc
      /\ tracker'.outstanding = tracker.outstanding
  BY <1>1 DEF Counts
<1>3. /\ allowed \in [attempts : Nat, of : Nat \cup {NoFailure}]
      /\ (tracker.fail_after # NoFailure =>
            /\ allowed.of # NoFailure
            /\ tracker.fail_after = allowed.of - allowed.attempts)
  BY DEF TestInv
<1> QED BY <1>1, <1>2, <1>3, FailureKeeps

LEMMA FailsInLibcInv ==
  ASSUME TestInv, NEW h \in Handle, Test!FailsInLibc(h)
  PROVE  TestInv'
<1>1. UNCHANGED <<heap, owned, kept>>
  BY DEF Test!FailsInLibc
<1>2. CASE owned[h].via = "test"
  <2>1. ~ Test!ShouldFail /\ Test!Allows
        /\ tracker' = [Test!Passed(tracker) EXCEPT !.failed = @ + 1]
    BY <1>2 DEF Test!FailsInLibc
  <2> DEFINE t == Test!Passed(tracker)
  <2>2. t \in Counts
    BY <2>1, CountsDown
  <2>3. tracker' = [t EXCEPT !.failed = @ + 1]
    BY <2>1
  <2> HIDE DEF t
  <2>4. /\ tracker' \in Counts /\ tracker'.fail_after = t.fail_after
        /\ tracker'.alloc = t.alloc /\ tracker'.dealloc = t.dealloc
        /\ tracker'.outstanding = t.outstanding
    BY <2>2, <2>3 DEF Counts
  <2>5. /\ allowed' \in [attempts : Nat, of : Nat \cup {NoFailure}]
        /\ t.outstanding = tracker.outstanding
        /\ t.alloc = tracker.alloc /\ t.dealloc = tracker.dealloc
        /\ (t.fail_after # NoFailure =>
              /\ allowed'.of # NoFailure
              /\ t.fail_after = allowed'.of - allowed'.attempts)
    BY <2>1, CountsDown DEF t
  <2> QED BY <1>1, <2>4, <2>5, FailureKeeps
<1>3. CASE owned[h].via # "test"
  <2>1. UNCHANGED <<tracker, allowed>>
    BY <1>3 DEF Test!FailsInLibc
  <2> QED BY <1>1, <2>1, FailureKeeps DEF TestInv
<1> QED BY <1>2, <1>3

\* A call of h that gets p and moves the counts from t, the tracker after its
\* countdown, is an event in the sense of EventKeeps.
LEMMA AllocTestInv ==
  ASSUME TestInv, NEW h \in Handle, Test!Alloc(h)
  PROVE  TestInv'
<1>1. PICK p \in Block \ heap :
        heap' = heap \cup {p} /\ owned' = [owned EXCEPT ![h].ptr = p]
  BY DEF Test!Alloc
<1>2. owned[h].ptr = NoBlock /\ UNCHANGED kept /\ NoBlock \notin heap /\ p # NoBlock
  BY TestConstants DEF Test!Alloc, TestInv, OneOwnerEach
<1>3. Gets(h, p) /\ p \notin heap \ {owned[h].ptr} /\ p \in Block \cup {NoBlock}
  BY <1>1, <1>2 DEF Gets
<1>4. CASE owned[h].via = "test"
  <2>1. ~ Test!ShouldFail /\ Test!Allows
        /\ tracker' = [Test!Passed(tracker) EXCEPT !.alloc = @ + 1, !.outstanding = @ + 1]
    BY <1>4 DEF Test!Alloc
  <2> DEFINE t == Test!Passed(tracker)
  <2>2. t \in Counts
    BY <2>1, CountsDown
  <2>3. tracker' = [t EXCEPT !.alloc = @ + 1, !.outstanding = @ + 1]
    BY <2>1
  <2> HIDE DEF t
  <2>4. /\ tracker' \in Counts /\ tracker'.fail_after = t.fail_after
        /\ tracker'.alloc = t.alloc + 1 /\ tracker'.dealloc = t.dealloc
        /\ tracker'.outstanding = t.outstanding + 1
    <3>1. tracker' = [t EXCEPT !.alloc = t.alloc + 1, !.outstanding = t.outstanding + 1]
      BY <2>3
    <3>2. PICK r : r = tracker'
      OBVIOUS
    <3>3. PICK a \in Nat, o \in Nat : a = t.alloc + 1 /\ o = t.outstanding + 1
      BY <2>2, CountsAre
    <3>4. r = Allocated(t, a, o)
      BY <3>1, <3>2, <3>3 DEF Allocated
    <3>5. /\ r \in Counts /\ r.fail_after = t.fail_after
          /\ r.alloc = a /\ r.dealloc = t.dealloc /\ r.outstanding = o
      BY <2>2, <3>4, CountsAllocated
    <3> QED BY <3>2, <3>3, <3>5
  <2>5. /\ allowed' \in [attempts : Nat, of : Nat \cup {NoFailure}]
        /\ t.outstanding = tracker.outstanding
        /\ t.alloc = tracker.alloc /\ t.dealloc = tracker.dealloc
        /\ (t.fail_after # NoFailure =>
              /\ allowed'.of # NoFailure
              /\ t.fail_after = allowed'.of - allowed'.attempts)
    BY <2>1, CountsDown DEF t
  <2>6. tracker.alloc \in Nat /\ tracker.dealloc \in Nat /\ tracker.outstanding \in Nat
    BY CountsAre DEF TestInv
  <2>7. tracker'.alloc - tracker'.dealloc - tracker'.outstanding
          = tracker.alloc - tracker.dealloc - tracker.outstanding
    BY <2>4, <2>5, <2>6
  <2> QED BY <1>2, <1>3, <1>4, <2>4, <2>5, <2>7, EventKeeps
<1>5. CASE owned[h].via # "test"
  <2>1. UNCHANGED <<tracker, allowed>>
    BY <1>5 DEF Test!Alloc
  <2> QED BY <1>2, <1>3, <1>5, <2>1, EventKeeps DEF TestInv
<1> QED BY <1>4, <1>5

LEMMA ResizeTestInv ==
  ASSUME TestInv, NEW h \in Handle, Test!Resize(h)
  PROVE  TestInv'
<1>1. PICK p \in {owned[h].ptr} \cup (Block \ heap) :
        heap' = (heap \ {owned[h].ptr}) \cup {p} /\ owned' = [owned EXCEPT ![h].ptr = p]
  BY DEF Test!Resize
<1>2. owned[h].ptr # NoBlock /\ UNCHANGED kept
      /\ owned[h].ptr \in Block \cup {NoBlock}
  BY DEF Test!Resize, TestInv
<1>3. p # NoBlock /\ p \in Block \cup {NoBlock}
  BY <1>1, <1>2, TestConstants
<1>4. Gets(h, p) /\ p \notin heap \ {owned[h].ptr}
  BY <1>1, <1>3 DEF Gets
<1>5. CASE owned[h].via = "test"
  <2>1. ~ Test!ShouldFail /\ Test!Allows
        /\ tracker' = [Test!Passed(tracker) EXCEPT !.realloc = @ + 1]
    BY <1>5 DEF Test!Resize
  <2> DEFINE t == Test!Passed(tracker)
  <2>2. t \in Counts
    BY <2>1, CountsDown
  <2>3. tracker' = [t EXCEPT !.realloc = @ + 1]
    BY <2>1
  <2> HIDE DEF t
  <2>4. /\ tracker' \in Counts /\ tracker'.fail_after = t.fail_after
        /\ tracker'.alloc = t.alloc /\ tracker'.dealloc = t.dealloc
        /\ tracker'.outstanding = t.outstanding
    BY <2>2, <2>3 DEF Counts
  <2>5. /\ allowed' \in [attempts : Nat, of : Nat \cup {NoFailure}]
        /\ t.outstanding = tracker.outstanding
        /\ t.alloc = tracker.alloc /\ t.dealloc = tracker.dealloc
        /\ (t.fail_after # NoFailure =>
              /\ allowed'.of # NoFailure
              /\ t.fail_after = allowed'.of - allowed'.attempts)
    BY <2>1, CountsDown DEF t
  <2> QED BY <1>2, <1>3, <1>4, <1>5, <2>4, <2>5, EventKeeps
<1>6. CASE owned[h].via # "test"
  <2>1. UNCHANGED <<tracker, allowed>>
    BY <1>6 DEF Test!Resize
  <2> QED BY <1>2, <1>3, <1>4, <1>6, <2>1, EventKeeps DEF TestInv
<1> QED BY <1>5, <1>6

LEMMA DeallocTestInv ==
  ASSUME TestInv, NEW h \in Handle, Test!Dealloc(h)
  PROVE  TestInv'
<1>1. heap' = heap \ {owned[h].ptr} /\ owned' = [owned EXCEPT ![h].ptr = NoBlock]
      /\ UNCHANGED <<kept, allowed>>
  BY DEF Test!Dealloc
<1>2. NoBlock \notin heap
  BY DEF TestInv, OneOwnerEach
<1>3. Gets(h, NoBlock) /\ NoBlock \notin heap \ {owned[h].ptr}
  BY <1>1, <1>2 DEF Gets
<1>4. tracker \in Counts /\ tracker.alloc \in Nat /\ tracker.dealloc \in Nat
      /\ tracker.outstanding \in Nat
  BY CountsAre DEF TestInv
<1>5. CASE owned[h].via = "test" /\ owned[h].ptr # NoBlock
  <2>1. h \in Test!Tracked
    BY <1>5 DEF Test!Tracked
  <2>2. tracker.outstanding = Cardinality(Test!Tracked) /\ Test!Tracked # {}
    BY <2>1, SameCardinality DEF TestInv, Test!OutstandingIsExact
  <2>3. tracker.outstanding > 0
    BY <1>4, <2>2, TrackedIsFinite, FS_EmptySet
  <2>4. tracker' = [tracker EXCEPT !.dealloc = @ + 1, !.outstanding = @ - 1]
    BY <1>5, <2>3 DEF Test!Dealloc
  <2>5. /\ tracker' \in Counts /\ tracker'.fail_after = tracker.fail_after
        /\ tracker'.alloc = tracker.alloc /\ tracker'.dealloc = tracker.dealloc + 1
        /\ tracker'.outstanding = tracker.outstanding - 1
    <3>1. tracker' = [tracker EXCEPT !.dealloc = tracker.dealloc + 1,
                                     !.outstanding = tracker.outstanding - 1]
      BY <2>4
    <3>2. tracker.dealloc + 1 \in Nat /\ tracker.outstanding - 1 \in Nat
      BY <1>4, <2>3
    <3>3. PICK d \in Nat, o \in Nat :
            d = tracker.dealloc + 1 /\ o = tracker.outstanding - 1
      BY <3>2
    <3>4. PICK r, t : r = tracker' /\ t = tracker
      OBVIOUS
    <3>5. r = Released(t, d, o) /\ t \in Counts
      BY <1>4, <3>1, <3>3, <3>4 DEF Released
    <3>6. /\ r \in Counts /\ r.fail_after = t.fail_after
          /\ r.alloc = t.alloc /\ r.dealloc = d /\ r.outstanding = o
      BY <3>5, CountsReleased
    <3> QED BY <3>3, <3>4, <3>6
  <2>6. tracker'.alloc - tracker'.dealloc - tracker'.outstanding
          = tracker.alloc - tracker.dealloc - tracker.outstanding
    BY <1>4, <2>5
  <2> QED BY <1>1, <1>3, <1>5, <2>5, <2>6, EventKeeps DEF TestInv
<1>6. CASE ~ (owned[h].via = "test" /\ owned[h].ptr # NoBlock)
  <2>1. UNCHANGED tracker
    BY <1>6 DEF Test!Dealloc
  <2> QED BY <1>1, <1>3, <1>6, <2>1, EventKeeps DEF TestInv
<1> QED BY <1>5, <1>6

LEMMA TestNextInv == TestInv /\ [Test!Next]_tVars => TestInv'
<1> SUFFICES ASSUME TestInv, [Test!Next]_tVars PROVE TestInv'
  OBVIOUS
<1>1. CASE Test!Initialize
  BY <1>1, InitializeInv
<1>2. CASE Test!ResetCounts
  BY <1>2, ResetCountsInv
<1>3. ASSUME NEW n \in Countdowns, Test!SetFailAfter(n) PROVE TestInv'
  BY <1>3, SetFailAfterInv
<1>4. ASSUME NEW h \in Handle, Test!FailsOnDemand(h) PROVE TestInv'
  BY <1>4, FailsOnDemandInv
<1>5. ASSUME NEW h \in Handle, Test!FailsInLibc(h) PROVE TestInv'
  BY <1>5, FailsInLibcInv
<1>6. ASSUME NEW h \in Handle, Test!Alloc(h) PROVE TestInv'
  BY <1>6, AllocTestInv
<1>7. ASSUME NEW h \in Handle, Test!Resize(h) PROVE TestInv'
  BY <1>7, ResizeTestInv
<1>8. ASSUME NEW h \in Handle, Test!Dealloc(h) PROVE TestInv'
  BY <1>8, DeallocTestInv
<1>9. CASE UNCHANGED tVars
  <2>1. UNCHANGED <<tracker, heap, owned, kept, allowed>>
    BY <1>9 DEF tVars
  <2> QED BY <2>1, FailureKeeps DEF TestInv
<1> QED BY <1>1, <1>2, <1>3, <1>4, <1>5, <1>6, <1>7, <1>8, <1>9 DEF Test!Next

\* For any owners, blocks and requested failures, and beside any use of the
\* arena: no path of the test allocator loses a block or frees one twice, its
\* counts agree with the live blocks and with each other, and failures begin
\* after exactly the attempts asked for.
THEOREM TrackerIsTrueAlways == AllocatorsSpec => []TrackerIsTrue
<1>1. AllocatorsInit => TestInv
  BY TestInitInv DEF AllocatorsInit
<1>2. TestInv /\ [UseArena \/ UseTest]_<<used, vars, tVars>> => TestInv'
  BY TestNextInv DEF UseArena, UseTest
<1>3. TestInv => TrackerIsTrue
  BY TestInvHolds
<1> QED BY <1>1, <1>2, <1>3, PTL DEF AllocatorsSpec

=============================================================================
