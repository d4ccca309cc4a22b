---------------------------- MODULE VectorProofs ----------------------------
(***************************************************************************)
(* The vector and the functions that collect into one, for every width of  *)
(* size_t, element size, capacities to begin with, sources and hints; the  *)
(* searches of a sorted vector of any length; and the binary heap, which   *)
(* keeps its elements in one, for every order of them with ties.           *)
(*                                                                         *)
(* Vector and collect use vectors of their own, so the lemmas are about    *)
(* what a vector v is and becomes, not about the variable of either.       *)
(***************************************************************************)
EXTENDS MCVector, MCOrdered, SequenceTheorems, FiniteSetTheorems,
        WellFoundedInduction, TLAPS

(***************************************************************************)
(* Checked arithmetic.                                                     *)
(***************************************************************************)
LEMMA Quotient ==
  ASSUME NEW x \in Nat, NEW n \in Nat \ {0}
  PROVE  x = n * (x \div n) + (x % n) /\ x \div n \in Nat /\ x % n \in 0 .. n - 1
OBVIOUS

LEMMA ProductGrows ==
  ASSUME NEW x \in Nat, NEW y \in Nat, NEW n \in Nat, x <= y
  PROVE  n * x <= n * y
<1>1. y = x + (y - x) /\ y - x \in Nat
  OBVIOUS
<1>2. n * y = n * x + n * (y - x)
  BY <1>1
<1>3. n * (y - x) \in Nat /\ n * x \in Nat
  BY <1>1
<1> QED BY <1>2, <1>3

\* k4c_size_mul_overflow says no: the product fits, whichever factor is first.
LEMMA MulFits ==
  ASSUME NEW x \in Nat, NEW n \in Nat \ {0}, ~ MulOverflows(x, n)
  PROVE  x * n <= SizeMax /\ n * x <= SizeMax /\ x <= SizeMax
<1>1. SizeMax \in Nat
  BY SizeMaxAssumption
<1>2. PICK q, s : q = SizeMax \div n /\ s = SizeMax
  OBVIOUS
<1>3. s = n * q + (s % n) /\ q \in Nat /\ s % n \in 0 .. n - 1 /\ s \in Nat
  BY <1>1, <1>2, Quotient
<1>4. x <= q
  BY <1>2, <1>3 DEF MulOverflows
<1>5. n * x <= n * q
  BY <1>3, <1>4, ProductGrows
<1>6. n * q \in Nat /\ n * x \in Nat /\ x * n = n * x
  BY <1>3
<1>7. n * x <= s
  BY <1>3, <1>5, <1>6
<1>8. x <= n * x
  <2>1. 1 * x <= n * x
    <3>1. x * 1 <= x * n
      BY ProductGrows
    <3> QED BY <3>1
  <2> QED BY <2>1
<1> QED BY <1>2, <1>3, <1>6, <1>7, <1>8

(***************************************************************************)
(* How a capacity grows.                                                   *)
(***************************************************************************)
LEMMA Least ==
  ASSUME NEW T, T \subseteq Nat, T # {}
  PROVE  \E m \in T : \A k \in T : m <= k
<1>1. PICK m \in T : \A k \in T : <<k, m>> \notin OpToRel(<, Nat)
  BY WFMin, NatLessThanWellFounded, Zenon
<1>2. m \in Nat /\ \A k \in T : k \in Nat
  OBVIOUS
<1>3. \A k \in T : ~ (k < m)
  BY <1>1, <1>2, Zenon DEF OpToRel
<1> QED BY <1>2, <1>3

Half(c) == IF c \div 2 = 0 THEN 1 ELSE c \div 2

\* One turn of the loop of k4c_vector_capacity_grow at c, given the rest.
Turn(f, c, least) ==
  IF c >= least THEN c
  ELSE IF AddOverflows(c, Half(c)) THEN least ELSE f[c + Half(c)]

Turns(f, n, least) == f = [c \in n .. SizeMax |-> Turn(f, c, least)]

\* The loop ends: there is a function that satisfies its recursion.
LEMMA LoopIsDefined ==
  ASSUME NEW least
  PROVE  \E f : Turns(f, 0, least)
<1>1. SizeMax \in Nat
  BY SizeMaxAssumption
<1> DEFINE T == {n \in 0 .. SizeMax + 1 : \E f : Turns(f, n, least)}
<1>2. SizeMax + 1 \in T
  <2>1. (SizeMax + 1) .. SizeMax = {}
    BY <1>1
  <2>2. Turns([c \in (SizeMax + 1) .. SizeMax |-> c], SizeMax + 1, least)
    BY <2>1 DEF Turns
  <2> QED BY <1>1, <2>2
<1>3. T \subseteq Nat
  OBVIOUS
<1>4. PICK m \in T : \A k \in T : m <= k
  BY <1>2, <1>3, Least
<1>5. m \in 0 .. SizeMax + 1 /\ \E f : Turns(f, m, least)
  OBVIOUS
<1>6. m - 1 \notin T
  BY <1>4, <1>5
<1>7. ASSUME m # 0
      PROVE  \E g : Turns(g, m - 1, least)
  <2>1. PICK f : Turns(f, m, least)
    BY <1>5
  <2>2. PICK g : g = [c \in m - 1 .. SizeMax |-> Turn(f, c, least)]
    OBVIOUS
  <2>3. m - 1 \in Nat /\ m - 1 <= SizeMax
    BY <1>1, <1>5, <1>7
  <2>4. \A c \in m .. SizeMax : c \in m - 1 .. SizeMax /\ g[c] = f[c]
    <3>1. \A c \in m .. SizeMax : c \in m - 1 .. SizeMax
      BY <1>1, <1>5, <2>3
    <3>2. \A c \in m .. SizeMax : f[c] = Turn(f, c, least)
      BY <2>1, Zenon DEF Turns
    <3>3. \A c \in m - 1 .. SizeMax : g[c] = Turn(f, c, least)
      BY <2>2, Zenon
    <3> QED BY <3>1, <3>2, <3>3
  <2>5. ASSUME NEW c \in m - 1 .. SizeMax
        PROVE  Turn(f, c, least) = Turn(g, c, least)
    <3>1. ~ AddOverflows(c, Half(c)) => c + Half(c) \in m .. SizeMax
      BY <1>1, <1>5, <2>3 DEF AddOverflows, Half
    <3> QED BY <2>4, <3>1 DEF Turn
  <2>6. Turns(g, m - 1, least)
    BY <2>2, <2>5 DEF Turns
  <2> QED BY <2>6
<1>8. m = 0
  <2>1. m # 0 => m - 1 \in 0 .. SizeMax + 1
    BY <1>1, <1>5
  <2> QED BY <1>6, <1>7, <2>1
<1> QED BY <1>5, <1>8

\* What a full vector grows to.
LEMMA GrowthIs ==
  ASSUME NEW c \in 1 .. SizeMax, c + 1 <= SizeMax
  PROVE  /\ CapacityGrow(c, c + 1) = IF AddOverflows(c, Half(c)) THEN c + 1 ELSE c + Half(c)
         /\ CapacityGrow(c, c + 1) \in c + 1 .. SizeMax
<1>1. SizeMax \in Nat
  BY SizeMaxAssumption
<1>2. PICK least : least = c + 1
  OBVIOUS
<1> DEFINE grown == CHOOSE f : f = [k \in 0 .. SizeMax |->
             IF k >= least THEN k
             ELSE IF AddOverflows(k, Half(k)) THEN least ELSE f[k + Half(k)]]
<1>3. CapacityGrow(c, least) = grown[c]
  BY DEF CapacityGrow, Half
<1>4. grown = [k \in 0 .. SizeMax |->
             IF k >= least THEN k
             ELSE IF AddOverflows(k, Half(k)) THEN least ELSE grown[k + Half(k)]]
  <2>1. \E f : f = [k \in 0 .. SizeMax |->
             IF k >= least THEN k
             ELSE IF AddOverflows(k, Half(k)) THEN least ELSE f[k + Half(k)]]
    BY LoopIsDefined DEF Turns, Turn
  <2> QED BY <2>1
<1> HIDE DEF grown
<1>5. \A k \in 0 .. SizeMax : grown[k] = Turn(grown, k, least)
  BY <1>4 DEF Turn
<1>6. c \in 0 .. SizeMax /\ ~ (c >= least) /\ Half(c) \in Nat \ {0}
  BY <1>1, <1>2 DEF Half
<1>7. ASSUME ~ AddOverflows(c, Half(c))
      PROVE  grown[c] = c + Half(c) /\ c + Half(c) \in c + 1 .. SizeMax
  <2>1. c + Half(c) \in c + 1 .. SizeMax
    BY <1>1, <1>6, <1>7 DEF AddOverflows
  <2>2. c + Half(c) \in 0 .. SizeMax /\ c + Half(c) >= least
    BY <1>1, <1>2, <2>1
  <2>3. grown[c + Half(c)] = c + Half(c)
    BY <1>5, <2>2 DEF Turn
  <2>4. grown[c] = grown[c + Half(c)]
    BY <1>5, <1>6, <1>7 DEF Turn
  <2> QED BY <2>1, <2>3, <2>4
<1>8. ASSUME AddOverflows(c, Half(c))
      PROVE  grown[c] = c + 1 /\ c + 1 \in c + 1 .. SizeMax
  BY <1>1, <1>2, <1>5, <1>6, <1>8 DEF Turn
<1> QED BY <1>2, <1>3, <1>7, <1>8
(***************************************************************************)
(* A vector by itself.                                                     *)
(***************************************************************************)
Shape(v) ==
  /\ v = [size |-> v.size, capacity |-> v.capacity, buffer |-> v.buffer, slots |-> v.slots]
  /\ v.capacity \in 1 .. SizeMax /\ v.size \in 0 .. v.capacity /\ v.buffer \in Buffers
  /\ v.slots \in [0 .. v.capacity - 1 -> Value \cup {Junk}]
  /\ \A i \in 0 .. v.size - 1 : v.slots[i] \in Value

LEMMA ShapeNumbers ==
  ASSUME NEW v, Shape(v)
  PROVE  /\ v.size \in Nat /\ v.capacity \in Nat /\ v.size <= v.capacity /\ v.capacity > 0
         /\ SizeMax \in Nat /\ v.capacity <= SizeMax
  BY SizeMaxAssumption DEF Shape

LEMMA NewShape ==
  ASSUME NEW capacity \in 1 .. SizeMax
  PROVE  /\ Shape(NewVector(capacity)) /\ Items(NewVector(capacity)) = << >>
         /\ NewVector(capacity).capacity = capacity /\ NewVector(capacity).size = 0
         /\ NewVector(capacity).buffer = "buffer A"
<1>1. PICK v, slots : /\ slots = [i \in 0 .. capacity - 1 |-> Junk]
                      /\ v = [size |-> 0, capacity |-> capacity, buffer |-> "buffer A",
                              slots |-> slots]
  OBVIOUS
<1>2. /\ v.size = 0 /\ v.capacity = capacity /\ v.buffer = "buffer A" /\ v.slots = slots
      /\ v = [size |-> v.size, capacity |-> v.capacity, buffer |-> v.buffer, slots |-> v.slots]
  BY <1>1
<1>3. v = NewVector(capacity)
  BY <1>1 DEF NewVector
<1>4. 1 .. 0 = {} /\ 0 .. 0 - 1 = {} /\ 0 \in 0 .. capacity
  BY SizeMaxAssumption
<1>5. slots \in [0 .. capacity - 1 -> Value \cup {Junk}]
  BY <1>1
<1>6. Items(v) = << >>
  <2>1. Items(v) = [i \in 1 .. 0 |-> slots[i - 1]]
    BY <1>2 DEF Items
  <2>2. [i \in 1 .. 0 |-> slots[i - 1]] = << >>
    BY <1>4
  <2> QED BY <2>1, <2>2
<1>7. Shape(v)
  BY <1>2, <1>4, <1>5 DEF Shape, Buffers
<1> QED BY <1>2, <1>3, <1>6, <1>7

\* The elements are a sequence of values.
LEMMA ItemsAre ==
  ASSUME NEW v, Shape(v)
  PROVE  /\ Items(v) \in Seq(Value) /\ Len(Items(v)) = v.size
         /\ \A i \in 1 .. v.size : Items(v)[i] = v.slots[i - 1] /\ Items(v)[i] \in Value
<1>1. v.size \in Nat
  BY ShapeNumbers
<1>2. \A i \in 1 .. v.size : i - 1 \in 0 .. v.size - 1
  BY <1>1
<1>3. \A i \in 1 .. v.size : Items(v)[i] = v.slots[i - 1] /\ Items(v)[i] \in Value
  BY <1>2 DEF Items, Shape
<1>4. Items(v) = [i \in 1 .. v.size |-> Items(v)[i]]
  BY DEF Items
<1>5. Items(v) \in [1 .. v.size -> Value]
  BY <1>3, <1>4
<1>6. Items(v) \in Seq(Value)
  BY <1>1, <1>5, SeqDef
<1> QED BY <1>1, <1>3, <1>5, <1>6, LenProperties

\* Two vectors with the same first slots have the same elements.
LEMMA SameItems ==
  ASSUME NEW v, NEW w, Shape(v), w.size = v.size,
         \A i \in 0 .. v.size - 1 : w.slots[i] = v.slots[i]
  PROVE  Items(w) = Items(v)
<1>1. \A i \in 1 .. v.size : i - 1 \in 0 .. v.size - 1
  BY ShapeNumbers
<1> QED BY <1>1 DEF Items

\* The vector v with a larger buffer buf.
Enlarged(v, capacity, buf) ==
  [v EXCEPT !.capacity = capacity, !.buffer = buf,
            !.slots = [i \in 0 .. capacity - 1 |->
                         IF i < v.capacity THEN v.slots[i] ELSE Junk]]

LEMMA EnlargedShape ==
  ASSUME NEW v, Shape(v), NEW capacity, capacity \in v.capacity .. SizeMax,
         NEW buf, buf \in Buffers, NEW w, w = Enlarged(v, capacity, buf)
  PROVE  /\ Shape(w) /\ w.size = v.size /\ w.capacity = capacity /\ w.buffer = buf
         /\ \A i \in 0 .. v.capacity - 1 : w.slots[i] = v.slots[i]
         /\ Items(w) = Items(v)
<1>1. /\ v.size \in Nat /\ v.capacity \in Nat /\ v.size <= v.capacity /\ v.capacity > 0
      /\ SizeMax \in Nat /\ capacity \in Nat /\ v.capacity <= capacity
  BY ShapeNumbers
<1>2. w = [size |-> v.size, capacity |-> capacity, buffer |-> buf,
           slots |-> [i \in 0 .. capacity - 1 |->
                        IF i < v.capacity THEN v.slots[i] ELSE Junk]]
  <2>1. v = [size |-> v.size, capacity |-> v.capacity, buffer |-> v.buffer,
             slots |-> v.slots]
    BY DEF Shape
  <2> QED BY <2>1 DEF Enlarged
<1>3. \A i \in 0 .. v.capacity - 1 : i \in 0 .. capacity - 1 /\ i < v.capacity
  BY <1>1
<1>4. \A i \in 0 .. v.capacity - 1 : w.slots[i] = v.slots[i]
  BY <1>2, <1>3
<1>5. \A i \in 0 .. v.size - 1 : i \in 0 .. v.capacity - 1
  BY <1>1
<1>6. Items(w) = Items(v)
  <2>1. w.size = v.size /\ \A i \in 0 .. v.size - 1 : w.slots[i] = v.slots[i]
    BY <1>2, <1>4, <1>5
  <2> QED BY <2>1, SameItems
<1>7. w.slots \in [0 .. capacity - 1 -> Value \cup {Junk}]
  <2>1. \A i \in 0 .. capacity - 1 : i < v.capacity => i \in 0 .. v.capacity - 1
    BY <1>1
  <2>2. \A i \in 0 .. v.capacity - 1 : v.slots[i] \in Value \cup {Junk}
    BY DEF Shape
  <2> QED BY <1>2, <2>1, <2>2
<1>8. \A i \in 0 .. w.size - 1 : w.slots[i] \in Value
  BY <1>2, <1>4, <1>5 DEF Shape
<1>9. w.capacity \in 1 .. SizeMax /\ w.size \in 0 .. w.capacity
  BY <1>1, <1>2
<1> QED BY <1>2, <1>4, <1>6, <1>7, <1>8, <1>9 DEF Shape

\* A push puts its element behind the others and touches no other slot.
LEMMA PushedShape ==
  ASSUME NEW v, Shape(v), v.size < v.capacity, NEW e, e \in Value, NEW w, w = Pushed(v, e)
  PROVE  /\ Shape(w) /\ w.size = v.size + 1 /\ w.capacity = v.capacity
         /\ w.buffer = v.buffer
         /\ \A i \in 0 .. v.capacity - 1 : i # v.size => w.slots[i] = v.slots[i]
         /\ Items(w) = Append(Items(v), e)
<1>1. /\ v.size \in Nat /\ v.capacity \in Nat /\ v.size \in 0 .. v.capacity - 1
      /\ \A i \in 0 .. v.size - 1 : i \in 0 .. v.capacity - 1 /\ i # v.size
  BY ShapeNumbers
<1>2. w = [size |-> v.size + 1, capacity |-> v.capacity, buffer |-> v.buffer,
           slots |-> [v.slots EXCEPT ![v.size] = e]]
  <2>1. v = [size |-> v.size, capacity |-> v.capacity, buffer |-> v.buffer,
             slots |-> v.slots]
    BY DEF Shape
  <2> QED BY <2>1 DEF Pushed
<1>3. v.slots \in [0 .. v.capacity - 1 -> Value \cup {Junk}]
  BY DEF Shape
<1>4. /\ w.slots[v.size] = e
      /\ \A i \in 0 .. v.capacity - 1 : i # v.size => w.slots[i] = v.slots[i]
      /\ w.slots \in [0 .. v.capacity - 1 -> Value \cup {Junk}]
  BY <1>1, <1>2, <1>3
<1>5. \A i \in 0 .. v.size : i = v.size \/ i \in 0 .. v.size - 1
  BY <1>1
<1>6. \A i \in 0 .. v.size : w.slots[i] \in Value
  BY <1>1, <1>4, <1>5 DEF Shape
<1>7. Shape(w)
  <2>1. /\ v.size + 1 - 1 = v.size /\ v.size + 1 \in 0 .. v.capacity
        /\ w.size = v.size + 1 /\ w.capacity = v.capacity /\ w.buffer = v.buffer
    BY <1>1, <1>2
  <2> QED BY <1>2, <1>4, <1>6, <2>1 DEF Shape
<1>8. Items(w) = Append(Items(v), e)
  <2>1. PICK s, n : s = Items(v) /\ n = v.size
    OBVIOUS
  <2>2. s \in Seq(Value) /\ Len(s) = n /\ n \in Nat
        /\ \A i \in 1 .. n : s[i] = v.slots[i - 1]
    BY <1>1, <2>1, ItemsAre
  <2>3. /\ Append(s, e) \in Seq(Value) /\ Len(Append(s, e)) = n + 1
        /\ \A i \in 1 .. n : Append(s, e)[i] = s[i]
        /\ Append(s, e)[n + 1] = e
    BY <2>2, AppendProperties
  <2>4. Items(w) = [i \in 1 .. n + 1 |-> w.slots[i - 1]]
    BY <1>2, <2>1 DEF Items
  <2>5. \A i \in 1 .. n + 1 : \/ i = n + 1 /\ i - 1 = v.size
                              \/ i \in 1 .. n /\ i - 1 \in 0 .. v.capacity - 1 /\ i - 1 # v.size
    BY <1>1, <2>1
  <2>6. \A i \in 1 .. n + 1 : w.slots[i - 1] = Append(s, e)[i]
    BY <1>4, <2>2, <2>3, <2>5
  <2>7. Append(s, e) = [i \in 1 .. n + 1 |-> Append(s, e)[i]]
    BY <2>3, LenProperties
  <2> QED BY <2>1, <2>4, <2>6, <2>7
<1>9. w.size = v.size + 1 /\ w.capacity = v.capacity /\ w.buffer = v.buffer
  BY <1>2
<1> QED BY <1>4, <1>7, <1>8, <1>9
LEMMA Prefix ==
  ASSUME NEW S, NEW s, NEW k \in Nat, \A i \in 1 .. k : s[i] \in S
  PROVE  SubSeq(s, 1, k) = [i \in 1 .. k |-> s[i]]
<1>1. PICK t : t = SubSeq(s, 1, k)
  OBVIOUS
<1>2. /\ t \in Seq(S) /\ Len(t) = (IF 1 <= k THEN k - 1 + 1 ELSE 0)
      /\ \A i \in 1 .. k - 1 + 1 : t[i] = s[1 + i - 1]
  BY <1>1, SubSeqProperties
<1>3. Len(t) = k /\ \A i \in 1 .. k : i \in 1 .. k - 1 + 1 /\ 1 + i - 1 = i
  BY <1>2
<1>4. \A i \in 1 .. k : t[i] = s[i]
  BY <1>2, <1>3
<1>5. t = [i \in 1 .. k |-> t[i]]
  BY <1>2, <1>3, LenProperties
<1> QED BY <1>1, <1>4, <1>5

\* The last element is moved into slot i, and dropped from its own place.  For
\* the last slot that is a pop.
Shrunk(v, i) == [v EXCEPT !.slots[i] = v.slots[v.size - 1], !.size = @ - 1]

LEMMA ShrunkShape ==
  ASSUME NEW v, Shape(v), NEW i \in 0 .. v.size - 1, NEW w, w = Shrunk(v, i)
  PROVE  /\ Shape(w) /\ w.size = v.size - 1 /\ w.capacity = v.capacity
         /\ w.buffer = v.buffer
         /\ i + 1 \in DOMAIN Items(v)
         /\ Items(w) = Contract!Front([Items(v) EXCEPT ![i + 1] = Items(v)[Len(Items(v))]])
<1>1. /\ v.size \in Nat /\ v.capacity \in Nat /\ v.size - 1 \in Nat
      /\ v.size <= v.capacity
      /\ i \in 0 .. v.capacity - 1 /\ v.size - 1 \in 0 .. v.size - 1
      /\ v.size - 1 \in 0 .. v.capacity - 1
      /\ \A k \in 0 .. v.size - 2 : k \in 0 .. v.size - 1 /\ k \in 0 .. v.capacity - 1
  BY ShapeNumbers
<1>2. PICK e : e = v.slots[v.size - 1]
  OBVIOUS
<1>3. w = [size |-> v.size - 1, capacity |-> v.capacity, buffer |-> v.buffer,
           slots |-> [v.slots EXCEPT ![i] = e]]
  <2>1. v = [size |-> v.size, capacity |-> v.capacity, buffer |-> v.buffer,
             slots |-> v.slots]
    BY DEF Shape
  <2> QED BY <1>2, <2>1 DEF Shrunk
<1>4. /\ v.slots \in [0 .. v.capacity - 1 -> Value \cup {Junk}] /\ e \in Value
      /\ \A k \in 0 .. v.size - 1 : v.slots[k] \in Value
  BY <1>1, <1>2 DEF Shape
<1>5. /\ w.slots \in [0 .. v.capacity - 1 -> Value \cup {Junk}]
      /\ \A k \in 0 .. v.capacity - 1 : w.slots[k] = IF k = i THEN e ELSE v.slots[k]
  BY <1>1, <1>3, <1>4
<1>6. w.size = v.size - 1 /\ w.capacity = v.capacity /\ w.buffer = v.buffer
  BY <1>3
<1>7. Shape(w)
  <2>1. \A k \in 0 .. w.size - 1 : w.slots[k] \in Value
    <3>1. \A k \in 0 .. w.size - 1 : k \in 0 .. v.size - 1 /\ k \in 0 .. v.capacity - 1
      BY <1>1, <1>6
    <3> QED BY <1>4, <1>5, <3>1
  <2>2. w.capacity \in 1 .. SizeMax /\ w.size \in 0 .. w.capacity /\ w.buffer \in Buffers
    BY <1>1, <1>6 DEF Shape
  <2> QED BY <1>3, <1>5, <1>6, <2>1, <2>2 DEF Shape
<1>8. PICK s, n : s = Items(v) /\ n = v.size
  OBVIOUS
<1>9. /\ s \in Seq(Value) /\ Len(s) = n /\ n \in Nat /\ n - 1 \in Nat /\ i + 1 \in 1 .. n
      /\ n \in 1 .. n
      /\ \A k \in 1 .. n : s[k] = v.slots[k - 1] /\ s[k] \in Value
  BY <1>1, <1>8, ItemsAre
<1>10. s[n] = e
  BY <1>2, <1>8, <1>9
<1>11. PICK t : t = [s EXCEPT ![i + 1] = e]
  OBVIOUS
<1>12. t \in Seq(Value) /\ Len(t) = n /\ \A k \in 1 .. n : t[k] = IF k = i + 1 THEN e ELSE s[k]
  BY <1>4, <1>9, <1>11, ExceptSeq
<1>13. Items(w) = [k \in 1 .. n - 1 |-> w.slots[k - 1]]
  BY <1>6, <1>8 DEF Items
<1>14. \A k \in 1 .. n - 1 : w.slots[k - 1] = t[k] /\ t[k] \in Value
  <2> SUFFICES ASSUME NEW k \in 1 .. n - 1
               PROVE  w.slots[k - 1] = t[k] /\ t[k] \in Value
    OBVIOUS
  <2>1. k \in 1 .. n /\ k - 1 \in 0 .. v.capacity - 1 /\ (k - 1 = i <=> k = i + 1)
    BY <1>1, <1>8, <1>9
  <2>2. w.slots[k - 1] = IF k = i + 1 THEN e ELSE v.slots[k - 1]
    BY <1>5, <2>1
  <2>3. s[k] = v.slots[k - 1] /\ s[k] \in Value
    BY <1>9, <2>1
  <2>4. t[k] = IF k = i + 1 THEN e ELSE s[k]
    BY <1>12, <2>1
  <2> QED BY <1>4, <2>2, <2>3, <2>4
<1>15. SubSeq(t, 1, n - 1) = [k \in 1 .. n - 1 |-> t[k]]
  BY <1>9, <1>14, Prefix
<1>16. Contract!Front(t) = SubSeq(t, 1, n - 1)
  BY <1>12 DEF Contract!Front
<1>17. Items(w) = Contract!Front(t)
  BY <1>13, <1>14, <1>15, <1>16
<1>18. t = [Items(v) EXCEPT ![i + 1] = Items(v)[Len(Items(v))]]
  BY <1>8, <1>9, <1>10, <1>11
<1>19. i + 1 \in DOMAIN Items(v)
  BY <1>8, <1>9, LenProperties
<1> QED BY <1>6, <1>7, <1>17, <1>18, <1>19

\* A pop leaves all slots as they are.
LEMMA PoppedShape ==
  ASSUME NEW v, Shape(v), v.size > 0, NEW w, w = [v EXCEPT !.size = @ - 1]
  PROVE  /\ Shape(w) /\ w.size = v.size - 1 /\ w.capacity = v.capacity
         /\ w.buffer = v.buffer /\ w.slots = v.slots
         /\ Items(v) # << >> /\ Items(w) = Contract!Front(Items(v))
<1>1. /\ v.size \in Nat /\ v.capacity \in Nat /\ v.size - 1 \in Nat
      /\ v.size <= v.capacity
  BY ShapeNumbers
<1>2. w = [size |-> v.size - 1, capacity |-> v.capacity, buffer |-> v.buffer,
           slots |-> v.slots]
  <2>1. v = [size |-> v.size, capacity |-> v.capacity, buffer |-> v.buffer,
             slots |-> v.slots]
    BY DEF Shape
  <2> QED BY <2>1
<1>3. w.size = v.size - 1 /\ w.capacity = v.capacity /\ w.buffer = v.buffer
      /\ w.slots = v.slots
  BY <1>2
<1>4. Shape(w)
  <2>1. \A k \in 0 .. w.size - 1 : w.slots[k] \in Value
    <3>1. \A k \in 0 .. w.size - 1 : k \in 0 .. v.size - 1
      BY <1>1, <1>3
    <3> QED BY <1>3, <3>1 DEF Shape
  <2>2. w.capacity \in 1 .. SizeMax /\ w.size \in 0 .. w.capacity /\ w.buffer \in Buffers
    BY <1>1, <1>3 DEF Shape
  <2> QED BY <1>2, <1>3, <2>1, <2>2 DEF Shape
<1>5. PICK s, n : s = Items(v) /\ n = v.size
  OBVIOUS
<1>6. /\ s \in Seq(Value) /\ Len(s) = n /\ n \in Nat /\ n - 1 \in Nat /\ n > 0
      /\ \A k \in 1 .. n : s[k] = v.slots[k - 1] /\ s[k] \in Value
  BY <1>1, <1>5, ItemsAre
<1>7. Items(w) = [k \in 1 .. n - 1 |-> v.slots[k - 1]]
  BY <1>3, <1>5 DEF Items
<1>8. \A k \in 1 .. n - 1 : v.slots[k - 1] = s[k] /\ s[k] \in Value
  <2>1. \A k \in 1 .. n - 1 : k \in 1 .. n
    BY <1>6
  <2> QED BY <1>6, <2>1
<1>9. SubSeq(s, 1, n - 1) = [k \in 1 .. n - 1 |-> s[k]]
  BY <1>6, <1>8, Prefix
<1>10. Items(w) = Contract!Front(s)
  BY <1>6, <1>7, <1>8, <1>9 DEF Contract!Front
<1>11. s # << >>
  BY <1>6
<1> QED BY <1>3, <1>4, <1>5, <1>10, <1>11
(***************************************************************************)
(* Growing and pushing.                                                    *)
(***************************************************************************)
GrownTo(v, capacity) ==
  IF capacity > v.capacity
  THEN {Enlarged(v, capacity, buf) : buf \in {v.buffer, Fresh(v.buffer)}}
  ELSE {v}

WantedBy(v) ==
  IF v.size = v.capacity THEN CapacityGrow(v.capacity, v.size + 1) ELSE v.capacity

LEMMA GrownShape ==
  ASSUME NEW v, Shape(v), NEW capacity, capacity \in 1 .. SizeMax,
         NEW w, w \in GrownTo(v, capacity)
  PROVE  /\ Shape(w) /\ w.size = v.size /\ Items(w) = Items(v)
         /\ w.capacity = (IF capacity > v.capacity THEN capacity ELSE v.capacity)
         /\ \A i \in 0 .. v.capacity - 1 : w.slots[i] = v.slots[i]
         /\ ~ (capacity > v.capacity) => w = v
<1>1. CASE capacity > v.capacity
  <2>1. v.buffer \in Buffers /\ Fresh(v.buffer) \in Buffers
    BY DEF Shape, Buffers, Fresh
  <2>2. PICK buf \in Buffers : w = Enlarged(v, capacity, buf)
    BY <1>1, <2>1 DEF GrownTo
  <2>3. capacity \in v.capacity .. SizeMax
    BY <1>1, ShapeNumbers
  <2>4. /\ Shape(w) /\ w.size = v.size /\ w.capacity = capacity /\ w.buffer = buf
        /\ \A i \in 0 .. v.capacity - 1 : w.slots[i] = v.slots[i]
        /\ Items(w) = Items(v)
    BY <2>2, <2>3, EnlargedShape
  <2> QED BY <1>1, <2>4
<1>2. CASE ~ (capacity > v.capacity)
  <2>1. w = v
    BY <1>2 DEF GrownTo
  <2> QED BY <1>2, <2>1
<1> QED BY <1>1, <1>2

LEMMA WantedIs ==
  ASSUME NEW v, Shape(v), v.size = v.capacity => ~ AddOverflows(v.size, 1)
  PROVE  /\ WantedBy(v) \in 1 .. SizeMax
         /\ WantedBy(v) >= v.capacity /\ v.size < WantedBy(v)
         /\ v.size < v.capacity => WantedBy(v) = v.capacity
         /\ v.size = v.capacity =>
              /\ WantedBy(v) > v.capacity
              /\ WantedBy(v) = (IF AddOverflows(v.capacity, Half(v.capacity))
                                THEN v.capacity + 1 ELSE v.capacity + Half(v.capacity))
<1>1. /\ v.size \in Nat /\ v.capacity \in Nat /\ v.size <= v.capacity /\ v.capacity > 0
      /\ SizeMax \in Nat /\ v.capacity <= SizeMax
  BY ShapeNumbers
<1>2. CASE v.size < v.capacity
  <2>1. WantedBy(v) = v.capacity
    BY <1>1, <1>2 DEF WantedBy
  <2> QED BY <1>1, <1>2, <2>1
<1>3. CASE v.size = v.capacity
  <2>1. PICK c : c = v.capacity
    OBVIOUS
  <2>2. c \in 1 .. SizeMax /\ c + 1 <= SizeMax
    BY <1>1, <1>3, <2>1 DEF AddOverflows
  <2>3. /\ CapacityGrow(c, c + 1) = IF AddOverflows(c, Half(c)) THEN c + 1 ELSE c + Half(c)
        /\ CapacityGrow(c, c + 1) \in c + 1 .. SizeMax
    BY <2>2, GrowthIs
  <2>4. WantedBy(v) = CapacityGrow(c, c + 1) /\ v.size = c
    BY <1>3, <2>1 DEF WantedBy
  <2>5. WantedBy(v) \in 1 .. SizeMax /\ WantedBy(v) > c
    BY <2>2, <2>3, <2>4
  <2> QED BY <1>1, <2>1, <2>3, <2>4, <2>5
<1> QED BY <1>1, <1>2, <1>3

\* A push, with the growth it may need.
LEMMA PushShape ==
  ASSUME NEW v, Shape(v), v.size = v.capacity => ~ AddOverflows(v.size, 1),
         NEW w, w \in GrownTo(v, WantedBy(v)), NEW e, e \in Value,
         NEW x, x = Pushed(w, e)
  PROVE  /\ Shape(x) /\ x.size = v.size + 1 /\ x.buffer = w.buffer
         /\ x.capacity = WantedBy(v) /\ Items(x) = Append(Items(v), e)
         /\ v.size < v.capacity =>
              /\ x.buffer = v.buffer /\ x.capacity = v.capacity /\ w = v
              /\ \A i \in 0 .. v.capacity - 1 : i # v.size => x.slots[i] = v.slots[i]
<1>1. PICK c : c = WantedBy(v)
  OBVIOUS
<1>2. /\ c \in 1 .. SizeMax /\ c >= v.capacity /\ v.size < c
      /\ v.size < v.capacity => c = v.capacity
  BY <1>1, WantedIs
<1>3. /\ v.capacity \in Nat /\ v.size \in Nat /\ v.size <= v.capacity /\ c \in Nat
  BY <1>2, ShapeNumbers
<1>4. /\ Shape(w) /\ w.size = v.size /\ Items(w) = Items(v)
      /\ w.capacity = (IF c > v.capacity THEN c ELSE v.capacity)
      /\ \A i \in 0 .. v.capacity - 1 : w.slots[i] = v.slots[i]
      /\ ~ (c > v.capacity) => w = v
  BY <1>1, <1>2, GrownShape
<1>5. w.capacity = c /\ w.size < w.capacity
  BY <1>2, <1>3, <1>4
<1>6. /\ Shape(x) /\ x.size = w.size + 1 /\ x.capacity = w.capacity
      /\ x.buffer = w.buffer
      /\ \A i \in 0 .. w.capacity - 1 : i # w.size => x.slots[i] = w.slots[i]
      /\ Items(x) = Append(Items(w), e)
  BY <1>4, <1>5, PushedShape
<1>7. v.size < v.capacity => w = v
  BY <1>2, <1>3, <1>4
<1> QED BY <1>1, <1>2, <1>4, <1>5, <1>6, <1>7

(***************************************************************************)
(* The vector's inductive invariant.                                       *)
(***************************************************************************)
RefHolds(r, v) ==
  r.on => /\ r.buffer = v.buffer /\ r.index \in 0 .. v.capacity - 1
          /\ v.slots[r.index] = r.value

IterHolds(it, v) ==
  /\ it = [on |-> it.on, cursor |-> it.cursor, remaining |-> it.remaining,
           hint |-> it.hint, given |-> it.given]
  /\ it.on => /\ it.cursor \in 0 .. v.size /\ it.remaining = v.size - it.cursor
              /\ it.hint = it.remaining
              /\ it.given = [i \in 1 .. it.cursor |-> v.slots[i - 1]]

Inv ==
  /\ Shape(vec)
  /\ held = {} \/ held = {"vector", vec.buffer}
  /\ held # {} => vec.capacity * ElemSize <= SizeMax
  /\ RefHolds(ref, vec) /\ IterHolds(iter, vec)
  /\ ~ Exists => ~ ref.on /\ ~ iter.on

LEMMA NoneHold == \A v : RefHolds(NoRef, v) /\ IterHolds(NoIter, v)
  BY DEF RefHolds, IterHolds, NoRef, NoIter

LEMMA InitHasInv == Init => Inv
<1> SUFFICES ASSUME Init PROVE Inv
  OBVIOUS
<1>1. 1 \in 1 .. SizeMax
  BY SizeMaxAssumption
<1>2. Shape(vec)
  BY <1>1, NewShape DEF Init
<1>3. ref.on = FALSE /\ iter.on = FALSE
  BY DEF Init, NoRef, NoIter
<1> QED BY <1>2, <1>3, NoneHold DEF Init, Inv

\* The operations that reserve.
LEMMA HeldAfter ==
  ASSUME Inv, Exists, NEW v
  PROVE  /\ held = {"vector", vec.buffer} /\ HeldWith(v) = {"vector", v.buffer}
         /\ vec.capacity * ElemSize <= SizeMax
<1>1. vec.buffer # "vector"
  BY DEF Inv, Shape, Buffers
<1>2. held = {"vector", vec.buffer}
  BY DEF Inv, Exists
<1> QED BY <1>1, <1>2 DEF Inv, HeldWith

LEMMA RoomAfter ==
  ASSUME Inv, Exists, NEW c, c \in 1 .. SizeMax, Fits(c), c >= vec.capacity
  PROVE  c * ElemSize <= SizeMax
<1>1. CASE c <= vec.capacity
  <2>1. c = vec.capacity
    BY <1>1, ShapeNumbers DEF Inv
  <2> QED BY <2>1, HeldAfter
<1>2. CASE ~ MulOverflows(c, ElemSize)
  BY <1>2, MulFits, ElemSizeAssumption, SizeMaxAssumption
<1> QED BY <1>1, <1>2 DEF Fits

LEMMA PushKeepsInv ==
  ASSUME Inv, Exists, CanPush, NEW w, w \in AfterReserve(Wanted), NEW e, e \in Value,
         vec' = Pushed(w, e), held' = HeldWith(w),
         ref' = IF ref.index = vec.size THEN NoRef ELSE RefAfterReserve(Wanted),
         iter' = NoIter
  PROVE  Inv' /\ Items(vec') = Append(Items(vec), e)
<1>1. PICK v, x : v = vec /\ x = vec'
  OBVIOUS
<1>2. /\ Shape(v) /\ (v.size = v.capacity => ~ AddOverflows(v.size, 1))
      /\ w \in GrownTo(v, WantedBy(v)) /\ x = Pushed(w, e) /\ Wanted = WantedBy(v)
  BY <1>1 DEF Inv, CanPush, Wanted, WantedBy, AfterReserve, GrownTo, NeedsResize, Resized,
              Enlarged
<1>3. /\ Shape(x) /\ x.size = v.size + 1 /\ x.buffer = w.buffer
      /\ x.capacity = WantedBy(v) /\ Items(x) = Append(Items(v), e)
      /\ v.size < v.capacity =>
           /\ x.buffer = v.buffer /\ x.capacity = v.capacity /\ w = v
           /\ \A i \in 0 .. v.capacity - 1 : i # v.size => x.slots[i] = v.slots[i]
  BY <1>2, PushShape
<1>4. /\ WantedBy(v) \in 1 .. SizeMax /\ WantedBy(v) >= v.capacity
      /\ v.size = v.capacity => WantedBy(v) > v.capacity
  BY <1>2, WantedIs
<1>5. v.size \in Nat /\ v.capacity \in Nat /\ v.size <= v.capacity
  BY <1>2, ShapeNumbers
<1>6. held' = {"vector", x.buffer}
  BY <1>3, HeldAfter
<1>7. x.capacity * ElemSize <= SizeMax
  <2>1. CASE v.size = v.capacity
    <3>1. Fits(Wanted)
      BY <1>1, <2>1 DEF CanPush
    <3> QED BY <1>1, <1>2, <1>3, <1>4, <3>1, RoomAfter
  <2>2. CASE v.size < v.capacity
    BY <1>1, <1>3, <2>2, HeldAfter
  <2> QED BY <1>5, <2>1, <2>2
<1>8. RefHolds(ref', x)
  <2>1. CASE ref' = NoRef
    BY <2>1, NoneHold
  <2>2. CASE ref' # NoRef
    <3>1. ref' = ref /\ ref.index # v.size /\ ~ (WantedBy(v) > v.capacity)
      BY <1>1, <1>2, <2>2 DEF RefAfterReserve, NeedsResize
    <3>2. v.size < v.capacity
      BY <1>4, <1>5, <3>1
    <3>3. RefHolds(ref, v)
      BY <1>1 DEF Inv
    <3> QED BY <1>3, <3>1, <3>2, <3>3 DEF RefHolds
  <2> QED BY <2>1, <2>2
<1>9. "vector" \in held'
  BY <1>6
<1> QED BY <1>1, <1>3, <1>6, <1>7, <1>8, <1>9, NoneHold DEF Inv, Exists
LEMMA ReserveKeepsInv ==
  ASSUME Inv, NEW c \in Capacities, Reserve(c)
  PROVE  Inv' /\ Items(vec') = Items(vec)
<1>1. PICK v, x : v = vec /\ x = vec'
  OBVIOUS
<1>2. c \in 1 .. SizeMax
  BY CapacitiesAssumption
<1>3. Exists /\ Fits(c) /\ x \in AfterReserve(c) /\ held' = HeldWith(x)
      /\ ref' = RefAfterReserve(c) /\ iter' = NoIter
  BY <1>1 DEF Reserve
<1>4. Shape(v) /\ x \in GrownTo(v, c)
  BY <1>1, <1>3 DEF Inv, AfterReserve, GrownTo, NeedsResize, Resized, Enlarged
<1>5. /\ Shape(x) /\ x.size = v.size /\ Items(x) = Items(v)
      /\ x.capacity = (IF c > v.capacity THEN c ELSE v.capacity)
      /\ \A i \in 0 .. v.capacity - 1 : x.slots[i] = v.slots[i]
      /\ ~ (c > v.capacity) => x = v
  BY <1>2, <1>4, GrownShape
<1>6. held' = {"vector", x.buffer} /\ held = {"vector", v.buffer}
      /\ v.capacity * ElemSize <= SizeMax
  BY <1>1, <1>3, HeldAfter
<1>7. x.capacity * ElemSize <= SizeMax
  <2>1. CASE c > v.capacity
    <3>1. c >= vec.capacity
      BY <1>1, <1>2, <1>4, <2>1, ShapeNumbers
    <3> QED BY <1>2, <1>3, <1>5, <2>1, <3>1, RoomAfter
  <2>2. CASE ~ (c > v.capacity)
    BY <1>5, <1>6, <2>2
  <2> QED BY <2>1, <2>2
<1>8. RefHolds(ref', x)
  <2>1. CASE c > v.capacity
    BY <1>1, <1>3, <2>1, NoneHold DEF RefAfterReserve, NeedsResize
  <2>2. CASE ~ (c > v.capacity)
    <3>1. ref' = ref /\ x = v
      BY <1>1, <1>3, <1>5, <2>2 DEF RefAfterReserve, NeedsResize
    <3> QED BY <1>1, <3>1 DEF Inv
  <2> QED BY <2>1, <2>2
<1>9. "vector" \in held'
  BY <1>6
<1> QED BY <1>1, <1>3, <1>5, <1>6, <1>7, <1>8, <1>9, NoneHold DEF Inv, Exists

\* Creating and destroying.
LEMMA MakeKeepsInv ==
  ASSUME Inv, CreateFails \/ Destroy \/ \E c \in Capacities : Create(c)
  PROVE  Inv' /\ (Items(vec') = Items(vec) \/ Items(vec') = << >>)
<1>1. CASE CreateFails
  <2>1. held = {}
    BY <1>1 DEF CreateFails, Inv, Exists
  <2>2. held' = {} /\ UNCHANGED <<vec, ref, iter>>
    BY <1>1, <2>1 DEF CreateFails
  <2> QED BY <2>1, <2>2 DEF Inv, Exists
<1>2. CASE Destroy
  <2>1. held = {"vector", vec.buffer}
    BY <1>2 DEF Destroy, Inv, Exists
  <2>2. held' = {} /\ vec' = NewVector(1) /\ ref' = NoRef /\ iter' = NoIter
    BY <1>2, <2>1 DEF Destroy
  <2>3. 1 \in 1 .. SizeMax
    BY SizeMaxAssumption
  <2>4. Shape(vec') /\ Items(vec') = << >>
    BY <2>2, <2>3, NewShape
  <2>5. NoRef.on = FALSE /\ NoIter.on = FALSE
    BY DEF NoRef, NoIter
  <2> QED BY <2>2, <2>4, <2>5, NoneHold DEF Inv, Exists
<1>3. ASSUME NEW c \in Capacities, Create(c)
      PROVE  Inv' /\ Items(vec') = << >>
  <2>1. c \in 1 .. SizeMax /\ c \in Nat \ {0}
    BY CapacitiesAssumption, SizeMaxAssumption
  <2>2. /\ ~ Exists /\ vec' = NewVector(c) /\ held' = {"vector", vec'.buffer}
        /\ ref' = ref /\ iter' = iter /\ ~ MulOverflows(ElemSize, c)
    BY <1>3 DEF Create
  <2>3. Shape(vec') /\ Items(vec') = << >> /\ vec'.capacity = c
    BY <2>1, <2>2, NewShape
  <2>4. c * ElemSize <= SizeMax
    BY <2>1, <2>2, MulFits, ElemSizeAssumption
  <2>5. ~ ref.on /\ ~ iter.on
    BY <2>2 DEF Inv
  <2>6. RefHolds(ref, vec') /\ IterHolds(iter, vec')
    BY <2>5 DEF Inv, RefHolds, IterHolds
  <2>7. "vector" \in held'
    BY <2>2
  <2> QED BY <2>2, <2>3, <2>4, <2>6, <2>7 DEF Inv, Exists
<1> QED BY <1>1, <1>2, <1>3 DEF CreateFails

\* Dropping an element.
LEMMA PointHolds ==
  ASSUME NEW v, Shape(v), NEW i \in 0 .. v.capacity - 1
  PROVE  RefHolds(PointTo(v, i), v)
BY DEF RefHolds, PointTo

LEMMA DropKeepsInv ==
  ASSUME Inv, Exists, NEW i, NEW x, vec' = x, Shape(x), i \in 0 .. x.capacity - 1,
         x.capacity = vec.capacity, x.buffer = vec.buffer,
         ref' = PointTo(x, i), iter' = NoIter, held' = held
  PROVE  Inv'
<1>1. RefHolds(ref', x)
  BY PointHolds
<1> QED BY <1>1, NoneHold DEF Inv, Exists

LEMMA PopKeepsInv ==
  ASSUME Inv, Pop
  PROVE  /\ Inv'
         /\ Items(vec) # << >> /\ Items(vec') = Contract!Front(Items(vec))
<1>1. PICK v, x : v = vec /\ x = vec'
  OBVIOUS
<1>2. /\ Exists /\ v.size > 0 /\ x = [v EXCEPT !.size = @ - 1]
      /\ ref' = PointTo(v, v.size - 1) /\ iter' = NoIter /\ held' = held /\ Shape(v)
  BY <1>1 DEF Pop, Inv
<1>3. /\ Shape(x) /\ x.size = v.size - 1 /\ x.capacity = v.capacity
      /\ x.buffer = v.buffer /\ x.slots = v.slots
      /\ Items(v) # << >> /\ Items(x) = Contract!Front(Items(v))
  BY <1>2, PoppedShape
<1>4. v.size - 1 \in 0 .. x.capacity - 1
  BY <1>2, <1>3, ShapeNumbers
<1>5. ref' = PointTo(x, v.size - 1)
  BY <1>2, <1>3 DEF PointTo
<1>6. Inv'
  BY <1>1, <1>2, <1>3, <1>4, <1>5, DropKeepsInv
<1> QED BY <1>1, <1>3, <1>6

LEMMA SwapRemoveKeepsInv ==
  ASSUME Inv, NEW i \in 0 .. SizeMax - 1, SwapRemove(i)
  PROVE  /\ Inv'
         /\ \E k \in DOMAIN Items(vec) :
              Items(vec') =
                Contract!Front([Items(vec) EXCEPT ![k] = Items(vec)[Len(Items(vec))]])
<1>1. PICK v, x : v = vec /\ x = vec'
  OBVIOUS
<1>2. /\ Exists /\ i < v.size /\ x = Shrunk(v, i)
      /\ ref' = PointTo(x, i) /\ iter' = NoIter /\ held' = held /\ Shape(v)
  BY <1>1 DEF SwapRemove, Inv, Shrunk
<1>3. i \in 0 .. v.size - 1
  BY <1>2, ShapeNumbers
<1>4. /\ Shape(x) /\ x.size = v.size - 1 /\ x.capacity = v.capacity
      /\ x.buffer = v.buffer
      /\ i + 1 \in DOMAIN Items(v)
      /\ Items(x) = Contract!Front([Items(v) EXCEPT ![i + 1] = Items(v)[Len(Items(v))]])
  BY <1>2, <1>3, ShrunkShape
<1>5. i \in 0 .. x.capacity - 1
  BY <1>2, <1>3, <1>4, ShapeNumbers
<1>6. Inv'
  BY <1>1, <1>2, <1>4, <1>5, DropKeepsInv
<1> QED BY <1>1, <1>4, <1>6

\* Looking at elements.
LEMMA LookKeepsInv ==
  ASSUME Inv, GetIterator \/ IterNext \/ \E i \in 0 .. SizeMax - 1 : Get(i)
  PROVE  Inv' /\ vec' = vec
<1>1. PICK v : v = vec
  OBVIOUS
<1>2. Shape(v) /\ v.size \in Nat
  BY <1>1, ShapeNumbers DEF Inv
<1>3. ASSUME NEW i \in 0 .. SizeMax - 1, Get(i)
      PROVE  Inv' /\ vec' = vec
  <2>1. i \in 0 .. v.capacity - 1
    BY <1>1, <1>2, <1>3, ShapeNumbers DEF Get
  <2>2. RefHolds(PointTo(v, i), v)
    BY <1>2, <2>1, PointHolds
  <2> QED BY <1>1, <1>3, <2>2 DEF Get, Inv, Exists
<1>4. CASE GetIterator
  <2>1. iter' = [on |-> TRUE, cursor |-> 0, remaining |-> v.size, hint |-> v.size,
                 given |-> << >>]
    BY <1>1, <1>4 DEF GetIterator, NoIter
  <2>2. [k \in 1 .. 0 |-> v.slots[k - 1]] = << >>
    <3>1. 1 .. 0 = {}
      OBVIOUS
    <3> QED BY <3>1
  <2>3. IterHolds(iter', v)
    BY <1>2, <2>1, <2>2 DEF IterHolds
  <2> QED BY <1>1, <1>4, <2>3 DEF GetIterator, Inv, Exists
<1>5. CASE IterNext
  <2>1. PICK c, r, h, g : /\ iter = [on |-> iter.on, cursor |-> c, remaining |-> r, hint |-> h,
                                     given |-> g]
                          /\ c = iter.cursor /\ r = iter.remaining /\ h = iter.hint
                          /\ g = iter.given
    BY DEF Inv, IterHolds
  <2>2. /\ iter.on /\ r > 0 /\ UNCHANGED <<vec, held, ref>>
        /\ iter' = [on |-> iter.on, cursor |-> c + 1, remaining |-> r - 1,
                    hint |-> IF h > 0 THEN h - 1 ELSE 0, given |-> Append(g, v.slots[c])]
    BY <1>1, <1>5, <2>1 DEF IterNext
  <2>3. /\ c \in 0 .. v.size /\ r = v.size - c /\ h = r
        /\ g = [k \in 1 .. c |-> v.slots[k - 1]]
    BY <1>1, <2>1, <2>2 DEF Inv, IterHolds
  <2>4. c + 1 \in 0 .. v.size /\ r - 1 = v.size - (c + 1) /\ h > 0 /\ c \in 0 .. v.size - 1
        /\ c \in Nat
    BY <1>2, <2>2, <2>3
  <2>5. Append(g, v.slots[c]) = [k \in 1 .. c + 1 |-> v.slots[k - 1]]
    <3>1. \A k \in 1 .. c : k - 1 \in 0 .. v.size - 1
      BY <1>2, <2>4
    <3>2. \A k \in 1 .. c : v.slots[k - 1] \in Value
      BY <1>2, <3>1 DEF Shape
    <3>3. g \in [1 .. c -> Value] /\ v.slots[c] \in Value
      BY <1>2, <2>3, <2>4, <3>2 DEF Shape
    <3>4. g \in Seq(Value) /\ Len(g) = c
      BY <2>4, <3>3, SeqDef, LenProperties
    <3>5. PICK e, s : e = v.slots[c] /\ s = Append(g, e)
      OBVIOUS
    <3>6. /\ s \in Seq(Value) /\ Len(s) = c + 1
          /\ \A k \in 1 .. c : s[k] = g[k] /\ s[c + 1] = e
      BY <3>3, <3>4, <3>5, AppendProperties
    <3>7. s[c + 1] = e
      BY <3>3, <3>4, <3>5, AppendProperties
    <3>8. \A k \in 1 .. c + 1 : k \in 1 .. c \/ (k = c + 1 /\ k - 1 = c)
      BY <2>4
    <3>9. \A k \in 1 .. c + 1 : s[k] = v.slots[k - 1]
      BY <2>3, <3>5, <3>6, <3>7, <3>8
    <3>10. s = [k \in 1 .. c + 1 |-> s[k]]
      BY <3>6, LenProperties
    <3> QED BY <3>5, <3>9, <3>10
  <2>6. IterHolds(iter', v)
    BY <2>2, <2>3, <2>4, <2>5 DEF IterHolds
  <2> QED BY <1>1, <2>2, <2>6 DEF Inv, Exists
<1> QED BY <1>3, <1>4, <1>5
(***************************************************************************)
(* The vector's steps.                                                     *)
(***************************************************************************)
\* What a step does to the elements.
ItemStep == Contract!Next \/ Items(vec') = Items(vec)

GrowthStep ==
  Exists /\ Exists' /\ vec'.size > vec.size /\ vec'.capacity # vec.capacity =>
    \/ 2 * vec'.capacity >= 3 * vec.capacity - 1
    \/ AddOverflows(vec.capacity, vec.capacity \div 2)
       /\ vec'.capacity = vec.capacity + 1

\* The growth of a push is by half, or by what a size_t has room for.
LEMMA PushGrows ==
  ASSUME Inv, CanPush, NEW w, w \in AfterReserve(Wanted), NEW e, e \in Value,
         vec' = Pushed(w, e)
  PROVE  GrowthStep
<1>1. PICK v, x : v = vec /\ x = vec'
  OBVIOUS
<1>2. /\ Shape(v) /\ (v.size = v.capacity => ~ AddOverflows(v.size, 1))
      /\ w \in GrownTo(v, WantedBy(v)) /\ x = Pushed(w, e)
  BY <1>1 DEF Inv, CanPush, Wanted, WantedBy, AfterReserve, GrownTo, NeedsResize, Resized,
              Enlarged
<1>3. x.capacity = WantedBy(v)
  BY <1>2, PushShape
<1>4. /\ v.size < v.capacity => WantedBy(v) = v.capacity
      /\ v.size = v.capacity =>
           WantedBy(v) = (IF AddOverflows(v.capacity, Half(v.capacity))
                          THEN v.capacity + 1 ELSE v.capacity + Half(v.capacity))
  BY <1>2, WantedIs
<1>5. PICK c, d : c = v.capacity /\ d = x.capacity
  OBVIOUS
<1>6. c \in Nat /\ c > 0 /\ v.size \in Nat /\ v.size <= c /\ SizeMax \in Nat
  BY <1>2, <1>5, ShapeNumbers
<1>7. d = c \/ d = IF AddOverflows(c, Half(c)) THEN c + 1 ELSE c + Half(c)
  BY <1>3, <1>4, <1>5, <1>6
<1>8. CASE d = c + 1 /\ AddOverflows(c, Half(c))
  <2>1. c \div 2 = 0 => 2 * d >= 3 * c - 1
    BY <1>6, <1>8
  <2>2. c \div 2 # 0 => AddOverflows(c, c \div 2)
    BY <1>8 DEF Half
  <2> QED BY <1>1, <1>5, <1>8, <2>1, <2>2 DEF GrowthStep
<1>9. CASE d = c + Half(c)
  <2>1. 2 * d >= 3 * c - 1
    BY <1>6, <1>9 DEF Half
  <2> QED BY <1>1, <1>5, <2>1 DEF GrowthStep
<1>10. CASE d = c
  BY <1>1, <1>5, <1>10 DEF GrowthStep
<1> QED BY <1>7, <1>8, <1>9, <1>10

LEMMA StepIs == Inv /\ [Next]_vars => Inv' /\ ItemStep /\ GrowthStep
<1> SUFFICES ASSUME Inv, [Next]_vars PROVE Inv' /\ ItemStep /\ GrowthStep
  OBVIOUS
<1>1. vec.size \in Nat /\ vec.capacity \in Nat
  BY ShapeNumbers DEF Inv
<1>2. ASSUME UNCHANGED vars
      PROVE  Inv' /\ ItemStep /\ GrowthStep
  BY <1>2 DEF vars, Inv, Exists, ItemStep, GrowthStep
<1>3. ASSUME NEW e \in Value, Exists, CanPush, NEW w, w \in AfterReserve(Wanted),
             vec' = Pushed(w, e), held' = HeldWith(w),
             ref' = IF ref.index = vec.size THEN NoRef ELSE RefAfterReserve(Wanted),
             iter' = NoIter
      PROVE  Inv' /\ ItemStep /\ GrowthStep
  <2>1. Inv' /\ Items(vec') = Append(Items(vec), e)
    BY <1>3, PushKeepsInv
  <2>2. GrowthStep
    BY <1>3, PushGrows
  <2>3. Contract!Push
    BY <2>1 DEF Contract!Push
  <2> QED BY <2>1, <2>2, <2>3 DEF ItemStep, Contract!Next
<1>4. ASSUME NEW e \in Value, Push(e)
      PROVE  Inv' /\ ItemStep /\ GrowthStep
  <2>1. PICK w \in AfterReserve(Wanted) : vec' = Pushed(w, e) /\ held' = HeldWith(w)
    BY <1>4 DEF Push
  <2>2. /\ Exists /\ CanPush /\ iter' = NoIter
        /\ ref' = IF ref.index = vec.size THEN NoRef ELSE RefAfterReserve(Wanted)
    BY <1>4 DEF Push
  <2> QED BY <1>3, <2>1, <2>2
<1>5. ASSUME NEW i \in 0 .. SizeMax - 1, vec.size < vec.capacity, PushOwn(i)
      PROVE  Inv' /\ ItemStep /\ GrowthStep
  <2>1. /\ Exists /\ CanPush /\ i < vec.size /\ iter' = NoIter
        /\ ref' = IF ref.index = vec.size THEN NoRef ELSE RefAfterReserve(Wanted)
    BY <1>5 DEF PushOwn
  <2>2. PICK w \in AfterReserve(Wanted) : \E e \in Reads(w, i) :
          vec' = Pushed(w, e) /\ held' = HeldWith(w)
    BY <1>5 DEF PushOwn
  <2>3. w = vec
    BY <1>1, <1>5, <2>2 DEF AfterReserve, NeedsResize, Wanted
  <2>4. Reads(w, i) = {vec.slots[i]}
    BY <2>3 DEF Reads
  <2>5. i \in 0 .. vec.size - 1
    BY <1>1, <2>1
  <2>6. vec.slots[i] \in Value
    BY <2>5 DEF Inv, Shape
  <2>7. vec' = Pushed(w, vec.slots[i]) /\ held' = HeldWith(w)
    BY <2>2, <2>4
  <2> QED BY <1>3, <2>1, <2>2, <2>6, <2>7
<1>6. ASSUME Inv', Items(vec') = Items(vec), vec'.size = vec.size
      PROVE  Inv' /\ ItemStep /\ GrowthStep
  BY <1>1, <1>6 DEF ItemStep, GrowthStep
<1>7. ASSUME NEW c \in Capacities, Reserve(c)
      PROVE  Inv' /\ ItemStep /\ GrowthStep
  <2>1. Inv' /\ Items(vec') = Items(vec)
    BY <1>7, ReserveKeepsInv
  <2>2. vec'.size = vec.size
    <3>1. Len(Items(vec)) = vec.size
      BY ItemsAre DEF Inv
    <3>2. PICK x : x = vec'
      OBVIOUS
    <3>3. Shape(x)
      BY <2>1, <3>2 DEF Inv
    <3>4. Len(Items(x)) = x.size
      BY <3>3, ItemsAre
    <3> QED BY <2>1, <3>1, <3>2, <3>4
  <2> QED BY <1>6, <2>1, <2>2
<1>8. ASSUME CreateFails \/ Destroy \/ \E c \in Capacities : Create(c)
      PROVE  Inv' /\ ItemStep /\ GrowthStep
  <2>1. Inv' /\ (Items(vec') = Items(vec) \/ Items(vec') = << >>)
    BY <1>8, MakeKeepsInv
  <2>2. ~ Exists \/ ~ Exists'
    BY <1>8 DEF CreateFails, Create, Destroy, Exists
  <2> QED BY <2>1, <2>2 DEF ItemStep, GrowthStep, Contract!Next, Contract!Destroy
<1>9. CASE Pop
  <2>1. /\ Inv' /\ Items(vec) # << >> /\ Items(vec') = Contract!Front(Items(vec))
    BY <1>9, PopKeepsInv
  <2>2. vec'.capacity = vec.capacity
    BY <1>9, PoppedShape DEF Pop, Inv
  <2> QED BY <2>1, <2>2 DEF ItemStep, GrowthStep, Contract!Next, Contract!Pop
<1>10. ASSUME NEW i \in 0 .. SizeMax - 1, SwapRemove(i)
       PROVE  Inv' /\ ItemStep /\ GrowthStep
  <2>1. /\ Inv'
        /\ \E k \in DOMAIN Items(vec) :
             Items(vec') =
               Contract!Front([Items(vec) EXCEPT ![k] = Items(vec)[Len(Items(vec))]])
    BY <1>10, SwapRemoveKeepsInv
  <2>2. vec'.capacity = vec.capacity
    <3>1. i \in 0 .. vec.size - 1 /\ vec' = Shrunk(vec, i)
      BY <1>1, <1>10 DEF SwapRemove, Shrunk
    <3> QED BY <3>1, ShrunkShape DEF Inv
  <2>3. Contract!SwapRemove
    BY <2>1 DEF Contract!SwapRemove
  <2> QED BY <2>1, <2>2, <2>3 DEF ItemStep, GrowthStep, Contract!Next
<1>11. ASSUME GetIterator \/ IterNext \/ \E i \in 0 .. SizeMax - 1 : Get(i)
       PROVE  Inv' /\ ItemStep /\ GrowthStep
  <2>1. Inv' /\ vec' = vec
    BY <1>11, LookKeepsInv
  <2> QED BY <2>1 DEF ItemStep, GrowthStep
<1>12. PushFails \/ (\E c \in Capacities : ReserveFails(c)) => UNCHANGED vars
  BY DEF PushFails, ReserveFails
<1> QED BY <1>2, <1>4, <1>5, <1>7, <1>8, <1>9, <1>10, <1>11, <1>12 DEF Next, Others

LEMMA InvIsConsistent == Inv => Consistent
<1> SUFFICES ASSUME Inv PROVE Consistent
  OBVIOUS
<1>1. PICK v : v = vec
  OBVIOUS
<1>2. Shape(v) /\ v.size \in Nat
  BY <1>1, ShapeNumbers DEF Inv
<1>3. TypeOK
  <2>1. vec.slots \in [0 .. vec.capacity - 1 -> Value \cup {Junk}]
    BY <1>1, <1>2 DEF Shape
  <2> QED BY <2>1 DEF TypeOK, Inv, Shape
<1>4. HeldExactly
  BY DEF HeldExactly, Inv, Exists
<1>5. PointersHold
  BY DEF PointersHold, Inv, RefHolds
<1>6. IteratorIsExact
  <2>1. SUFFICES ASSUME iter.on
                 PROVE  /\ iter.given = SubSeq(Items(vec), 1, iter.cursor)
                        /\ iter.cursor + iter.remaining = vec.size
                        /\ iter.hint = iter.remaining
    BY DEF IteratorIsExact
  <2>2. PICK c : c = iter.cursor
    OBVIOUS
  <2>3. /\ c \in 0 .. v.size /\ iter.remaining = v.size - c /\ iter.hint = iter.remaining
        /\ iter.given = [i \in 1 .. c |-> v.slots[i - 1]]
    BY <1>1, <2>1, <2>2 DEF Inv, IterHolds
  <2>4. c \in Nat /\ \A i \in 1 .. c : i \in 1 .. v.size
    BY <1>2, <2>3
  <2>5. \A i \in 1 .. c : Items(v)[i] = v.slots[i - 1] /\ Items(v)[i] \in Value
    BY <1>2, <2>4, ItemsAre
  <2>6. SubSeq(Items(v), 1, c) = [i \in 1 .. c |-> Items(v)[i]]
    BY <2>4, <2>5, Prefix
  <2>7. c + (v.size - c) = v.size
    BY <1>2, <2>3
  <2> QED BY <1>1, <2>2, <2>3, <2>5, <2>6, <2>7
<1> QED BY <1>3, <1>4, <1>5, <1>6 DEF Consistent
(***************************************************************************)
(* A collect.  Its vector is one by itself: what the operations of module  *)
(* Vector do there is what they do to any vector.                          *)
(***************************************************************************)
LEMMA CollectConstants ==
  /\ DefaultCapacity \in 1 .. SizeMax /\ Sources \subseteq Seq(Value)
  /\ Hints \subseteq 0 .. SizeMax /\ Mapping \in [Value -> Value]
  BY CollectAssumption DEF Collect!Assumptions, Collect!DefaultCapacityAssumption,
     Collect!SourcesAssumption, Collect!HintsAssumption, Collect!MappingAssumption,
     Collect!SizeT

LEMMA SameOperators ==
  /\ \A v : Collect!Items(v) = Items(v)
  /\ \A c : Collect!NewVector(c) = NewVector(c)
  /\ \A v, e : Collect!Pushed(v, e) = Pushed(v, e)
  /\ \A c, n : Collect!AddOverflows(c, n) <=> AddOverflows(c, n)
  /\ \A c : Collect!NeedsResize(c) <=> c > cVec.capacity
  BY DEF Collect!Items, Items, Collect!NewVector, NewVector, Collect!Pushed, Pushed,
     Collect!AddOverflows, AddOverflows, Collect!NeedsResize

LEMMA SameGrowth == \A c, n : Collect!CapacityGrow(c, n) = CapacityGrow(c, n)
  BY Zenon DEF Collect!CapacityGrow, CapacityGrow, Collect!AddOverflows, AddOverflows

LEMMA CollectPushes ==
  ASSUME NEW e, Collect!Push(e)
  PROVE  /\ cVec.size = cVec.capacity => ~ AddOverflows(cVec.size, 1)
         /\ \E w \in GrownTo(cVec, WantedBy(cVec)) :
              /\ cVec' = Pushed(w, e)
              /\ cHeld' = (cHeld \ {cVec.buffer}) \cup {w.buffer}
<1>1. Collect!Wanted = WantedBy(cVec)
  BY SameGrowth DEF Collect!Wanted, WantedBy
<1>2. \A c : Collect!AfterReserve(c) = GrownTo(cVec, c)
  BY DEF Collect!AfterReserve, GrownTo, Collect!NeedsResize, Collect!Resized, Enlarged,
         Collect!Fresh, Fresh
<1>3. Collect!CanPush /\ \E w \in Collect!AfterReserve(Collect!Wanted) :
                           cVec' = Collect!Pushed(w, e) /\ cHeld' = Collect!HeldWith(w)
  BY DEF Collect!Push
<1> QED BY <1>1, <1>2, <1>3, SameOperators DEF Collect!CanPush, Collect!HeldWith

LEMMA CollectReserves ==
  ASSUME NEW c, Collect!Reserve(c)
  PROVE  \E w \in GrownTo(cVec, c) :
           cVec' = w /\ cHeld' = (cHeld \ {cVec.buffer}) \cup {w.buffer}
<1>1. Collect!AfterReserve(c) = GrownTo(cVec, c)
  BY DEF Collect!AfterReserve, GrownTo, Collect!NeedsResize, Collect!Resized, Enlarged,
         Collect!Fresh, Fresh
<1> QED BY <1>1 DEF Collect!Reserve, Collect!HeldWith

\* What a collect has pushed of the first n items.
Given(n) == [i \in 1 .. n |-> Collect!Element(source[i])]

CallOK ==
  /\ source \in Sources /\ hint \in Hints /\ mapped \in BOOLEAN
  /\ taken \in 0 .. Len(source)

Building == {"vector", cVec.buffer} \cup (IF pc = "loop" /\ mapped THEN {"dst"} ELSE {})

CollectInv ==
  /\ Shape(cVec) /\ CallOK
  /\ pc \in {"create", "reserve", "scratch", "loop", "done", "failed"}
  /\ pc \notin {"loop", "done", "failed"} => taken = 0
  /\ pc = "create" => cHeld = {}
  /\ pc \in {"reserve", "scratch", "loop"} => cHeld = Building /\ Items(cVec) = Given(taken)
  /\ pc \in {"scratch", "loop"} => cVec.capacity >= hint
  /\ pc # "done" => out = "NULL"
  /\ pc = "done" => /\ out = "vector" /\ cHeld = {"vector", cVec.buffer}
                    /\ Items(cVec) = Given(Len(source))
  /\ pc = "failed" => cHeld = {}

LEMMA SourceIs ==
  ASSUME CallOK
  PROVE  /\ source \in Seq(Value) /\ Len(source) \in Nat /\ taken \in Nat
         /\ taken <= Len(source) /\ hint \in 0 .. SizeMax /\ hint \in Nat
         /\ \A i \in 1 .. Len(source) : Collect!Element(source[i]) \in Value
<1>1. source \in Seq(Value) /\ Len(source) \in Nat
  BY CollectConstants DEF CallOK
<1>2. \A i \in 1 .. Len(source) : source[i] \in Value
  BY <1>1, ElementOfSeq
<1>3. \A x \in Value : Collect!Element(x) \in Value
  BY CollectConstants DEF Collect!Element
<1>4. hint \in 0 .. SizeMax /\ taken \in 0 .. Len(source)
  BY CollectConstants DEF CallOK
<1>5. hint \in Nat /\ taken \in Nat /\ taken <= Len(source)
  BY <1>1, <1>4, SizeMaxAssumption
<1> QED BY <1>1, <1>2, <1>3, <1>4, <1>5

LEMMA GivenNone == Given(0) = << >>
<1>1. 1 .. 0 = {}
  OBVIOUS
<1> QED BY <1>1 DEF Given

LEMMA GivenOneMore ==
  ASSUME CallOK, taken < Len(source)
  PROVE  /\ taken + 1 \in 1 .. Len(source)
         /\ Append(Given(taken), Collect!Element(source[taken + 1])) = Given(taken + 1)
<1>1. PICK n, e : n = taken /\ e = Collect!Element(source[n + 1])
  OBVIOUS
<1>2. /\ n \in Nat /\ n + 1 \in 1 .. Len(source)
      /\ \A i \in 1 .. n : i \in 1 .. Len(source)
  BY <1>1, SourceIs
<1>3. e \in Value /\ \A i \in 1 .. n : Collect!Element(source[i]) \in Value
  BY <1>1, <1>2, SourceIs
<1>4. PICK g : g = Given(n)
  OBVIOUS
<1>5. g \in [1 .. n -> Value] /\ \A i \in 1 .. n : g[i] = Collect!Element(source[i])
  BY <1>3, <1>4 DEF Given
<1>6. g \in Seq(Value) /\ Len(g) = n
  BY <1>2, <1>5, SeqDef, LenProperties
<1>7. PICK s : s = Append(g, e)
  OBVIOUS
<1>8. /\ s \in Seq(Value) /\ Len(s) = n + 1 /\ s[n + 1] = e
      /\ \A i \in 1 .. n : s[i] = g[i]
  BY <1>3, <1>6, <1>7, AppendProperties
<1>9. \A i \in 1 .. n + 1 : i \in 1 .. n \/ i = n + 1
  BY <1>2
<1>10. \A i \in 1 .. n + 1 : s[i] = Collect!Element(source[i])
  BY <1>1, <1>5, <1>8, <1>9
<1>11. s = [i \in 1 .. n + 1 |-> s[i]]
  BY <1>8, LenProperties
<1>12. s = Given(n + 1)
  BY <1>10, <1>11 DEF Given
<1> QED BY <1>1, <1>2, <1>4, <1>7, <1>12
LEMMA CollectInitHasInv == Collect!CollectInit => CollectInv
<1> SUFFICES ASSUME Collect!CollectInit PROVE CollectInv
  OBVIOUS
<1>1. 1 \in 1 .. SizeMax
  BY SizeMaxAssumption
<1>2. /\ cVec = NewVector(1) /\ cHeld = {} /\ source \in Sources /\ hint \in Hints
      /\ mapped \in BOOLEAN /\ taken = 0 /\ pc = "create" /\ out = "NULL"
  BY SameOperators DEF Collect!CollectInit, Collect!Init
<1>3. Shape(cVec)
  BY <1>1, <1>2, NewShape
<1>4. 0 \in 0 .. Len(source)
  <2>1. Len(source) \in Nat
    BY <1>2, CollectConstants
  <2> QED BY <2>1
<1> QED BY <1>2, <1>3, <1>4 DEF CollectInv, CallOK

\* Giving up leaves nothing.
LEMMA GivingUp ==
  ASSUME CollectInv, pc \in {"reserve", "scratch", "loop"}, Collect!GiveUp,
         UNCHANGED <<source, hint, mapped>>, taken' \in 0 .. Len(source)
  PROVE  CollectInv'
<1>1. cHeld = Building
  BY DEF CollectInv
<1>2. cHeld' = {} /\ cVec' = NewVector(1) /\ pc' = "failed" /\ out' = out
  BY <1>1, SameOperators DEF Collect!GiveUp, Collect!Cleanup, Collect!Goto, Building
<1>3. 1 \in 1 .. SizeMax
  BY SizeMaxAssumption
<1>4. Shape(cVec')
  BY <1>2, <1>3, NewShape
<1>5. CallOK'
  BY DEF CollectInv, CallOK
<1>6. out = "NULL"
  BY DEF CollectInv
<1> QED BY <1>2, <1>4, <1>5, <1>6 DEF CollectInv

LEMMA CollectStepHasInv == CollectInv /\ Collect!CollectNext => CollectInv'
<1> SUFFICES ASSUME CollectInv, Collect!CollectNext PROVE CollectInv'
  OBVIOUS
<1>1. /\ source \in Seq(Value) /\ Len(source) \in Nat /\ taken \in Nat
      /\ taken <= Len(source) /\ hint \in 0 .. SizeMax /\ hint \in Nat
  BY SourceIs DEF CollectInv
<1>2. cVec.buffer \notin {"vector", "dst"}
  BY DEF CollectInv, Shape, Buffers
<1>3. CASE Collect!CollectCreate
  <2>1. /\ pc = "create" /\ UNCHANGED <<source, taken, hint, mapped>> /\ out' = out
        /\ taken = 0 /\ cHeld = {} /\ CallOK
    BY <1>3 DEF Collect!CollectCreate, Collect!Goto, Collect!call, CollectInv
  <2>2. CallOK' /\ out = "NULL"
    BY <2>1 DEF CallOK, CollectInv
  <2>3. CASE pc' = "failed" /\ cVec' = cVec /\ cHeld' = {}
    BY <2>1, <2>2, <2>3 DEF CollectInv
  <2>4. CASE Collect!Create(DefaultCapacity) /\ pc' = "reserve"
    <3>1. cVec' = NewVector(DefaultCapacity) /\ cHeld' = {"vector", cVec'.buffer}
      BY <2>4, SameOperators DEF Collect!Create
    <3>2. Shape(cVec') /\ Items(cVec') = << >>
      BY <3>1, NewShape, CollectConstants
    <3>3. cHeld' = Building'
      BY <2>4, <3>1 DEF Building
    <3>4. Items(cVec') = Given(taken)'
      BY <2>1, <3>2, GivenNone DEF Given
    <3> QED BY <2>1, <2>2, <2>4, <3>2, <3>3, <3>4 DEF CollectInv
  <2>5. Collect!CreateFails => cVec' = cVec /\ cHeld' = {}
    BY <2>1 DEF Collect!CreateFails
  <2>6. UNCHANGED Collect!vars => cVec' = cVec /\ cHeld' = {}
    BY <2>1 DEF Collect!vars
  <2> QED BY <1>3, <2>3, <2>4, <2>5, <2>6 DEF Collect!CollectCreate, Collect!Goto
<1>4. CASE Collect!CollectReserve
  <2>1. /\ pc = "reserve" /\ UNCHANGED <<source, taken, hint, mapped>> /\ taken = 0
        /\ cHeld = {"vector", cVec.buffer} /\ Items(cVec) = Given(taken) /\ out = "NULL"
    BY <1>4 DEF Collect!CollectReserve, Collect!call, CollectInv, Building
  <2>2. CallOK' /\ Given(taken)' = Given(taken)
    BY <2>1 DEF CallOK, CollectInv, Given, Collect!Element
  <2>3. ASSUME Shape(cVec'), Items(cVec') = Items(cVec), cVec'.capacity >= hint,
               cHeld' = {"vector", cVec'.buffer}, pc' = "scratch", out' = out
        PROVE  CollectInv'
    BY <2>1, <2>2, <2>3 DEF CollectInv, Building
  <2>4. CASE hint = 0 /\ UNCHANGED Collect!vars /\ Collect!Goto("scratch")
    <3>1. cVec' = cVec /\ cHeld' = cHeld /\ pc' = "scratch" /\ out' = out
      BY <2>4 DEF Collect!vars, Collect!Goto
    <3>2. Shape(cVec) /\ cVec.capacity >= hint
      BY <2>4, ShapeNumbers DEF CollectInv
    <3> QED BY <2>1, <2>3, <3>1, <3>2
  <2>5. CASE hint > 0 /\ Collect!Reserve(hint) /\ Collect!Goto("scratch")
    <3>1. PICK w \in GrownTo(cVec, hint) :
            cVec' = w /\ cHeld' = (cHeld \ {cVec.buffer}) \cup {w.buffer}
      BY <2>5, CollectReserves
    <3>2. PICK v, h : v = cVec /\ h = hint
      OBVIOUS
    <3>3. h \in 1 .. SizeMax /\ Shape(v) /\ w \in GrownTo(v, h)
      BY <1>1, <2>5, <3>1, <3>2 DEF CollectInv
    <3>4. /\ Shape(w) /\ w.size = v.size /\ Items(w) = Items(v)
          /\ w.capacity = (IF h > v.capacity THEN h ELSE v.capacity)
          /\ \A i \in 0 .. v.capacity - 1 : w.slots[i] = v.slots[i]
          /\ ~ (h > v.capacity) => w = v
      BY <3>3, GrownShape
    <3>5. w.capacity >= h
      BY <1>1, <3>2, <3>3, <3>4, ShapeNumbers
    <3>6. cHeld' = {"vector", w.buffer}
      BY <1>2, <2>1, <3>1
    <3> QED BY <2>3, <2>5, <3>1, <3>2, <3>4, <3>5, <3>6 DEF Collect!Goto
  <2>6. CASE Collect!GiveUp
    BY <2>1, <2>2, <2>6, GivingUp DEF CallOK
  <2> QED BY <1>4, <2>4, <2>5, <2>6 DEF Collect!CollectReserve
<1>5. CASE Collect!CollectScratch
  <2>1. /\ pc = "scratch" /\ UNCHANGED <<source, taken, hint, mapped>> /\ taken = 0
        /\ cHeld = {"vector", cVec.buffer} /\ Items(cVec) = Given(taken) /\ out = "NULL"
        /\ cVec.capacity >= hint /\ mapped \in BOOLEAN
    BY <1>5 DEF Collect!CollectScratch, Collect!call, CollectInv, CallOK, Building
  <2>2. CallOK' /\ Given(taken)' = Given(taken)
    BY <2>1 DEF CallOK, CollectInv, Given, Collect!Element
  <2>3. CASE cVec' = cVec /\ Collect!Goto("loop")
    <3>1. cHeld' = IF mapped THEN cHeld \cup {"dst"} ELSE cHeld
      BY <1>5, <2>3 DEF Collect!CollectScratch, Collect!GiveUp, Collect!Goto
    <3>2. pc' = "loop" /\ out' = out
      BY <2>3 DEF Collect!Goto
    <3>3. cHeld' = Building'
      BY <2>1, <2>3, <3>1, <3>2 DEF Building
    <3> QED BY <2>1, <2>2, <2>3, <3>2, <3>3 DEF CollectInv
  <2>4. CASE Collect!GiveUp
    BY <2>1, <2>2, <2>4, GivingUp DEF CallOK
  <2> QED BY <1>5, <2>3, <2>4 DEF Collect!CollectScratch
<1>6. CASE Collect!CollectItem
  <2>1. /\ pc = "loop" /\ taken < Len(source) /\ taken' = taken + 1
        /\ UNCHANGED <<source, hint, mapped>>
        /\ cHeld = {"vector", cVec.buffer} \cup (IF mapped THEN {"dst"} ELSE {})
        /\ Items(cVec) = Given(taken) /\ out = "NULL" /\ CallOK
        /\ cVec.capacity >= hint
    BY <1>6 DEF Collect!CollectItem, Collect!HasMore, CollectInv, Building
  <2>2. /\ taken + 1 \in 1 .. Len(source) /\ taken + 1 \in 0 .. Len(source)
        /\ Append(Given(taken), Collect!Element(source[taken + 1])) = Given(taken + 1)
    BY <1>1, <2>1, GivenOneMore
  <2>3. CallOK' /\ Given(taken)' = Given(taken + 1)
    BY <2>1, <2>2 DEF CallOK, Given, Collect!Element
  <2>4. CASE Collect!Push(Collect!Element(source[taken'])) /\ Collect!Goto("loop")
    <3>1. PICK e : e = Collect!Element(source[taken + 1])
      OBVIOUS
    <3>2. e \in Value /\ Collect!Push(e)
      BY <2>1, <2>2, <2>4, <3>1, SourceIs
    <3>3. PICK w \in GrownTo(cVec, WantedBy(cVec)) :
            /\ cVec' = Pushed(w, e)
            /\ cHeld' = (cHeld \ {cVec.buffer}) \cup {w.buffer}
      BY <3>2, CollectPushes
    <3>4. PICK v, x : v = cVec /\ x = cVec'
      OBVIOUS
    <3>5. /\ Shape(v) /\ (v.size = v.capacity => ~ AddOverflows(v.size, 1))
          /\ w \in GrownTo(v, WantedBy(v)) /\ x = Pushed(w, e)
      BY <3>2, <3>3, <3>4, CollectPushes DEF CollectInv
    <3>6. /\ Shape(x) /\ x.buffer = w.buffer /\ x.capacity = WantedBy(v)
          /\ Items(x) = Append(Items(v), e)
      BY <3>2, <3>5, PushShape
    <3>7. x.capacity >= hint
      <4>1. WantedBy(v) >= v.capacity /\ WantedBy(v) \in 1 .. SizeMax
        BY <3>5, WantedIs
      <4>2. v.capacity \in Nat /\ SizeMax \in Nat
        BY <3>5, ShapeNumbers
      <4> QED BY <1>1, <2>1, <3>4, <3>6, <4>1, <4>2
    <3>8. Items(x) = Given(taken + 1)
      BY <2>1, <2>2, <3>1, <3>4, <3>6
    <3>9. pc' = "loop" /\ out' = "NULL"
      BY <2>1, <2>4 DEF Collect!Goto
    <3>10. cHeld' = Building'
      BY <1>2, <2>1, <3>3, <3>4, <3>6, <3>9 DEF Building
    <3> QED BY <2>1, <2>3, <3>4, <3>6, <3>7, <3>8, <3>9, <3>10 DEF CollectInv
  <2>5. CASE Collect!GiveUp
    BY <2>1, <2>2, <2>5, GivingUp
  <2> QED BY <1>6, <2>4, <2>5 DEF Collect!CollectItem
<1>7. CASE Collect!CollectDone
  <2>1. /\ pc = "loop" /\ ~ (taken < Len(source)) /\ cHeld' = cHeld \ {"dst"}
        /\ pc' = "done" /\ out' = "vector" /\ cVec' = cVec
        /\ UNCHANGED <<source, taken, hint, mapped>>
        /\ cHeld = {"vector", cVec.buffer} \cup (IF mapped THEN {"dst"} ELSE {})
        /\ Items(cVec) = Given(taken) /\ CallOK
    BY <1>7 DEF Collect!CollectDone, Collect!HasMore, Collect!call, CollectInv, Building
  <2>2. taken = Len(source)
    BY <1>1, <2>1
  <2>3. cHeld' = {"vector", cVec.buffer}
    BY <1>2, <2>1
  <2>4. CallOK' /\ Given(Len(source))' = Given(Len(source))
    BY <2>1 DEF CallOK, Given, Collect!Element
  <2> QED BY <2>1, <2>2, <2>3, <2>4 DEF CollectInv
<1> QED BY <1>3, <1>4, <1>5, <1>6, <1>7 DEF Collect!CollectNext

LEMMA CollectInvDelivers == CollectInv => CollectDelivers
  BY SameOperators DEF CollectInv, CollectDelivers, Collect!AllOrNothing, Given

\* With room for all that comes, a push has nothing to allocate.
HintStep ==
  pc = "loop" /\ pc' = "loop" /\ hint >= Len(source) => cVec'.capacity = cVec.capacity

LEMMA CollectSparesGrowth == CollectInv /\ Collect!CollectNext => HintStep
<1> SUFFICES ASSUME CollectInv, Collect!CollectNext, pc = "loop", pc' = "loop",
                    hint >= Len(source)
             PROVE  cVec'.capacity = cVec.capacity
  BY DEF HintStep
<1>1. Collect!CollectItem
  BY DEF Collect!CollectNext, Collect!CollectCreate, Collect!CollectReserve,
         Collect!CollectScratch, Collect!CollectDone
<1>2. taken < Len(source) /\ taken' = taken + 1
      /\ Collect!Push(Collect!Element(source[taken']))
  BY <1>1 DEF Collect!CollectItem, Collect!HasMore, Collect!GiveUp, Collect!Goto
<1>3. /\ taken \in Nat /\ Len(source) \in Nat /\ hint \in Nat
      /\ taken + 1 \in 1 .. Len(source)
      /\ Collect!Element(source[taken + 1]) \in Value
  <2>1. taken + 1 \in 1 .. Len(source)
    BY <1>2, GivenOneMore DEF CollectInv
  <2> QED BY <2>1, SourceIs DEF CollectInv
<1>4. PICK e, v, x : e = Collect!Element(source[taken + 1]) /\ v = cVec /\ x = cVec'
  OBVIOUS
<1>5. e \in Value /\ Collect!Push(e)
  BY <1>2, <1>3, <1>4
<1>6. PICK w \in GrownTo(cVec, WantedBy(cVec)) : cVec' = Pushed(w, e)
  BY <1>5, CollectPushes
<1>7. /\ Shape(v) /\ (v.size = v.capacity => ~ AddOverflows(v.size, 1))
      /\ w \in GrownTo(v, WantedBy(v)) /\ x = Pushed(w, e)
  BY <1>4, <1>5, <1>6, CollectPushes DEF CollectInv
<1>8. x.capacity = WantedBy(v)
  BY <1>5, <1>7, PushShape
<1>9. v.size = taken
  <2>1. Len(Items(v)) = v.size
    BY <1>7, ItemsAre
  <2>2. Items(v) = Given(taken)
    BY <1>4 DEF CollectInv
  <2>3. \A i \in 1 .. taken : Collect!Element(source[i]) \in Value
    <3>1. \A i \in 1 .. taken : i \in 1 .. Len(source)
      BY <1>2, <1>3
    <3> QED BY <3>1, SourceIs DEF CollectInv
  <2>4. Given(taken) \in [1 .. taken -> Value]
    BY <2>3 DEF Given
  <2>5. Len(Given(taken)) = taken
    BY <1>3, <2>4, SeqDef, LenProperties
  <2> QED BY <2>1, <2>2, <2>5
<1>10. v.size < v.capacity
  BY <1>2, <1>3, <1>4, <1>7, <1>9, ShapeNumbers DEF CollectInv
<1> QED BY <1>4, <1>7, <1>8, <1>10, WantedIs

(***************************************************************************)
(* The theorems: the caller that uses a vector, or collects into one.      *)
(***************************************************************************)
VectorsInv == Inv /\ CollectInv

allVars == <<used, vars, cVars>>

LEMMA VectorsStep ==
  ASSUME VectorsInv, [UseVector \/ UseCollect]_allVars
  PROVE  /\ VectorsInv'
         /\ [GrowthStep]_vars /\ [Contract!Next]_(Items(vec))
         /\ [HintStep]_(Collect!collectVars)
<1>1. ASSUME UNCHANGED vars
      PROVE  Inv' /\ UNCHANGED Items(vec)
  BY <1>1 DEF vars, VectorsInv, Inv, Exists, Items
<1>2. ASSUME UNCHANGED cVars
      PROVE  CollectInv' /\ UNCHANGED Collect!collectVars
  BY <1>2 DEF cVars, VectorsInv, CollectInv, CallOK, Building, Given, Collect!Element,
              Collect!collectVars
<1>3. CASE UseVector
  <2>1. Next /\ UNCHANGED cVars
    BY <1>3 DEF UseVector
  <2>2. Inv' /\ ItemStep /\ GrowthStep
    BY <2>1, StepIs DEF VectorsInv
  <2>3. Items(vec)' = Items(vec')
    BY DEF Items
  <2> QED BY <1>2, <2>1, <2>2, <2>3 DEF VectorsInv, ItemStep
<1>4. CASE UseCollect
  <2>1. Collect!CollectNext /\ UNCHANGED vars
    BY <1>4 DEF UseCollect
  <2>2. CollectInv' /\ HintStep
    BY <2>1, CollectStepHasInv, CollectSparesGrowth DEF VectorsInv
  <2> QED BY <1>1, <2>1, <2>2 DEF VectorsInv
<1>5. CASE UNCHANGED allVars
  <2>1. UNCHANGED vars /\ UNCHANGED cVars
    BY <1>5 DEF allVars
  <2> QED BY <1>1, <1>2, <2>1 DEF VectorsInv
<1> QED BY <1>3, <1>4, <1>5

LEMMA VectorsInitHasInv == VectorsInit => VectorsInv
  BY InitHasInv, CollectInitHasInv DEF VectorsInit, VectorsInv

LEMMA VectorsInvariant == VectorsSpec => []VectorsInv
<1>1. VectorsInv /\ [UseVector \/ UseCollect]_allVars => VectorsInv'
  BY VectorsStep
<1> QED BY <1>1, VectorsInitHasInv, PTL DEF VectorsSpec, allVars

\* Consistent of Vector: sizes, slots and memory agree after every operation
\* that succeeds or fails, an element pointer reads its element for as long as
\* vector.md promises, and an iterator gives the elements in order.
THEOREM VectorsAreConsistent == VectorsSpec => []Consistent
<1>1. VectorsInv => Consistent
  BY InvIsConsistent DEF VectorsInv
<1> QED BY <1>1, VectorsInvariant, PTL

\* CollectDelivers of MCVector: a collect of any source, with any hint, ends
\* with all items in order in a vector that holds its own memory and nothing
\* else, or with NULL and nothing allocated.
THEOREM CollectIsAllOrNothing == VectorsSpec => []CollectDelivers
<1>1. VectorsInv => CollectDelivers
  BY CollectInvDelivers DEF VectorsInv
<1> QED BY <1>1, VectorsInvariant, PTL

\* ImplementsContract of Vector: what any operation does to the elements is one
\* push, pop, removal by swap or clearing of a sequence, or nothing.
THEOREM VectorImplements == VectorsSpec => ImplementsContract
<1>1. VectorsInit => Contract!Init
  <2>1. 1 \in 1 .. SizeMax
    BY SizeMaxAssumption
  <2> QED BY <2>1, NewShape DEF VectorsInit, Init, Contract!Init
<1>2. VectorsInv /\ [UseVector \/ UseCollect]_allVars => [Contract!Next]_(Items(vec))
  BY VectorsStep
<1> QED BY <1>1, <1>2, VectorsInvariant, PTL
        DEF VectorsSpec, allVars, ImplementsContract, Contract!Spec

\* GrowsSparingly of MCVector: a push that grows the vector adds half of its
\* capacity, or the one slot a size_t has room for, and a collect with a hint
\* that is right or too large never grows it in the loop.
THEOREM VectorsGrowSparingly == VectorsSpec => GrowsSparingly
<1>1. VectorsInv /\ [UseVector \/ UseCollect]_allVars => [GrowthStep]_vars
  BY VectorsStep
<1>2. VectorsInv /\ [UseVector \/ UseCollect]_allVars => [HintStep]_(Collect!collectVars)
  BY VectorsStep
<1>3. GrowsByHalf <=> [][GrowthStep]_vars
  BY DEF GrowsByHalf, GrowthStep
<1>4. Collect!HintSparesGrowth <=> [][HintStep]_(Collect!collectVars)
  BY DEF Collect!HintSparesGrowth, HintStep
<1> QED BY <1>1, <1>2, <1>3, <1>4, VectorsInvariant, PTL
        DEF VectorsSpec, allVars, GrowsSparingly

-----------------------------------------------------------------------------
(***************************************************************************)
(* The binary searches are right for every sorted vector and every key.    *)
(* TypeOK says the window lies in the vector, Bracketed what is known of   *)
(* the items outside it; together they are inductive, because items that   *)
(* go before the key form a prefix of a sorted vector.                     *)
(***************************************************************************)

LEMMA SearchNumbers == Rank \subseteq Int /\ MaxSize \in Nat
BY SearchAssumption
   DEF Search!Assumptions, Search!RankAssumption, Search!MaxSizeAssumption

Bracket == Search!TypeOK /\ Search!Bracketed

\* An item left of one that goes before the key goes before it too, and an
\* item right of one that does not, does not: the vector is sorted.
LEMMA SortedPrefix ==
  ASSUME Search!TypeOK, NEW m \in 0 .. size - 1
  PROVE  /\ Search!GoesBefore(items[m]) => \A i \in 0 .. m : Search!GoesBefore(items[i])
         /\ ~ Search!GoesBefore(items[m]) =>
              \A i \in m .. size - 1 : ~ Search!GoesBefore(items[i])
<1>1. \A i \in 0 .. size - 1 : items[i] \in Int  BY DEF Search!TypeOK
<1>2. \A i, j \in 0 .. size - 1 : i <= j => items[i] <= items[j]
  BY DEF Search!TypeOK, Search!Sorted
<1>3. size \in Nat /\ key \in Int  BY DEF Search!TypeOK
<1> QED  BY <1>1, <1>2, <1>3 DEF Search!GoesBefore

\* Halving a window that is not empty: the middle lies in it.
LEMMA MidInside ==
  ASSUME Search!TypeOK, count > 0
  PROVE  /\ Search!Half \in Nat /\ Search!Half < count /\ 2 * Search!Half <= count
         /\ Search!Mid \in 0 .. size - 1 /\ Search!Mid < first + count /\ first <= Search!Mid
BY DEF Search!TypeOK, Search!Half, Search!Mid

LEMMA InitBracket == Search!Init => Bracket
<1> SUFFICES ASSUME Search!Init PROVE Bracket
  OBVIOUS
<1>1. size \in Nat /\ first = 0 /\ count = size
  BY SearchNumbers DEF Search!Init
<1>2. items \in [0 .. size - 1 -> Int] /\ key \in Int /\ upper \in BOOLEAN
  BY SearchNumbers DEF Search!Init
<1>3. Search!Sorted(items, size)  BY DEF Search!Init
<1>4. Search!TypeOK  BY <1>1, <1>2, <1>3 DEF Search!TypeOK
<1>5. Search!Bracketed  BY <1>1 DEF Search!Bracketed
<1> QED  BY <1>4, <1>5 DEF Bracket

LEMMA NextBracket == Bracket /\ [Search!Next]_(Search!vars) => Bracket'
<1> SUFFICES ASSUME Bracket, [Search!Next]_(Search!vars) PROVE Bracket'
  OBVIOUS
<1> USE DEF Bracket
<1>1. CASE Search!GoRight
  <2>1. /\ count > 0 /\ Search!GoesBefore(items[Search!Mid])
        /\ first' = Search!Mid + 1 /\ count' = count - (Search!Half + 1)
        /\ UNCHANGED <<items, size, key, upper>>
    BY <1>1 DEF Search!GoRight
  <2>0. /\ size \in Nat /\ first \in Nat /\ count \in Nat /\ first + count <= size
        /\ Search!Half \in Nat /\ Search!Half < count /\ Search!Mid = first + Search!Half
    BY <2>1, MidInside DEF Search!TypeOK, Search!Mid
  <2>2. Search!TypeOK'
    <3>1. items' \in [0 .. size' - 1 -> Int] /\ Search!Sorted(items', size')
      BY <2>1 DEF Search!TypeOK
    <3>2. first' \in Nat /\ count' \in Nat /\ first' + count' <= size'
      BY <2>1, <2>0
    <3> QED  BY <2>1, <3>1, <3>2 DEF Search!TypeOK, Search!Sorted
  <2>3. \A i \in 0 .. Search!Mid : Search!GoesBefore(items[i])
    BY <2>1, MidInside, SortedPrefix
  <2>4. first' + count' = first + count
    BY <2>1, <2>0
  <2>5. \A i \in 0 .. first' - 1 : Search!GoesBefore(items[i])
    BY <2>1, <2>3, MidInside
  <2>6. Search!Bracketed'
    BY <2>1, <2>4, <2>5 DEF Search!Bracketed, Search!GoesBefore
  <2> QED  BY <2>2, <2>6
<1>2. CASE Search!GoLeft
  <2>1. /\ count > 0 /\ ~ Search!GoesBefore(items[Search!Mid]) /\ count' = Search!Half
        /\ UNCHANGED <<items, size, key, upper, first>>
    BY <1>2 DEF Search!GoLeft
  <2>2. Search!TypeOK'
    <3>1. items' \in [0 .. size' - 1 -> Int] /\ Search!Sorted(items', size')
      BY <2>1 DEF Search!TypeOK
    <3>2. first' \in Nat /\ count' \in Nat /\ first' + count' <= size'
      BY <2>1, MidInside DEF Search!TypeOK, Search!Mid
    <3> QED  BY <2>1, <3>1, <3>2 DEF Search!TypeOK, Search!Sorted
  <2>3. \A i \in Search!Mid .. size - 1 : ~ Search!GoesBefore(items[i])
    BY <2>1, MidInside, SortedPrefix
  <2>4. first' + count' = Search!Mid
    BY <2>1 DEF Search!Mid
  <2>5. Search!Bracketed'
    BY <2>1, <2>3, <2>4 DEF Search!Bracketed, Search!GoesBefore
  <2> QED  BY <2>2, <2>5
<1>3. CASE UNCHANGED Search!vars
  BY <1>3 DEF Search!vars, Search!TypeOK, Search!Bracketed, Search!GoesBefore, Search!Sorted
<1> QED  BY <1>1, <1>2, <1>3 DEF Search!Next

\* Whatever else the caller does leaves a search as it is.
LEMMA SearchPart ==
  ASSUME [UseSearch \/ UseHeap]_<<call, sVars, hVars>>
  PROVE  [Search!Next]_(Search!vars)
BY DEF UseSearch, UseHeap, sVars, Search!vars

\* The window never leaves the vector, and the items outside it are on the
\* right side of the key, for every vector, key and kind of search.
THEOREM SearchBrackets == OrderedSpec => [](Search!TypeOK /\ Search!Bracketed)
<1>1. OrderedInit => Bracket
  BY InitBracket DEF OrderedInit
<1>2. Bracket /\ [UseSearch \/ UseHeap]_<<call, sVars, hVars>> => Bracket'
  BY NextBracket, SearchPart
<1> QED  BY <1>1, <1>2, PTL DEF OrderedSpec, Bracket

\* lower_bound and upper_bound return the bound their comments promise.
THEOREM SearchFindsTheBound == OrderedSpec => []Search!FindsTheBound
<1>1. Bracket => Search!FindsTheBound
  <2> SUFFICES ASSUME Bracket, Search!Done PROVE Search!FindsTheBound
    BY DEF Search!FindsTheBound
  <2>1. first \in 0 .. size /\ first + count = first
    BY DEF Bracket, Search!TypeOK, Search!Done
  <2>2. /\ \A i \in 0 .. first - 1 : Search!GoesBefore(items[i])
        /\ \A i \in first .. size - 1 : ~ Search!GoesBefore(items[i])
    BY <2>1 DEF Bracket, Search!Bracketed
  <2>3. \A i \in 0 .. size - 1 : items[i] \in Int  BY DEF Bracket, Search!TypeOK
  <2>4. key \in Int /\ upper \in BOOLEAN /\ size \in Nat  BY DEF Bracket, Search!TypeOK
  <2>5. \A i \in 0 .. first - 1 : IF upper THEN items[i] <= key ELSE items[i] < key
    BY <2>1, <2>2, <2>3, <2>4 DEF Search!GoesBefore
  <2>6. \A i \in first .. size - 1 : IF upper THEN items[i] > key ELSE items[i] >= key
    BY <2>1, <2>2, <2>3, <2>4 DEF Search!GoesBefore
  <2> QED  BY <2>1, <2>5, <2>6 DEF Search!FindsTheBound
<1>2. OrderedSpec => []Bracket  BY SearchBrackets, PTL DEF Bracket
<1> QED  BY <1>1, <1>2, PTL

\* binary_search returns the first index of the key, or size without one.
THEOREM SearchFindsTheKey == OrderedSpec => []Search!FindsTheKey
<1>1. Bracket => Search!FindsTheKey
  <2> SUFFICES ASSUME Bracket, Search!Done, ~ upper PROVE Search!FindsTheKey
    BY DEF Search!FindsTheKey
  <2>1. first \in 0 .. size /\ first + count = first /\ size \in Nat
    BY DEF Bracket, Search!TypeOK, Search!Done
  <2>2. /\ \A i \in 0 .. first - 1 : items[i] < key
        /\ \A i \in first .. size - 1 : ~ (items[i] < key)
    BY <2>1 DEF Bracket, Search!Bracketed, Search!GoesBefore
  <2>3. \A i \in 0 .. size - 1 : items[i] \in Int  BY DEF Bracket, Search!TypeOK
  <2>4. key \in Int  BY DEF Bracket, Search!TypeOK
  <2>5. Search!BinarySearch < size => items[Search!BinarySearch] = key
    BY <2>1 DEF Search!BinarySearch
  <2>6. ASSUME NEW i \in 0 .. size - 1, items[i] = key PROVE Search!BinarySearch <= i
    <3>1. i >= first  BY <2>1, <2>2, <2>3, <2>4, <2>6
    <3>2. items[first] <= items[i] /\ first \in 0 .. size - 1
      BY <3>1, <2>1, <2>6 DEF Bracket, Search!TypeOK, Search!Sorted
    <3>3. items[first] = key
      BY <3>1, <3>2, <2>2, <2>3, <2>4, <2>6, <2>1
    <3> QED  BY <3>1, <3>3, <2>1 DEF Search!BinarySearch
  <2> QED  BY <2>5, <2>6 DEF Search!FindsTheKey
<1>2. OrderedSpec => []Bracket  BY SearchBrackets, PTL DEF Bracket
<1> QED  BY <1>1, <1>2, PTL

\* Every pass at least halves the window.
THEOREM SearchHalves == OrderedSpec => Search!Halves
<1>1. Bracket /\ [Search!Next]_(Search!vars) => [2 * count' <= count]_(Search!vars)
  <2> SUFFICES ASSUME Bracket, Search!Next PROVE 2 * count' <= count
    OBVIOUS
  <2>1. count \in Nat  BY DEF Bracket, Search!TypeOK
  <2>2. CASE Search!GoRight
    <3>1. count > 0 /\ count' = count - (Search!Half + 1)  BY <2>2 DEF Search!GoRight
    <3> QED  BY <2>1, <3>1 DEF Search!Half
  <2>3. CASE Search!GoLeft
    <3>1. count > 0 /\ count' = Search!Half  BY <2>3 DEF Search!GoLeft
    <3> QED  BY <2>1, <3>1 DEF Search!Half
  <2> QED  BY <2>2, <2>3 DEF Search!Next
<1>2. OrderedSpec => []Bracket  BY SearchBrackets, PTL DEF Bracket
<1> QED  BY <1>1, <1>2, SearchPart, PTL DEF OrderedSpec, Search!Halves

\* vector.c:362-430 as a whole: the searches keep the bound in their window and
\* end with the index the header promises.
THEOREM SearchFinds == OrderedSpec => []SearchesFind
BY SearchBrackets, SearchFindsTheBound, SearchFindsTheKey, PTL
   DEF SearchesFind, Search!Finds

-----------------------------------------------------------------------------
(***************************************************************************)
(* The binary heap is ordered for every set of elements, every order of    *)
(* them and every size.  Heap!Consistent is inductive as it stands.        *)
(***************************************************************************)
LEMMA HeapNumbers ==
  /\ Order \in [Element -> Int] /\ Unwritten \notin Element /\ HeapSize \in Nat
BY HeapAssumption DEF Heap!Assumptions, Heap!RankAssumption, Heap!JunkAssumption,
   Heap!MaxSizeAssumption

Indices(n) == 0 .. n - 1

\* Heap!Ordered of an array r of n ranks, in a sift of the kind way at k.
Heaped(r, n, way, k) ==
  /\ \A i, j \in Indices(n) :
       Heap!ChildOf(i, j) /\ ~ (way = "up" /\ i = k) /\ ~ (way = "down" /\ j = k) =>
         r[j] <= r[i]
  /\ way # "no" =>
       \A i, j \in Indices(n) :
         Heap!ChildOf(i, k) /\ Heap!ChildOf(k, j) => r[j] <= r[i]

\* Arrays that differ by an exchange of two items.
Exchanged(q, r, n, i, j) ==
  /\ q[i] = r[j] /\ q[j] = r[i]
  /\ \A l \in Indices(n) \ {i, j} : q[l] = r[l]

\* An index but the first has one parent, before it.
LEMMA OneParent ==
  ASSUME NEW i \in Nat, i > 0
  PROVE  /\ Heap!Parent(i) \in Nat /\ Heap!Parent(i) < i
         /\ Heap!ChildOf(i, Heap!Parent(i))
         /\ \A j \in Nat : Heap!ChildOf(i, j) => j = Heap!Parent(i)
BY DEF Heap!Parent, Heap!ChildOf, Heap!Left, Heap!Right

LEMMA ChildrenFollow ==
  ASSUME NEW i \in Nat, NEW j \in Nat, Heap!ChildOf(i, j)
  PROVE  i > j /\ i > 0 /\ j = Heap!Parent(i)
BY DEF Heap!Parent, Heap!ChildOf, Heap!Left, Heap!Right

\* An item that goes before its parent changes places with it.
LEMMA UpKeepsHeaped ==
  ASSUME NEW n \in Nat, NEW r \in [Indices(n) -> Int], NEW q \in [Indices(n) -> Int],
         NEW k \in Indices(n), NEW p, k > 0, p = Heap!Parent(k),
         Heaped(r, n, "up", k), r[k] < r[p], Exchanged(q, r, n, k, p)
  PROVE  p \in Indices(n) /\ Heaped(q, n, "up", p)
<1>1. Indices(n) \subseteq Nat /\ k \in Nat /\ \A l \in Indices(n) : l < n
  BY DEF Indices
<1>2. p \in Indices(n) /\ p < k /\ Heap!ChildOf(k, p)
  BY <1>1, OneParent DEF Indices
<1>3. ASSUME NEW i \in Indices(n), NEW j \in Indices(n), Heap!ChildOf(i, j), i # p
      PROVE  q[j] <= q[i]
  <2>1. i > j /\ i > 0 /\ j = Heap!Parent(i)
    BY <1>1, <1>3, ChildrenFollow
  <2>2. CASE i = k
    <3>1. j = p /\ q[j] = r[k] /\ q[i] = r[p]
      BY <2>1, <2>2 DEF Exchanged
    <3> QED BY <1>2, <3>1
  <2>3. CASE i # k /\ j = p
    <3>1. r[j] <= r[i] /\ q[i] = r[i] /\ q[j] = r[k]
      BY <1>3, <2>3 DEF Heaped, Exchanged
    <3> QED BY <1>2, <2>3, <3>1
  <2>4. CASE i # k /\ j = k
    <3>1. r[p] <= r[i] /\ q[i] = r[i] /\ q[j] = r[p]
      BY <1>2, <1>3, <2>4 DEF Heaped, Exchanged
    <3> QED BY <3>1
  <2>5. CASE i # k /\ j # p /\ j # k
    <3>1. r[j] <= r[i] /\ q[i] = r[i] /\ q[j] = r[j]
      BY <1>3, <2>5 DEF Heaped, Exchanged
    <3> QED BY <3>1
  <2> QED BY <2>2, <2>3, <2>4, <2>5
<1>4. ASSUME NEW i \in Indices(n), NEW j \in Indices(n),
             Heap!ChildOf(i, p), Heap!ChildOf(p, j)
      PROVE  q[j] <= q[i]
  <2>1. i > p /\ p > j
    BY <1>1, <1>2, <1>4, ChildrenFollow
  <2>2. j \in Nat /\ p \in Nat /\ i \in Nat /\ k \in Nat
    BY <1>1, <1>2
  <2>3. j # p /\ j # k /\ p # k
    BY <1>2, <2>1, <2>2
  <2>4. q[j] = r[j] /\ r[j] <= r[p]
    BY <1>2, <1>4, <2>3 DEF Heaped, Exchanged
  <2>5. CASE i = k
    BY <2>4, <2>5 DEF Exchanged
  <2>6. CASE i # k
    <3>1. r[p] <= r[i] /\ q[i] = r[i]
      BY <1>2, <1>4, <2>1, <2>2, <2>6 DEF Heaped, Exchanged
    <3> QED BY <1>2, <2>4, <3>1
  <2> QED BY <2>5, <2>6
<1> QED BY <1>2, <1>3, <1>4 DEF Heaped

\* An item changes places with a child that goes before it and not after the
\* other child.
LEMMA DownKeepsHeaped ==
  ASSUME NEW n \in Nat, NEW r \in [Indices(n) -> Int], NEW q \in [Indices(n) -> Int],
         NEW k \in Indices(n), NEW best \in Indices(n), Heap!ChildOf(best, k),
         Heaped(r, n, "down", k), r[best] < r[k],
         \A i \in Indices(n) : Heap!ChildOf(i, k) => r[best] <= r[i],
         Exchanged(q, r, n, k, best)
  PROVE  Heaped(q, n, "down", best)
<1>1. Indices(n) \subseteq Nat /\ k \in Nat /\ best \in Nat
  BY DEF Indices
<1>2. best > k
  BY <1>1, ChildrenFollow
<1>3. ASSUME NEW i \in Indices(n), NEW j \in Indices(n), Heap!ChildOf(i, j), j # best
      PROVE  q[j] <= q[i]
  <2>1. i > j /\ i \in Nat /\ j \in Nat /\ j = Heap!Parent(i)
    BY <1>1, <1>3, ChildrenFollow
  <2>2. CASE j = k /\ i = best
    BY <1>2, <2>2 DEF Exchanged
  <2>3. CASE j = k /\ i # best
    <3>1. i # k
      BY <1>1, <2>1, <2>3
    <3>2. q[j] = r[best] /\ q[i] = r[i] /\ r[best] <= r[i]
      BY <1>3, <2>3, <3>1 DEF Exchanged
    <3> QED BY <3>2
  <2>4. CASE j # k /\ i = k
    <3>1. q[j] = r[j] /\ q[i] = r[best] /\ r[j] <= r[best]
      BY <1>3, <2>4 DEF Heaped, Exchanged
    <3> QED BY <3>1
  <2>5. CASE j # k /\ i # k
    <3>1. i # best
      BY <1>1, <2>1, <2>5, ChildrenFollow
    <3>2. q[j] = r[j] /\ q[i] = r[i] /\ r[j] <= r[i]
      BY <1>3, <2>5, <3>1 DEF Heaped, Exchanged
    <3> QED BY <3>2
  <2> QED BY <2>2, <2>3, <2>4, <2>5
<1>4. ASSUME NEW i \in Indices(n), NEW j \in Indices(n),
             Heap!ChildOf(i, best), Heap!ChildOf(best, j)
      PROVE  q[j] <= q[i]
  <2>1. j = k
    BY <1>1, <1>4, ChildrenFollow
  <2>2. i > best /\ i \in Nat
    BY <1>1, <1>4, ChildrenFollow
  <2>3. i # best /\ i # k /\ best # k
    BY <1>1, <1>2, <2>2
  <2>4. q[j] = r[best] /\ q[i] = r[i] /\ r[best] <= r[i]
    BY <1>4, <2>1, <2>3 DEF Heaped, Exchanged
  <2> QED BY <2>4
<1> QED BY <1>3, <1>4 DEF Heaped

\* Where no sift is under way the first item is least: the least index of an
\* item that goes before the first would have a parent that does too.
LEMMA FirstIsLeast ==
  ASSUME NEW n \in Nat, NEW r \in [Indices(n) -> Int], NEW k, Heaped(r, n, "no", k)
  PROVE  \A i \in Indices(n) : r[0] <= r[i]
<1>0. Indices(n) \subseteq Nat /\ \A l \in Indices(n) : 0 \in Indices(n) /\ \A m \in Nat :
        m < l => m \in Indices(n)
  BY DEF Indices
<1> DEFINE Bad == {i \in Indices(n) : ~ (r[0] <= r[i])}
<1> SUFFICES ASSUME Bad # {} PROVE FALSE
  OBVIOUS
<1>1. PICK m \in Bad : \A i \in Bad : <<i, m>> \notin OpToRel(<, Nat)
  <2>1. Bad \subseteq Nat
    BY <1>0
  <2> HIDE DEF Bad
  <2> QED BY <2>1, WFMin, NatLessThanWellFounded, Zenon
<1>2. m \in Indices(n) /\ m \in Nat /\ ~ (r[0] <= r[m])
  BY <1>0
<1>3. m > 0
  BY <1>0, <1>2
<1>4. PICK p : p = Heap!Parent(m)
  OBVIOUS
<1>5. p \in Nat /\ p < m /\ Heap!ChildOf(m, p)
  BY <1>2, <1>3, <1>4, OneParent
<1>6. p \in Indices(n) /\ r[p] <= r[m]
  BY <1>0, <1>2, <1>5 DEF Heaped
<1>7. p \notin Bad
  <2>1. <<p, m>> \in OpToRel(<, Nat)
    BY <1>2, <1>5 DEF OpToRel
  <2> QED BY <1>1, <2>1
<1>8. r[0] <= r[p]
  BY <1>6, <1>7
<1> QED BY <1>0, <1>2, <1>6, <1>8

\* The ranks of the items of the heap.
Ranks(s, n) == [i \in Indices(n) |-> Order[s[i]]]

Stored(s, n) == \A i \in Indices(n) : s[i] \in Element

LEMMA RanksAre ==
  ASSUME NEW s, NEW n, Stored(s, n)
  PROVE  /\ Ranks(s, n) \in [Indices(n) -> Int]
         /\ \A i \in Indices(n) : Ranks(s, n)[i] = Order[s[i]]
BY HeapNumbers DEF Ranks, Stored

LEMMA OrderedIsHeaped ==
  ASSUME hSize \in Nat
  PROVE  Heap!Ordered <=> Heaped(Ranks(hSlots, hSize), hSize, sift, idx)
<1>1. PICK r : r = Ranks(hSlots, hSize)
  OBVIOUS
<1>2. \A i \in Indices(hSize) : r[i] = Heap!RankAt(i)
  BY <1>1 DEF Ranks, Heap!RankAt
<1>3. Indices(hSize) = 0 .. hSize - 1
  BY DEF Indices
<1>4. Heaped(r, hSize, sift, idx) <=> Heap!Ordered
  BY <1>2, <1>3 DEF Heaped, Heap!Ordered
<1> QED BY <1>1, <1>4

LEMMA TopIsLeastOf ==
  ASSUME hSize \in Nat, Stored(hSlots, hSize), Heap!Ordered
  PROVE  Heap!TopIsLeast
<1> SUFFICES ASSUME sift = "no", NEW i \in 0 .. hSize - 1
             PROVE  Heap!RankAt(0) <= Heap!RankAt(i)
  BY DEF Heap!TopIsLeast
<1>1. PICK r : r = Ranks(hSlots, hSize)
  OBVIOUS
<1>2. r \in [Indices(hSize) -> Int] /\ Heaped(r, hSize, "no", idx)
  BY <1>1, RanksAre, OrderedIsHeaped
<1>3. i \in Indices(hSize) /\ 0 \in Indices(hSize)
  BY DEF Indices
<1>4. r[0] <= r[i]
  BY <1>2, <1>3, FirstIsLeast
<1> QED BY <1>1, <1>3, <1>4 DEF Ranks, Heap!RankAt

LEMMA RanksExchange ==
  ASSUME NEW n, NEW s, NEW t, NEW i \in Indices(n), NEW j \in Indices(n),
         Exchanged(t, s, n, i, j)
  PROVE  Exchanged(Ranks(t, n), Ranks(s, n), n, i, j)
<1>1. PICK q, r : q = Ranks(t, n) /\ r = Ranks(s, n)
  OBVIOUS
<1>2. \A l \in Indices(n) : q[l] = Order[t[l]] /\ r[l] = Order[s[l]]
  BY <1>1 DEF Ranks
<1>3. Exchanged(q, r, n, i, j)
  BY <1>2 DEF Exchanged
<1> QED BY <1>1, <1>3

\* An exchange of two stored items: the array, its ranks, and what is behind.
LEMMA SwapExchanges ==
  ASSUME NEW n \in 0 .. HeapSize, NEW s \in [0 .. HeapSize - 1 -> Element \cup {Unwritten}],
         Stored(s, n), NEW i \in Indices(n), NEW j \in Indices(n), i # j,
         NEW t, t = [s EXCEPT ![i] = s[j], ![j] = s[i]]
  PROVE  /\ t \in [0 .. HeapSize - 1 -> Element \cup {Unwritten}]
         /\ Stored(t, n) /\ Exchanged(t, s, n, i, j)
         /\ Exchanged(Ranks(t, n), Ranks(s, n), n, i, j)
         /\ \A l \in 0 .. HeapSize - 1 : l \notin Indices(n) => t[l] = s[l]
<1>1. Indices(n) \subseteq 0 .. HeapSize - 1
  BY HeapNumbers DEF Indices
<1>2. t[i] = s[j] /\ t[j] = s[i] /\ \A l \in 0 .. HeapSize - 1 : l # i /\ l # j => t[l] = s[l]
  BY <1>1
<1>3. t \in [0 .. HeapSize - 1 -> Element \cup {Unwritten}]
  BY <1>1
<1>4. Exchanged(t, s, n, i, j)
  BY <1>1, <1>2 DEF Exchanged
<1>5. Stored(t, n)
  BY <1>1, <1>2 DEF Stored
<1>6. Exchanged(Ranks(t, n), Ranks(s, n), n, i, j)
  BY <1>4, RanksExchange
<1> QED BY <1>1, <1>2, <1>3, <1>4, <1>5, <1>6

\* How often an element is stored.
Count(s, n, e) == Cardinality({i \in Indices(n) : s[i] = e})

LEMMA CountNumbers ==
  ASSUME NEW s, NEW n \in Nat, NEW e
  PROVE  /\ IsFiniteSet({i \in Indices(n) : s[i] = e}) /\ Count(s, n, e) \in Nat
         /\ Count(s, n, e) > 0 <=> \E i \in Indices(n) : s[i] = e
<1>1. IsFiniteSet(Indices(n))
  BY FS_Interval DEF Indices
<1>2. PICK S : S = {i \in Indices(n) : s[i] = e}
  OBVIOUS
<1>3. IsFiniteSet(S)
  BY <1>1, <1>2, FS_Subset
<1>4. Cardinality(S) \in Nat /\ (Cardinality(S) = 0 <=> S = {})
  BY <1>3, FS_CardinalityType, FS_EmptySet
<1> QED BY <1>2, <1>3, <1>4 DEF Count

LEMMA SwapKeepsCount ==
  ASSUME NEW n \in Nat, NEW s, NEW t, NEW i \in Indices(n), NEW j \in Indices(n), i # j,
         Exchanged(t, s, n, i, j), NEW e
  PROVE  Count(t, n, e) = Count(s, n, e)
<1>1. PICK S, T : S = {l \in Indices(n) : s[l] = e} /\ T = {l \in Indices(n) : t[l] = e}
  OBVIOUS
<1>2. IsFiniteSet(S) /\ IsFiniteSet(T) /\ Cardinality(S) \in Nat
  <2>1. IsFiniteSet(Indices(n))
    BY FS_Interval DEF Indices
  <2>2. IsFiniteSet(S) /\ IsFiniteSet(T)
    BY <1>1, <2>1, FS_Subset
  <2> QED BY <2>2, FS_CardinalityType
<1>3. /\ i \in T <=> j \in S
      /\ j \in T <=> i \in S
      /\ \A l \in Indices(n) : l # i /\ l # j => (l \in T <=> l \in S)
  BY <1>1 DEF Exchanged
<1>4. S \subseteq Indices(n) /\ T \subseteq Indices(n)
  BY <1>1
<1>5. CASE (i \in S) <=> (j \in S)
  <2>1. S = T
    BY <1>3, <1>4, <1>5
  <2> QED BY <1>1, <2>1 DEF Count
<1>6. CASE i \in S /\ j \notin S
  <2>1. T = (S \ {i}) \cup {j} /\ j \notin S \ {i}
    BY <1>3, <1>4, <1>6
  <2>2. IsFiniteSet(S \ {i}) /\ Cardinality(S \ {i}) = Cardinality(S) - 1
    BY <1>2, <1>6, FS_RemoveElement
  <2>3. Cardinality(T) = Cardinality(S \ {i}) + 1
    BY <2>1, <2>2, FS_AddElement
  <2> QED BY <1>1, <1>2, <2>2, <2>3 DEF Count
<1>7. CASE i \notin S /\ j \in S
  <2>1. T = (S \ {j}) \cup {i} /\ i \notin S \ {j}
    BY <1>3, <1>4, <1>7
  <2>2. IsFiniteSet(S \ {j}) /\ Cardinality(S \ {j}) = Cardinality(S) - 1
    BY <1>2, <1>7, FS_RemoveElement
  <2>3. Cardinality(T) = Cardinality(S \ {j}) + 1
    BY <2>1, <2>2, FS_AddElement
  <2> QED BY <1>1, <1>2, <2>2, <2>3 DEF Count
<1> QED BY <1>5, <1>6, <1>7

\* One item more at the end.
LEMMA CountMore ==
  ASSUME NEW n \in Nat, NEW s, NEW t, \A l \in Indices(n) : t[l] = s[l], NEW e
  PROVE  Count(t, n + 1, e) = IF t[n] = e THEN Count(s, n, e) + 1 ELSE Count(s, n, e)
<1>1. Indices(n + 1) = Indices(n) \cup {n} /\ n \notin Indices(n)
  BY DEF Indices
<1>2. PICK S, T : S = {l \in Indices(n) : s[l] = e} /\ T = {l \in Indices(n + 1) : t[l] = e}
  OBVIOUS
<1>3. IsFiniteSet(S)
  BY <1>2, CountNumbers
<1>4. T = (IF t[n] = e THEN S \cup {n} ELSE S) /\ n \notin S
  BY <1>1, <1>2
<1>5. Count(s, n, e) = Cardinality(S) /\ Count(t, n + 1, e) = Cardinality(T)
  BY <1>2 DEF Count
<1>6. CASE t[n] = e
  <2>1. T = S \cup {n}
    BY <1>4, <1>6
  <2>2. Cardinality(S \cup {n}) = Cardinality(S) + 1
    BY <1>3, <1>4, FS_AddElement
  <2> QED BY <1>5, <1>6, <2>1, <2>2
<1>7. CASE t[n] # e
  <2>1. T = S
    BY <1>4, <1>7
  <2> QED BY <1>5, <1>7, <2>1
<1> QED BY <1>6, <1>7

-----------------------------------------------------------------------------
(***************************************************************************)
(* The heap at each step.                                                  *)
(***************************************************************************)
HeapInv == Heap!TypeOK /\ Heap!Ordered /\ Heap!PoppedHolds /\ Heap!HeldExactly

LEMMA HeapInvFacts ==
  ASSUME HeapInv
  PROVE  /\ hSize \in 0 .. HeapSize /\ hSize \in Nat
         /\ hSlots \in [0 .. HeapSize - 1 -> Element \cup {Unwritten}] /\ Stored(hSlots, hSize)
         /\ Heaped(Ranks(hSlots, hSize), hSize, sift, idx)
         /\ sift # "no" => idx \in Indices(hSize)
<1>1. hSize \in 0 .. HeapSize /\ hSize \in Nat
  BY HeapNumbers DEF HeapInv, Heap!TypeOK
<1> QED BY <1>1, OrderedIsHeaped DEF HeapInv, Heap!TypeOK, Stored, Indices

\* What makes up the invariant of the next state.
LEMMA HeapInvNext ==
  ASSUME hSize' \in 0 .. HeapSize,
         hSlots' \in [0 .. HeapSize - 1 -> Element \cup {Unwritten}], Stored(hSlots', hSize'),
         sift' \in {"no", "up", "down"}, sift' # "no" => idx' \in Indices(hSize'),
         popped' \in BOOLEAN, Heaped(Ranks(hSlots', hSize'), hSize', sift', idx'),
         Heap!PoppedHolds', Heap!HeldExactly'
  PROVE  HeapInv'
<1>1. hSize' \in Nat
  BY HeapNumbers
<1>2. PICK n, s, r : n = hSize' /\ s = hSlots' /\ r = Ranks(s, n)
  OBVIOUS
<1>3. /\ \A i \in Indices(n) : r[i] = Order[s[i]]
      /\ Indices(n) = 0 .. n - 1
  BY <1>2 DEF Ranks, Indices
<1>4. Heap!Ordered'
  BY <1>2, <1>3 DEF Heaped, Heap!Ordered, Heap!RankAt
<1>5. Heap!TypeOK'
  BY <1>2, <1>3 DEF Heap!TypeOK, Stored
<1> QED BY <1>4, <1>5 DEF HeapInv

LEMMA HeapInitially == Heap!Init => HeapInv
<1> SUFFICES ASSUME Heap!Init PROVE HeapInv
  OBVIOUS
<1>1. /\ hSize = 0 /\ hSlots = [i \in 0 .. HeapSize - 1 |-> Unwritten] /\ sift = "no"
      /\ popped = FALSE /\ hHeld = {}
  BY DEF Heap!Init
<1>2. 0 .. hSize - 1 = {} /\ hSize \in 0 .. HeapSize
  BY <1>1, HeapNumbers
<1>3. Heap!TypeOK
  BY <1>1, <1>2 DEF Heap!TypeOK
<1>4. Heap!Ordered
  BY <1>1, <1>2 DEF Heap!Ordered
<1>5. Heap!PoppedHolds /\ Heap!HeldExactly
  BY <1>1 DEF Heap!PoppedHolds, Heap!HeldExactly, Heap!Exists
<1> QED BY <1>3, <1>4, <1>5 DEF HeapInv

\* An array without items.
LEMMA EmptyIsHeaped ==
  ASSUME NEW r, NEW k
  PROVE  Heaped(r, 0, "no", k) /\ Indices(0) = {}
<1>1. Indices(0) = {}
  BY DEF Indices
<1> QED BY <1>1 DEF Heaped

LEMMA CreateKeepsHeap == HeapInv /\ (Heap!Create \/ Heap!CreateFails) => HeapInv'
<1> SUFFICES ASSUME HeapInv, Heap!Create \/ Heap!CreateFails PROVE HeapInv'
  OBVIOUS
<1>1. UNCHANGED <<hSize, hSlots, sift, idx, popped, poppedItem>>
  BY DEF Heap!Create, Heap!CreateFails
<1>2. Heap!TypeOK' /\ Heap!Ordered' /\ Heap!PoppedHolds'
  BY <1>1 DEF HeapInv, Heap!TypeOK, Heap!Ordered, Heap!PoppedHolds, Heap!RankAt
<1>3. hHeld = {} /\ hSize = 0 /\ sift = "no"
  BY DEF HeapInv, Heap!HeldExactly, Heap!Create, Heap!CreateFails
<1>4. hHeld' = {"heap", "vector", "buffer"} \/ hHeld' = {}
  BY <1>3 DEF Heap!Create, Heap!CreateFails
<1>5. Heap!HeldExactly'
  BY <1>1, <1>3, <1>4 DEF Heap!HeldExactly, Heap!Exists
<1> QED BY <1>2, <1>5 DEF HeapInv

LEMMA DestroyKeepsHeap == HeapInv /\ Heap!Destroy => HeapInv'
<1> SUFFICES ASSUME HeapInv, Heap!Destroy PROVE HeapInv'
  OBVIOUS
<1>1. /\ hHeld' = hHeld \ {"heap", "vector", "buffer"} /\ hSize' = 0
      /\ hSlots' = [i \in 0 .. HeapSize - 1 |-> Unwritten] /\ sift = "no"
      /\ popped' = FALSE /\ sift' = sift /\ idx' = idx
  BY DEF Heap!Destroy, Heap!Idle
<1>2. hHeld' = {}
  BY <1>1 DEF HeapInv, Heap!HeldExactly
<1>3. Heap!HeldExactly' /\ Heap!PoppedHolds'
  BY <1>1, <1>2 DEF Heap!HeldExactly, Heap!Exists, Heap!PoppedHolds
<1>4. Heaped(Ranks(hSlots', hSize'), hSize', sift', idx') /\ Indices(hSize') = {}
  BY <1>1, EmptyIsHeaped
<1>5. hSize' \in 0 .. HeapSize /\ Stored(hSlots', hSize')
  BY <1>1, <1>4, HeapNumbers DEF Stored
<1> QED BY <1>1, <1>3, <1>4, <1>5, HeapInvNext

\* The new item is the last, which the sift begins with.
LEMMA PushKeepsHeap == ASSUME NEW e \in Element PROVE HeapInv /\ Heap!Push(e) => HeapInv'
<1> SUFFICES ASSUME HeapInv, Heap!Push(e) PROVE HeapInv'
  OBVIOUS
<1>1. PICK n, s, t : n = hSize /\ s = hSlots /\ t = hSlots'
  OBVIOUS
<1>2. /\ n < HeapSize /\ t = [s EXCEPT ![n] = e] /\ hSize' = n + 1
      /\ sift = "no" /\ sift' = "up" /\ idx' = n /\ popped' = FALSE /\ hHeld' = hHeld
      /\ Heap!Exists
  BY <1>1 DEF Heap!Push, Heap!Idle
<1>3. /\ n \in 0 .. HeapSize /\ n \in Nat /\ HeapSize \in Nat
      /\ s \in [0 .. HeapSize - 1 -> Element \cup {Unwritten}] /\ Stored(s, n)
      /\ Heaped(Ranks(s, n), n, "no", idx)
  BY <1>1, <1>2, HeapInvFacts, HeapNumbers
<1>4. Indices(n + 1) = Indices(n) \cup {n} /\ Indices(n) \subseteq 0 .. HeapSize - 1
      /\ n \in 0 .. HeapSize - 1 /\ n \notin Indices(n) /\ Indices(n) \subseteq Nat
      /\ \A i \in Indices(n + 1) : i <= n
  BY <1>2, <1>3 DEF Indices
<1>5. /\ t \in [0 .. HeapSize - 1 -> Element \cup {Unwritten}] /\ t[n] = e
      /\ \A i \in Indices(n) : t[i] = s[i]
  BY <1>2, <1>3, <1>4
<1>6. Stored(t, n + 1)
  BY <1>3, <1>4, <1>5 DEF Stored
<1>7. Heaped(Ranks(t, n + 1), n + 1, "up", n)
  <2>1. PICK q, r : q = Ranks(t, n + 1) /\ r = Ranks(s, n)
    OBVIOUS
  <2>2. \A i \in Indices(n) : q[i] = r[i]
    BY <1>4, <1>5, <2>1 DEF Ranks
  <2>3. ASSUME NEW i \in Indices(n + 1), NEW j \in Indices(n + 1), Heap!ChildOf(i, j), i # n
        PROVE  q[j] <= q[i]
    <3>1. i \in Indices(n) /\ i \in Nat /\ j \in Nat
      BY <1>3, <1>4, <2>3
    <3>2. i > j
      BY <2>3, <3>1, ChildrenFollow
    <3>3. j \in Indices(n)
      BY <1>4, <3>1, <3>2
    <3>4. r[j] <= r[i]
      BY <1>3, <2>1, <2>3, <3>1, <3>3 DEF Heaped
    <3> QED BY <2>2, <3>1, <3>3, <3>4
  <2>4. ASSUME NEW i \in Indices(n + 1), Heap!ChildOf(i, n) PROVE FALSE
    <3>1. i \in Nat /\ i <= n
      BY <1>3, <1>4
    <3> QED BY <1>3, <2>4, <3>1, ChildrenFollow
  <2>5. Heaped(q, n + 1, "up", n)
    BY <2>3, <2>4 DEF Heaped
  <2> QED BY <2>1, <2>5
<1>8. Heap!PoppedHolds'
  BY <1>2 DEF Heap!PoppedHolds
<1>9. Heap!HeldExactly'
  BY <1>2 DEF HeapInv, Heap!HeldExactly, Heap!Exists
<1>10. n + 1 \in 0 .. HeapSize
  BY <1>2, <1>3
<1> QED BY <1>1, <1>2, <1>4, <1>5, <1>6, <1>7, <1>8, <1>9, <1>10, HeapInvNext

\* A swap of a sift: nothing but two items and the index changes.
LEMMA SwapKeepsHeap ==
  ASSUME HeapInv, sift # "no", NEW k \in Indices(hSize), k # idx,
         hSlots' = Heap!Swapped(idx, k), UNCHANGED <<hSize, sift, popped, poppedItem, hHeld>>,
         NEW j \in Indices(hSize), idx' = j,
         Exchanged(Ranks(hSlots', hSize), Ranks(hSlots, hSize), hSize, idx, k)
           => Heaped(Ranks(hSlots', hSize), hSize, sift, j)
  PROVE  HeapInv'
<1>1. PICK n, s, t, i : n = hSize /\ s = hSlots /\ t = hSlots' /\ i = idx
  OBVIOUS
<1>2. /\ n \in 0 .. HeapSize /\ n \in Nat /\ i \in Indices(n)
      /\ s \in [0 .. HeapSize - 1 -> Element \cup {Unwritten}] /\ Stored(s, n)
  BY <1>1, HeapInvFacts
<1>3. t = [s EXCEPT ![i] = s[k], ![k] = s[i]]
  BY <1>1 DEF Heap!Swapped
<1>4. /\ t \in [0 .. HeapSize - 1 -> Element \cup {Unwritten}] /\ Stored(t, n)
      /\ Exchanged(Ranks(t, n), Ranks(s, n), n, i, k)
      /\ \A l \in 0 .. HeapSize - 1 : l \notin Indices(n) => t[l] = s[l]
  <2>1. k \in Indices(n) /\ i # k
    BY <1>1
  <2> QED BY <1>2, <1>3, <2>1, SwapExchanges
<1>5. Heap!PoppedHolds'
  <2> SUFFICES ASSUME popped PROVE n < HeapSize /\ t[n] = poppedItem
    BY <1>1 DEF Heap!PoppedHolds
  <2>1. n < HeapSize /\ s[n] = poppedItem
    BY <1>1 DEF HeapInv, Heap!PoppedHolds
  <2>2. n \in 0 .. HeapSize - 1 /\ n \notin Indices(n)
    BY <1>2, <2>1, HeapNumbers DEF Indices
  <2> QED BY <1>4, <2>1, <2>2
<1>6. Heap!HeldExactly'
  BY DEF HeapInv, Heap!HeldExactly, Heap!Exists
<1>7. sift' \in {"no", "up", "down"} /\ popped' \in BOOLEAN
  BY DEF HeapInv, Heap!TypeOK
<1>8. Heaped(Ranks(hSlots', hSize'), hSize', sift', idx')
  BY <1>1, <1>4
<1> QED BY <1>1, <1>2, <1>4, <1>5, <1>6, <1>7, <1>8, HeapInvNext

LEMMA SiftUpKeepsHeap == HeapInv /\ Heap!SiftUp => HeapInv'
<1> SUFFICES ASSUME HeapInv, Heap!SiftUp PROVE HeapInv'
  OBVIOUS
<1>1. PICK n, i, p, r, q :
        /\ n = hSize /\ i = idx /\ p = Heap!Parent(idx)
        /\ r = Ranks(hSlots, hSize) /\ q = Ranks(hSlots', hSize)
  OBVIOUS
<1>2. /\ sift = "up" /\ i > 0 /\ Heap!GoesBefore(i, p)
      /\ hSlots' = Heap!Swapped(idx, p) /\ idx' = p
      /\ UNCHANGED <<hSize, sift, popped, poppedItem, hHeld>>
  BY <1>1 DEF Heap!SiftUp
<1>3. /\ n \in Nat /\ Stored(hSlots, n) /\ Heaped(r, n, "up", i) /\ i \in Indices(n)
  BY <1>1, <1>2, HeapInvFacts
<1>4. p \in Indices(n) /\ p # i
  <2>1. i \in Nat /\ Indices(n) = 0 .. n - 1
    BY <1>3 DEF Indices
  <2>2. p \in Nat /\ p < i
    BY <1>1, <1>2, <2>1, OneParent
  <2> QED BY <1>3, <2>1, <2>2
<1>5. /\ Stored(hSlots', n) /\ Exchanged(q, r, n, i, p)
  <2>1. hSlots' = [hSlots EXCEPT ![i] = hSlots[p], ![p] = hSlots[i]]
    BY <1>1, <1>2 DEF Heap!Swapped
  <2>2. n \in 0 .. HeapSize /\ hSlots \in [0 .. HeapSize - 1 -> Element \cup {Unwritten}]
    BY <1>1, HeapInvFacts
  <2> QED BY <1>1, <1>3, <1>4, <2>1, <2>2, SwapExchanges
<1>6. q \in [Indices(n) -> Int] /\ r \in [Indices(n) -> Int]
  <2>1. Ranks(hSlots', n) \in [Indices(n) -> Int]
    BY <1>5, RanksAre
  <2>2. Ranks(hSlots, n) \in [Indices(n) -> Int]
    BY <1>3, RanksAre
  <2> QED BY <1>1, <2>1, <2>2
<1>7. r[i] < r[p]
  BY <1>1, <1>2, <1>3, <1>4 DEF Ranks, Heap!GoesBefore, Heap!RankAt
<1>8. Heaped(q, n, "up", p)
  BY <1>1, <1>2, <1>3, <1>5, <1>6, <1>7, UpKeepsHeaped
<1> QED BY <1>1, <1>2, <1>4, <1>8, SwapKeepsHeap

LEMMA SiftUpEndsKeepsHeap == HeapInv /\ Heap!SiftUpEnds => HeapInv'
<1> SUFFICES ASSUME HeapInv, Heap!SiftUpEnds PROVE HeapInv'
  OBVIOUS
<1>1. PICK n, i, r : n = hSize /\ i = idx /\ r = Ranks(hSlots, hSize)
  OBVIOUS
<1>2. /\ sift = "up" /\ (i > 0 => ~ Heap!GoesBefore(i, Heap!Parent(i))) /\ sift' = "no"
      /\ UNCHANGED <<hSize, hSlots, idx, popped, poppedItem, hHeld>>
  BY <1>1 DEF Heap!SiftUpEnds
<1>3. /\ n \in Nat /\ Stored(hSlots, n) /\ Heaped(r, n, "up", i) /\ i \in Indices(n)
      /\ r \in [Indices(n) -> Int] /\ Indices(n) \subseteq Nat
  <2>1. n \in Nat /\ Stored(hSlots, n) /\ Heaped(r, n, "up", i) /\ i \in Indices(n)
    BY <1>1, <1>2, HeapInvFacts
  <2> QED BY <1>1, <2>1, RanksAre DEF Indices
<1>4. Heaped(r, n, "no", i)
  <2> SUFFICES ASSUME NEW c \in Indices(n), NEW p \in Indices(n), Heap!ChildOf(c, p)
               PROVE  r[p] <= r[c]
    BY DEF Heaped
  <2>1. CASE c = i
    <3>1. i > 0 /\ p = Heap!Parent(i)
      BY <1>3, <2>1, ChildrenFollow
    <3>2. ~ (r[i] < r[p])
      BY <1>1, <1>2, <1>3, <3>1 DEF Ranks, Heap!GoesBefore, Heap!RankAt
    <3> QED BY <1>3, <2>1, <3>2
  <2>2. CASE c # i
    BY <1>3, <2>2 DEF Heaped
  <2> QED BY <2>1, <2>2
<1>5. Heaped(Ranks(hSlots', hSize'), hSize', sift', idx')
  BY <1>1, <1>2, <1>4
<1>6. Heap!PoppedHolds' /\ Heap!HeldExactly'
  BY <1>2 DEF HeapInv, Heap!PoppedHolds, Heap!HeldExactly, Heap!Exists
<1>7. popped' \in BOOLEAN
  BY <1>2 DEF HeapInv, Heap!TypeOK
<1> QED BY <1>1, <1>2, <1>3, <1>5, <1>6, <1>7, HeapInvFacts, HeapInvNext

\* What sift_down compares: the index it takes goes before idx, or is idx, and
\* no child of idx goes before it.
LEMMA BestIs ==
  ASSUME NEW n \in Nat, n = hSize, NEW i \in Indices(n), i = idx, Stored(hSlots, n),
         NEW r, r = Ranks(hSlots, n)
  PROVE  /\ Heap!Best \in Indices(n)
         /\ Heap!Best # i => Heap!ChildOf(Heap!Best, i) /\ r[Heap!Best] < r[i]
         /\ \A c \in Indices(n) : Heap!ChildOf(c, i) => r[Heap!Best] <= r[c]
<1>1. r \in [Indices(n) -> Int] /\ \A c \in Indices(n) : r[c] = Heap!RankAt(c)
  BY RanksAre DEF Heap!RankAt
<1>2. PICK l, m : l = Heap!Left(i) /\ m = Heap!Right(i)
  OBVIOUS
<1>3. /\ i \in Nat /\ l \in Nat /\ m \in Nat /\ l # i /\ m # i
      /\ (l < n <=> l \in Indices(n)) /\ (m < n <=> m \in Indices(n))
      /\ \A c : Heap!ChildOf(c, i) <=> c = l \/ c = m
  BY <1>2 DEF Indices, Heap!Left, Heap!Right, Heap!ChildOf
<1>4. \A c, d \in Indices(n) : Heap!GoesBefore(c, d) <=> r[c] < r[d]
  BY <1>1 DEF Heap!GoesBefore
<1>5. PICK left : left = IF l < n /\ Heap!GoesBefore(l, i) THEN l ELSE i
  OBVIOUS
<1>6. Heap!Best = IF m < n /\ Heap!GoesBefore(m, left) THEN m ELSE left
  BY <1>2, <1>5 DEF Heap!Best
<1>7. /\ left \in Indices(n) /\ left \in {l, i} /\ (left # i => r[left] < r[i])
      /\ (l \in Indices(n) => r[left] <= r[l]) /\ r[left] <= r[i]
  BY <1>1, <1>3, <1>4, <1>5
<1>8. PICK best : best = Heap!Best
  OBVIOUS
<1>9. /\ best \in Indices(n) /\ best \in {l, m, i} /\ (best # i => r[best] < r[i])
      /\ (l \in Indices(n) => r[best] <= r[l]) /\ (m \in Indices(n) => r[best] <= r[m])
  BY <1>1, <1>3, <1>4, <1>6, <1>7, <1>8
<1> QED BY <1>3, <1>8, <1>9

LEMMA SiftDownKeepsHeap == HeapInv /\ Heap!SiftDown => HeapInv'
<1> SUFFICES ASSUME HeapInv, Heap!SiftDown PROVE HeapInv'
  OBVIOUS
<1>1. PICK n, i, best, r, q :
        /\ n = hSize /\ i = idx /\ best = Heap!Best
        /\ r = Ranks(hSlots, hSize) /\ q = Ranks(hSlots', hSize)
  OBVIOUS
<1>2. /\ sift = "down" /\ best # i /\ hSlots' = Heap!Swapped(idx, best) /\ idx' = best
      /\ UNCHANGED <<hSize, sift, popped, poppedItem, hHeld>>
  BY <1>1 DEF Heap!SiftDown
<1>3. /\ n \in Nat /\ Stored(hSlots, n) /\ Heaped(r, n, "down", i) /\ i \in Indices(n)
  BY <1>1, <1>2, HeapInvFacts
<1>4. /\ best \in Indices(n) /\ Heap!ChildOf(best, i) /\ r[best] < r[i]
      /\ \A c \in Indices(n) : Heap!ChildOf(c, i) => r[best] <= r[c]
  BY <1>1, <1>2, <1>3, BestIs
<1>5. /\ Stored(hSlots', n) /\ Exchanged(q, r, n, i, best)
  <2>1. hSlots' = [hSlots EXCEPT ![i] = hSlots[best], ![best] = hSlots[i]]
    BY <1>1, <1>2 DEF Heap!Swapped
  <2>2. n \in 0 .. HeapSize /\ hSlots \in [0 .. HeapSize - 1 -> Element \cup {Unwritten}]
    BY <1>1, HeapInvFacts
  <2>3. /\ Stored(hSlots', n)
        /\ Exchanged(Ranks(hSlots', n), Ranks(hSlots, n), n, i, best)
    <3>1. i # best /\ i \in Indices(n) /\ best \in Indices(n) /\ Stored(hSlots, n)
      BY <1>2, <1>3, <1>4
    <3> QED BY <2>1, <2>2, <3>1, SwapExchanges
  <2> QED BY <1>1, <2>3
<1>6. q \in [Indices(n) -> Int] /\ r \in [Indices(n) -> Int]
  <2>1. Ranks(hSlots', n) \in [Indices(n) -> Int]
    BY <1>5, RanksAre
  <2>2. Ranks(hSlots, n) \in [Indices(n) -> Int]
    BY <1>3, RanksAre
  <2> QED BY <1>1, <2>1, <2>2
<1>7. Heaped(q, n, "down", best)
  BY <1>3, <1>4, <1>5, <1>6, DownKeepsHeaped
<1> QED BY <1>1, <1>2, <1>4, <1>7, SwapKeepsHeap

LEMMA SiftDownEndsKeepsHeap == HeapInv /\ Heap!SiftDownEnds => HeapInv'
<1> SUFFICES ASSUME HeapInv, Heap!SiftDownEnds PROVE HeapInv'
  OBVIOUS
<1>1. PICK n, i, r : n = hSize /\ i = idx /\ r = Ranks(hSlots, hSize)
  OBVIOUS
<1>2. /\ sift = "down" /\ Heap!Best = i /\ sift' = "no"
      /\ UNCHANGED <<hSize, hSlots, idx, popped, poppedItem, hHeld>>
  BY <1>1 DEF Heap!SiftDownEnds
<1>3. n \in Nat /\ Stored(hSlots, n) /\ Heaped(r, n, "down", i) /\ i \in Indices(n)
  BY <1>1, <1>2, HeapInvFacts
<1>4. \A c \in Indices(n) : Heap!ChildOf(c, i) => r[i] <= r[c]
  BY <1>1, <1>2, <1>3, BestIs
<1>5. Heaped(r, n, "no", i)
  BY <1>3, <1>4 DEF Heaped
<1>6. Heaped(Ranks(hSlots', hSize'), hSize', sift', idx')
  BY <1>1, <1>2, <1>5
<1>7. Heap!PoppedHolds' /\ Heap!HeldExactly'
  BY <1>2 DEF HeapInv, Heap!PoppedHolds, Heap!HeldExactly, Heap!Exists
<1>8. popped' \in BOOLEAN
  BY <1>2 DEF HeapInv, Heap!TypeOK
<1> QED BY <1>1, <1>2, <1>3, <1>6, <1>7, <1>8, HeapInvFacts, HeapInvNext

\* The last item takes the place of the first and is sifted down from there.
LEMMA PopKeepsHeap == HeapInv /\ Heap!Pop => HeapInv'
<1> SUFFICES ASSUME HeapInv, Heap!Pop PROVE HeapInv'
  OBVIOUS
<1>1. PICK n, s, t, m : n = hSize /\ s = hSlots /\ t = hSlots' /\ m = n - 1
  OBVIOUS
<1>2. /\ n > 0 /\ sift = "no" /\ hSize' = m /\ Heap!Exists
      /\ t = (IF n > 1 THEN [s EXCEPT ![0] = s[m], ![m] = s[0]] ELSE s)
      /\ sift' = (IF n > 1 THEN "down" ELSE "no") /\ idx' = (IF n > 1 THEN 0 ELSE idx)
      /\ popped' = TRUE /\ poppedItem' = s[0] /\ hHeld' = hHeld
  BY <1>1 DEF Heap!Pop, Heap!Idle, Heap!Swapped
<1>3. /\ n \in 0 .. HeapSize /\ n \in Nat /\ HeapSize \in Nat
      /\ s \in [0 .. HeapSize - 1 -> Element \cup {Unwritten}] /\ Stored(s, n)
      /\ Heaped(Ranks(s, n), n, "no", idx)
  BY <1>1, <1>2, HeapInvFacts, HeapNumbers
<1>4. /\ m \in Nat /\ m \in Indices(n) /\ 0 \in Indices(n) /\ Indices(n) \subseteq Nat
      /\ Indices(m) = Indices(n) \ {m} /\ m < HeapSize /\ m \in 0 .. HeapSize
      /\ (n > 1 <=> m # 0) /\ (m = 0 => Indices(m) = {}) /\ (m # 0 => 0 \in Indices(m))
  BY <1>1, <1>2, <1>3 DEF Indices
<1>5. /\ t \in [0 .. HeapSize - 1 -> Element \cup {Unwritten}] /\ Stored(t, n)
      /\ t[m] = s[0] /\ \A l \in Indices(m) : l # 0 => t[l] = s[l]
  <2>1. CASE m = 0
    BY <1>2, <1>3, <1>4, <2>1
  <2>2. CASE m # 0
    <3>1. t = [s EXCEPT ![0] = s[m], ![m] = s[0]]
      BY <1>2, <1>4, <2>2
    <3>2. /\ t \in [0 .. HeapSize - 1 -> Element \cup {Unwritten}] /\ Stored(t, n)
          /\ Exchanged(t, s, n, 0, m)
      BY <1>3, <1>4, <2>2, <3>1, SwapExchanges
    <3> QED BY <1>4, <3>2 DEF Exchanged
  <2> QED BY <2>1, <2>2
<1>6. Stored(t, m)
  BY <1>4, <1>5 DEF Stored
<1>7. Heaped(Ranks(t, m), m, sift', idx')
  <2>1. CASE m = 0
    BY <1>2, <1>4, <2>1, EmptyIsHeaped
  <2>2. CASE m # 0
    <3>1. PICK q, r : q = Ranks(t, m) /\ r = Ranks(s, n)
      OBVIOUS
    <3>2. \A l \in Indices(m) : l # 0 => q[l] = r[l]
      BY <1>4, <1>5, <3>1 DEF Ranks
    <3>3. ASSUME NEW c \in Indices(m), NEW p \in Indices(m), Heap!ChildOf(c, p), p # 0
          PROVE  q[p] <= q[c]
      <4>1. c # 0
        BY <1>4, <3>3, ChildrenFollow
      <4>2. r[p] <= r[c]
        BY <1>3, <1>4, <3>1, <3>3 DEF Heaped
      <4> QED BY <3>2, <3>3, <4>1, <4>2
    <3>4. ASSUME NEW p \in Indices(m), Heap!ChildOf(0, p) PROVE FALSE
      BY <1>4, <3>4, ChildrenFollow
    <3>5. Heaped(q, m, "down", 0)
      BY <3>3, <3>4 DEF Heaped
    <3> QED BY <1>2, <1>4, <2>2, <3>1, <3>5
  <2> QED BY <2>1, <2>2
<1>8. Heap!PoppedHolds'
  BY <1>1, <1>2, <1>4, <1>5 DEF Heap!PoppedHolds
<1>9. Heap!HeldExactly'
  BY <1>2 DEF HeapInv, Heap!HeldExactly, Heap!Exists
<1>10. sift' \in {"no", "up", "down"} /\ (sift' # "no" => idx' \in Indices(m))
  BY <1>2, <1>4
<1> QED BY <1>1, <1>2, <1>4, <1>5, <1>6, <1>7, <1>8, <1>9, <1>10, HeapInvNext

LEMMA HeapStep == HeapInv /\ [Heap!Next]_(Heap!vars) => HeapInv'
<1> SUFFICES ASSUME HeapInv, [Heap!Next]_(Heap!vars) PROVE HeapInv'
  OBVIOUS
<1>1. CASE UNCHANGED Heap!vars
  BY <1>1 DEF HeapInv, Heap!vars, Heap!TypeOK, Heap!Ordered, Heap!RankAt,
              Heap!PoppedHolds, Heap!HeldExactly, Heap!Exists
<1>2. CASE Heap!Next
  BY <1>2, CreateKeepsHeap, DestroyKeepsHeap, PushKeepsHeap, SiftUpKeepsHeap,
     SiftUpEndsKeepsHeap, PopKeepsHeap, SiftDownKeepsHeap, SiftDownEndsKeepsHeap
     DEF Heap!Next
<1> QED BY <1>1, <1>2

\* The heap's part of a step of the instance.
LEMMA HeapPart ==
  ASSUME [UseSearch \/ UseHeap]_<<call, sVars, hVars>>
  PROVE  [Heap!Next]_(Heap!vars)
BY DEF UseSearch, UseHeap, hVars, Heap!vars

\* binary_heap.c keeps the heap in the shape the sifts rely on, step by step:
\* Heap!Consistent without what follows from the rest of it.
THEOREM HeapKeepsInv == OrderedSpec => []HeapInv
<1>1. OrderedInit => HeapInv
  BY HeapInitially DEF OrderedInit
<1>2. HeapInv /\ [UseSearch \/ UseHeap]_<<call, sVars, hVars>> => HeapInv'
  BY HeapStep, HeapPart
<1> QED BY <1>1, <1>2, PTL DEF OrderedSpec

\* datastruct/binary_heap.c, for every set of elements, order of them and size
\* of the vector: at every swap of a sift only the sifted index is poppedItem of order,
\* between operations the top is least, and the slot a pop handed poppedItem keeps the
\* popped element until the next push.
THEOREM HeapIsConsistent == OrderedSpec => []HeapConsistent
<1>1. HeapInv => HeapConsistent
  BY HeapInvFacts, TopIsLeastOf DEF HeapInv, HeapConsistent, Heap!Consistent
<1> QED BY <1>1, HeapKeepsInv, PTL

-----------------------------------------------------------------------------
(***************************************************************************)
(* The heap as a bag.                                                      *)
(***************************************************************************)
LEMMA SameCardinality ==
  ASSUME NEW S
  PROVE  Heap!Cardinality(S) = Cardinality(S)
BY Zenon DEF Heap!Cardinality, Cardinality

LEMMA BagIs ==
  /\ Heap!Bag = [e \in Element |-> Count(hSlots, hSize, e)]
  /\ Heap!Bag' = [e \in Element |-> Count(hSlots', hSize', e)]
<1>1. \A S : Heap!Cardinality(S) = Cardinality(S)
  BY SameCardinality
<1>2. Heap!Bag = [e \in Element |-> Count(hSlots, hSize, e)]
  BY <1>1 DEF Heap!Bag, Count, Indices
<1>3. Heap!Bag' = [e \in Element |-> Count(hSlots', hSize', e)]
  BY <1>1 DEF Heap!Bag, Count, Indices
<1> QED BY <1>2, <1>3

\* A swap neither adds nor removes an element.
LEMMA SwapKeepsBag ==
  ASSUME HeapInv, NEW i \in Indices(hSize), NEW j \in Indices(hSize), i # j,
         hSlots' = Heap!Swapped(i, j), hSize' = hSize
  PROVE  Heap!Bag' = Heap!Bag
<1>1. PICK n, s, t : n = hSize /\ s = hSlots /\ t = hSlots'
  OBVIOUS
<1>2. /\ n \in 0 .. HeapSize /\ n \in Nat /\ i \in Indices(n) /\ j \in Indices(n)
      /\ s \in [0 .. HeapSize - 1 -> Element \cup {Unwritten}] /\ Stored(s, n)
  BY <1>1, HeapInvFacts
<1>3. t = [s EXCEPT ![i] = s[j], ![j] = s[i]]
  BY <1>1 DEF Heap!Swapped
<1>4. Exchanged(t, s, n, i, j)
  BY <1>2, <1>3, SwapExchanges
<1>5. \A e \in Element : Count(t, n, e) = Count(s, n, e)
  BY <1>2, <1>4, SwapKeepsCount
<1> QED BY <1>1, <1>5, BagIs

LEMMA PushAddsToBag ==
  ASSUME HeapInv, NEW e \in Element, Heap!Push(e)
  PROVE  Heap!Contract!Push
<1>1. PICK n, s, t : n = hSize /\ s = hSlots /\ t = hSlots'
  OBVIOUS
<1>2. /\ n \in Nat /\ n < HeapSize /\ hSize' = n + 1 /\ t = [s EXCEPT ![n] = e]
      /\ s \in [0 .. HeapSize - 1 -> Element \cup {Unwritten}]
  BY <1>1, HeapInvFacts DEF Heap!Push
<1>3. /\ t[n] = e /\ \A l \in Indices(n) : t[l] = s[l]
  BY <1>2, HeapNumbers DEF Indices
<1>4. \A x \in Element :
        Count(t, n + 1, x) = IF x = e THEN Count(s, n, x) + 1 ELSE Count(s, n, x)
  <2>1. \A x \in Element :
          Count(t, n + 1, x) = IF t[n] = x THEN Count(s, n, x) + 1 ELSE Count(s, n, x)
    <3>1. n \in Nat /\ \A l \in Indices(n) : t[l] = s[l]
      BY <1>2, <1>3
    <3> QED BY <3>1, CountMore
  <2> QED BY <1>3, <2>1
<1>5. PICK best, c : best = Heap!Bag /\ c = Heap!Bag'
  OBVIOUS
<1>6. /\ best = [x \in Element |-> Count(s, n, x)]
      /\ c = [x \in Element |-> Count(t, n + 1, x)]
  BY <1>1, <1>2, <1>5, BagIs
<1>7. c = [best EXCEPT ![e] = best[e] + 1]
  BY <1>4, <1>6
<1> QED BY <1>5, <1>7, Zenon DEF Heap!Contract!Push

LEMMA PopTakesALeast ==
  ASSUME HeapInv, Heap!Pop
  PROVE  Heap!Contract!Pop
<1>1. PICK n, s, t, m, e : n = hSize /\ s = hSlots /\ t = hSlots' /\ m = n - 1 /\ e = s[0]
  OBVIOUS
<1>2. /\ n > 0 /\ sift = "no" /\ hSize' = m
      /\ t = (IF n > 1 THEN [s EXCEPT ![0] = s[m], ![m] = s[0]] ELSE s)
  BY <1>1 DEF Heap!Pop, Heap!Idle, Heap!Swapped
<1>3. /\ n \in 0 .. HeapSize /\ n \in Nat
      /\ s \in [0 .. HeapSize - 1 -> Element \cup {Unwritten}] /\ Stored(s, n)
  BY <1>1, HeapInvFacts
<1>4. /\ m \in Nat /\ n = m + 1 /\ m \in Indices(n) /\ 0 \in Indices(n)
      /\ (n > 1 <=> m # 0)
  BY <1>1, <1>2, <1>3 DEF Indices
<1>5. e \in Element
  BY <1>1, <1>3, <1>4 DEF Stored
<1>6. t[m] = e /\ \A x \in Element : Count(t, n, x) = Count(s, n, x)
  <2>1. CASE m = 0
    BY <1>1, <1>2, <1>4, <2>1
  <2>2. CASE m # 0
    <3>1. t = [s EXCEPT ![0] = s[m], ![m] = s[0]]
      BY <1>2, <1>4, <2>2
    <3>2. Exchanged(t, s, n, 0, m)
      BY <1>3, <1>4, <2>2, <3>1, SwapExchanges
    <3>3. \A x \in Element : Count(t, n, x) = Count(s, n, x)
      BY <1>3, <1>4, <2>2, <3>2, SwapKeepsCount
    <3> QED BY <1>1, <3>2, <3>3 DEF Exchanged
  <2> QED BY <2>1, <2>2
<1>7. ASSUME NEW x \in Element
      PROVE  Count(t, m, x) = IF x = e THEN Count(s, n, x) - 1 ELSE Count(s, n, x)
  <2>1. Count(t, n, x) = IF t[m] = x THEN Count(t, m, x) + 1 ELSE Count(t, m, x)
    BY <1>4, CountMore
  <2>2. Count(t, m, x) \in Nat
    BY <1>4, CountNumbers
  <2> QED BY <1>6, <2>1, <2>2
<1>8. PICK best, c : best = Heap!Bag /\ c = Heap!Bag'
  OBVIOUS
<1>9. /\ best = [x \in Element |-> Count(s, n, x)] /\ c = [x \in Element |-> Count(t, m, x)]
  BY <1>1, <1>2, <1>8, BagIs
<1>10. c = [best EXCEPT ![e] = best[e] - 1]
  BY <1>5, <1>7, <1>9
<1>11. \A x \in Element : best[x] > 0 <=> \E i \in Indices(n) : s[i] = x
  <2>1. \A x : Count(s, n, x) > 0 <=> \E i \in Indices(n) : s[i] = x
    BY <1>3, CountNumbers
  <2> QED BY <1>9, <2>1
<1>12. \A i \in Indices(n) : Order[e] <= Order[s[i]]
  <2>1. Heap!TopIsLeast
    BY HeapInvFacts, TopIsLeastOf DEF HeapInv
  <2> QED BY <1>1, <1>2, <2>1 DEF Heap!TopIsLeast, Heap!RankAt, Indices
<1>13. best[e] > 0 /\ \A x \in Element : best[x] > 0 => Order[e] <= Order[x]
  BY <1>1, <1>4, <1>5, <1>11, <1>12
<1>14. e \in Heap!Contract!Least
  BY <1>5, <1>8, <1>13 DEF Heap!Contract!Least
<1> QED BY <1>8, <1>10, <1>14, Zenon DEF Heap!Contract!Pop

LEMMA DestroyEmptiesBag ==
  ASSUME Heap!Destroy
  PROVE  Heap!Contract!Destroy
<1>1. hSize' = 0
  BY DEF Heap!Destroy
<1>2. \A e \in Element : Count(hSlots', 0, e) = 0
  BY FS_EmptySet DEF Count, Indices
<1>3. Heap!Bag' = [e \in Element |-> 0]
  BY <1>1, <1>2, BagIs
<1> QED BY <1>3, Zenon DEF Heap!Contract!Destroy

LEMMA HeapStartsAsBag ==
  ASSUME Heap!Init
  PROVE  Heap!Contract!Init
<1>1. hSize = 0
  BY DEF Heap!Init
<1>2. \A e \in Element : Count(hSlots, 0, e) = 0
  BY FS_EmptySet DEF Count, Indices
<1>3. Heap!Bag = [e \in Element |-> 0]
  BY <1>1, <1>2, BagIs
<1> QED BY <1>3, Zenon DEF Heap!Contract!Init

LEMMA SiftsKeepBag ==
  ASSUME HeapInv, Heap!SiftUp \/ Heap!SiftDown
  PROVE  Heap!Bag' = Heap!Bag
<1>1. PICK n, i : n = hSize /\ i = idx
  OBVIOUS
<1>2. sift # "no" /\ hSize' = hSize
  BY DEF Heap!SiftUp, Heap!SiftDown
<1>3. n \in Nat /\ i \in Indices(n) /\ i \in Nat /\ Stored(hSlots, n)
  <2>1. n \in Nat /\ i \in Indices(n) /\ Stored(hSlots, n)
    BY <1>1, <1>2, HeapInvFacts
  <2> QED BY <2>1 DEF Indices
<1>4. CASE Heap!SiftUp
  <2>1. PICK p : p = Heap!Parent(i)
    OBVIOUS
  <2>2. i > 0 /\ hSlots' = Heap!Swapped(i, p)
    BY <1>1, <1>4, <2>1 DEF Heap!SiftUp
  <2>3. p \in Nat /\ p < i
    BY <1>3, <2>1, <2>2, OneParent
  <2>4. p \in Indices(n) /\ p # i
    BY <1>3, <2>3 DEF Indices
  <2> QED BY <1>1, <1>2, <1>3, <2>2, <2>4, SwapKeepsBag
<1>5. CASE Heap!SiftDown
  <2>1. PICK best : best = Heap!Best
    OBVIOUS
  <2>2. best # i /\ hSlots' = Heap!Swapped(i, best)
    BY <1>1, <1>5, <2>1 DEF Heap!SiftDown
  <2>3. best \in Indices(n)
    BY <1>1, <1>3, <2>1, BestIs
  <2> QED BY <1>1, <1>2, <1>3, <2>2, <2>3, SwapKeepsBag
<1> QED BY <1>4, <1>5

LEMMA HeapSimulates ==
  ASSUME HeapInv, [Heap!Next]_(Heap!vars)
  PROVE  [Heap!Contract!Next]_(Heap!Bag)
<1>1. ASSUME UNCHANGED <<hSize, hSlots>> PROVE Heap!Bag' = Heap!Bag
  BY <1>1 DEF Heap!Bag
<1>2. CASE UNCHANGED Heap!vars
  BY <1>1, <1>2 DEF Heap!vars
<1>3. CASE Heap!Create \/ Heap!CreateFails
  BY <1>1, <1>3 DEF Heap!Create, Heap!CreateFails
<1>4. CASE Heap!Destroy
  BY <1>4, DestroyEmptiesBag DEF Heap!Contract!Next
<1>5. CASE \E e \in Element : Heap!Push(e)
  BY <1>5, PushAddsToBag DEF Heap!Contract!Next
<1>6. CASE Heap!SiftUp \/ Heap!SiftDown
  BY <1>6, SiftsKeepBag
<1>7. CASE Heap!SiftUpEnds \/ Heap!SiftDownEnds
  BY <1>1, <1>7 DEF Heap!SiftUpEnds, Heap!SiftDownEnds
<1>8. CASE Heap!Pop
  BY <1>8, PopTakesALeast DEF Heap!Contract!Next
<1> QED BY <1>2, <1>3, <1>4, <1>5, <1>6, <1>7, <1>8 DEF Heap!Next

\* datastruct/binary_heap.h: through every swap of every sift the heap is a bag
\* of the pushed elements, from which a pop takes an element that no other goes
\* before.
THEOREM HeapIsAPriorityBag == OrderedSpec => HeapImplementsContract
<1>1. OrderedInit => Heap!Contract!Init
  BY HeapStartsAsBag DEF OrderedInit
<1>2. HeapInv /\ [UseSearch \/ UseHeap]_<<call, sVars, hVars>>
        => [Heap!Contract!Next]_(Heap!Bag)
  BY HeapPart, HeapSimulates
<1> QED BY <1>1, <1>2, HeapKeepsInv, PTL
        DEF OrderedSpec, HeapImplementsContract, Heap!ImplementsContract,
            Heap!Contract!Spec

=============================================================================
