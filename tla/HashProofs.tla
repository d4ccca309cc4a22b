----------------------------- MODULE HashProofs -----------------------------
(***************************************************************************)
(* The hash map and the hash set for any keys, values, hashes, widths of   *)
(* size_t and first capacities.                                            *)
(*                                                                         *)
(* What both have in common is said of a table, B, of c buckets: Holds     *)
(* relates it to the function at from the keys it stores to their entries. *)
(* Each operation of hash/common.c has one lemma on what it does to at.    *)
(* MapState and SetState say the same of the variables of the two modules  *)
(* and add what their blocks, iterators and reservations are; each of      *)
(* their operations is then shown to lead from such a state to another.    *)
(***************************************************************************)
EXTENDS MCHashTables, SequenceTheorems, FiniteSetTheorems, WellFoundedInduction, TLAPS

(***************************************************************************)
(* Least and greatest numbers of a set.                                    *)
(***************************************************************************)
LEMMA Least ==
  ASSUME NEW T, T \subseteq Nat, T # {}
  PROVE  \E m \in T : \A k \in T : m <= k
<1>1. PICK m \in T : \A k \in T : <<k, m>> \notin OpToRel(<, Nat)
  BY WFMin, NatLessThanWellFounded, Zenon
<1>2. m \in Nat /\ \A k \in T : k \in Nat
  OBVIOUS
<1>3. \A k \in T : ~ (k < m)
  BY <1>1, <1>2, Zenon DEF OpToRel
<1> QED BY <1>2, <1>3

LEMMA Greatest ==
  ASSUME NEW N \in Nat, NEW T, T \subseteq 0 .. N, T # {}
  PROVE  \E m \in T : \A k \in T : k <= m
<1> DEFINE D == {d \in 0 .. N : N - d \in T}
<1>1. \A k \in T : k \in 0 .. N /\ N - k \in 0 .. N /\ N - (N - k) = k
  OBVIOUS
<1>2. D \subseteq Nat /\ D # {}
  <2>1. PICK k : k \in T
    OBVIOUS
  <2>2. N - k \in D
    BY <1>1, <2>1
  <2> QED BY <2>2
<1>3. PICK d \in D : \A e \in D : d <= e
  BY <1>2, Least
<1>4. N - d \in T /\ d \in 0 .. N
  OBVIOUS
<1>5. \A k \in T : k <= N - d
  <2> TAKE k \in T
  <2>1. N - k \in D
    BY <1>1
  <2> QED BY <1>1, <1>3, <1>4, <2>1
<1> QED BY <1>4, <1>5

(***************************************************************************)
(* Capacities.                                                             *)
(***************************************************************************)
LEMMA Numbers ==
  /\ SizeMax \in Nat \ {0} /\ DefaultCapacity \in 1 .. SizeMax
  /\ 3 * DefaultCapacity <= SizeMax /\ Overflow = 0
  /\ LoadNumerator = 3 /\ LoadDenominator = 4
<1>1. SizeMax \in Nat \ {0} /\ DefaultCapacity \in Nat \ {0} /\ 3 * DefaultCapacity <= SizeMax
  BY SizeMaxAssumption, DefaultCapacityAssumption
<1> QED BY <1>1 DEF Overflow, LoadNumerator, LoadDenominator

LEMMA Products ==
  ASSUME NEW c \in Nat
  PROVE  /\ MulOverflows(c, 3) <=> 3 * c > SizeMax
         /\ MulOverflows(c, 4) <=> 4 * c > SizeMax
         /\ MulOverflows(c, 2) <=> 2 * c > SizeMax
  BY Numbers DEF MulOverflows

\* One turn of the loop of k4c_hash_common_capacity_for_size at capacity c.
Turn(f, c, n) ==
  IF 3 * c > SizeMax THEN 0
  ELSE IF 4 * n <= 3 * c THEN c
  ELSE IF 2 * c > SizeMax THEN 0 ELSE f[2 * c]

Turns(f, from, n) == f = [c \in from .. SizeMax |-> Turn(f, c, n)]

LEMMA LoopIsDefined ==
  ASSUME NEW n
  PROVE  \E f : Turns(f, 1, n)
<1>1. SizeMax \in Nat
  BY Numbers
<1> DEFINE T == {i \in 1 .. SizeMax + 1 : \E f : Turns(f, i, n)}
<1>2. SizeMax + 1 \in T
  <2>1. (SizeMax + 1) .. SizeMax = {}
    BY <1>1
  <2>2. Turns([c \in (SizeMax + 1) .. SizeMax |-> c], SizeMax + 1, n)
    BY <2>1 DEF Turns
  <2> QED BY <1>1, <2>2
<1>3. T \subseteq Nat
  OBVIOUS
<1>4. PICK m \in T : \A k \in T : m <= k
  BY <1>2, <1>3, Least
<1>5. m \in 1 .. SizeMax + 1 /\ \E f : Turns(f, m, n)
  OBVIOUS
<1>6. m - 1 \notin T
  BY <1>4, <1>5
<1>7. ASSUME m # 1
      PROVE  \E g : Turns(g, m - 1, n)
  <2>1. PICK f : Turns(f, m, n)
    BY <1>5
  <2>2. PICK g : g = [c \in m - 1 .. SizeMax |-> Turn(f, c, n)]
    OBVIOUS
  <2>3. m - 1 \in Nat \ {0} /\ m - 1 <= SizeMax
    BY <1>1, <1>5, <1>7
  <2>4. \A c \in m .. SizeMax : c \in m - 1 .. SizeMax /\ g[c] = f[c]
    <3>1. \A c \in m .. SizeMax : c \in m - 1 .. SizeMax
      BY <1>1, <1>5, <2>3
    <3>2. \A c \in m .. SizeMax : f[c] = Turn(f, c, n)
      BY <2>1, Zenon DEF Turns
    <3>3. \A c \in m - 1 .. SizeMax : g[c] = Turn(f, c, n)
      BY <2>2, Zenon
    <3> QED BY <3>1, <3>2, <3>3
  <2>5. ASSUME NEW c \in m - 1 .. SizeMax
        PROVE  Turn(f, c, n) = Turn(g, c, n)
    <3>1. ~ (2 * c > SizeMax) => 2 * c \in m .. SizeMax
      BY <1>1, <1>5, <2>3
    <3> QED BY <2>4, <3>1 DEF Turn
  <2>6. Turns(g, m - 1, n)
    BY <2>2, <2>5 DEF Turns
  <2> QED BY <2>6
<1>8. m = 1
  <2>1. m # 1 => m - 1 \in 1 .. SizeMax + 1
    BY <1>1, <1>5
  <2> QED BY <1>6, <1>7, <2>1
<1> QED BY <1>5, <1>8

Loop(f, n) == \A c \in 1 .. SizeMax : f[c] = Turn(f, c, n)

LEMMA CapacityIs ==
  ASSUME NEW n \in Nat
  PROVE  \E f : /\ Loop(f, n)
                /\ CapacityForSize(n) = IF 4 * n > SizeMax THEN 0 ELSE f[DefaultCapacity]
<1> DEFINE G(f) == [c \in 1 .. SizeMax |->
        IF MulOverflows(c, LoadNumerator) THEN Overflow
        ELSE IF n * LoadDenominator <= c * LoadNumerator THEN c
        ELSE IF MulOverflows(c, 2) THEN Overflow ELSE f[2 * c]]
           fit == CHOOSE f : f = G(f)
<1>1. CapacityForSize(n) = IF MulOverflows(n, LoadDenominator) THEN Overflow
                           ELSE fit[DefaultCapacity]
  BY Zenon DEF CapacityForSize
<1>2. ASSUME NEW f
      PROVE  G(f) = [c \in 1 .. SizeMax |-> Turn(f, c, n)]
  <2>1. ASSUME NEW c \in 1 .. SizeMax
        PROVE  (IF MulOverflows(c, LoadNumerator) THEN Overflow
                ELSE IF n * LoadDenominator <= c * LoadNumerator THEN c
                ELSE IF MulOverflows(c, 2) THEN Overflow ELSE f[2 * c]) = Turn(f, c, n)
    <3>1. c \in Nat /\ n * 4 = 4 * n /\ c * 3 = 3 * c
      OBVIOUS
    <3> QED BY <3>1, Products, Numbers DEF Turn
  <2> QED BY <2>1
<1>3. \E f : f = G(f)
  <2>1. PICK f : f = [c \in 1 .. SizeMax |-> Turn(f, c, n)]
    BY LoopIsDefined DEF Turns
  <2>2. f = G(f)
    <3> HIDE DEF G
    <3> QED BY <1>2, <2>1
  <2> QED BY <2>2
<1>4. fit = G(fit)
  BY <1>3, Zenon
<1> HIDE DEF fit, G
<1>5. Loop(fit, n)
  BY <1>2, <1>4 DEF Loop
<1>6. MulOverflows(n, LoadDenominator) <=> 4 * n > SizeMax
  BY Products, Numbers
<1> QED BY <1>1, <1>5, <1>6, Numbers

\* A capacity the loop ends with has room for n.
LEMMA LoopFits ==
  ASSUME NEW n \in Nat, NEW f, Loop(f, n), NEW k \in 1 .. SizeMax, f[k] # 0
  PROVE  f[k] \in k .. SizeMax /\ 4 * n <= 3 * f[k] /\ 3 * f[k] <= SizeMax
<1> DEFINE Good(c) == f[c] \in c .. SizeMax /\ 4 * n <= 3 * f[c] /\ 3 * f[c] <= SizeMax
           T == {c \in 1 .. SizeMax : f[c] # 0 /\ ~ Good(c)}
<1>1. SizeMax \in Nat
  BY Numbers
<1> SUFFICES ASSUME T # {} PROVE FALSE
  OBVIOUS
<1>2. PICK m \in T : \A c \in T : c <= m
  <2>1. T \subseteq 0 .. SizeMax
    BY <1>1
  <2> HIDE DEF T
  <2> QED BY <1>1, <2>1, Greatest
<1>3. m \in 1 .. SizeMax /\ f[m] # 0 /\ ~ Good(m)
  OBVIOUS
<1>4. f[m] = Turn(f, m, n)
  BY <1>3 DEF Loop
<1>5. CASE 4 * n <= 3 * m
  <2>1. f[m] = m /\ 3 * m <= SizeMax
    BY <1>1, <1>3, <1>4, <1>5 DEF Turn
  <2> QED BY <1>1, <1>3, <1>5, <2>1
<1>6. CASE ~ (4 * n <= 3 * m)
  <2>1. f[m] = f[2 * m] /\ 2 * m \in 1 .. SizeMax /\ 2 * m > m
    BY <1>1, <1>3, <1>4, <1>6 DEF Turn
  <2>2. ~ (2 * m <= m)
    BY <1>3, <2>1
  <2>3. 2 * m \notin T
    BY <1>2, <2>2
  <2>4. Good(2 * m)
    BY <1>3, <2>1, <2>3
  <2>5. \A x \in 2 * m .. SizeMax : x \in m .. SizeMax
    BY <1>1, <1>3, <2>1
  <2> QED BY <1>3, <2>1, <2>4, <2>5
<1> QED BY <1>5, <1>6

\* The loop for fewer entries ends no later.
LEMMA LoopIsMonotone ==
  ASSUME NEW n \in Nat, NEW m \in Nat, NEW f, Loop(f, n), NEW g, Loop(g, m),
         NEW c \in 1 .. SizeMax, 4 * n <= 3 * c,
         NEW k \in 1 .. SizeMax, g[k] = c
  PROVE  f[k] \in 1 .. c
<1> DEFINE T == {i \in 1 .. SizeMax : g[i] = c /\ f[i] \notin 1 .. c}
<1>1. SizeMax \in Nat
  BY Numbers
<1> SUFFICES ASSUME T # {} PROVE FALSE
  OBVIOUS
<1>2. PICK i \in T : \A j \in T : j <= i
  <2>1. T \subseteq 0 .. SizeMax
    BY <1>1
  <2> HIDE DEF T
  <2> QED BY <1>1, <2>1, Greatest
<1>3. i \in 1 .. SizeMax /\ g[i] = c /\ f[i] \notin 1 .. c /\ c # 0
  OBVIOUS
<1>4. f[i] = Turn(f, i, n) /\ g[i] = Turn(g, i, m)
  BY <1>3 DEF Loop
<1>5. c \in i .. SizeMax /\ 3 * c <= SizeMax
  BY <1>3, LoopFits
<1>6. ~ (3 * i > SizeMax)
  BY <1>1, <1>3, <1>5
<1>7. CASE 4 * n <= 3 * i
  BY <1>3, <1>4, <1>5, <1>6, <1>7 DEF Turn
<1>8. CASE ~ (4 * n <= 3 * i)
  <2>1. i # c
    BY <1>8
  <2>2. g[i] = g[2 * i] /\ 2 * i \in 1 .. SizeMax /\ ~ (2 * i <= i) /\ ~ (2 * i > SizeMax)
    BY <1>1, <1>3, <1>4, <2>1 DEF Turn
  <2>3. f[i] = f[2 * i]
    BY <1>4, <1>6, <1>8, <2>2 DEF Turn
  <2>4. 2 * i \notin T
    BY <1>2, <2>2
  <2> QED BY <1>3, <2>2, <2>3, <2>4
<1> QED BY <1>7, <1>8

\* A table of c buckets need not grow for what fits into it.
Steady(c) == \A n \in Nat : 4 * n <= 3 * c => CapacityForSize(n) <= c

LEMMA CapacityFits ==
  ASSUME NEW n \in Nat, CapacityForSize(n) # Overflow
  PROVE  /\ CapacityForSize(n) \in 1 .. SizeMax
         /\ 4 * n <= 3 * CapacityForSize(n) /\ 3 * CapacityForSize(n) <= SizeMax
         /\ Steady(CapacityForSize(n))
<1>1. /\ SizeMax \in Nat /\ DefaultCapacity \in 1 .. SizeMax /\ Overflow = 0
  BY Numbers
<1>2. PICK c : c = CapacityForSize(n)
  OBVIOUS
<1>3. PICK g : Loop(g, n) /\ c = (IF 4 * n > SizeMax THEN 0 ELSE g[DefaultCapacity])
  BY <1>2, CapacityIs
<1>4. c # 0 /\ c = g[DefaultCapacity]
  BY <1>1, <1>2, <1>3
<1>5. c \in DefaultCapacity .. SizeMax /\ 4 * n <= 3 * c /\ 3 * c <= SizeMax
  BY <1>1, <1>3, <1>4, LoopFits
<1>6. c \in 1 .. SizeMax
  BY <1>1, <1>5
<1>7. ASSUME NEW m \in Nat, 4 * m <= 3 * c
      PROVE  CapacityForSize(m) <= c
  <2>1. PICK f : Loop(f, m)
                 /\ CapacityForSize(m) = (IF 4 * m > SizeMax THEN 0 ELSE f[DefaultCapacity])
    BY CapacityIs
  <2>2. f[DefaultCapacity] \in 1 .. c
    BY <1>1, <1>3, <1>4, <1>6, <1>7, <2>1, LoopIsMonotone
  <2> QED BY <1>6, <2>1, <2>2
<1>8. Steady(c)
  BY <1>7 DEF Steady
<1> QED BY <1>2, <1>5, <1>6, <1>8

LEMMA DefaultIsSteady == Steady(DefaultCapacity)
<1>1. SizeMax \in Nat /\ DefaultCapacity \in 1 .. SizeMax /\ 3 * DefaultCapacity <= SizeMax
  BY Numbers
<1> SUFFICES ASSUME NEW n \in Nat, 4 * n <= 3 * DefaultCapacity
             PROVE  CapacityForSize(n) <= DefaultCapacity
  BY DEF Steady
<1>2. PICK f : Loop(f, n)
               /\ CapacityForSize(n) = (IF 4 * n > SizeMax THEN 0 ELSE f[DefaultCapacity])
  BY CapacityIs
<1>3. f[DefaultCapacity] = DefaultCapacity
  BY <1>1, <1>2 DEF Loop, Turn
<1> QED BY <1>1, <1>2, <1>3

\* A table that need not grow has room for one more entry.
LEMMA RoomForOne ==
  ASSUME NEW n \in Nat, NEW c \in Nat, ~ ShouldGrow(n, c)
  PROVE  4 * (n + 1) <= 3 * c
<1>1. n + 1 \in Nat /\ (n + 1) * 4 = 4 * (n + 1) /\ c * 3 = 3 * c /\ SizeMax \in Nat
  BY Numbers
<1>2. /\ MulOverflows(n + 1, LoadDenominator) <=> 4 * (n + 1) > SizeMax
      /\ MulOverflows(c, LoadNumerator) <=> 3 * c > SizeMax
      /\ (n + 1) * LoadDenominator > c * LoadNumerator <=> 4 * (n + 1) > 3 * c
  BY <1>1, Products, Numbers
<1>3. ~ (4 * (n + 1) > SizeMax) /\ (3 * c > SizeMax \/ ~ (4 * (n + 1) > 3 * c))
  BY <1>2 DEF ShouldGrow
<1> QED BY <1>1, <1>3
(***************************************************************************)
(* Sequences of entries: s lists the keys D, each once, with the entry at  *)
(* gives it.                                                               *)
(***************************************************************************)
Lists(s, at, D) ==
  /\ \A i \in 1 .. Len(s) : s[i].key \in D /\ s[i] = at[s[i].key]
  /\ \A k \in D : \E i \in 1 .. Len(s) : s[i].key = k
  /\ \A i, j \in 1 .. Len(s) : s[i].key = s[j].key => i = j

LEMMA ListsNone ==
  ASSUME NEW at
  PROVE  Lists(<< >>, at, {})
  BY DEF Lists

LEMMA ListsNothing ==
  ASSUME NEW T, NEW s \in Seq(T), NEW at, NEW D, Lists(s, at, D)
  PROVE  D = {} <=> s = << >>
<1>1. s = << >> <=> Len(s) = 0
  BY EmptySeq
<1>2. Len(s) \in Nat
  BY LenProperties
<1>3. ASSUME Len(s) # 0 PROVE D # {}
  <2>1. 1 \in 1 .. Len(s)
    BY <1>2, <1>3
  <2> QED BY <2>1 DEF Lists
<1>4. ASSUME Len(s) = 0 PROVE D = {}
  <2>1. ~ \E i \in 1 .. Len(s) : TRUE
    BY <1>4
  <2> QED BY <2>1 DEF Lists
<1> QED BY <1>1, <1>3, <1>4

LEMMA ListsOne ==
  ASSUME NEW e, NEW at, at[e.key] = e
  PROVE  Lists(<<e>>, at, {e.key})
<1>1. Len(<<e>>) = 1 /\ <<e>>[1] = e /\ \A i \in 1 .. 1 : i = 1
  OBVIOUS
<1> QED BY <1>1 DEF Lists

LEMMA ListsSame ==
  ASSUME NEW s, NEW at, NEW D, Lists(s, at, D), NEW to, \A k \in D : to[k] = at[k]
  PROVE  Lists(s, to, D)
  BY DEF Lists

LEMMA ListsBoth ==
  ASSUME NEW T, NEW s \in Seq(T), NEW t \in Seq(T), NEW at, NEW D, NEW E,
         Lists(s, at, D), Lists(t, at, E), D \cap E = {}
  PROVE  Lists(s \o t, at, D \cup E)
<1>1. PICK m, n : m = Len(s) /\ n = Len(t)
  OBVIOUS
<1>2. m \in Nat /\ n \in Nat
  BY <1>1, LenProperties
<1>3. PICK w : w = s \o t
  OBVIOUS
<1>4. /\ Len(w) = m + n
      /\ \A i \in 1 .. m + n : w[i] = IF i <= m THEN s[i] ELSE t[i - m]
  BY <1>1, <1>3, ConcatProperties
<1>5. \A i \in 1 .. m + n : i \in 1 .. m \/ (i - m \in 1 .. n /\ ~ (i <= m))
  BY <1>2
<1>6. \A i \in 1 .. m : /\ i \in 1 .. m + n /\ w[i] = s[i]
                        /\ s[i].key \in D /\ s[i] = at[s[i].key]
  <2>1. \A i \in 1 .. m : i \in 1 .. m + n /\ i <= m
    BY <1>2
  <2>2. \A i \in 1 .. m : w[i] = s[i]
    BY <1>4, <2>1
  <2>3. \A i \in 1 .. m : s[i].key \in D /\ s[i] = at[s[i].key]
    BY <1>1 DEF Lists
  <2> QED BY <2>1, <2>2, <2>3
<1>7. \A i \in 1 .. n : /\ m + i \in 1 .. m + n /\ w[m + i] = t[i]
                        /\ t[i].key \in E /\ t[i] = at[t[i].key]
  <2>1. \A i \in 1 .. n : m + i \in 1 .. m + n /\ ~ (m + i <= m) /\ (m + i) - m = i
    BY <1>2
  <2>2. \A i \in 1 .. n : w[m + i] = t[i]
    BY <1>4, <2>1
  <2>3. \A i \in 1 .. n : t[i].key \in E /\ t[i] = at[t[i].key]
    BY <1>1 DEF Lists
  <2> QED BY <2>1, <2>2, <2>3
<1>8. \A i \in 1 .. m + n : ~ (i <= m) => i - m \in 1 .. n /\ m + (i - m) = i
  BY <1>2
<1>9. \A i \in 1 .. m + n : w[i].key \in D \cup E /\ w[i] = at[w[i].key]
  <2> TAKE i \in 1 .. m + n
  <2>1. CASE i <= m
    <3>1. i \in 1 .. m
      BY <1>2, <2>1
    <3> QED BY <1>6, <3>1
  <2>2. CASE ~ (i <= m)
    BY <1>7, <1>8, <2>2
  <2> QED BY <2>1, <2>2
<1>10. \A k \in D \cup E : \E i \in 1 .. m + n : w[i].key = k
  <2> TAKE k \in D \cup E
  <2>1. CASE k \in D
    <3>1. PICK i \in 1 .. m : s[i].key = k
      BY <1>1, <2>1 DEF Lists
    <3> QED BY <1>6, <3>1
  <2>2. CASE k \in E
    <3>1. PICK i \in 1 .. n : t[i].key = k
      BY <1>1, <2>2 DEF Lists
    <3> QED BY <1>7, <3>1
  <2> QED BY <2>1, <2>2
<1>11. ASSUME NEW i \in 1 .. m + n, NEW j \in 1 .. m + n, w[i].key = w[j].key
       PROVE  i = j
  <2>1. CASE i <= m /\ j <= m
    <3>1. i \in 1 .. m /\ j \in 1 .. m
      BY <1>2, <2>1
    <3> QED BY <1>1, <1>6, <1>11, <3>1 DEF Lists
  <2>2. CASE ~ (i <= m) /\ ~ (j <= m)
    <3>1. i - m \in 1 .. n /\ j - m \in 1 .. n /\ m + (i - m) = i /\ m + (j - m) = j
      BY <1>8, <2>2
    <3>2. t[i - m].key = t[j - m].key
      BY <1>7, <1>11, <3>1
    <3>3. i - m = j - m
      BY <1>1, <3>1, <3>2 DEF Lists
    <3> QED BY <1>2, <3>3
  <2>3. CASE i <= m /\ ~ (j <= m)
    <3>1. i \in 1 .. m /\ j - m \in 1 .. n /\ m + (j - m) = j
      BY <1>2, <1>8, <2>3
    <3>2. w[i].key \in D /\ w[j].key \in E
      BY <1>6, <1>7, <3>1
    <3> QED BY <1>11, <3>2
  <2>4. CASE ~ (i <= m) /\ j <= m
    <3>1. j \in 1 .. m /\ i - m \in 1 .. n /\ m + (i - m) = i
      BY <1>2, <1>8, <2>4
    <3>2. w[j].key \in D /\ w[i].key \in E
      BY <1>6, <1>7, <3>1
    <3> QED BY <1>11, <3>2
  <2> QED BY <2>1, <2>2, <2>3, <2>4
<1> QED BY <1>3, <1>4, <1>9, <1>10, <1>11 DEF Lists

\* Taking the entry at i out.
LEMMA Removed ==
  ASSUME NEW T, NEW s \in Seq(T), NEW i \in 1 .. Len(s)
  PROVE  /\ RemoveAt(s, i) \in Seq(T)
         /\ Len(RemoveAt(s, i)) = Len(s) - 1
         /\ \A j \in 1 .. Len(s) - 1 :
              RemoveAt(s, i)[j] = IF j < i THEN s[j] ELSE s[j + 1]
<1> DEFINE f == SubSeq(s, 1, i - 1)
           g == SubSeq(s, i + 1, Len(s))
<1>1. Len(s) \in Nat /\ \A j \in 1 .. Len(s) : s[j] \in T
  BY LenProperties, ElementOfSeq
<1>2. /\ f \in Seq(T) /\ Len(f) = i - 1
      /\ \A j \in 1 .. i - 1 : f[j] = s[j]
  <2>1. \A j \in 1 .. i - 1 : s[j] \in T
    BY <1>1
  <2> QED BY <1>1, <2>1, SubSeqProperties
<1>3. /\ g \in Seq(T) /\ Len(g) = Len(s) - i
      /\ \A j \in 1 .. Len(s) - i : g[j] = s[i + j]
  <2>1. \A j \in i + 1 .. Len(s) : s[j] \in T
    BY <1>1
  <2>2. /\ g \in Seq(T)
        /\ Len(g) = IF i + 1 <= Len(s) THEN Len(s) - (i + 1) + 1 ELSE 0
        /\ \A j \in 1 .. Len(s) - (i + 1) + 1 : g[j] = s[(i + 1) + j - 1]
    BY <1>1, <2>1, SubSeqProperties
  <2> HIDE DEF g
  <2> QED BY <1>1, <2>2
<1> HIDE DEF f, g
<1>4. /\ f \o g \in Seq(T) /\ Len(f \o g) = Len(f) + Len(g)
      /\ \A j \in 1 .. Len(f) + Len(g) :
           (f \o g)[j] = IF j <= Len(f) THEN f[j] ELSE g[j - Len(f)]
  BY <1>2, <1>3, ConcatProperties
<1>5. RemoveAt(s, i) = f \o g
  BY DEF RemoveAt, f, g
<1>6. \A j \in 1 .. Len(s) - 1 : (f \o g)[j] = IF j < i THEN s[j] ELSE s[j + 1]
  <2> TAKE j \in 1 .. Len(s) - 1
  <2>1. CASE j < i
    BY <1>1, <1>2, <1>3, <1>4, <2>1
  <2>2. CASE ~ (j < i)
    <3>1. PICK k : k = j - (i - 1)
      OBVIOUS
    <3>2. k \in 1 .. Len(s) - i /\ i + k = j + 1 /\ j \in 1 .. Len(f) + Len(g)
      BY <1>1, <1>2, <1>3, <2>2, <3>1
    <3>3. (f \o g)[j] = g[k]
      BY <1>1, <1>2, <1>4, <2>2, <3>1, <3>2
    <3>4. g[k] = s[i + k]
      BY <1>3, <3>2
    <3> QED BY <2>2, <3>2, <3>3, <3>4
  <2> QED BY <2>1, <2>2
<1>7. Len(f \o g) = Len(s) - 1
  BY <1>1, <1>2, <1>3, <1>4
<1> QED BY <1>4, <1>5, <1>6, <1>7

LEMMA ListsLess ==
  ASSUME NEW T, NEW s \in Seq(T), NEW at, NEW D, Lists(s, at, D),
         NEW i \in 1 .. Len(s)
  PROVE  RemoveAt(s, i) \in Seq(T) /\ Lists(RemoveAt(s, i), at, D \ {s[i].key})
<1>1. PICK w, n : w = RemoveAt(s, i) /\ n = Len(s)
  OBVIOUS
<1>2. n \in Nat
  BY <1>1, LenProperties
<1>3. /\ w \in Seq(T) /\ Len(w) = n - 1
      /\ \A j \in 1 .. n - 1 : w[j] = IF j < i THEN s[j] ELSE s[j + 1]
  BY <1>1, Removed
<1>4. PICK p : p = [j \in 1 .. n - 1 |-> IF j < i THEN j ELSE j + 1]
  OBVIOUS
<1>5. /\ \A j \in 1 .. n - 1 : p[j] \in 1 .. n /\ p[j] # i
      /\ \A j, k \in 1 .. n - 1 : p[j] = p[k] => j = k
  BY <1>1, <1>2, <1>4
<1>6. \A j \in 1 .. n : j # i => \E k \in 1 .. n - 1 : p[k] = j
  <2> TAKE j \in 1 .. n
  <2>1. CASE j < i
    <3>1. j \in 1 .. n - 1 /\ p[j] = j
      BY <1>1, <1>2, <1>4, <2>1
    <3> QED BY <3>1
  <2>2. CASE j > i
    <3>1. j - 1 \in 1 .. n - 1 /\ p[j - 1] = j
      BY <1>1, <1>2, <1>4, <2>2
    <3> QED BY <3>1
  <2>3. j < i \/ j > i \/ j = i
    BY <1>1, <1>2
  <2> QED BY <2>1, <2>2, <2>3
<1>7. \A j \in 1 .. n - 1 : w[j] = s[p[j]]
  BY <1>3, <1>4
<1>8. /\ \A j \in 1 .. n : s[j].key \in D /\ s[j] = at[s[j].key]
      /\ \A j, k \in 1 .. n : s[j].key = s[k].key => j = k
      /\ \A k \in D : \E j \in 1 .. n : s[j].key = k
  BY <1>1 DEF Lists
<1>9. \A j \in 1 .. n - 1 : w[j].key \in D \ {s[i].key} /\ w[j] = at[w[j].key]
  <2> TAKE j \in 1 .. n - 1
  <2>1. PICK x : x = p[j]
    OBVIOUS
  <2>2. x \in 1 .. n /\ x # i /\ w[j] = s[x] /\ i \in 1 .. n
    BY <1>1, <1>5, <1>7, <2>1
  <2>3. s[x].key \in D /\ s[x] = at[s[x].key] /\ s[x].key # s[i].key
    BY <1>8, <2>2
  <2> QED BY <2>2, <2>3
<1>10. \A k \in D \ {s[i].key} : \E j \in 1 .. n - 1 : w[j].key = k
  <2> TAKE k \in D \ {s[i].key}
  <2>1. PICK j \in 1 .. n : s[j].key = k
    BY <1>8
  <2>2. j # i
    BY <2>1
  <2> QED BY <1>6, <1>7, <2>1, <2>2
<1>11. ASSUME NEW j \in 1 .. n - 1, NEW k \in 1 .. n - 1, w[j].key = w[k].key
       PROVE  j = k
  <2>1. PICK x, y : x = p[j] /\ y = p[k]
    OBVIOUS
  <2>2. x \in 1 .. n /\ y \in 1 .. n /\ w[j] = s[x] /\ w[k] = s[y]
    BY <1>5, <1>7, <2>1
  <2>3. x = y
    BY <1>8, <1>11, <2>2
  <2> QED BY <1>5, <2>1, <2>3
<1> QED BY <1>1, <1>3, <1>9, <1>10, <1>11 DEF Lists

\* Putting another entry for the same key in place of the one at i.
LEMMA ListsOther ==
  ASSUME NEW T, NEW s \in Seq(T), NEW at, NEW D, Lists(s, at, D),
         NEW i \in 1 .. Len(s), NEW e \in T, e.key = s[i].key,
         NEW to, to[e.key] = e, \A k \in D : k # e.key => to[k] = at[k]
  PROVE  [s EXCEPT ![i] = e] \in Seq(T) /\ Lists([s EXCEPT ![i] = e], to, D)
<1>1. PICK w, n : w = [s EXCEPT ![i] = e] /\ n = Len(s)
  OBVIOUS
<1>2. w \in Seq(T) /\ Len(w) = n
  BY <1>1, ExceptSeq
<1>3. DOMAIN s = 1 .. n
  BY <1>1, LenProperties
<1>4. \A j \in 1 .. n : w[j] = IF j = i THEN e ELSE s[j]
  BY <1>1, <1>3
<1>5. /\ \A j \in 1 .. n : s[j].key \in D /\ s[j] = at[s[j].key]
      /\ \A j, k \in 1 .. n : s[j].key = s[k].key => j = k
      /\ \A k \in D : \E j \in 1 .. n : s[j].key = k
  BY <1>1 DEF Lists
<1>6. \A j \in 1 .. n : w[j].key = s[j].key
  BY <1>4
<1>7. \A j \in 1 .. n : w[j].key \in D /\ w[j] = to[w[j].key]
  <2> TAKE j \in 1 .. n
  <2>1. CASE j = i
    BY <1>4, <1>5, <2>1
  <2>2. CASE j # i
    <3>1. w[j] = s[j] /\ s[j].key \in D /\ s[j] = at[s[j].key] /\ s[j].key # e.key
      BY <1>1, <1>4, <1>5, <2>2
    <3> QED BY <3>1
  <2> QED BY <2>1, <2>2
<1> QED BY <1>1, <1>2, <1>5, <1>6, <1>7 DEF Lists

\* k4c_hash_common_bucket_find in a chain that lists D.
LEMMA ListsFind ==
  ASSUME NEW T, NEW s \in Seq(T), NEW at, NEW D, Lists(s, at, D), NEW key,
         \A k \in D : at[k].hash = Hash[k]
  PROVE  /\ Find(s, key) # 0 <=> key \in D
         /\ key \in D => /\ Find(s, key) \in 1 .. Len(s)
                         /\ s[Find(s, key)].key = key /\ s[Find(s, key)] = at[key]
<1>1. PICK n : n = Len(s)
  OBVIOUS
<1>2. PICK I : I = {i \in 1 .. n : s[i].hash = Hash[key] /\ s[i].key = key}
  OBVIOUS
<1>3. Find(s, key) = IF I # {} THEN Min(I) ELSE 0
  BY <1>1, <1>2, Zenon DEF Find, SelectInSeq
<1>4. n \in Nat
  BY <1>1, LenProperties
<1>5. /\ \A i \in 1 .. n : s[i].key \in D /\ s[i] = at[s[i].key]
      /\ \A k \in D : \E i \in 1 .. n : s[i].key = k
  BY <1>1 DEF Lists
<1>6. I # {} <=> key \in D
  BY <1>2, <1>5
<1>7. ASSUME I # {} PROVE Min(I) \in I
  <2>1. I \subseteq Nat
    BY <1>2, <1>4
  <2>2. PICK m \in I : \A i \in I : m <= i
    BY <1>7, <2>1, Least
  <2> QED BY <2>2 DEF Min
<1>8. \A i \in I : i \in 1 .. n /\ i # 0 /\ s[i].key = key /\ s[i] = at[key]
  BY <1>2, <1>5
<1> QED BY <1>1, <1>3, <1>6, <1>7, <1>8

\* As many entries as keys.
LEMMA ListsCount ==
  ASSUME NEW T, NEW s \in Seq(T), NEW at, NEW D, Lists(s, at, D)
  PROVE  IsFiniteSet(D) /\ Cardinality(D) = Len(s)
<1>1. PICK n : n = Len(s)
  OBVIOUS
<1>2. n \in Nat
  BY <1>1, LenProperties
<1>3. PICK f : f = [i \in 1 .. n |-> s[i].key]
  OBVIOUS
<1>4. f \in Bijection(1 .. n, D)
  <2>1. /\ \A i \in 1 .. n : s[i].key \in D
        /\ \A k \in D : \E i \in 1 .. n : s[i].key = k
        /\ \A i, j \in 1 .. n : s[i].key = s[j].key => i = j
    BY <1>1 DEF Lists
  <2>2. f \in [1 .. n -> D] /\ \A i \in 1 .. n : f[i] = s[i].key
    BY <1>3, <2>1
  <2>3. f \in Surjection(1 .. n, D)
    BY <2>1, <2>2 DEF Surjection
  <2>4. f \in Injection(1 .. n, D)
    BY <2>1, <2>2 DEF Injection, IsInjective
  <2> QED BY <2>3, <2>4 DEF Bijection
<1>5. ExistsBijection(1 .. n, D)
  BY <1>4 DEF ExistsBijection
<1>6. IsFiniteSet(1 .. n) /\ Cardinality(1 .. n) = n
  <2>1. IsFiniteSet(1 .. n) /\ Cardinality(1 .. n) = IF 1 > n THEN 0 ELSE n - 1 + 1
    BY <1>2, FS_Interval
  <2> QED BY <1>2, <2>1
<1> QED BY <1>1, <1>5, <1>6, FS_Bijection

(***************************************************************************)
(* The order in which the loops visit the entries.                         *)
(***************************************************************************)
Joins(f, q, n) == f = [i \in 1 .. n |-> IF i = 1 THEN q[i] ELSE f[i - 1] \o q[i]]

LEMMA JoinsExist ==
  ASSUME NEW n \in Nat, NEW q
  PROVE  \E f : Joins(f, q, n)
<1> DEFINE T == {j \in 0 .. n : \E f : Joins(f, q, j)}
<1>1. 0 \in T
  <2>1. 1 .. 0 = {}
    OBVIOUS
  <2>2. Joins([i \in 1 .. 0 |-> i], q, 0)
    BY <2>1 DEF Joins
  <2> QED BY <2>2
<1>2. PICK m \in T : \A j \in T : j <= m
  <2>1. T \subseteq 0 .. n /\ T # {}
    BY <1>1
  <2> HIDE DEF T
  <2> QED BY <2>1, Greatest
<1>3. m \in 0 .. n /\ \E f : Joins(f, q, m)
  OBVIOUS
<1>4. ASSUME m # n PROVE m + 1 \in T
  <2>1. PICK f : Joins(f, q, m)
    BY <1>3
  <2>2. PICK g : g = [i \in 1 .. m + 1 |-> IF i = 1 THEN q[i] ELSE f[i - 1] \o q[i]]
    OBVIOUS
  <2>8. \A i \in 1 .. m : f[i] = IF i = 1 THEN q[i] ELSE f[i - 1] \o q[i]
    BY <2>1 DEF Joins
  <2>9. m \in Nat
    BY <1>3
  <2>10. /\ \A i \in 1 .. m : i \in 1 .. m + 1
         /\ \A i \in 1 .. m + 1 : i # 1 => i - 1 \in 1 .. m
    BY <2>9
  <2>3. /\ \A i \in 1 .. m : f[i] = IF i = 1 THEN q[i] ELSE f[i - 1] \o q[i]
        /\ \A i \in 1 .. m : i \in 1 .. m + 1
        /\ \A i \in 1 .. m + 1 : i # 1 => i - 1 \in 1 .. m
    BY <2>8, <2>10
  <2>4. \A i \in 1 .. m : g[i] = f[i]
    BY <2>2, <2>3
  <2>5. \A i \in 1 .. m + 1 : i # 1 => g[i - 1] = f[i - 1]
    BY <2>3, <2>4
  <2>6. Joins(g, q, m + 1)
    BY <2>2, <2>5 DEF Joins
  <2>7. m + 1 \in 0 .. n
    BY <1>3, <1>4
  <2> QED BY <2>6, <2>7
<1>5. m = n
  <2>1. ~ (m + 1 <= m)
    BY <1>3
  <2> QED BY <1>2, <1>4, <2>1
<1> QED BY <1>3, <1>5

Accumulates(f, q, n) ==
  \A i \in 1 .. n : f[i] = IF i = 1 THEN q[i] ELSE f[i - 1] \o q[i]

LEMMA FlattenIs ==
  ASSUME NEW T, NEW n \in Nat \ {0}, NEW q \in [1 .. n -> Seq(T)]
  PROVE  \E f : Accumulates(f, q, n) /\ FlattenSeq(q) = f[n]
<1>1. q \in Seq(Seq(T)) /\ Len(q) = n
  <2>1. \A i \in 1 .. n : q[i] \in Seq(T)
    OBVIOUS
  <2>2. q = [i \in 1 .. n |-> q[i]]
    OBVIOUS
  <2> QED BY <2>1, <2>2, IsASeq
<1> DEFINE f == CHOOSE g : g = [i \in 1 .. Len(q) |-> IF i = 1 THEN q[i] ELSE g[i - 1] \o q[i]]
<1>2. FlattenSeq(q) = IF Len(q) = 0 THEN q ELSE f[Len(q)]
  BY Zenon DEF FlattenSeq
<1>3. \E g : g = [i \in 1 .. Len(q) |-> IF i = 1 THEN q[i] ELSE g[i - 1] \o q[i]]
  BY <1>1, JoinsExist DEF Joins
<1>4. f = [i \in 1 .. Len(q) |-> IF i = 1 THEN q[i] ELSE f[i - 1] \o q[i]]
  BY <1>3, Zenon
<1> HIDE DEF f
<1>5. Accumulates(f, q, n)
  BY <1>1, <1>4 DEF Accumulates
<1> QED BY <1>1, <1>2, <1>5

LEMMA FlattenFirst ==
  ASSUME NEW T, NEW n \in Nat \ {0}, NEW q \in [1 .. n -> Seq(T)],
         NEW r \in [1 .. n - 1 -> Seq(T)], \A i \in 1 .. n - 1 : r[i] = q[i + 1]
  PROVE  FlattenSeq(q) = q[1] \o FlattenSeq(r)
<1>a. PICK f : Accumulates(f, q, n) /\ FlattenSeq(q) = f[n]
  BY FlattenIs
<1>1. /\ \A i \in 1 .. n : f[i] = IF i = 1 THEN q[i] ELSE f[i - 1] \o q[i]
      /\ FlattenSeq(q) = f[n]
  BY <1>a DEF Accumulates
<1>2. 1 \in 1 .. n /\ f[1] = q[1] /\ q[1] \in Seq(T)
  BY <1>1
<1>3. CASE n = 1
  <2>1. 1 .. 1 - 1 = {}
    OBVIOUS
  <2>2. r = << >>
    <3>1. r = [i \in 1 .. 1 - 1 |-> r[i]]
      BY <1>3
    <3> QED BY <2>1, <3>1
  <2>3. FlattenSeq(<< >>) = << >>
    BY EmptySeq, Zenon DEF FlattenSeq
  <2>4. q[1] \o << >> = q[1]
    BY <1>2, ConcatEmptySeq
  <2> QED BY <1>1, <1>2, <1>3, <2>2, <2>3, <2>4
<1>4. CASE n # 1
  <2>1. PICK l : l = n - 1
    OBVIOUS
  <2>2. l \in Nat \ {0} /\ n = l + 1 /\ \A i \in 1 .. l : i + 1 \in 1 .. n
    BY <1>4, <2>1
  <2>3. r \in [1 .. l -> Seq(T)] /\ \A i \in 1 .. l : r[i] = q[i + 1]
    BY <2>1, <2>2
  <2>a. PICK g : Accumulates(g, r, l) /\ FlattenSeq(r) = g[l]
    <3>1. l \in Nat \ {0}
      BY <2>2
    <3>2. r \in [1 .. l -> Seq(T)]
      BY <2>3
    <3> QED BY <3>1, <3>2, FlattenIs
  <2>4. /\ \A i \in 1 .. l : g[i] = IF i = 1 THEN r[i] ELSE g[i - 1] \o r[i]
        /\ FlattenSeq(r) = g[l]
    BY <2>a DEF Accumulates
  <2> DEFINE Good(i) == g[i] \in Seq(T) /\ f[i + 1] = q[1] \o g[i]
             B == {i \in 1 .. l : ~ Good(i)}
  <2>5. B = {}
    <3> SUFFICES ASSUME B # {} PROVE FALSE
      OBVIOUS
    <3>1. PICK m \in B : \A i \in B : m <= i
      <4>1. B \subseteq 1 .. l
        OBVIOUS
      <4> HIDE DEF B
      <4>2. B \subseteq Nat
        BY <4>1
      <4> QED BY <4>2, Least
    <3>2. m \in 1 .. l /\ ~ Good(m)
      OBVIOUS
    <3>3. m + 1 \in 1 .. n /\ m + 1 # 1 /\ (m + 1) - 1 = m
      BY <2>2, <3>2
    <3>4. f[m + 1] = f[m] \o q[m + 1] /\ r[m] = q[m + 1] /\ r[m] \in Seq(T)
      BY <1>1, <2>3, <3>2, <3>3
    <3>5. CASE m = 1
      <4>1. g[1] = r[1]
        BY <2>4, <3>2, <3>5
      <4>2. Good(1)
        BY <1>2, <3>4, <3>5, <4>1
      <4> QED BY <3>2, <3>5, <4>2
    <3>6. CASE m # 1
      <4>1. m - 1 \in 1 .. l /\ ~ (m <= m - 1) /\ (m - 1) + 1 = m
        BY <2>2, <3>2, <3>6
      <4>2. Good(m - 1)
        BY <3>1, <4>1
      <4>3. g[m - 1] \in Seq(T) /\ f[m] = q[1] \o g[m - 1]
        BY <4>1, <4>2
      <4>4. g[m] = g[m - 1] \o r[m]
        BY <2>4, <3>2, <3>6
      <4>5. PICK x, y, z : x = q[1] /\ y = g[m - 1] /\ z = r[m]
        OBVIOUS
      <4>6. x \in Seq(T) /\ y \in Seq(T) /\ z \in Seq(T)
        BY <1>2, <3>4, <4>3, <4>5
      <4>7. y \o z \in Seq(T) /\ (x \o y) \o z = x \o (y \o z)
        <5>1. y \o z \in Seq(T)
          BY <4>6, ConcatProperties
        <5>2. (x \o y) \o z = x \o (y \o z)
          BY <4>6, ConcatAssociative, SMTT(20)
        <5> QED BY <5>1, <5>2
      <4>8. Good(m)
        BY <3>4, <4>3, <4>4, <4>5, <4>7
      <4> QED BY <3>2, <4>8
    <3> QED BY <3>5, <3>6
  <2>6. Good(l)
    <3>1. l \in 1 .. l
      BY <2>2
    <3> QED BY <2>5, <3>1
  <2> QED BY <1>1, <2>2, <2>4, <2>6
<1> QED BY <1>3, <1>4

\* A table of c buckets, and its entries from bucket b on in visiting order.
IsTable(B, c, T) == c \in Nat \ {0} /\ B \in [0 .. c - 1 -> Seq(T)]

From(B, c, b) == FlattenSeq([i \in 1 .. c - b |-> B[b + i - 1]])

LEMMA FromEnd ==
  ASSUME NEW B, NEW c \in Nat
  PROVE  From(B, c, c) = << >>
<1>1. 1 .. c - c = {}
  OBVIOUS
<1>2. [i \in 1 .. c - c |-> B[c + i - 1]] = << >>
  BY <1>1
<1>3. FlattenSeq(<< >>) = << >>
  BY EmptySeq, Zenon DEF FlattenSeq
<1> QED BY <1>2, <1>3 DEF From

LEMMA FromFirst ==
  ASSUME NEW T, NEW B, NEW c, IsTable(B, c, T), NEW b \in 0 .. c - 1
  PROVE  From(B, c, b) = B[b] \o From(B, c, b + 1)
<1>1. c \in Nat \ {0} /\ b \in Nat /\ c - b \in Nat \ {0} /\ b + 1 - 1 = b
  BY DEF IsTable
<1>2. PICK n, q, r : /\ n = c - b /\ q = [i \in 1 .. n |-> B[b + i - 1]]
                     /\ r = [i \in 1 .. n - 1 |-> q[i + 1]]
  OBVIOUS
<1>3. \A i \in 1 .. n : b + i - 1 \in 0 .. c - 1
  BY <1>1, <1>2
<1>4. q \in [1 .. n -> Seq(T)]
  BY <1>2, <1>3 DEF IsTable
<1>5. FlattenSeq(q) = q[1] \o FlattenSeq(r)
  <2>1. n \in Nat \ {0}
    BY <1>1, <1>2
  <2>2. \A i \in 1 .. n - 1 : r[i] = q[i + 1] /\ i + 1 \in 1 .. n
    BY <1>2, <2>1
  <2>3. r \in [1 .. n - 1 -> Seq(T)] /\ \A i \in 1 .. n - 1 : r[i] = q[i + 1]
    BY <1>2, <1>4, <2>2
  <2> QED BY <1>4, <2>1, <2>3, FlattenFirst
<1>6. r = [i \in 1 .. c - (b + 1) |-> B[(b + 1) + i - 1]]
  <2>1. n - 1 = c - (b + 1)
    BY <1>1, <1>2
  <2>2. \A i \in 1 .. n - 1 : q[i + 1] = B[(b + 1) + i - 1]
    <3>1. \A i \in 1 .. n - 1 : i + 1 \in 1 .. n /\ b + (i + 1) - 1 = (b + 1) + i - 1
      BY <1>1, <1>2
    <3> QED BY <1>2, <3>1
  <2> QED BY <1>2, <2>1, <2>2
<1>7. q[1] = B[b]
  BY <1>1, <1>2
<1> QED BY <1>2, <1>5, <1>6, <1>7 DEF From

LEMMA FromIsSeq ==
  ASSUME NEW T, NEW B, NEW c, IsTable(B, c, T), NEW b \in 0 .. c
  PROVE  From(B, c, b) \in Seq(T)
<1>1. c \in Nat
  BY DEF IsTable
<1> DEFINE Bad == {x \in 0 .. c : From(B, c, x) \notin Seq(T)}
<1> SUFFICES ASSUME Bad # {} PROVE FALSE
  OBVIOUS
<1>2. PICK m \in Bad : \A x \in Bad : x <= m
  <2>1. Bad \subseteq 0 .. c
    OBVIOUS
  <2> HIDE DEF Bad
  <2> QED BY <1>1, <2>1, Greatest
<1>3. m \in 0 .. c /\ From(B, c, m) \notin Seq(T)
  OBVIOUS
<1>4. m # c
  <2>1. << >> \in Seq(T)
    BY EmptySeq
  <2> QED BY <1>1, <1>3, <2>1, FromEnd
<1>5. m \in 0 .. c - 1 /\ m + 1 \in 0 .. c /\ ~ (m + 1 <= m)
  BY <1>1, <1>3, <1>4
<1>6. From(B, c, m + 1) \in Seq(T)
  BY <1>2, <1>5
<1>7. From(B, c, m) = B[m] \o From(B, c, m + 1)
  BY <1>5, FromFirst, ZenonT(20)
<1>8. B[m] \in Seq(T)
  BY <1>5 DEF IsTable
<1> HIDE DEF Bad
<1> QED BY <1>3, <1>6, <1>7, <1>8, ConcatProperties

\* Empty buckets add nothing.
LEMMA FromSkips ==
  ASSUME NEW T, NEW B, NEW c, IsTable(B, c, T), NEW b \in 0 .. c, NEW d \in b .. c,
         \A x \in b .. d - 1 : B[x] = << >>
  PROVE  From(B, c, b) = From(B, c, d)
<1>1. c \in Nat
  BY DEF IsTable
<1> DEFINE Bad == {x \in b .. d : From(B, c, x) # From(B, c, d)}
<1> SUFFICES ASSUME Bad # {} PROVE FALSE
  <2>1. b \in b .. d
    BY <1>1
  <2> QED BY <2>1
<1>2. PICK m \in Bad : \A x \in Bad : x <= m
  <2>1. Bad \subseteq 0 .. c
    BY <1>1
  <2> HIDE DEF Bad
  <2> QED BY <1>1, <2>1, Greatest
<1>3. m \in b .. d /\ From(B, c, m) # From(B, c, d)
  OBVIOUS
<1>4. /\ m \in b .. d - 1 /\ m \in 0 .. c - 1
      /\ m + 1 \in b .. d /\ m + 1 \in 0 .. c /\ ~ (m + 1 <= m)
  BY <1>1, <1>3
<1>5. From(B, c, m + 1) = From(B, c, d)
  BY <1>2, <1>4
<1>6. From(B, c, m) = << >> \o From(B, c, m + 1)
  BY <1>4, FromFirst, ZenonT(20)
<1>7. << >> \o From(B, c, m + 1) = From(B, c, m + 1)
  BY <1>4, FromIsSeq, ConcatEmptySeq
<1> QED BY <1>3, <1>5, <1>6, <1>7

LEMMA VisitIs ==
  ASSUME NEW B, NEW c \in Nat
  PROVE  Visit(B, c) = From(B, c, 0)
<1>1. c - 0 = c /\ \A i \in 1 .. c : 0 + i - 1 = i - 1
  OBVIOUS
<1>2. [i \in 1 .. c - 0 |-> B[0 + i - 1]] = [i \in 1 .. c |-> B[i - 1]]
  BY <1>1
<1> QED BY <1>2 DEF Visit, From

(***************************************************************************)
(* Tables.                                                                 *)
(***************************************************************************)
InBucket(D, c, b) == {k \in D : Hash[k] % c = b}

IsEntry(e, k, T) == e \in T /\ e.key = k /\ e.hash = Hash[k]

\* The table B of c buckets stores an entry for each key of D and no others.
Holds(B, c, T, at, D) ==
  /\ IsTable(B, c, T)
  /\ D \subseteq Key /\ \A k \in D : IsEntry(at[k], k, T)
  /\ \A b \in 0 .. c - 1 : Lists(B[b], at, InBucket(D, c, b))

LEMMA BucketIs ==
  ASSUME NEW k \in Key, NEW c \in Nat \ {0}
  PROVE  Hash[k] \in Nat /\ Hash[k] % c \in 0 .. c - 1
<1>1. Hash[k] \in Nat
  BY HashAssumption
<1> QED BY <1>1

LEMMA FromLists ==
  ASSUME NEW B, NEW c, NEW T, NEW at, NEW D, Holds(B, c, T, at, D), NEW b \in 0 .. c
  PROVE  Lists(From(B, c, b), at, {k \in D : Hash[k] % c >= b})
<1>1. c \in Nat \ {0} /\ IsTable(B, c, T) /\ D \subseteq Key
  BY DEF Holds, IsTable
<1>2. \A k \in D : Hash[k] % c \in 0 .. c - 1
  BY <1>1, BucketIs
<1> DEFINE Behind(x) == {k \in D : Hash[k] % c >= x}
           Bad == {x \in 0 .. c : ~ Lists(From(B, c, x), at, Behind(x))}
<1> SUFFICES ASSUME Bad # {} PROVE FALSE
  OBVIOUS
<1>3. PICK m \in Bad : \A x \in Bad : x <= m
  <2>1. Bad \subseteq 0 .. c
    OBVIOUS
  <2> HIDE DEF Bad
  <2> QED BY <1>1, <2>1, Greatest
<1>4. m \in 0 .. c /\ ~ Lists(From(B, c, m), at, Behind(m))
  OBVIOUS
<1>5. CASE m = c
  <2>1. Behind(c) = {}
    BY <1>1, <1>2
  <2>2. From(B, c, c) = << >>
    BY <1>1, FromEnd
  <2> QED BY <1>4, <1>5, <2>1, <2>2, ListsNone
<1>6. CASE m # c
  <2>1. m \in 0 .. c - 1 /\ m + 1 \in 0 .. c /\ ~ (m + 1 <= m)
    BY <1>1, <1>4, <1>6
  <2>2. Lists(From(B, c, m + 1), at, Behind(m + 1))
    BY <1>3, <2>1
  <2>3. Lists(B[m], at, InBucket(D, c, m)) /\ B[m] \in Seq(T)
    BY <2>1 DEF Holds, IsTable
  <2>4. From(B, c, m + 1) \in Seq(T)
    BY <1>1, <2>1, FromIsSeq
  <2>5. From(B, c, m) = B[m] \o From(B, c, m + 1)
    BY <1>1, <2>1, FromFirst, ZenonT(20)
  <2>6. /\ InBucket(D, c, m) \cap Behind(m + 1) = {}
        /\ InBucket(D, c, m) \cup Behind(m + 1) = Behind(m)
    <3>1. ASSUME NEW k \in D
          PROVE  /\ Hash[k] % c >= m <=> (Hash[k] % c = m \/ Hash[k] % c >= m + 1)
                 /\ ~ (Hash[k] % c = m /\ Hash[k] % c >= m + 1)
      BY <1>1, <1>2, <2>1
    <3> QED BY <3>1 DEF InBucket
  <2> HIDE DEF Behind
  <2>7. Lists(B[m] \o From(B, c, m + 1), at, InBucket(D, c, m) \cup Behind(m + 1))
    BY <2>2, <2>3, <2>4, <2>6, ListsBoth
  <2> QED BY <1>4, <2>5, <2>6, <2>7
<1> QED BY <1>5, <1>6

LEMMA VisitLists ==
  ASSUME NEW B, NEW c, NEW T, NEW at, NEW D, Holds(B, c, T, at, D)
  PROVE  /\ Visit(B, c) \in Seq(T) /\ Lists(Visit(B, c), at, D)
         /\ IsFiniteSet(D) /\ Cardinality(D) = Len(Visit(B, c))
<1>1. c \in Nat \ {0} /\ IsTable(B, c, T) /\ D \subseteq Key /\ 0 \in 0 .. c
  BY DEF Holds, IsTable
<1>2. {k \in D : Hash[k] % c >= 0} = D
  BY <1>1, BucketIs
<1>3. Visit(B, c) = From(B, c, 0)
  BY <1>1, VisitIs
<1>4. Lists(Visit(B, c), at, D)
  <2>1. Lists(From(B, c, 0), at, {k \in D : Hash[k] % c >= 0})
    BY <1>1, FromLists
  <2> QED BY <1>2, <1>3, <2>1
<1>5. Visit(B, c) \in Seq(T)
  BY <1>1, <1>3, FromIsSeq
<1> QED BY <1>4, <1>5, ListsCount

LEMMA HoldsNone ==
  ASSUME NEW c \in Nat \ {0}, NEW T, NEW at
  PROVE  Holds(EmptyBuckets(c), c, T, at, {})
<1>1. EmptyBuckets(c) \in [0 .. c - 1 -> Seq(T)]
  BY EmptySeq DEF EmptyBuckets
<1>2. \A b \in 0 .. c - 1 : EmptyBuckets(c)[b] = << >> /\ InBucket({}, c, b) = {}
  BY DEF EmptyBuckets, InBucket
<1>3. \A b \in 0 .. c - 1 : Lists(EmptyBuckets(c)[b], at, InBucket({}, c, b))
  BY <1>2, ListsNone
<1> QED BY <1>1, <1>3 DEF Holds, IsTable

\* What a lookup in the bucket of a key finds.
LEMMA HoldsFind ==
  ASSUME NEW B, NEW c, NEW T, NEW at, NEW D, Holds(B, c, T, at, D), NEW k \in Key,
         NEW h, h = Hash[k] % c
  PROVE  /\ Find(B[h], k) # 0 <=> k \in D
         /\ k \in D => /\ Find(B[h], k) \in 1 .. Len(B[h])
                       /\ B[h][Find(B[h], k)].key = k
                       /\ B[h][Find(B[h], k)] = at[k]
<1>1. c \in Nat \ {0} /\ \A j \in D : at[j].hash = Hash[j]
  BY DEF Holds, IsTable, IsEntry
<1>2. h \in 0 .. c - 1
  BY <1>1, BucketIs
<1>3. B[h] \in Seq(T) /\ Lists(B[h], at, InBucket(D, c, h))
  BY <1>2 DEF Holds, IsTable
<1>4. k \in InBucket(D, c, h) <=> k \in D
  BY DEF InBucket
<1>5. \A j \in InBucket(D, c, h) : at[j].hash = Hash[j]
  BY <1>1 DEF InBucket
<1>6. PICK s : s = B[h]
  OBVIOUS
<1>7. /\ Find(s, k) # 0 <=> k \in InBucket(D, c, h)
      /\ k \in InBucket(D, c, h) => /\ Find(s, k) \in 1 .. Len(s)
                                    /\ s[Find(s, k)].key = k /\ s[Find(s, k)] = at[k]
  BY <1>3, <1>5, <1>6, ListsFind
<1> QED BY <1>4, <1>6, <1>7

\* One chain of a table replaced.
LEMMA HoldsChanged ==
  ASSUME NEW B, NEW c, NEW T, NEW at, NEW D, Holds(B, c, T, at, D),
         NEW k \in Key, NEW h, h = Hash[k] % c, NEW s \in Seq(T), NEW to, NEW E,
         D \ {k} = E \ {k}, E \subseteq Key, \A j \in E : IsEntry(to[j], j, T),
         \A j \in D \ {k} : to[j] = at[j],
         Lists(s, to, InBucket(E, c, h))
  PROVE  Holds([B EXCEPT ![h] = s], c, T, to, E)
<1>1. c \in Nat \ {0} /\ B \in [0 .. c - 1 -> Seq(T)] /\ D \subseteq Key
  BY DEF Holds, IsTable
<1>2. h \in 0 .. c - 1
  BY <1>1, BucketIs
<1>3. PICK C : C = [B EXCEPT ![h] = s]
  OBVIOUS
<1>4. C \in [0 .. c - 1 -> Seq(T)]
  BY <1>1, <1>2, <1>3
<1>5. ASSUME NEW b \in 0 .. c - 1
      PROVE  Lists(C[b], to, InBucket(E, c, b))
  <2>1. CASE b = h
    BY <1>1, <1>3, <2>1
  <2>2. CASE b # h
    <3>1. C[b] = B[b] /\ Lists(B[b], at, InBucket(D, c, b))
      BY <1>1, <1>3, <2>2 DEF Holds
    <3>2. InBucket(E, c, b) = InBucket(D, c, b) /\ k \notin InBucket(D, c, b)
      BY <2>2 DEF InBucket
    <3>3. \A j \in InBucket(D, c, b) : to[j] = at[j]
      BY <3>2 DEF InBucket
    <3> QED BY <3>1, <3>2, <3>3, ListsSame
  <2> QED BY <2>1, <2>2
<1> QED BY <1>1, <1>3, <1>4, <1>5 DEF Holds, IsTable

\* k4c_hash_common_bucket_pushfront of a new key.
LEMMA HoldsMore ==
  ASSUME NEW B, NEW c, NEW T, NEW at, NEW D, Holds(B, c, T, at, D),
         NEW k \in Key, k \notin D, NEW h, h = Hash[k] % c, NEW e, IsEntry(e, k, T),
         NEW to, to[k] = e, \A j \in D : to[j] = at[j]
  PROVE  Holds([B EXCEPT ![h] = PushEntry(B[h], e)], c, T, to, D \cup {k})
<1>1. c \in Nat \ {0} /\ D \subseteq Key /\ \A j \in D : IsEntry(at[j], j, T)
  BY DEF Holds, IsTable
<1>2. h \in 0 .. c - 1
  BY <1>1, BucketIs
<1>3. B[h] \in Seq(T) /\ Lists(B[h], at, InBucket(D, c, h))
  BY <1>2 DEF Holds, IsTable
<1>4. PICK E, s : E = D \cup {k} /\ s = PushEntry(B[h], e)
  OBVIOUS
<1>5. InBucket(E, c, h) = {k} \cup InBucket(D, c, h) /\ {k} \cap InBucket(D, c, h) = {}
  BY <1>4 DEF InBucket
<1>6. \A j \in InBucket(D, c, h) : to[j] = at[j]
  BY DEF InBucket
<1>7. Lists(B[h], to, InBucket(D, c, h))
  BY <1>3, <1>6, ListsSame
<1>8. e \in T /\ e.key = k
  BY DEF IsEntry
<1>9. <<e>> \in Seq(T) /\ Lists(<<e>>, to, {k})
  <2>1. Lists(<<e>>, to, {e.key})
    BY <1>8, ListsOne
  <2>2. <<e>> \in Seq(T)
    BY <1>8
  <2> QED BY <1>8, <2>1, <2>2
<1>10. s = <<e>> \o B[h]
  BY <1>4 DEF PushEntry
<1>11. s \in Seq(T)
  BY <1>3, <1>9, <1>10, ConcatProperties
<1>12. Lists(s, to, InBucket(E, c, h))
  <2>1. PICK r, q, F, G : r = <<e>> /\ q = B[h] /\ F = {k} /\ G = InBucket(D, c, h)
    OBVIOUS
  <2>2. r \in Seq(T) /\ q \in Seq(T) /\ Lists(r, to, F) /\ Lists(q, to, G) /\ F \cap G = {}
    BY <1>3, <1>5, <1>7, <1>9, <2>1
  <2>3. Lists(r \o q, to, F \cup G)
    BY <2>2, ListsBoth
  <2> QED BY <1>5, <1>10, <2>1, <2>3
<1>13. /\ D \ {k} = E \ {k} /\ E \subseteq Key /\ \A j \in E : IsEntry(to[j], j, T)
       /\ \A j \in D \ {k} : to[j] = at[j]
  BY <1>1, <1>4
<1>14. Holds([B EXCEPT ![h] = s], c, T, to, E)
  BY <1>11, <1>12, <1>13, HoldsChanged
<1> QED BY <1>4, <1>14

\* k4c_hash_common_bucket_remove of a key that is there.
LEMMA HoldsLess ==
  ASSUME NEW B, NEW c, NEW T, NEW at, NEW D, Holds(B, c, T, at, D),
         NEW k \in D, NEW h, h = Hash[k] % c,
         NEW to, \A j \in D \ {k} : to[j] = at[j]
  PROVE  Holds([B EXCEPT ![h] = Without(B[h], k)], c, T, to, D \ {k})
<1>1. /\ c \in Nat \ {0} /\ D \subseteq Key /\ k \in Key
      /\ \A j \in D : IsEntry(at[j], j, T)
  BY DEF Holds, IsTable
<1>2. h \in 0 .. c - 1
  BY <1>1, BucketIs
<1>3. B[h] \in Seq(T) /\ Lists(B[h], at, InBucket(D, c, h))
  BY <1>2 DEF Holds, IsTable
<1>4. PICK E, s, r, i : /\ E = D \ {k} /\ s = Without(r, k) /\ r = B[h]
                        /\ i = Find(r, k)
  OBVIOUS
<1>5. i \in 1 .. Len(r) /\ r[i].key = k
  BY <1>1, <1>4, HoldsFind
<1>6. s = RemoveAt(r, i)
  BY <1>4 DEF Without
<1>7. s \in Seq(T) /\ Lists(s, at, InBucket(D, c, h) \ {k})
  BY <1>3, <1>4, <1>5, <1>6, ListsLess
<1>8. InBucket(E, c, h) = InBucket(D, c, h) \ {k}
  BY <1>4 DEF InBucket
<1>9. \A j \in InBucket(E, c, h) : to[j] = at[j]
  BY <1>4 DEF InBucket
<1>10. Lists(s, to, InBucket(E, c, h))
  BY <1>7, <1>8, <1>9, ListsSame
<1>11. /\ D \ {k} = E \ {k} /\ E \subseteq Key /\ \A j \in E : IsEntry(to[j], j, T)
       /\ \A j \in D \ {k} : to[j] = at[j]
  BY <1>1, <1>4
<1>12. Holds([B EXCEPT ![h] = s], c, T, to, E)
  BY <1>1, <1>7, <1>10, <1>11, HoldsChanged
<1> QED BY <1>4, <1>12

\* The entry of a key that is there replaced in its place.
LEMMA HoldsOther ==
  ASSUME NEW B, NEW c, NEW T, NEW at, NEW D, Holds(B, c, T, at, D),
         NEW k \in D, NEW h, h = Hash[k] % c, NEW e, IsEntry(e, k, T),
         NEW to, to[k] = e, \A j \in D : j # k => to[j] = at[j]
  PROVE  Holds([B EXCEPT ![h] = [B[h] EXCEPT ![Find(B[h], k)] = e]], c, T, to, D)
<1>1. /\ c \in Nat \ {0} /\ D \subseteq Key /\ k \in Key
      /\ \A j \in D : IsEntry(at[j], j, T)
  BY DEF Holds, IsTable
<1>2. h \in 0 .. c - 1
  BY <1>1, BucketIs
<1>3. B[h] \in Seq(T) /\ Lists(B[h], at, InBucket(D, c, h))
  BY <1>2 DEF Holds, IsTable
<1>4. PICK s, r, i : s = [r EXCEPT ![i] = e] /\ r = B[h] /\ i = Find(r, k)
  OBVIOUS
<1>5. i \in 1 .. Len(r) /\ r[i].key = k
  BY <1>1, <1>4, HoldsFind
<1>6. e \in T /\ e.key = r[i].key /\ to[e.key] = e
  BY <1>5 DEF IsEntry
<1>7. \A j \in InBucket(D, c, h) : j # e.key => to[j] = at[j]
  BY <1>5, <1>6 DEF InBucket
<1>8. s \in Seq(T) /\ Lists(s, to, InBucket(D, c, h))
  <2>1. PICK F : F = InBucket(D, c, h)
    OBVIOUS
  <2>2. /\ r \in Seq(T) /\ Lists(r, at, F) /\ i \in 1 .. Len(r) /\ e \in T
        /\ e.key = r[i].key /\ to[e.key] = e /\ \A j \in F : j # e.key => to[j] = at[j]
    BY <1>3, <1>4, <1>5, <1>6, <1>7, <2>1
  <2>3. [r EXCEPT ![i] = e] \in Seq(T) /\ Lists([r EXCEPT ![i] = e], to, F)
    BY <2>2, ListsOther
  <2> QED BY <1>4, <2>1, <2>3
<1>9. /\ \A j \in D : IsEntry(to[j], j, T)
      /\ \A j \in D \ {k} : to[j] = at[j]
  BY <1>1
<1>10. Holds([B EXCEPT ![h] = s], c, T, to, D)
  BY <1>1, <1>8, <1>9, HoldsChanged
<1> QED BY <1>4, <1>10

(***************************************************************************)
(* k4c_hash_common_buckets_rehash.                                         *)
(***************************************************************************)
Moved(f, all, d, i) == [f EXCEPT ![all[i].hash % d] = PushEntry(f[all[i].hash % d], all[i])]

Moves(f, all, d, n) ==
  f = [i \in 0 .. n |-> IF i = 0 THEN EmptyBuckets(d) ELSE Moved(f[i - 1], all, d, i)]

LEMMA MovesExist ==
  ASSUME NEW n \in Nat, NEW all, NEW d
  PROVE  \E f : Moves(f, all, d, n)
<1> DEFINE T == {j \in 0 .. n : \E f : Moves(f, all, d, j)}
<1>1. 0 \in T
  <2>1. Moves([i \in 0 .. 0 |-> EmptyBuckets(d)], all, d, 0)
    <3>1. \A i \in 0 .. 0 : i = 0
      OBVIOUS
    <3> QED BY <3>1 DEF Moves
  <2> QED BY <2>1
<1>2. PICK m \in T : \A j \in T : j <= m
  <2>1. T \subseteq 0 .. n /\ T # {}
    BY <1>1
  <2> HIDE DEF T
  <2> QED BY <2>1, Greatest
<1>3. m \in 0 .. n /\ \E f : Moves(f, all, d, m)
  OBVIOUS
<1>4. ASSUME m # n PROVE m + 1 \in T
  <2>1. PICK f : Moves(f, all, d, m)
    BY <1>3
  <2>2. PICK g : g = [i \in 0 .. m + 1 |->
                        IF i = 0 THEN EmptyBuckets(d) ELSE Moved(f[i - 1], all, d, i)]
    OBVIOUS
  <2>3. \A i \in 0 .. m : f[i] = IF i = 0 THEN EmptyBuckets(d) ELSE Moved(f[i - 1], all, d, i)
    BY <2>1 DEF Moves
  <2>4. m \in Nat
    BY <1>3
  <2>5. /\ \A i \in 0 .. m : i \in 0 .. m + 1
        /\ \A i \in 0 .. m + 1 : i # 0 => i - 1 \in 0 .. m
    BY <2>4
  <2>6. \A i \in 0 .. m : g[i] = f[i]
    BY <2>2, <2>3, <2>5
  <2>7. \A i \in 0 .. m + 1 : i # 0 => g[i - 1] = f[i - 1]
    BY <2>5, <2>6
  <2>8. Moves(g, all, d, m + 1)
    BY <2>2, <2>7 DEF Moves
  <2>9. m + 1 \in 0 .. n
    BY <1>3, <1>4
  <2> QED BY <2>8, <2>9
<1>5. m = n
  <2>1. ~ (m + 1 <= m)
    BY <1>3
  <2> QED BY <1>2, <1>4, <2>1
<1> QED BY <1>3, <1>5

Stages(f, all, d, n) ==
  f[0] = EmptyBuckets(d) /\ \A i \in 1 .. n : f[i] = Moved(f[i - 1], all, d, i)

LEMMA RehashedIs ==
  ASSUME NEW B, NEW c, NEW d, NEW n \in Nat, NEW all, all = Visit(B, c), n = Len(all)
  PROVE  \E f : Stages(f, all, d, n) /\ Rehashed(B, c, d) = f[n]
<1>1. all = Visit(B, c) /\ n = Len(Visit(B, c)) /\ n \in Nat
  OBVIOUS
<1> DEFINE G(f) == [i \in 0 .. Len(Visit(B, c)) |->
             IF i = 0 THEN EmptyBuckets(d)
             ELSE [f[i - 1] EXCEPT ![Visit(B, c)[i].hash % d] = PushEntry(@, Visit(B, c)[i])]]
           after == CHOOSE f : f = G(f)
<1>2. Rehashed(B, c, d) = after[Len(Visit(B, c))]
  BY Zenon DEF Rehashed
<1>3. ASSUME NEW f
      PROVE  G(f) = [i \in 0 .. n |-> IF i = 0 THEN EmptyBuckets(d)
                                      ELSE Moved(f[i - 1], all, d, i)]
  BY <1>1, Zenon DEF Moved
<1>4. \E f : f = G(f)
  <2>1. PICK f : f = [i \in 0 .. n |-> IF i = 0 THEN EmptyBuckets(d)
                                        ELSE Moved(f[i - 1], all, d, i)]
    <3>1. n \in Nat
      BY <1>1
    <3>2. PICK f : Moves(f, all, d, n)
      BY <3>1, MovesExist
    <3> QED BY <3>2 DEF Moves
  <2> HIDE DEF G
  <2> QED BY <1>3, <2>1
<1>5. after = G(after)
  BY <1>4, Zenon
<1> HIDE DEF after, G
<1>6. after = [i \in 0 .. n |->
                 IF i = 0 THEN EmptyBuckets(d) ELSE Moved(after[i - 1], all, d, i)]
  BY <1>3, <1>5
<1>7. 0 \in 0 .. n /\ \A i \in 1 .. n : i \in 0 .. n /\ i # 0
  BY <1>1
<1>8. after[0] = EmptyBuckets(d) /\ \A i \in 1 .. n : after[i] = Moved(after[i - 1], all, d, i)
  BY <1>6, <1>7
<1> QED BY <1>1, <1>2, <1>8 DEF Stages

LEMMA UpTo ==
  ASSUME NEW m \in Nat \ {0}
  PROVE  /\ \A j \in 1 .. m : j \in 1 .. m - 1 \/ j = m
         /\ m \in 1 .. m /\ \A j \in 1 .. m - 1 : j \in 1 .. m
  OBVIOUS

\* A rehash into any number of buckets loses no entry and stores none twice.
LEMMA HoldsRehashed ==
  ASSUME NEW B, NEW c, NEW T, NEW at, NEW D, Holds(B, c, T, at, D), NEW d \in Nat \ {0}
  PROVE  Holds(Rehashed(B, c, d), d, T, at, D)
<1>1. PICK all, n : all = Visit(B, c) /\ n = Len(all)
  OBVIOUS
<1>2. all \in Seq(T) /\ Lists(all, at, D) /\ n \in Nat
  <2>1. all \in Seq(T) /\ Lists(all, at, D)
    BY <1>1, VisitLists
  <2> QED BY <1>1, <2>1, LenProperties
<1>10. PICK f : Stages(f, all, d, n) /\ Rehashed(B, c, d) = f[n]
  <2>1. n \in Nat
    BY <1>2
  <2> QED BY <1>1, <2>1, RehashedIs
<1>3. /\ f[0] = EmptyBuckets(d)
      /\ \A i \in 1 .. n : f[i] = Moved(f[i - 1], all, d, i)
      /\ Rehashed(B, c, d) = f[n]
  BY <1>10 DEF Stages
<1>4. D \subseteq Key /\ \A k \in D : IsEntry(at[k], k, T)
  BY DEF Holds
<1>5. /\ \A i \in 1 .. n : all[i].key \in D /\ all[i] = at[all[i].key]
      /\ \A i, j \in 1 .. n : all[i].key = all[j].key => i = j
      /\ \A k \in D : \E i \in 1 .. n : all[i].key = k
  BY <1>1, <1>2 DEF Lists
<1> DEFINE Keys(i) == {all[j].key : j \in 1 .. i}
           Bad == {i \in 0 .. n : ~ Holds(f[i], d, T, at, Keys(i))}
<1>6. Bad = {}
  <2> SUFFICES ASSUME Bad # {} PROVE FALSE
    OBVIOUS
  <2>1. PICK m \in Bad : \A i \in Bad : m <= i
    <3>1. Bad \subseteq 0 .. n
      OBVIOUS
    <3> HIDE DEF Bad
    <3>2. Bad \subseteq Nat
      BY <1>2, <3>1
    <3> QED BY <3>2, Least
  <2>2. m \in 0 .. n /\ ~ Holds(f[m], d, T, at, Keys(m))
    OBVIOUS
  <2>3. CASE m = 0
    <3>1. Keys(0) = {}
      OBVIOUS
    <3> QED BY <1>3, <2>2, <2>3, <3>1, HoldsNone
  <2>4. CASE m # 0
    <3>1. m \in 1 .. n /\ m - 1 \in 0 .. n /\ ~ (m <= m - 1)
      BY <1>2, <2>2, <2>4
    <3>2. Holds(f[m - 1], d, T, at, Keys(m - 1))
      BY <2>1, <3>1
    <3>3. PICK k, h, e, F, E : /\ e = all[m] /\ k = e.key /\ h = Hash[k] % d
                               /\ F = Keys(m - 1) /\ E = f[m - 1]
      OBVIOUS
    <3>4. k \in D /\ e = at[k] /\ IsEntry(e, k, T) /\ e.hash = Hash[k] /\ k \in Key
      BY <1>4, <1>5, <3>1, <3>3 DEF IsEntry
    <3>5. k \notin F
      <4>1. \A j \in 1 .. m - 1 : j \in 1 .. n /\ j # m
        BY <1>2, <3>1
      <4> QED BY <1>5, <3>1, <3>3, <4>1
    <3>6. Keys(m) = F \cup {k}
      <4>1. m \in Nat \ {0}
        BY <1>2, <3>1
      <4>2. /\ \A j \in 1 .. m : j \in 1 .. m - 1 \/ j = m
            /\ m \in 1 .. m /\ \A j \in 1 .. m - 1 : j \in 1 .. m
        BY <4>1, UpTo
      <4> QED BY <3>3, <4>2
    <3>7. f[m] = [E EXCEPT ![h] = PushEntry(E[h], e)]
      <4>1. f[m] = Moved(E, all, d, m)
        BY <1>3, <3>1, <3>3
      <4>2. all[m] = e /\ all[m].hash % d = h
        BY <3>3, <3>4
      <4> QED BY <4>1, <4>2, Zenon DEF Moved
    <3> HIDE DEF Keys, Bad
    <3>8. Holds(E, d, T, at, F)
      BY <3>2, <3>3
    <3>9. Holds([E EXCEPT ![h] = PushEntry(E[h], e)], d, T, at, F \cup {k})
      BY <3>3, <3>4, <3>5, <3>8, HoldsMore
    <3> QED BY <2>2, <3>6, <3>7, <3>9
  <2> QED BY <2>3, <2>4
<1>7. Holds(f[n], d, T, at, Keys(n))
  <2>1. n \in 0 .. n
    BY <1>2
  <2> QED BY <1>6, <2>1
<1>8. Keys(n) = D
  BY <1>5
<1> QED BY <1>3, <1>7, <1>8

(***************************************************************************)
(* Iterators: gave is what one has given, node the rest of its chain, b    *)
(* the next bucket and hint the number of entries it still expects.        *)
(***************************************************************************)
IterAt(B, c, T, gave, node, b, hint) ==
  /\ gave \in Seq(T) /\ node \in Seq(T) /\ b \in 0 .. c
  /\ gave \o (node \o From(B, c, b)) = Visit(B, c)
  /\ hint = Len(node \o From(B, c, b))

\* The buckets ahead that are not empty.
LaterIn(B, c, b) == {d \in b .. c - 1 : B[d] # << >>}

LEMMA IterStarts ==
  ASSUME NEW B, NEW c, NEW T, IsTable(B, c, T)
  PROVE  IterAt(B, c, T, << >>, << >>, 0, Len(Visit(B, c)))
<1>1. c \in Nat /\ 0 \in 0 .. c
  BY DEF IsTable
<1>2. Visit(B, c) = From(B, c, 0) /\ From(B, c, 0) \in Seq(T)
  BY <1>1, VisitIs, FromIsSeq
<1>3. << >> \o From(B, c, 0) = From(B, c, 0)
  BY <1>2, ConcatEmptySeq
<1> QED BY <1>1, <1>2, <1>3, EmptySeq DEF IterAt

\* Within a chain.
LEMMA IterSteps ==
  ASSUME NEW B, NEW c, NEW T, IsTable(B, c, T), NEW gave, NEW node, NEW b, NEW hint,
         IterAt(B, c, T, gave, node, b, hint), node # << >>
  PROVE  /\ IterAt(B, c, T, Append(gave, Head(node)), Tail(node), b, hint - 1)
         /\ hint \in Nat \ {0}
<1>1. PICK R : R = From(B, c, b)
  OBVIOUS
<1>2. R \in Seq(T) /\ gave \in Seq(T) /\ node \in Seq(T) /\ b \in 0 .. c
  BY <1>1, FromIsSeq DEF IterAt
<1>3. PICK e, t : e = Head(node) /\ t = Tail(node)
  OBVIOUS
<1>4. e \in T /\ t \in Seq(T) /\ Len(t) = Len(node) - 1 /\ Len(t) \in Nat
  BY <1>2, <1>3, HeadTailProperties, LenProperties
<1>5. node = <<e>> \o t
  <2>1. Len(node) \in Nat \ {0} /\ <<e>> \in Seq(T) /\ Len(<<e>>) = 1 /\ <<e>>[1] = e
    BY <1>2, <1>4, EmptySeq, LenProperties
  <2>2. \A i \in 1 .. Len(t) : t[i] = node[i + 1]
    BY <1>2, <1>3, HeadTailProperties
  <2>3. /\ <<e>> \o t \in Seq(T) /\ Len(<<e>> \o t) = 1 + Len(t)
        /\ \A i \in 1 .. 1 + Len(t) : (<<e>> \o t)[i] = IF i <= 1 THEN <<e>>[i] ELSE t[i - 1]
    BY <1>4, <2>1, ConcatProperties
  <2>4. Len(node) = 1 + Len(t)
    BY <1>4, <2>1
  <2>5. e = node[1]
    BY <1>2, <1>3, <2>1
  <2>6. \A i \in 1 .. 1 + Len(t) : (<<e>> \o t)[i] = node[i]
    <3> TAKE i \in 1 .. 1 + Len(t)
    <3>1. CASE i = 1
      BY <2>1, <2>3, <2>5, <3>1
    <3>2. CASE i # 1
      <4>1. i - 1 \in 1 .. Len(t) /\ ~ (i <= 1) /\ (i - 1) + 1 = i
        BY <1>4, <3>2
      <4> QED BY <2>2, <2>3, <4>1
    <3> QED BY <3>1, <3>2
  <2> QED BY <1>2, <2>3, <2>4, <2>6, SeqEqual
<1>6. node \o R = <<e>> \o (t \o R)
  <2>1. <<e>> \in Seq(T)
    BY <1>4
  <2> QED BY <1>2, <1>4, <1>5, <2>1, ConcatAssociative
<1>7. gave \o (node \o R) = Append(gave, e) \o (t \o R)
  <2>1. PICK x, y : x = <<e>> /\ y = t \o R
    OBVIOUS
  <2>2. x \in Seq(T) /\ y \in Seq(T)
    BY <1>2, <1>4, <2>1, ConcatProperties
  <2>3. (gave \o x) \o y = gave \o (x \o y)
    BY <1>2, <2>2, ConcatAssociative, SMTT(20)
  <2>4. Append(gave, e) = gave \o x
    BY <1>2, <1>4, <2>1, AppendIsConcat
  <2> QED BY <1>6, <2>1, <2>3, <2>4
<1>8. Append(gave, e) \in Seq(T)
  BY <1>2, <1>4, AppendProperties
<1>9. hint = Len(node \o R) /\ Visit(B, c) = gave \o (node \o R)
  BY <1>1 DEF IterAt
<1>10. Len(node \o R) = Len(node) + Len(R) /\ Len(t \o R) = Len(t) + Len(R) /\ Len(R) \in Nat
  BY <1>2, <1>4, ConcatProperties, LenProperties
<1>11. hint - 1 = Len(t \o R) /\ hint \in Nat \ {0}
  BY <1>4, <1>9, <1>10
<1> QED BY <1>1, <1>2, <1>3, <1>4, <1>7, <1>8, <1>9, <1>11 DEF IterAt

\* Into the next bucket that is not empty.
LEMMA IterEnters ==
  ASSUME NEW B, NEW c, NEW T, IsTable(B, c, T), NEW gave, NEW b, NEW hint,
         IterAt(B, c, T, gave, << >>, b, hint),
         NEW d \in LaterIn(B, c, b), \A x \in LaterIn(B, c, b) : d <= x
  PROVE  IterAt(B, c, T, gave, B[d], d + 1, hint)
<1>1. c \in Nat /\ b \in 0 .. c /\ d \in b .. c - 1 /\ gave \in Seq(T)
  BY DEF IsTable, IterAt, LaterIn
<1>2. d \in 0 .. c - 1 /\ d \in b .. c /\ d + 1 \in 0 .. c /\ d \in 0 .. c
  BY <1>1
<1>3. \A x \in b .. d - 1 : B[x] = << >>
  <2>1. \A x \in b .. d - 1 : x \in b .. c - 1 /\ ~ (d <= x)
    BY <1>1
  <2> QED BY <2>1 DEF LaterIn
<1>4. From(B, c, b) = From(B, c, d)
  BY <1>1, <1>2, <1>3, FromSkips
<1>5. From(B, c, d) = B[d] \o From(B, c, d + 1)
  BY <1>2, FromFirst, ZenonT(20)
<1>6. << >> \o From(B, c, b) = From(B, c, b)
  BY <1>1, FromIsSeq, ConcatEmptySeq
<1>7. B[d] \in Seq(T)
  BY <1>2 DEF IsTable
<1> QED BY <1>1, <1>2, <1>4, <1>5, <1>6, <1>7 DEF IterAt

\* Past the last bucket.
LEMMA IterEnds ==
  ASSUME NEW B, NEW c, NEW T, IsTable(B, c, T), NEW gave, NEW b, NEW hint,
         IterAt(B, c, T, gave, << >>, b, hint), LaterIn(B, c, b) = {}
  PROVE  /\ IterAt(B, c, T, gave, << >>, c, hint)
         /\ hint = 0 /\ gave = Visit(B, c)
<1>1. c \in Nat /\ b \in 0 .. c /\ gave \in Seq(T)
  BY DEF IsTable, IterAt
<1>2. c \in b .. c /\ c \in 0 .. c
  BY <1>1
<1>3. \A x \in b .. c - 1 : B[x] = << >>
  BY DEF LaterIn
<1>4. From(B, c, b) = << >> /\ From(B, c, c) = << >>
  BY <1>1, <1>2, <1>3, FromSkips, FromEnd
<1>5. gave \o << >> = gave /\ << >> \o << >> = << >> /\ Len(<< >>) = 0
  BY <1>1, ConcatEmptySeq, EmptySeq
<1> QED BY <1>1, <1>2, <1>4, <1>5 DEF IterAt

\* The next bucket that is not empty.
LEMMA LeastAhead ==
  ASSUME NEW B, NEW c, NEW T, IsTable(B, c, T), NEW b \in 0 .. c, LaterIn(B, c, b) # {},
         NEW d, d = CHOOSE x \in LaterIn(B, c, b) : \A y \in LaterIn(B, c, b) : x <= y
  PROVE  d \in LaterIn(B, c, b) /\ \A y \in LaterIn(B, c, b) : d <= y
<1>1. LaterIn(B, c, b) \subseteq Nat
  BY DEF LaterIn, IsTable
<1>2. \E x \in LaterIn(B, c, b) : \A y \in LaterIn(B, c, b) : x <= y
  BY <1>1, Least
<1> QED BY <1>2

(***************************************************************************)
(* The map.  st is what it stores: the value of each key, Missing when     *)
(* there is none.                                                          *)
(***************************************************************************)
Kept(st) == {k \in Key : st[k] # Missing}

EntryFor(st) == [k \in Key |-> [key |-> k, hash |-> Hash[k], value |-> st[k]]]

NoStore == [k \in Key |-> Missing]

MapHolds(m, st) ==
  /\ m = [size |-> m.size, capacity |-> m.capacity, array |-> m.array, buckets |-> m.buckets]
  /\ m.capacity \in 1 .. SizeMax /\ m.array \in Arrays /\ Steady(m.capacity)
  /\ st \in [Key -> Value \cup {Missing}]
  /\ Holds(m.buckets, m.capacity, EntryType, EntryFor(st), Kept(st))
  /\ m.size = Cardinality(Kept(st)) /\ 4 * m.size <= 3 * m.capacity

\* What the operations do to the store and to the struct.
Stored(st, k, v) == [st EXCEPT ![k] = v]

WithNew(m, k, v) ==
  [m EXCEPT !.buckets[Bucket(m, k)] =
              PushEntry(@, [key |-> k, hash |-> Hash[k], value |-> v]),
            !.size = @ + 1]
WithValue(m, k, v) == [m EXCEPT !.buckets[Bucket(m, k)][Find(Chain(m, k), k)].value = v]
WithoutKey(m, k) == [m EXCEPT !.buckets[Bucket(m, k)] = Without(@, k), !.size = @ - 1]

LEMMA MapNumbers ==
  ASSUME NEW m, NEW st, MapHolds(m, st)
  PROVE  /\ m.capacity \in Nat \ {0} /\ m.size \in Nat /\ IsFiniteSet(Kept(st))
         /\ Entries(m) \in Seq(EntryType) /\ Lists(Entries(m), EntryFor(st), Kept(st))
         /\ Len(Entries(m)) = m.size
<1>1. PICK B, c, at, D : /\ B = m.buckets /\ c = m.capacity /\ at = EntryFor(st)
                         /\ D = Kept(st)
  OBVIOUS
<1>2. Holds(B, c, EntryType, at, D)
  BY <1>1 DEF MapHolds
<1>3. /\ Visit(B, c) \in Seq(EntryType) /\ Lists(Visit(B, c), at, D)
      /\ IsFiniteSet(D) /\ Cardinality(D) = Len(Visit(B, c))
  BY <1>2, VisitLists
<1>4. Cardinality(D) \in Nat
  BY <1>3, FS_CardinalityType
<1>5. m.size = Cardinality(D) /\ c \in Nat \ {0}
  BY <1>1 DEF MapHolds
<1> QED BY <1>1, <1>3, <1>4, <1>5 DEF Entries

\* The keys of the entries visited.
LEMMA MapKeys ==
  ASSUME NEW m, NEW st, MapHolds(m, st)
  PROVE  {Entries(m)[i].key : i \in DOMAIN Entries(m)} = Kept(st)
<1>1. PICK s : s = Entries(m)
  OBVIOUS
<1>2. s \in Seq(EntryType) /\ Lists(s, EntryFor(st), Kept(st))
  BY <1>1, MapNumbers
<1>3. DOMAIN s = 1 .. Len(s)
  BY <1>2, LenProperties
<1>4. {s[i].key : i \in 1 .. Len(s)} = Kept(st)
  BY <1>2 DEF Lists
<1> QED BY <1>1, <1>3, <1>4

LEMMA MapEmpty == MapHolds(EmptyMap, NoStore) /\ Kept(NoStore) = {}
<1>1. PICK m : m = EmptyMap
  OBVIOUS
<1>2. /\ m = [size |-> 0, capacity |-> DefaultCapacity, array |-> "array A",
              buckets |-> EmptyBuckets(DefaultCapacity)]
  BY <1>1 DEF EmptyMap
<1>3. /\ m.size = 0 /\ m.capacity = DefaultCapacity /\ m.array = "array A"
      /\ m.buckets = EmptyBuckets(DefaultCapacity)
  BY <1>2
<1>4. Kept(NoStore) = {}
  BY DEF Kept, NoStore
<1>5. DefaultCapacity \in Nat \ {0} /\ DefaultCapacity \in 1 .. SizeMax
  BY Numbers
<1>6. Holds(EmptyBuckets(DefaultCapacity), DefaultCapacity, EntryType, EntryFor(NoStore), {})
  BY <1>5, HoldsNone
<1>7. Cardinality({}) = 0 /\ 4 * 0 <= 3 * DefaultCapacity
  BY <1>5, FS_EmptySet
<1>8. NoStore \in [Key -> Value \cup {Missing}] /\ "array A" \in Arrays
  BY DEF NoStore, Arrays
<1>9. m = [size |-> m.size, capacity |-> m.capacity, array |-> m.array, buckets |-> m.buckets]
  BY <1>2
<1>10. m.capacity \in 1 .. SizeMax /\ m.array \in Arrays /\ Steady(m.capacity)
  BY <1>3, <1>5, <1>8, DefaultIsSteady
<1>11. Holds(m.buckets, m.capacity, EntryType, EntryFor(NoStore), Kept(NoStore))
  BY <1>3, <1>4, <1>6
<1>12. m.size = Cardinality(Kept(NoStore)) /\ 4 * m.size <= 3 * m.capacity
  BY <1>3, <1>4, <1>7
<1>13. MapHolds(m, NoStore)
  BY <1>8, <1>9, <1>10, <1>11, <1>12 DEF MapHolds
<1> QED BY <1>1, <1>4, <1>13

LEMMA EmptyStores ==
  ASSUME NEW st, MapHolds(EmptyMap, st)
  PROVE  st = NoStore /\ Kept(st) = {}
<1>1. EmptyMap.size = 0
  BY DEF EmptyMap
<1>2. Cardinality(Kept(st)) = 0 /\ st \in [Key -> Value \cup {Missing}]
  BY <1>1 DEF MapHolds
<1>3. IsFiniteSet(Kept(st))
  BY MapNumbers
<1>4. Kept(st) = {}
  BY <1>2, <1>3, FS_EmptySet
<1>5. \A k \in Key : st[k] = Missing
  BY <1>4 DEF Kept
<1> QED BY <1>2, <1>4, <1>5 DEF NoStore

LEMMA MapFound ==
  ASSUME NEW m, NEW st, MapHolds(m, st), NEW k \in Key
  PROVE  /\ Found(m, k) <=> k \in Kept(st)
         /\ k \in Kept(st) => /\ EntryOf(m, k) = [key |-> k, hash |-> Hash[k], value |-> st[k]]
                              /\ Find(Chain(m, k), k) \in 1 .. Len(Chain(m, k))
<1>1. PICK B, c, at, D, h : /\ B = m.buckets /\ c = m.capacity /\ at = EntryFor(st)
                            /\ D = Kept(st) /\ h = Hash[k] % c
  OBVIOUS
<1>2. Holds(B, c, EntryType, at, D)
  BY <1>1 DEF MapHolds
<1>3. /\ Find(B[h], k) # 0 <=> k \in D
      /\ k \in D => Find(B[h], k) \in 1 .. Len(B[h]) /\ B[h][Find(B[h], k)] = at[k]
  BY <1>1, <1>2, HoldsFind
<1>4. Chain(m, k) = B[h]
  BY <1>1 DEF Chain, Bucket
<1>5. at[k] = [key |-> k, hash |-> Hash[k], value |-> st[k]]
  BY <1>1 DEF EntryFor
<1> QED BY <1>1, <1>3, <1>4, <1>5 DEF Found, EntryOf

\* The map a reserve leaves.
LEMMA MapGrown ==
  ASSUME NEW m, NEW st, MapHolds(m, st), NEW n \in Nat, ReserveFits(n),
         NEW w, w = AfterReserve(m, n)
  PROVE  /\ MapHolds(w, st) /\ w.size = m.size
         /\ 4 * n <= 3 * w.capacity /\ m.capacity <= w.capacity
         /\ Grows(m, n) => w.array = Fresh(m.array) /\ m.capacity < w.capacity
         /\ ~ Grows(m, n) => w = m
<1>1. PICK d : d = CapacityForSize(n)
  OBVIOUS
<1>2. d # Overflow
  BY <1>1 DEF ReserveFits
<1>3. d \in 1 .. SizeMax /\ 4 * n <= 3 * d /\ Steady(d) /\ SizeMax \in Nat
  BY <1>1, <1>2, CapacityFits, Numbers
<1>4. m.capacity \in Nat \ {0} /\ m.size \in Nat
  BY MapNumbers
<1>5. CASE ~ Grows(m, n)
  <2>1. w = m /\ d <= m.capacity
    BY <1>1, <1>3, <1>4, <1>5 DEF AfterReserve, Grows
  <2>2. 4 * n <= 3 * m.capacity
    BY <1>3, <1>4, <2>1
  <2> QED BY <1>4, <1>5, <2>1, <2>2
<1>6. CASE Grows(m, n)
  <2>1. m.capacity < d
    BY <1>1, <1>3, <1>4, <1>6 DEF Grows
  <2>2. PICK B : B = Rehashed(m.buckets, m.capacity, d)
    OBVIOUS
  <2>3. w = [size |-> m.size, capacity |-> d, array |-> Fresh(m.array), buckets |-> B]
    <3>1. m = [size |-> m.size, capacity |-> m.capacity, array |-> m.array,
               buckets |-> m.buckets]
      BY DEF MapHolds
    <3>2. w = [m EXCEPT !.buckets = B, !.capacity = d, !.array = Fresh(m.array)]
      BY <1>1, <1>6, <2>2 DEF AfterReserve
    <3> QED BY <3>1, <3>2
  <2>4. w.size = m.size /\ w.capacity = d /\ w.array = Fresh(m.array) /\ w.buckets = B
    BY <2>3
  <2>5. Fresh(m.array) \in Arrays
    BY DEF Fresh, Arrays
  <2>6. PICK C, c, at, D : /\ C = m.buckets /\ c = m.capacity /\ at = EntryFor(st)
                           /\ D = Kept(st)
    OBVIOUS
  <2>7. Holds(C, c, EntryType, at, D) /\ d \in Nat \ {0}
    BY <1>3, <2>6 DEF MapHolds
  <2>8. Holds(B, d, EntryType, at, D)
    <3>1. Holds(Rehashed(C, c, d), d, EntryType, at, D)
      BY <2>7, HoldsRehashed
    <3> QED BY <2>2, <2>6, <3>1
  <2>9. 4 * m.size <= 3 * m.capacity /\ m.size = Cardinality(Kept(st))
        /\ st \in [Key -> Value \cup {Missing}]
    BY DEF MapHolds
  <2>10. 4 * m.size <= 3 * d
    BY <1>3, <1>4, <2>1, <2>9
  <2>11. w = [size |-> w.size, capacity |-> w.capacity, array |-> w.array,
              buckets |-> w.buckets]
    BY <2>3
  <2>12. Holds(w.buckets, w.capacity, EntryType, EntryFor(st), Kept(st))
    BY <2>4, <2>6, <2>8
  <2>13. MapHolds(w, st)
    BY <1>3, <2>4, <2>5, <2>9, <2>10, <2>11, <2>12 DEF MapHolds
  <2>14. m.capacity <= d
    BY <1>3, <1>4, <2>1
  <2> QED BY <1>3, <1>6, <2>1, <2>4, <2>13, <2>14
<1> QED BY <1>5, <1>6

LEMMA StoreWith ==
  ASSUME NEW st \in [Key -> Value \cup {Missing}], NEW k \in Key, NEW v \in Value,
         NEW t, t = Stored(st, k, v)
  PROVE  /\ t \in [Key -> Value \cup {Missing}]
         /\ Kept(t) = Kept(st) \cup {k}
         /\ EntryFor(t)[k] = [key |-> k, hash |-> Hash[k], value |-> v]
         /\ IsEntry(EntryFor(t)[k], k, EntryType)
         /\ \A j \in Key \ {k} : EntryFor(t)[j] = EntryFor(st)[j]
<1>1. t \in [Key -> Value \cup {Missing}] /\ t[k] = v /\ \A j \in Key \ {k} : t[j] = st[j]
  BY DEF Stored
<1>2. v # Missing /\ Hash[k] \in Nat
  BY ValueAssumption, HashAssumption
<1>3. Kept(t) = Kept(st) \cup {k}
  BY <1>1, <1>2 DEF Kept
<1>4. EntryFor(t)[k] = [key |-> k, hash |-> Hash[k], value |-> v]
  BY <1>1 DEF EntryFor
<1>5. \A j \in Key \ {k} : EntryFor(t)[j] = EntryFor(st)[j]
  BY <1>1 DEF EntryFor
<1>6. IsEntry([key |-> k, hash |-> Hash[k], value |-> v], k, EntryType)
  BY <1>2 DEF IsEntry, EntryType
<1> QED BY <1>1, <1>3, <1>4, <1>5, <1>6

\* A new key.
LEMMA MapPut ==
  ASSUME NEW m, NEW st, MapHolds(m, st), NEW k \in Key, k \notin Kept(st), NEW v \in Value,
         4 * (m.size + 1) <= 3 * m.capacity,
         NEW w, w = WithNew(m, k, v),
         NEW t, t = Stored(st, k, v)
  PROVE  /\ MapHolds(w, t) /\ Kept(t) = Kept(st) \cup {k}
         /\ w.size = m.size + 1 /\ w.capacity = m.capacity /\ w.array = m.array
<1>1. PICK B, c, at, D, h, e, C :
        /\ B = m.buckets /\ c = m.capacity /\ at = EntryFor(st) /\ D = Kept(st)
        /\ h = Hash[k] % c /\ e = [key |-> k, hash |-> Hash[k], value |-> v]
        /\ C = [B EXCEPT ![h] = PushEntry(B[h], e)]
  OBVIOUS
<1>2. /\ Holds(B, c, EntryType, at, D) /\ st \in [Key -> Value \cup {Missing}]
      /\ m = [size |-> m.size, capacity |-> m.capacity, array |-> m.array,
              buckets |-> m.buckets]
  BY <1>1 DEF MapHolds
<1>3. w = [size |-> m.size + 1, capacity |-> c, array |-> m.array, buckets |-> C]
  BY <1>1, <1>2 DEF Bucket, WithNew
<1>4. /\ w.size = m.size + 1 /\ w.capacity = c /\ w.array = m.array /\ w.buckets = C
      /\ w = [size |-> w.size, capacity |-> w.capacity, array |-> w.array,
              buckets |-> w.buckets]
  BY <1>3
<1>5. PICK to : to = EntryFor(t)
  OBVIOUS
<1>6. /\ t \in [Key -> Value \cup {Missing}] /\ Kept(t) = D \cup {k}
      /\ to[k] = e /\ IsEntry(e, k, EntryType) /\ \A j \in Key \ {k} : to[j] = at[j]
  BY <1>1, <1>2, <1>5, StoreWith
<1>7. \A j \in D : to[j] = at[j]
  BY <1>1, <1>6 DEF Kept
<1>8. Holds(C, c, EntryType, to, D \cup {k})
  <2>1. k \notin D /\ h = Hash[k] % c
    BY <1>1
  <2>2. Holds(B, c, EntryType, at, D)
    BY <1>2
  <2>3. IsEntry(e, k, EntryType) /\ to[k] = e
    BY <1>6
  <2>4. Holds([B EXCEPT ![h] = PushEntry(B[h], e)], c, EntryType, to, D \cup {k})
    BY <1>7, <2>1, <2>2, <2>3, HoldsMore
  <2> QED BY <1>1, <2>4
<1>9. Cardinality(D \cup {k}) = Cardinality(D) + 1
  <2>1. IsFiniteSet(D)
    BY <1>1, MapNumbers
  <2> QED BY <1>1, <2>1, FS_AddElement
<1>10. m.size = Cardinality(D) /\ m.array \in Arrays /\ c \in 1 .. SizeMax /\ Steady(c)
  BY <1>1 DEF MapHolds
<1>11. w.size = Cardinality(Kept(t)) /\ 4 * w.size <= 3 * w.capacity
  BY <1>1, <1>4, <1>6, <1>9, <1>10
<1>12. Holds(w.buckets, w.capacity, EntryType, EntryFor(t), Kept(t))
  BY <1>4, <1>5, <1>6, <1>8
<1>13. MapHolds(w, t)
  BY <1>4, <1>6, <1>10, <1>11, <1>12 DEF MapHolds
<1> QED BY <1>1, <1>4, <1>6, <1>13

\* An entry whose value is overwritten is the entry with the new value.
LEMMA NewValue ==
  ASSUME NEW k, NEW h, NEW old, NEW v
  PROVE  [[key |-> k, hash |-> h, value |-> old] EXCEPT !.value = v]
           = [key |-> k, hash |-> h, value |-> v]
OBVIOUS

\* A key that is there.
LEMMA MapOverwritten ==
  ASSUME NEW m, NEW st, MapHolds(m, st), NEW k \in Kept(st), NEW v \in Value,
         NEW w, w = WithValue(m, k, v),
         NEW t, t = Stored(st, k, v)
  PROVE  /\ MapHolds(w, t) /\ Kept(t) = Kept(st)
         /\ w.size = m.size /\ w.capacity = m.capacity /\ w.array = m.array
<1>e. PICK e : e = [key |-> k, hash |-> Hash[k], value |-> v]
  OBVIOUS
<1>1. PICK B, c, at, D, h, i, C :
        /\ B = m.buckets /\ c = m.capacity /\ at = EntryFor(st) /\ D = Kept(st)
        /\ h = Hash[k] % c /\ i = Find(B[h], k)
        /\ C = [B EXCEPT ![h] = [B[h] EXCEPT ![i] = e]]
  OBVIOUS
<1>2. /\ Holds(B, c, EntryType, at, D) /\ st \in [Key -> Value \cup {Missing}]
      /\ m = [size |-> m.size, capacity |-> m.capacity, array |-> m.array,
              buckets |-> m.buckets]
  BY <1>1 DEF MapHolds
<1>3. k \in Key
  BY DEF Kept
<1>4. Chain(m, k) = B[h] /\ Bucket(m, k) = h
  BY <1>1 DEF Chain, Bucket
<1>5. B[h][i] = [key |-> k, hash |-> Hash[k], value |-> st[k]]
  BY <1>1, <1>3, <1>4, MapFound DEF EntryOf
<1>6. [B[h][i] EXCEPT !.value = v] = e
  <2>1. [[key |-> k, hash |-> Hash[k], value |-> st[k]] EXCEPT !.value = v]
          = [key |-> k, hash |-> Hash[k], value |-> v]
    BY NewValue
  <2>2. [B[h][i] EXCEPT !.value = v] = [key |-> k, hash |-> Hash[k], value |-> v]
    BY <1>5, <2>1, Zenon
  <2> QED BY <1>e, <2>2, Zenon
<1>7. w = [m EXCEPT !.buckets = C]
  BY <1>1, <1>4, <1>6 DEF WithValue
<1>8. w = [size |-> m.size, capacity |-> c, array |-> m.array, buckets |-> C]
  BY <1>1, <1>2, <1>7
<1>9. /\ w.size = m.size /\ w.capacity = c /\ w.array = m.array /\ w.buckets = C
      /\ w = [size |-> w.size, capacity |-> w.capacity, array |-> w.array,
              buckets |-> w.buckets]
  BY <1>8
<1>10. PICK to : to = EntryFor(t)
  OBVIOUS
<1>11. /\ t \in [Key -> Value \cup {Missing}] /\ Kept(t) = D \cup {k}
       /\ to[k] = e /\ IsEntry(e, k, EntryType) /\ \A j \in Key \ {k} : to[j] = at[j]
  BY <1>e, <1>1, <1>2, <1>3, <1>10, StoreWith
<1>12. Kept(t) = D /\ \A j \in D : j # k => to[j] = at[j]
  BY <1>1, <1>11 DEF Kept
<1>13. Holds(C, c, EntryType, to, D)
  BY <1>1, <1>2, <1>11, <1>12, HoldsOther
<1>14. /\ m.size = Cardinality(D) /\ m.array \in Arrays /\ c \in 1 .. SizeMax /\ Steady(c)
       /\ 4 * m.size <= 3 * c
  BY <1>1 DEF MapHolds
<1>15. w.size = Cardinality(Kept(t)) /\ 4 * w.size <= 3 * w.capacity
  BY <1>9, <1>12, <1>14
<1>16. Holds(w.buckets, w.capacity, EntryType, EntryFor(t), Kept(t))
  BY <1>9, <1>10, <1>12, <1>13
<1>17. MapHolds(w, t)
  BY <1>9, <1>11, <1>14, <1>15, <1>16 DEF MapHolds
<1> QED BY <1>1, <1>9, <1>12, <1>17

LEMMA MapRemoved ==
  ASSUME NEW m, NEW st, MapHolds(m, st), NEW k \in Kept(st),
         NEW w, w = WithoutKey(m, k),
         NEW t, t = Stored(st, k, Missing)
  PROVE  /\ MapHolds(w, t) /\ Kept(t) = Kept(st) \ {k}
         /\ w.size = m.size - 1 /\ w.capacity = m.capacity /\ w.array = m.array
<1>1. PICK B, c, at, D, h, C :
        /\ B = m.buckets /\ c = m.capacity /\ at = EntryFor(st) /\ D = Kept(st)
        /\ h = Hash[k] % c /\ C = [B EXCEPT ![h] = Without(B[h], k)]
  OBVIOUS
<1>2. /\ Holds(B, c, EntryType, at, D) /\ st \in [Key -> Value \cup {Missing}]
      /\ m = [size |-> m.size, capacity |-> m.capacity, array |-> m.array,
              buckets |-> m.buckets]
  BY <1>1 DEF MapHolds
<1>3. w = [size |-> m.size - 1, capacity |-> c, array |-> m.array, buckets |-> C]
  BY <1>1, <1>2 DEF Bucket, WithoutKey
<1>4. /\ w.size = m.size - 1 /\ w.capacity = c /\ w.array = m.array /\ w.buckets = C
      /\ w = [size |-> w.size, capacity |-> w.capacity, array |-> w.array,
              buckets |-> w.buckets]
  BY <1>3
<1>5. PICK to : to = EntryFor(t)
  OBVIOUS
<1>6. /\ t \in [Key -> Value \cup {Missing}] /\ t[k] = Missing
      /\ \A j \in Key \ {k} : t[j] = st[j]
  <2>1. k \in Key
    BY DEF Kept
  <2> QED BY <1>2, <2>1 DEF Stored
<1>7. Kept(t) = D \ {k}
  BY <1>1, <1>6 DEF Kept
<1>8. \A j \in D \ {k} : to[j] = at[j]
  BY <1>1, <1>5, <1>6 DEF EntryFor, Kept
<1>9. Holds(C, c, EntryType, to, D \ {k})
  BY <1>1, <1>2, <1>8, HoldsLess
<1>10. Cardinality(D \ {k}) = Cardinality(D) - 1
  <2>1. IsFiniteSet(D)
    BY <1>1, MapNumbers
  <2> QED BY <1>1, <2>1, FS_RemoveElement
<1>11. /\ m.size = Cardinality(D) /\ m.array \in Arrays /\ c \in 1 .. SizeMax /\ Steady(c)
       /\ 4 * m.size <= 3 * c /\ m.size \in Nat
  BY <1>1, MapNumbers DEF MapHolds
<1>12. w.size = Cardinality(Kept(t)) /\ 4 * w.size <= 3 * w.capacity
  BY <1>4, <1>7, <1>10, <1>11
<1>13. Holds(w.buckets, w.capacity, EntryType, EntryFor(t), Kept(t))
  BY <1>4, <1>5, <1>7, <1>9
<1>14. MapHolds(w, t)
  BY <1>4, <1>6, <1>11, <1>12, <1>13 DEF MapHolds
<1> QED BY <1>1, <1>4, <1>7, <1>14


(***************************************************************************)
(* The states of the map.                                                  *)
(***************************************************************************)
IterIs(it, m) ==
  \/ it = NoIter
  \/ \E gave, node, b, hint :
       /\ it = [on |-> TRUE, bucket |-> b, node |-> node, hint |-> hint, seen |-> gave]
       /\ IterAt(m.buckets, m.capacity, EntryType, gave, node, b, hint)

HeldBy(m, st) == {"map", m.array} \cup Kept(st)

MapState(st) ==
  /\ MapHolds(map, st)
  /\ \/ held = {} /\ map = EmptyMap
     \/ held = HeldBy(map, st)
  /\ returned \in Value \cup {Missing}
  /\ reserved \in SizeT /\ 4 * reserved <= 3 * map.capacity
  /\ IterIs(iter, map)

\* What a step does to the store, and to the room reserved.
StoreStep(st, s2) ==
  \/ s2 = st /\ returned' = returned
  \/ /\ \E k \in Key, v \in Value \cup {Missing} : s2 = Stored(st, k, v)
     /\ returned' = returned
  \/ s2 = st /\ \E k \in Key : returned' = st[k]
  \/ s2 = NoStore /\ returned' = Missing

RoomStep ==
  Exists /\ Exists' /\ map'.array # map.array =>
    reserved' > reserved \/ map.size + 1 > reserved

MapStep(st) == RoomStep /\ \E s2 : MapState(s2)' /\ StoreStep(st, s2)

LEMMA BlocksDiffer ==
  /\ \A k \in Key : k \notin Arrays /\ k # "map"
  /\ "map" \notin Arrays
  /\ \A x \in Arrays : Fresh(x) \in Arrays /\ Fresh(x) # x
<1>1. \A k \in Key : k \notin Arrays /\ k # "map"
  BY BlockAssumption DEF Arrays
<1>2. "array A" # "array B" /\ "map" # "array A" /\ "map" # "array B"
  OBVIOUS
<1> QED BY <1>1, <1>2 DEF Arrays, Fresh

LEMMA MapExists ==
  ASSUME NEW st, MapState(st)
  PROVE  /\ Exists <=> held = HeldBy(map, st)
         /\ ~ Exists <=> held = {}
         /\ ~ Exists => map = EmptyMap /\ st = NoStore
<1>1. map = EmptyMap => st = NoStore
  BY EmptyStores DEF MapState
<1>2. "map" \in HeldBy(map, st)
  BY DEF HeldBy
<1> QED BY <1>1, <1>2 DEF MapState, Exists

\* A reservation that grows asks for more than fits.
LEMMA GrowsBeyond ==
  ASSUME NEW m, NEW st, MapHolds(m, st), NEW n \in Nat, ReserveFits(n), Grows(m, n)
  PROVE  ~ (4 * n <= 3 * m.capacity)
<1>1. PICK d : d = CapacityForSize(n)
  OBVIOUS
<1>2. d \in 1 .. SizeMax /\ SizeMax \in Nat
  BY <1>1, CapacityFits, Numbers DEF ReserveFits
<1>3. m.capacity \in Nat /\ d > m.capacity
  BY <1>1, MapNumbers DEF Grows
<1>4. 4 * n <= 3 * m.capacity => d <= m.capacity
  BY <1>1 DEF MapHolds, Steady
<1> QED BY <1>2, <1>3, <1>4

\* The blocks after a reserve.
LEMMA HeldGrown ==
  ASSUME NEW st, MapState(st), Exists, NEW n \in Nat, ReserveFits(n),
         NEW w, w = AfterReserve(map, n)
  PROVE  HeldAfterReserve(n) = HeldBy(w, st)
<1>1. held = HeldBy(map, st) /\ map.array \in Arrays /\ Kept(st) \subseteq Key
  BY MapExists DEF MapState, MapHolds, Kept
<1>2. /\ Grows(map, n) => w.array = Fresh(map.array)
      /\ ~ Grows(map, n) => w = map
  BY MapGrown DEF MapState
<1>3. CASE ~ Grows(map, n)
  BY <1>1, <1>2, <1>3 DEF HeldAfterReserve
<1>4. CASE Grows(map, n)
  <2>1. PICK a, f, K, h : a = map.array /\ f = Fresh(a) /\ K = Kept(st) /\ h = held
    OBVIOUS
  <2>2. a \notin K /\ a # "map" /\ a # f
    BY <1>1, <2>1, BlocksDiffer
  <2>3. h = {"map", a} \cup K
    BY <1>1, <2>1 DEF HeldBy
  <2>4. (h \cup {f}) \ {a} = {"map", f} \cup K
    BY <2>2, <2>3
  <2> QED BY <1>2, <1>4, <2>1, <2>4 DEF HeldAfterReserve, HeldBy
<1> QED BY <1>3, <1>4

\* The map a new key is inserted into.
LEMMA MapReady ==
  ASSUME NEW st, MapState(st), Exists, CanInsert, NEW w, w = Ready
  PROVE  /\ MapHolds(w, st) /\ w.size = map.size /\ 4 * (w.size + 1) <= 3 * w.capacity
         /\ HeldWhenReady = HeldBy(w, st)
         /\ 4 * reserved <= 3 * w.capacity
         /\ w.array # map.array => map.size + 1 > reserved
<1>1. PICK m, n, q : m = map /\ n = map.size + 1 /\ q = reserved
  OBVIOUS
<1>2. /\ MapHolds(m, st) /\ held = HeldBy(m, st) /\ q \in Nat /\ 4 * q <= 3 * m.capacity
      /\ m.capacity \in Nat \ {0} /\ m.size \in Nat /\ n \in Nat /\ n = m.size + 1
  <2>1. MapHolds(m, st) /\ held = HeldBy(m, st) /\ q \in SizeT /\ 4 * q <= 3 * m.capacity
    BY <1>1, MapExists DEF MapState
  <2>2. SizeT \subseteq Nat
    BY Numbers DEF SizeT
  <2>3. m.capacity \in Nat \ {0} /\ m.size \in Nat
    BY <2>1, MapNumbers
  <2> QED BY <1>1, <2>1, <2>2, <2>3
<1>3. CASE ~ NeedsGrowth
  <2>1. w = m /\ HeldWhenReady = held
    BY <1>1, <1>3 DEF Ready, HeldWhenReady
  <2>2. ~ ShouldGrow(m.size, m.capacity)
    BY <1>1, <1>3 DEF NeedsGrowth
  <2>3. 4 * (m.size + 1) <= 3 * m.capacity
    BY <1>2, <2>2, RoomForOne
  <2> QED BY <1>1, <1>2, <2>1, <2>3
<1>4. CASE NeedsGrowth
  <2>1. w = AfterReserve(m, n) /\ HeldWhenReady = HeldAfterReserve(n) /\ ReserveFits(n)
    BY <1>1, <1>4 DEF Ready, HeldWhenReady, CanInsert
  <2>2. /\ MapHolds(w, st) /\ w.size = m.size /\ 4 * n <= 3 * w.capacity
        /\ m.capacity <= w.capacity
        /\ ~ Grows(m, n) => w = m
    BY <1>2, <2>1, MapGrown
  <2>3. HeldWhenReady = HeldBy(w, st)
    BY <1>1, <1>2, <2>1, HeldGrown
  <2>4. w.capacity \in Nat
    BY <2>2, MapNumbers
  <2>5. 4 * q <= 3 * w.capacity
    BY <1>2, <2>2, <2>4
  <2>6. ASSUME w.array # m.array PROVE n > q
    <3>1. Grows(m, n)
      BY <2>2, <2>6
    <3>2. ~ (4 * n <= 3 * m.capacity)
      BY <1>2, <2>1, <3>1, GrowsBeyond
    <3> QED BY <1>2, <3>2
  <2> QED BY <1>1, <1>2, <2>2, <2>3, <2>5, <2>6
<1> QED BY <1>3, <1>4

(***************************************************************************)
(* One lemma per operation of the map.                                     *)
(***************************************************************************)
LEMMA NoIterIs ==
  ASSUME NEW m
  PROVE  IterIs(NoIter, m)
  BY DEF IterIs

\* Nothing but the value found, or the iterator, changes.
LEMMA MapKept ==
  ASSUME NEW st, MapState(st), UNCHANGED <<map, held, reserved>>, IterIs(iter', map'),
         returned' \in Value \cup {Missing},
         StoreStep(st, st)
  PROVE  MapStep(st)
<1>1. MapState(st)'
  BY DEF MapState
<1>2. RoomStep
  BY DEF RoomStep
<1> QED BY <1>1, <1>2 DEF MapStep

LEMMA MapStutters ==
  ASSUME NEW st, MapState(st), UNCHANGED vars
  PROVE  MapStep(st)
<1>1. UNCHANGED <<map, held, reserved>> /\ iter' = iter /\ returned' = returned
  BY DEF vars
<1>2. IterIs(iter', map') /\ returned' \in Value \cup {Missing}
  BY <1>1 DEF MapState
<1>3. StoreStep(st, st)
  BY <1>1 DEF StoreStep
<1> QED BY <1>1, <1>2, <1>3, MapKept

LEMMA CreateIsStep ==
  ASSUME NEW st, MapState(st), Create
  PROVE  MapStep(st)
<1>1. /\ map' = EmptyMap /\ map = EmptyMap /\ held' = {"map", EmptyMap.array}
      /\ returned' = returned /\ iter' = iter /\ reserved' = reserved
      /\ st = NoStore /\ ~ Exists
  BY MapExists DEF Create
<1>2. Kept(st) = {}
  BY <1>1, MapEmpty
<1>3. held' = HeldBy(map', st)
  BY <1>1, <1>2 DEF HeldBy
<1>4. MapState(st)'
  BY <1>1, <1>3 DEF MapState
<1>5. RoomStep
  BY <1>1 DEF RoomStep
<1>6. StoreStep(st, st)
  BY <1>1 DEF StoreStep
<1> QED BY <1>4, <1>5, <1>6 DEF MapStep

LEMMA CreateFailsIsStep ==
  ASSUME NEW st, MapState(st), CreateFails
  PROVE  MapStep(st)
<1>1. held = {}
  BY MapExists DEF CreateFails
<1>2. held' = held
  BY <1>1 DEF CreateFails
<1>3. UNCHANGED vars
  BY <1>2 DEF CreateFails, vars
<1> QED BY <1>3, MapStutters

LEMMA DestroyIsStep ==
  ASSUME NEW st, MapState(st), Destroy
  PROVE  MapStep(st)
<1>1. /\ map' = EmptyMap /\ returned' = Missing /\ iter' = NoIter /\ reserved' = 0
      /\ held' = held \ ({Entries(map)[i].key : i \in DOMAIN Entries(map)}
                           \cup {map.array, "map"})
      /\ held = HeldBy(map, st) /\ MapHolds(map, st)
  BY MapExists DEF Destroy, MapState
<1>2. {Entries(map)[i].key : i \in DOMAIN Entries(map)} = Kept(st)
  BY <1>1, MapKeys
<1>3. held' = {}
  BY <1>1, <1>2 DEF HeldBy
<1>4. MapHolds(EmptyMap, NoStore) /\ IterIs(NoIter, EmptyMap)
  BY MapEmpty, NoIterIs
<1>5. EmptyMap.capacity = DefaultCapacity /\ DefaultCapacity \in Nat /\ 0 \in SizeT
  BY Numbers DEF EmptyMap, SizeT
<1>6. 4 * 0 <= 3 * DefaultCapacity
  BY <1>5
<1>7. MapState(NoStore)'
  BY <1>1, <1>3, <1>4, <1>5, <1>6 DEF MapState
<1>8. RoomStep
  BY <1>3 DEF RoomStep, Exists
<1>9. StoreStep(st, NoStore)
  BY <1>1 DEF StoreStep
<1> QED BY <1>7, <1>8, <1>9 DEF MapStep

LEMMA ReserveIsStep ==
  ASSUME NEW st, MapState(st), NEW n \in ReserveSizes, Reserve(n)
  PROVE  MapStep(st)
<1>1. /\ map' = AfterReserve(map, n) /\ held' = HeldAfterReserve(n) /\ ReserveFits(n)
      /\ reserved' = (IF n > reserved THEN n ELSE reserved)
      /\ iter' = NoIter /\ returned' = returned /\ Exists
  BY DEF Reserve
<1>2. n \in SizeT /\ n \in Nat /\ reserved \in SizeT /\ reserved \in Nat
  <2>1. n \in SizeT /\ reserved \in SizeT
    BY ReserveSizesAssumption DEF MapState
  <2> QED BY <2>1, Numbers DEF SizeT
<1>3. PICK w : w = map'
  OBVIOUS
<1>4. MapHolds(map, st) /\ 4 * reserved <= 3 * map.capacity
  BY DEF MapState
<1>5. /\ MapHolds(w, st) /\ 4 * n <= 3 * w.capacity /\ map.capacity <= w.capacity
      /\ ~ Grows(map, n) => w = map
  BY <1>1, <1>2, <1>3, <1>4, MapGrown
<1>6. held' = HeldBy(w, st)
  BY <1>1, <1>2, <1>3, HeldGrown
<1>7. map.capacity \in Nat /\ w.capacity \in Nat
  BY <1>4, <1>5, MapNumbers
<1>8. 4 * reserved' <= 3 * w.capacity /\ reserved' \in SizeT
  BY <1>1, <1>2, <1>4, <1>5, <1>7
<1>9. MapState(st)'
  BY <1>1, <1>3, <1>5, <1>6, <1>8, NoIterIs DEF MapState
<1>10. RoomStep
  <2>1. ASSUME w.array # map.array PROVE reserved' > reserved
    <3>1. Grows(map, n)
      BY <1>5, <2>1
    <3>2. ~ (4 * n <= 3 * map.capacity)
      BY <1>1, <1>2, <1>4, <3>1, GrowsBeyond
    <3>3. n > reserved
      BY <1>2, <1>4, <1>7, <3>2
    <3> QED BY <1>1, <3>3
  <2> QED BY <1>3, <2>1 DEF RoomStep
<1>11. StoreStep(st, st)
  BY <1>1 DEF StoreStep
<1> QED BY <1>9, <1>10, <1>11 DEF MapStep

LEMMA PutExistingIsStep ==
  ASSUME NEW st, MapState(st), NEW k \in Key, NEW v \in Value, PutExisting(k, v)
  PROVE  MapStep(st)
<1>1. /\ MapHolds(map, st) /\ held = HeldBy(map, st)
      /\ map' = WithValue(map, k, v) /\ Found(map, k) /\ iter' = NoIter
      /\ held' = held /\ returned' = returned /\ reserved' = reserved
  BY MapExists DEF PutExisting, MapState, WithValue
<1>2. k \in Kept(st)
  BY <1>1, MapFound
<1>3. PICK w, t : w = map' /\ t = Stored(st, k, v)
  OBVIOUS
<1>4. /\ MapHolds(w, t) /\ Kept(t) = Kept(st)
      /\ w.capacity = map.capacity /\ w.array = map.array
  BY <1>1, <1>2, <1>3, MapOverwritten
<1>5. held' = HeldBy(w, t)
  BY <1>1, <1>4 DEF HeldBy
<1>6. MapState(t)'
  BY <1>1, <1>3, <1>4, <1>5, NoIterIs DEF MapState
<1>7. RoomStep
  BY <1>3, <1>4 DEF RoomStep
<1>8. StoreStep(st, t)
  BY <1>1, <1>3 DEF StoreStep
<1> QED BY <1>6, <1>7, <1>8 DEF MapStep

LEMMA PutNewIsStep ==
  ASSUME NEW st, MapState(st), NEW k \in Key, NEW v \in Value, PutNew(k, v)
  PROVE  MapStep(st)
<1>1. PICK m : m = Ready
  OBVIOUS
<1>2. /\ MapHolds(map, st) /\ Exists /\ CanInsert /\ ~ Found(map, k)
      /\ map' = WithNew(m, k, v) /\ iter' = NoIter
      /\ held' = HeldWhenReady \cup {k} /\ returned' = returned /\ reserved' = reserved
  BY <1>1 DEF PutNew, MapState, WithNew
<1>3. /\ MapHolds(m, st) /\ 4 * (m.size + 1) <= 3 * m.capacity
      /\ HeldWhenReady = HeldBy(m, st) /\ 4 * reserved <= 3 * m.capacity
      /\ m.array # map.array => map.size + 1 > reserved
  BY <1>1, <1>2, MapReady
<1>4. k \notin Kept(st)
  BY <1>2, MapFound
<1>5. PICK w, t : w = map' /\ t = Stored(st, k, v)
  OBVIOUS
<1>6. /\ MapHolds(w, t) /\ Kept(t) = Kept(st) \cup {k}
      /\ w.capacity = m.capacity /\ w.array = m.array
  BY <1>2, <1>3, <1>4, <1>5, MapPut
<1>7. held' = HeldBy(w, t)
  BY <1>2, <1>3, <1>6 DEF HeldBy
<1>8. 4 * reserved' <= 3 * w.capacity /\ reserved' \in SizeT
  BY <1>2, <1>3, <1>6 DEF MapState
<1>9. MapState(t)'
  BY <1>2, <1>5, <1>6, <1>7, <1>8, NoIterIs DEF MapState
<1>10. RoomStep
  BY <1>3, <1>5, <1>6 DEF RoomStep
<1>11. StoreStep(st, t)
  BY <1>2, <1>5 DEF StoreStep
<1> QED BY <1>9, <1>10, <1>11 DEF MapStep

LEMMA PutFailsGrownIsStep ==
  ASSUME NEW st, MapState(st), NEW k \in Key, PutFailsGrown(k)
  PROVE  MapStep(st)
<1>1. PICK m : m = map'
  OBVIOUS
<1>2. /\ Exists /\ CanInsert /\ m = Ready /\ iter' = NoIter
      /\ held' = HeldWhenReady /\ returned' = returned /\ reserved' = reserved
  BY <1>1 DEF PutFailsGrown
<1>3. /\ MapHolds(m, st) /\ HeldWhenReady = HeldBy(m, st)
      /\ 4 * reserved <= 3 * m.capacity
      /\ m.array # map.array => map.size + 1 > reserved
  BY <1>2, MapReady
<1>4. 4 * reserved' <= 3 * m.capacity /\ reserved' \in SizeT
  BY <1>2, <1>3 DEF MapState
<1>5. MapState(st)'
  BY <1>1, <1>2, <1>3, <1>4, NoIterIs DEF MapState
<1>6. RoomStep
  BY <1>1, <1>3 DEF RoomStep
<1>7. StoreStep(st, st)
  BY <1>2 DEF StoreStep
<1> QED BY <1>5, <1>6, <1>7 DEF MapStep

LEMMA GetIsStep ==
  ASSUME NEW st, MapState(st), NEW k \in Key, Get(k)
  PROVE  MapStep(st)
<1>1. /\ MapHolds(map, st) /\ st \in [Key -> Value \cup {Missing}]
      /\ UNCHANGED <<map, held, reserved>> /\ iter' = iter
      /\ returned' = (IF Found(map, k) THEN EntryOf(map, k).value ELSE Missing)
  BY DEF Get, MapState, MapHolds
<1>2. returned' = st[k]
  <2>1. CASE k \in Kept(st)
    <3>1. EntryOf(map, k) = [key |-> k, hash |-> Hash[k], value |-> st[k]] /\ Found(map, k)
      BY <1>1, <2>1, MapFound
    <3> QED BY <1>1, <3>1
  <2>2. CASE k \notin Kept(st)
    <3>1. ~ Found(map, k) /\ st[k] = Missing
      BY <1>1, <2>2, MapFound DEF Kept
    <3> QED BY <1>1, <3>1
  <2> QED BY <2>1, <2>2
<1>3. returned' \in Value \cup {Missing} /\ StoreStep(st, st)
  BY <1>1, <1>2 DEF StoreStep
<1>4. IterIs(iter', map')
  BY <1>1 DEF MapState
<1> QED BY <1>1, <1>3, <1>4, MapKept

LEMMA RemoveKeyIsStep ==
  ASSUME NEW st, MapState(st), NEW k \in Key, RemoveKey(k)
  PROVE  MapStep(st)
<1>1. CASE ~ Found(map, k)
  <2>1. UNCHANGED vars
    BY <1>1 DEF RemoveKey, vars
  <2> QED BY <2>1, MapStutters
<1>2. CASE Found(map, k)
  <2>1. /\ MapHolds(map, st) /\ held = HeldBy(map, st)
        /\ map' = WithoutKey(map, k) /\ iter' = NoIter
        /\ held' = held \ {k} /\ returned' = returned /\ reserved' = reserved
    BY <1>2, MapExists DEF RemoveKey, MapState, WithoutKey
  <2>2. k \in Kept(st) /\ k # "map" /\ map.array # k
    <3>1. map.array \in Arrays
      BY <2>1 DEF MapHolds
    <3> QED BY <1>2, <2>1, <3>1, MapFound, BlocksDiffer
  <2>3. PICK w, t : w = map' /\ t = Stored(st, k, Missing)
    OBVIOUS
  <2>4. /\ MapHolds(w, t) /\ Kept(t) = Kept(st) \ {k}
        /\ w.capacity = map.capacity /\ w.array = map.array
    BY <2>1, <2>2, <2>3, MapRemoved
  <2>5. held' = HeldBy(w, t)
    BY <2>1, <2>2, <2>4 DEF HeldBy
  <2>6. MapState(t)'
    BY <2>1, <2>3, <2>4, <2>5, NoIterIs DEF MapState
  <2>7. RoomStep
    BY <2>3, <2>4 DEF RoomStep
  <2>8. StoreStep(st, t)
    BY <2>1, <2>3 DEF StoreStep
  <2> QED BY <2>6, <2>7, <2>8 DEF MapStep
<1> QED BY <1>1, <1>2

LEMMA MapTable ==
  ASSUME NEW m, NEW st, MapHolds(m, st)
  PROVE  /\ IsTable(m.buckets, m.capacity, EntryType)
         /\ Len(Visit(m.buckets, m.capacity)) = m.size
  BY MapNumbers DEF MapHolds, Holds, Entries

LEMMA GetIteratorIsStep ==
  ASSUME NEW st, MapState(st), GetIterator
  PROVE  MapStep(st)
<1>1. /\ MapHolds(map, st) /\ UNCHANGED <<map, held, reserved>> /\ returned' = returned
      /\ returned \in Value \cup {Missing}
      /\ iter' = [NoIter EXCEPT !.on = TRUE, !.hint = map.size]
  BY DEF GetIterator, MapState
<1>2. iter' = [on |-> TRUE, bucket |-> 0, node |-> << >>, hint |-> map.size, seen |-> << >>]
  BY <1>1 DEF NoIter
<1>3. IterAt(map.buckets, map.capacity, EntryType, << >>, << >>, 0, map.size)
  <2>1. PICK B, c, n : B = map.buckets /\ c = map.capacity /\ n = map.size
    OBVIOUS
  <2>2. IsTable(B, c, EntryType) /\ n = Len(Visit(B, c))
    BY <1>1, <2>1, MapTable
  <2>3. IterAt(B, c, EntryType, << >>, << >>, 0, n)
    BY <2>2, IterStarts
  <2> QED BY <2>1, <2>3
<1>4. IterIs(iter', map')
  BY <1>1, <1>2, <1>3 DEF IterIs
<1>5. StoreStep(st, st)
  BY <1>1 DEF StoreStep
<1> QED BY <1>1, <1>4, <1>5, MapKept

\* The iterator's record when it gave gave.
IterRec(b, node, hint, gave) ==
  [on |-> TRUE, bucket |-> b, node |-> node, hint |-> hint, seen |-> gave]

\* Along the chain of the entries node.
Gone(b, node, hint, gave) ==
  IterRec(b, Tail(node), IF hint > 0 THEN hint - 1 ELSE hint, Append(gave, Head(node)))

LEMMA IterGoes ==
  ASSUME NEW m, IsTable(m.buckets, m.capacity, EntryType),
         NEW b, NEW node, NEW hint, NEW gave, node # << >>,
         IterAt(m.buckets, m.capacity, EntryType, gave, node, b, hint)
  PROVE  IterIs(Gone(b, node, hint, gave), m)
<1>1. PICK B, c : B = m.buckets /\ c = m.capacity
  OBVIOUS
<1>2. IsTable(B, c, EntryType) /\ IterAt(B, c, EntryType, gave, node, b, hint)
  BY <1>1
<1>3. /\ IterAt(B, c, EntryType, Append(gave, Head(node)), Tail(node), b, hint - 1)
      /\ hint \in Nat \ {0}
  BY <1>2, IterSteps
<1>4. (IF hint > 0 THEN hint - 1 ELSE hint) = hint - 1
  BY <1>3
<1>5. Gone(b, node, hint, gave) = IterRec(b, Tail(node), hint - 1, Append(gave, Head(node)))
  BY <1>4 DEF Gone
<1> QED BY <1>1, <1>3, <1>5 DEF IterIs, IterRec

LEMMA IterNextIsStep ==
  ASSUME NEW st, MapState(st), IterNext
  PROVE  MapStep(st)
<1>1. /\ MapHolds(map, st) /\ UNCHANGED <<map, held, reserved>> /\ returned' = returned
      /\ returned \in Value \cup {Missing} /\ iter.on /\ IterIs(iter, map)
  BY DEF IterNext, MapState
<1>2. PICK m, B, c : m = map /\ B = m.buckets /\ c = m.capacity
  OBVIOUS
<1>3. IsTable(B, c, EntryType)
  BY <1>1, <1>2, MapTable
<1>4. iter # NoIter
  BY <1>1 DEF NoIter
<1>5. PICK gave, node, b, hint :
        /\ iter = IterRec(b, node, hint, gave)
        /\ IterAt(B, c, EntryType, gave, node, b, hint)
  BY <1>1, <1>2, <1>4 DEF IterIs, IterRec
<1>6. /\ iter.on = TRUE /\ iter.bucket = b /\ iter.node = node /\ iter.hint = hint
      /\ iter.seen = gave
  BY <1>5 DEF IterRec
<1>7. PICK to, rest :
        /\ to = NextChain(iter)
        /\ rest = IF node # << >> THEN node
                  ELSE IF \E x \in b .. c - 1 : B[x] # << >> THEN B[to - 1] ELSE << >>
  OBVIOUS
<1>8. iter' = [iter EXCEPT !.bucket = to,
                           !.node = IF rest = << >> THEN rest ELSE Tail(rest),
                           !.hint = IF rest # << >> /\ @ > 0 THEN @ - 1 ELSE @,
                           !.seen = IF rest = << >> THEN @ ELSE Append(@, Head(rest))]
  BY <1>2, <1>6, <1>7 DEF IterNext
<1>9. iter' = IterRec(to, IF rest = << >> THEN rest ELSE Tail(rest),
                      IF rest # << >> /\ hint > 0 THEN hint - 1 ELSE hint,
                      IF rest = << >> THEN gave ELSE Append(gave, Head(rest)))
  BY <1>5, <1>8 DEF IterRec
<1>10. ASSUME rest # << >> PROVE iter' = Gone(to, rest, hint, gave)
  BY <1>9, <1>10 DEF Gone
<1>11. IterIs(iter', m)
  <2>1. CASE node # << >>
    <3>1. to = b /\ rest = node
      BY <1>6, <1>7, <2>1 DEF NextChain
    <3>2. IterIs(Gone(b, node, hint, gave), m)
      BY <1>2, <1>3, <1>5, <2>1, IterGoes
    <3> QED BY <1>10, <2>1, <3>1, <3>2
  <2>2. CASE node = << >> /\ LaterIn(B, c, b) = {}
    <3>1. \A x \in b .. c - 1 : B[x] = << >>
      BY <2>2 DEF LaterIn
    <3>2. to = c
      <4>1. {x \in iter.bucket .. map.capacity - 1 : map.buckets[x] # << >>} = {}
        BY <1>2, <1>6, <3>1
      <4> QED BY <1>2, <1>6, <1>7, <2>2, <4>1 DEF NextChain
    <3>3. rest = << >>
      BY <1>7, <2>2, <3>1
    <3>4. iter' = IterRec(c, << >>, hint, gave)
      BY <1>9, <3>2, <3>3
    <3>5. IterAt(B, c, EntryType, gave, << >>, c, hint)
      BY <1>3, <1>5, <2>2, IterEnds
    <3> QED BY <1>2, <3>4, <3>5 DEF IterIs, IterRec
  <2>3. CASE node = << >> /\ LaterIn(B, c, b) # {}
    <3>1. PICK d : d = CHOOSE x \in LaterIn(B, c, b) : \A y \in LaterIn(B, c, b) : x <= y
      OBVIOUS
    <3>2. d \in LaterIn(B, c, b) /\ \A y \in LaterIn(B, c, b) : d <= y
      <4>1. b \in 0 .. c
        BY <1>5 DEF IterAt
      <4> QED BY <1>3, <2>3, <3>1, <4>1, LeastAhead
    <3>3. d \in b .. c - 1 /\ B[d] # << >> /\ d \in Nat
      BY <1>3, <1>5, <3>2 DEF LaterIn, IsTable, IterAt
    <3>4. to = d + 1
      <4>1. {x \in iter.bucket .. map.capacity - 1 : map.buckets[x] # << >>}
              = LaterIn(B, c, b)
        BY <1>2, <1>6 DEF LaterIn
      <4>2. NextChain(iter)
              = (CHOOSE x \in LaterIn(B, c, b) : \A y \in LaterIn(B, c, b) : x <= y) + 1
        BY <1>6, <2>3, <4>1, Zenon DEF NextChain
      <4> QED BY <1>7, <3>1, <4>2
    <3>5. rest = B[d]
      <4>1. to - 1 = d
        BY <3>3, <3>4
      <4> QED BY <1>7, <2>3, <3>3, <4>1
    <3>6. IterAt(B, c, EntryType, gave, rest, to, hint)
      BY <1>3, <1>5, <2>3, <3>2, <3>4, <3>5, IterEnters
    <3>7. IterIs(Gone(to, rest, hint, gave), m)
      BY <1>2, <1>3, <3>3, <3>5, <3>6, IterGoes
    <3> QED BY <1>10, <3>3, <3>5, <3>7
  <2> QED BY <2>1, <2>2, <2>3
<1>12. StoreStep(st, st)
  BY <1>1 DEF StoreStep
<1> QED BY <1>1, <1>2, <1>11, <1>12, MapKept

LEMMA MapSteps ==
  ASSUME NEW st, MapState(st), [Next]_vars
  PROVE  MapStep(st)
<1>1. CASE Create
  BY <1>1, CreateIsStep
<1>2. CASE CreateFails
  BY <1>2, CreateFailsIsStep
<1>3. CASE Destroy
  BY <1>3, DestroyIsStep
<1>4. ASSUME NEW n \in ReserveSizes, Reserve(n) \/ ReserveFails(n)
      PROVE  MapStep(st)
  <2>1. CASE Reserve(n)
    BY <2>1, ReserveIsStep
  <2>2. CASE ReserveFails(n)
    BY <2>2, MapStutters DEF ReserveFails
  <2> QED BY <1>4, <2>1, <2>2
<1>5. ASSUME NEW k \in Key, Get(k) \/ RemoveKey(k) \/ PutFailsGrown(k) \/ PutFails(k)
      PROVE  MapStep(st)
  <2>1. CASE Get(k)
    BY <2>1, GetIsStep
  <2>2. CASE RemoveKey(k)
    BY <2>2, RemoveKeyIsStep
  <2>3. CASE PutFailsGrown(k)
    BY <2>3, PutFailsGrownIsStep
  <2>4. CASE PutFails(k)
    BY <2>4, MapStutters DEF PutFails
  <2> QED BY <1>5, <2>1, <2>2, <2>3, <2>4
<1>6. ASSUME NEW k \in Key, NEW v \in Value, PutExisting(k, v) \/ PutNew(k, v)
      PROVE  MapStep(st)
  BY <1>6, PutExistingIsStep, PutNewIsStep
<1>7. CASE GetIterator
  BY <1>7, GetIteratorIsStep
<1>8. CASE IterNext
  BY <1>8, IterNextIsStep
<1>9. CASE UNCHANGED vars
  BY <1>9, MapStutters
<1> QED BY <1>1, <1>2, <1>3, <1>4, <1>5, <1>6, <1>7, <1>8, <1>9 DEF Next

(***************************************************************************)
(* What the states of the map make true.                                   *)
(***************************************************************************)
\* Every entry of a table is in its bucket, once.
LEMMA HoldsPlaced ==
  ASSUME NEW B, NEW c, NEW T, NEW at, NEW D, Holds(B, c, T, at, D),
         NEW b \in 0 .. c - 1, NEW i \in 1 .. Len(B[b])
  PROVE  /\ B[b][i].hash = Hash[B[b][i].key] /\ Hash[B[b][i].key] % c = b
         /\ B[b][i].key \in D
         /\ \A d \in 0 .. c - 1 : \A j \in 1 .. Len(B[d]) :
              B[b][i].key = B[d][j].key => b = d /\ i = j
<1>1. \A d \in 0 .. c - 1 : Lists(B[d], at, InBucket(D, c, d))
  BY DEF Holds
<1>2. \A d \in 0 .. c - 1 : \A j \in 1 .. Len(B[d]) :
        B[d][j].key \in D /\ Hash[B[d][j].key] % c = d /\ B[d][j] = at[B[d][j].key]
  BY <1>1 DEF Lists, InBucket
<1>3. PICK e : e = B[b][i]
  OBVIOUS
<1>4. e.key \in D /\ Hash[e.key] % c = b /\ e = at[e.key]
  BY <1>2, <1>3
<1>5. e.hash = Hash[e.key]
  BY <1>4 DEF Holds, IsEntry
<1>6. ASSUME NEW d \in 0 .. c - 1, NEW j \in 1 .. Len(B[d]), e.key = B[d][j].key
      PROVE  b = d /\ i = j
  <2>1. b = d
    BY <1>2, <1>4, <1>6
  <2>2. e.key = B[b][j].key /\ j \in 1 .. Len(B[b])
    BY <1>6, <2>1
  <2>3. i = j
    BY <1>1, <1>3, <2>2 DEF Lists
  <2> QED BY <2>1, <2>3
<1> QED BY <1>3, <1>4, <1>5, <1>6

LEMMA IterTypes ==
  ASSUME NEW m, NEW st, MapHolds(m, st), NEW it, IterIs(it, m)
  PROVE  it.bucket \in 0 .. m.capacity /\ it.node \in Seq(EntryType)
         /\ it.seen \in Seq(EntryType)
<1>1. m.capacity \in Nat
  BY MapNumbers
<1>2. CASE it = NoIter
  <2>1. it.bucket = 0 /\ it.node = << >> /\ it.seen = << >>
    BY <1>2 DEF NoIter
  <2> QED BY <1>1, <2>1, EmptySeq
<1>3. CASE it # NoIter
  <2>1. PICK gave, node, b, hint :
          /\ it = [on |-> TRUE, bucket |-> b, node |-> node, hint |-> hint, seen |-> gave]
          /\ IterAt(m.buckets, m.capacity, EntryType, gave, node, b, hint)
    BY <1>3 DEF IterIs
  <2>2. it.bucket = b /\ it.node = node /\ it.seen = gave
    BY <2>1
  <2> QED BY <2>1, <2>2 DEF IterAt
<1> QED BY <1>2, <1>3

LEMMA MapConsistent ==
  ASSUME NEW st, MapState(st)
  PROVE  Consistent
<1>1. MapHolds(map, st)
  BY DEF MapState
<1>2. PICK B, c, at, D : /\ B = map.buckets /\ c = map.capacity /\ at = EntryFor(st)
                         /\ D = Kept(st)
  OBVIOUS
<1>3. Holds(B, c, EntryType, at, D) /\ c \in 1 .. SizeMax
  BY <1>1, <1>2 DEF MapHolds
<1>4. DOMAIN B = 0 .. c - 1 /\ \A b \in 0 .. c - 1 : B[b] \in Seq(EntryType)
  BY <1>3 DEF Holds, IsTable
<1>5. \A b \in 0 .. c - 1 : DOMAIN B[b] = 1 .. Len(B[b])
  BY <1>4
<1>6. Kept(st) \subseteq Key /\ map.array \in Arrays
  BY <1>1 DEF Kept, MapHolds
<1>7. held \subseteq Key \cup Arrays \cup {"map"}
  BY <1>6 DEF MapState, HeldBy
<1>8. map.size \in Nat /\ map.capacity \in 1 .. SizeMax
  BY <1>1, <1>2, <1>3, MapNumbers
<1>9. /\ returned \in Value \cup {Missing} /\ reserved \in SizeT
      /\ iter.bucket \in 0 .. map.capacity /\ iter.node \in Seq(EntryType)
      /\ iter.seen \in Seq(EntryType)
  BY <1>1, IterTypes DEF MapState
<1>10. TypeOK
  BY <1>2, <1>4, <1>6, <1>7, <1>8, <1>9 DEF TypeOK
<1>11. Placed
  <2>1. ASSUME NEW b \in DOMAIN B, NEW d \in DOMAIN B,
               NEW i \in DOMAIN B[b], NEW j \in DOMAIN B[d]
        PROVE  /\ B[b][i].hash = Hash[B[b][i].key] /\ B[b][i].hash % c = b
               /\ B[b][i].key = B[d][j].key => b = d /\ i = j
    <3>1. b \in 0 .. c - 1 /\ d \in 0 .. c - 1 /\ i \in 1 .. Len(B[b]) /\ j \in 1 .. Len(B[d])
      BY <1>4, <1>5
    <3> QED BY <1>3, <3>1, HoldsPlaced
  <2>2. /\ \A b \in DOMAIN map.buckets : b \in DOMAIN B
        /\ map.buckets = B /\ map.capacity = c
    BY <1>2
  <2>3. ASSUME NEW b \in DOMAIN map.buckets, NEW d \in DOMAIN map.buckets,
               NEW i \in DOMAIN map.buckets[b], NEW j \in DOMAIN map.buckets[d]
        PROVE  /\ map.buckets[b][i].hash = Hash[map.buckets[b][i].key]
               /\ map.buckets[b][i].hash % map.capacity = b
               /\ map.buckets[b][i].key = map.buckets[d][j].key => b = d /\ i = j
    <3>1. b \in DOMAIN B /\ d \in DOMAIN B /\ i \in DOMAIN B[b] /\ j \in DOMAIN B[d]
      BY <2>2
    <3> QED BY <2>1, <2>2, <3>1
  <2> QED BY <2>3 DEF Placed
<1>12. Counted
  <2>1. map.size = Len(Entries(map)) /\ 4 * map.size <= 3 * map.capacity
    BY <1>1, MapNumbers DEF MapHolds
  <2>2. map.size * 4 <= map.capacity * 3
    BY <1>8, <2>1
  <2> QED BY <2>1, <2>2, Numbers DEF Counted
<1>13. HeldExactly
  <2>1. {Entries(map)[i].key : i \in DOMAIN Entries(map)} = Kept(st)
    BY <1>1, MapKeys
  <2> QED BY <2>1, MapExists DEF HeldExactly, HeldBy
<1> QED BY <1>10, <1>11, <1>12, <1>13 DEF Consistent

LEMMA MapIterates ==
  ASSUME NEW st, MapState(st)
  PROVE  IteratorIsExact
<1> SUFFICES ASSUME iter.on
             PROVE  LET left == iter.node \o
                          FlattenSeq([i \in 1 .. map.capacity - iter.bucket |->
                                        map.buckets[iter.bucket + i - 1]])
                    IN  /\ iter.seen \o left = Entries(map)
                        /\ iter.hint = Len(left)
  BY DEF IteratorIsExact
<1>1. iter # NoIter /\ IterIs(iter, map)
  BY DEF NoIter, MapState
<1>2. PICK gave, node, b, hint :
        /\ iter = [on |-> TRUE, bucket |-> b, node |-> node, hint |-> hint, seen |-> gave]
        /\ IterAt(map.buckets, map.capacity, EntryType, gave, node, b, hint)
  BY <1>1 DEF IterIs
<1>3. iter.bucket = b /\ iter.node = node /\ iter.seen = gave /\ iter.hint = hint
  BY <1>2
<1>4. FlattenSeq([i \in 1 .. map.capacity - iter.bucket |->
                    map.buckets[iter.bucket + i - 1]]) = From(map.buckets, map.capacity, b)
  BY <1>3 DEF From
<1> QED BY <1>2, <1>3, <1>4 DEF IterAt, Entries

\* The store of the contract.
StoreOf(m) == [k \in Key |-> IF Found(m, k) THEN EntryOf(m, k).value ELSE Missing]

LEMMA StoreIs ==
  ASSUME NEW m, NEW st, MapHolds(m, st)
  PROVE  StoreOf(m) = st
<1>1. MapHolds(m, st) /\ st \in [Key -> Value \cup {Missing}]
  BY DEF MapHolds
<1>2. ASSUME NEW k \in Key
      PROVE  (IF Found(m, k) THEN EntryOf(m, k).value ELSE Missing) = st[k]
  <2>1. CASE k \in Kept(st)
    <3>1. EntryOf(m, k) = [key |-> k, hash |-> Hash[k], value |-> st[k]] /\ Found(m, k)
      BY <1>1, <2>1, MapFound
    <3> QED BY <3>1
  <2>2. CASE k \notin Kept(st)
    <3>1. ~ Found(m, k) /\ st[k] = Missing
      BY <1>1, <2>2, MapFound DEF Kept
    <3> QED BY <3>1
  <2> QED BY <2>1, <2>2
<1> QED BY <1>1, <1>2 DEF StoreOf

LEMMA MapInitially ==
  ASSUME Init
  PROVE  MapState(NoStore)
<1>1. /\ map = EmptyMap /\ held = {} /\ returned = Missing /\ iter = NoIter /\ reserved = 0
  BY DEF Init
<1>2. MapHolds(EmptyMap, NoStore) /\ IterIs(NoIter, EmptyMap)
  BY MapEmpty, NoIterIs
<1>3. 0 \in SizeT /\ DefaultCapacity \in Nat /\ EmptyMap.capacity = DefaultCapacity
  BY Numbers DEF SizeT, EmptyMap
<1>4. 4 * 0 <= 3 * DefaultCapacity
  BY <1>3
<1> QED BY <1>1, <1>2, <1>3, <1>4 DEF MapState

\* A step of the map is a step of the contract.
LEMMA MapSimulates ==
  ASSUME NEW st, MapState(st), MapStep(st)
  PROVE  [Contract!Next]_(Contract!contractVars)
<1>1. PICK s2 : MapState(s2)' /\ StoreStep(st, s2)
  BY DEF MapStep
<1>2. PICK r, q : r = StoreOf(map) /\ q = StoreOf(map)'
  OBVIOUS
<1>3. r = st /\ q = s2 /\ st \in [Key -> Value \cup {Missing}]
  <2>1. MapHolds(map, st) /\ MapHolds(map', s2)
    BY <1>1 DEF MapState
  <2>2. r = st
    BY <1>2, <2>1, StoreIs
  <2>3. StoreOf(map') = s2
    BY <2>1, StoreIs
  <2> QED BY <1>2, <2>1, <2>2, <2>3 DEF MapHolds
<1>4. CASE s2 = st /\ returned' = returned
  BY <1>2, <1>3, <1>4 DEF StoreOf, Contract!contractVars
<1>5. ASSUME NEW k \in Key, NEW v \in Value \cup {Missing}, s2 = Stored(st, k, v),
             returned' = returned
      PROVE  Contract!Next
  <2>1. q = [r EXCEPT ![k] = v]
    BY <1>3, <1>5 DEF Stored
  <2>2. CASE v \in Value
    <3>1. Contract!Put
      BY <1>2, <1>5, <2>1, <2>2, Zenon DEF Contract!Put, StoreOf
    <3> QED BY <3>1 DEF Contract!Next
  <2>3. CASE v = Missing
    <3>1. Contract!Remove
      BY <1>2, <1>5, <2>1, <2>3, Zenon DEF Contract!Remove, StoreOf
    <3> QED BY <3>1 DEF Contract!Next
  <2> QED BY <2>2, <2>3
<1>6. ASSUME s2 = st, NEW k \in Key, returned' = st[k]
      PROVE  Contract!Next
  <2>1. q = r /\ returned' = r[k]
    BY <1>3, <1>6
  <2>2. Contract!Get
    BY <1>2, <2>1, Zenon DEF Contract!Get, StoreOf
  <2> QED BY <2>2 DEF Contract!Next
<1>7. CASE s2 = NoStore /\ returned' = Missing
  <2>1. q = [k \in Key |-> Missing]
    BY <1>3, <1>7 DEF NoStore
  <2>2. Contract!Destroy
    BY <1>2, <1>7, <2>1, Zenon DEF Contract!Destroy, StoreOf
  <2> QED BY <2>2 DEF Contract!Next
<1> QED BY <1>1, <1>4, <1>5, <1>6, <1>7 DEF StoreStep

LEMMA MapStartsAsContract ==
  ASSUME Init
  PROVE  Contract!Init
<1>1. MapHolds(map, NoStore) /\ returned = Missing
  BY MapInitially DEF MapState, Init
<1>2. StoreOf(map) = NoStore
  BY <1>1, StoreIs
<1> QED BY <1>1, <1>2, Zenon DEF Contract!Init, StoreOf, NoStore


(***************************************************************************)
(* The set.  hash/hashset.c goes through its own copy of the operators of  *)
(* hash/common.c, which are the same operators.                            *)
(***************************************************************************)
LEMMA SetVisits == \A b, c : Set!Visit(b, c) = Visit(b, c)
  BY Zenon DEF Set!Visit, Visit, Set!FlattenSeq, FlattenSeq

\* The loop of k4c_hash_common_buckets_rehash over the entries all.
RehashAll(all, capacity) ==
  LET after[i \in 0 .. Len(all)] ==
        IF i = 0 THEN EmptyBuckets(capacity)
        ELSE [after[i - 1] EXCEPT ![all[i].hash % capacity] = PushEntry(@, all[i])]
  IN  after[Len(all)]

LEMMA SetRehashes ==
  ASSUME NEW b, NEW c, NEW d
  PROVE  Set!Rehashed(b, c, d) = Rehashed(b, c, d)
<1>1. Rehashed(b, c, d) = RehashAll(Visit(b, c), d)
  BY Zenon DEF Rehashed, RehashAll
<1>2. Set!Rehashed(b, c, d) = RehashAll(Set!Visit(b, c), d)
  BY Zenon DEF Set!Rehashed, RehashAll, Set!PushEntry, PushEntry, Set!EmptyBuckets,
               EmptyBuckets
<1>3. Set!Visit(b, c) = Visit(b, c)
  BY SetVisits
<1> QED BY <1>1, <1>2, <1>3, Zenon

LEMMA SetFinds == \A s, k : Set!Find(s, k) = Find(s, k)
  BY Zenon DEF Set!Find, Find, Set!SelectInSeq, SelectInSeq, Set!Min, Min

LEMMA SetCapacities == \A n : Set!CapacityForSize(n) = CapacityForSize(n)
  BY Zenon DEF Set!CapacityForSize, CapacityForSize, Set!MulOverflows, MulOverflows,
               Set!Overflow, Overflow, Set!LoadNumerator, Set!LoadDenominator,
               LoadNumerator, LoadDenominator

LEMMA SetLoads ==
  /\ \A m, n : Set!ShouldGrow(m, n) = ShouldGrow(m, n)
  /\ Set!LoadNumerator = 3 /\ Set!LoadDenominator = 4 /\ Set!Overflow = Overflow
  /\ Set!SizeT = SizeT /\ Set!Arrays = Arrays
  /\ \A x : Set!Fresh(x) = Fresh(x)
<1>1. \A m, n : Set!ShouldGrow(m, n) = ShouldGrow(m, n)
  BY Zenon DEF Set!ShouldGrow, ShouldGrow, Set!AddOverflows, AddOverflows,
     Set!MulOverflows, MulOverflows, Set!LoadNumerator, Set!LoadDenominator,
     LoadNumerator, LoadDenominator
<1> QED BY <1>1 DEF Set!LoadNumerator, Set!LoadDenominator, Set!Overflow, Overflow,
           Set!SizeT, SizeT, Set!Arrays, Arrays, Set!Fresh, Fresh

\* A set is known by its members: every entry says only what it is of.
Elem == [key : Key, hash : Nat]
ElemOf(k) == [key |-> k, hash |-> Hash[k]]
ElemFor == [k \in Key |-> ElemOf(k)]

SetHolds(s, D) ==
  /\ s = [size |-> s.size, capacity |-> s.capacity, array |-> s.array, buckets |-> s.buckets]
  /\ s.capacity \in 1 .. SizeMax /\ s.array \in Arrays /\ Steady(s.capacity)
  /\ Holds(s.buckets, s.capacity, Elem, ElemFor, D)
  /\ s.size = Cardinality(D) /\ 4 * s.size <= 3 * s.capacity

WithElem(s, k) ==
  [s EXCEPT !.buckets[Hash[k] % s.capacity] = PushEntry(@, ElemOf(k)), !.size = @ + 1]
WithoutElem(s, k) ==
  [s EXCEPT !.buckets[Hash[k] % s.capacity] = Without(@, k), !.size = @ - 1]
GrownSet(s, d) ==
  [size |-> s.size, capacity |-> d, array |-> Fresh(s.array),
   buckets |-> Rehashed(s.buckets, s.capacity, d)]

LEMMA SetOperators ==
  /\ \A s, k : Set!IsMember(s, k) <=> Find(s.buckets[Hash[k] % s.capacity], k) # 0
  /\ \A s : Set!Members(s) = {e.key : e \in ToSet(Visit(s.buckets, s.capacity))}
  /\ \A n : Set!Reserved(n) = IF CapacityForSize(n) > set.capacity
                              THEN GrownSet(set, CapacityForSize(n)) ELSE set
  /\ \A n : Set!ReserveFits(n) => CapacityForSize(n) # Overflow
<1>1. \A s, k : Set!IsMember(s, k) <=> Find(s.buckets[Hash[k] % s.capacity], k) # 0
  BY SetFinds, Zenon DEF Set!IsMember, Set!Bucket
<1>2. \A s : Set!Members(s) = {e.key : e \in ToSet(Visit(s.buckets, s.capacity))}
  BY Zenon DEF Set!Members, Set!ToSet, ToSet, Set!Visit, Visit, Set!FlattenSeq, FlattenSeq
<1>3. ASSUME NEW n
      PROVE  Set!Reserved(n) = IF CapacityForSize(n) > set.capacity
                               THEN GrownSet(set, CapacityForSize(n)) ELSE set
  <2>1. Set!CapacityForSize(n) = CapacityForSize(n)
    BY SetCapacities
  <2>2. Set!Rehashed(set.buckets, set.capacity, CapacityForSize(n))
          = Rehashed(set.buckets, set.capacity, CapacityForSize(n))
    BY SetRehashes
  <2>3. Set!Fresh(set.array) = Fresh(set.array)
    BY SetLoads
  <2> QED BY <2>1, <2>2, <2>3, Zenon DEF Set!Reserved, Set!Grows, GrownSet
<1>4. \A n : Set!ReserveFits(n) => CapacityForSize(n) # Overflow
  BY SetCapacities, SetLoads, Zenon DEF Set!ReserveFits
<1> QED BY <1>1, <1>2, <1>3, <1>4

LEMMA ElemIs ==
  ASSUME NEW k \in Key
  PROVE  ElemFor[k] = ElemOf(k) /\ IsEntry(ElemOf(k), k, Elem)
<1>1. Hash[k] \in Nat
  BY HashAssumption
<1> QED BY <1>1 DEF ElemFor, ElemOf, IsEntry, Elem

LEMMA SetNumbers ==
  ASSUME NEW s, NEW D, SetHolds(s, D)
  PROVE  /\ s.capacity \in Nat \ {0} /\ s.size \in Nat /\ IsFiniteSet(D) /\ D \subseteq Key
         /\ Visit(s.buckets, s.capacity) \in Seq(Elem)
         /\ Lists(Visit(s.buckets, s.capacity), ElemFor, D)
         /\ Len(Visit(s.buckets, s.capacity)) = s.size
         /\ IsTable(s.buckets, s.capacity, Elem)
<1>1. PICK B, c : B = s.buckets /\ c = s.capacity
  OBVIOUS
<1>2. Holds(B, c, Elem, ElemFor, D)
  BY <1>1 DEF SetHolds
<1>3. /\ Visit(B, c) \in Seq(Elem) /\ Lists(Visit(B, c), ElemFor, D)
      /\ IsFiniteSet(D) /\ Cardinality(D) = Len(Visit(B, c))
  BY <1>2, VisitLists
<1>4. Cardinality(D) \in Nat
  BY <1>3, FS_CardinalityType
<1>5. s.size = Cardinality(D) /\ c \in Nat \ {0} /\ D \subseteq Key /\ IsTable(B, c, Elem)
  BY <1>1, <1>2 DEF SetHolds, Holds
<1> QED BY <1>1, <1>3, <1>4, <1>5

LEMMA SetEmpty == SetHolds(Set!EmptySet, {}) /\ Set!EmptySet.capacity = DefaultCapacity
<1>1. PICK s : s = Set!EmptySet
  OBVIOUS
<1>2. /\ s = [size |-> 0, capacity |-> DefaultCapacity, array |-> "array A",
              buckets |-> EmptyBuckets(DefaultCapacity)]
  BY <1>1 DEF Set!EmptySet, Set!EmptyBuckets, EmptyBuckets
<1>3. /\ s.size = 0 /\ s.capacity = DefaultCapacity /\ s.array = "array A"
      /\ s.buckets = EmptyBuckets(DefaultCapacity)
  BY <1>2
<1>4. DefaultCapacity \in Nat \ {0} /\ DefaultCapacity \in 1 .. SizeMax
  BY Numbers
<1>5. Holds(EmptyBuckets(DefaultCapacity), DefaultCapacity, Elem, ElemFor, {})
  BY <1>4, HoldsNone
<1>6. Cardinality({}) = 0 /\ 4 * 0 <= 3 * DefaultCapacity
  BY <1>4, FS_EmptySet
<1>7. s = [size |-> s.size, capacity |-> s.capacity, array |-> s.array, buckets |-> s.buckets]
  BY <1>2
<1>8. s.capacity \in 1 .. SizeMax /\ s.array \in Arrays /\ Steady(s.capacity)
  BY <1>3, <1>4, DefaultIsSteady DEF Arrays
<1>9. Holds(s.buckets, s.capacity, Elem, ElemFor, {})
  BY <1>3, <1>5
<1>10. s.size = Cardinality({}) /\ 4 * s.size <= 3 * s.capacity
  BY <1>3, <1>6
<1>11. SetHolds(s, {})
  BY <1>7, <1>8, <1>9, <1>10 DEF SetHolds
<1> QED BY <1>1, <1>3, <1>11

LEMMA EmptyHasNone ==
  ASSUME NEW D, SetHolds(Set!EmptySet, D)
  PROVE  D = {}
<1>1. Set!EmptySet.size = 0
  BY DEF Set!EmptySet
<1>2. Cardinality(D) = 0
  BY <1>1 DEF SetHolds
<1>3. IsFiniteSet(D)
  BY SetNumbers
<1> QED BY <1>2, <1>3, FS_EmptySet

LEMMA SetFound ==
  ASSUME NEW s, NEW D, SetHolds(s, D)
  PROVE  /\ \A k \in Key : Set!IsMember(s, k) <=> k \in D
         /\ Set!Members(s) = D
<1>1. PICK B, c, v : B = s.buckets /\ c = s.capacity /\ v = Visit(B, c)
  OBVIOUS
<1>2. Holds(B, c, Elem, ElemFor, D)
  BY <1>1 DEF SetHolds
<1>3. ASSUME NEW k \in Key
      PROVE  Set!IsMember(s, k) <=> k \in D
  <2>1. PICK h : h = Hash[k] % c
    OBVIOUS
  <2>2. Find(B[h], k) # 0 <=> k \in D
    BY <1>2, <2>1, HoldsFind
  <2> QED BY <1>1, <2>1, <2>2, SetOperators
<1>4. Set!Members(s) = D
  <2>1. v \in Seq(Elem) /\ Lists(v, ElemFor, D)
    BY <1>1, SetNumbers
  <2>2. DOMAIN v = 1 .. Len(v)
    BY <2>1, LenProperties
  <2>3. {e.key : e \in ToSet(v)} = {v[i].key : i \in 1 .. Len(v)}
    BY <2>2 DEF ToSet
  <2>4. {v[i].key : i \in 1 .. Len(v)} = D
    BY <2>1 DEF Lists
  <2>5. Set!Members(s) = {e.key : e \in ToSet(Visit(s.buckets, s.capacity))}
    BY SetOperators
  <2> QED BY <1>1, <2>3, <2>4, <2>5
<1> QED BY <1>3, <1>4

LEMMA SetGrown ==
  ASSUME NEW s, NEW D, SetHolds(s, D), NEW n \in Nat, CapacityForSize(n) # Overflow,
         NEW w, w = IF CapacityForSize(n) > s.capacity
                    THEN GrownSet(s, CapacityForSize(n)) ELSE s
  PROVE  /\ SetHolds(w, D) /\ w.size = s.size
         /\ 4 * n <= 3 * w.capacity /\ s.capacity <= w.capacity
         /\ \/ w = s
            \/ /\ w.array = Fresh(s.array) /\ w.capacity > s.capacity
               /\ ~ (4 * n <= 3 * s.capacity)
<1>1. PICK d, c : d = CapacityForSize(n) /\ c = s.capacity
  OBVIOUS
<1>2. d \in 1 .. SizeMax /\ 4 * n <= 3 * d /\ Steady(d) /\ SizeMax \in Nat
  BY <1>1, CapacityFits, Numbers
<1>3. c \in Nat \ {0}
  BY <1>1, SetNumbers
<1>4. CASE ~ (d > c)
  <2>1. w = s /\ d <= c
    BY <1>1, <1>2, <1>3, <1>4
  <2>2. 4 * n <= 3 * c
    BY <1>2, <1>3, <2>1
  <2> QED BY <1>1, <1>3, <2>1, <2>2
<1>5. CASE d > c
  <2>1. w = GrownSet(s, d)
    BY <1>1, <1>5
  <2>2. PICK B, C : B = s.buckets /\ C = Rehashed(B, c, d)
    OBVIOUS
  <2>3. w = [size |-> s.size, capacity |-> d, array |-> Fresh(s.array), buckets |-> C]
    BY <1>1, <2>1, <2>2 DEF GrownSet
  <2>4. /\ w.size = s.size /\ w.capacity = d /\ w.array = Fresh(s.array) /\ w.buckets = C
        /\ w = [size |-> w.size, capacity |-> w.capacity, array |-> w.array,
                buckets |-> w.buckets]
    BY <2>3
  <2>5. Fresh(s.array) \in Arrays
    BY DEF Fresh, Arrays
  <2>6. Holds(B, c, Elem, ElemFor, D) /\ s.size = Cardinality(D) /\ 4 * s.size <= 3 * c
    BY <1>1, <2>2 DEF SetHolds
  <2>7. Holds(C, d, Elem, ElemFor, D)
    <3>1. d \in Nat \ {0} /\ Holds(B, c, Elem, ElemFor, D)
      BY <1>2, <2>6
    <3>2. Holds(Rehashed(B, c, d), d, Elem, ElemFor, D)
      BY <3>1, HoldsRehashed
    <3> QED BY <2>2, <3>2
  <2>8. 4 * s.size <= 3 * d
    <3>1. s.size \in Nat
      BY SetNumbers
    <3> QED BY <1>2, <1>3, <1>5, <2>6, <3>1
  <2>9. SetHolds(w, D)
    BY <1>2, <2>4, <2>5, <2>6, <2>7, <2>8 DEF SetHolds
  <2>10. ~ (4 * n <= 3 * c)
    <3>1. Steady(c)
      BY <1>1 DEF SetHolds
    <3>2. 4 * n <= 3 * c => d <= c
      BY <1>1, <3>1 DEF Steady
    <3> QED BY <1>2, <1>3, <1>5, <3>2
  <2>11. c <= d
    BY <1>2, <1>3, <1>5
  <2> QED BY <1>1, <1>2, <1>5, <2>4, <2>9, <2>10, <2>11
<1> QED BY <1>4, <1>5

LEMMA SetInserted ==
  ASSUME NEW s, NEW D, SetHolds(s, D), NEW k \in Key, k \notin D,
         4 * (s.size + 1) <= 3 * s.capacity, NEW w, w = WithElem(s, k)
  PROVE  /\ SetHolds(w, D \cup {k})
         /\ w.capacity = s.capacity /\ w.array = s.array
<1>1. PICK B, c, h, e, C : /\ B = s.buckets /\ c = s.capacity /\ h = Hash[k] % c
                           /\ e = ElemOf(k) /\ C = [B EXCEPT ![h] = PushEntry(B[h], e)]
  OBVIOUS
<1>2. /\ s = [size |-> s.size, capacity |-> s.capacity, array |-> s.array,
              buckets |-> s.buckets]
  BY DEF SetHolds
<1>3. w = [size |-> s.size + 1, capacity |-> c, array |-> s.array, buckets |-> C]
  BY <1>1, <1>2 DEF WithElem
<1>4. /\ w.size = s.size + 1 /\ w.capacity = c /\ w.array = s.array /\ w.buckets = C
      /\ w = [size |-> w.size, capacity |-> w.capacity, array |-> w.array,
              buckets |-> w.buckets]
  BY <1>3
<1>5. Holds(C, c, Elem, ElemFor, D \cup {k})
  <2>1. Holds(B, c, Elem, ElemFor, D)
    BY <1>1 DEF SetHolds
  <2>2. h = Hash[k] % c
    BY <1>1
  <2>3. ElemFor[k] = e /\ IsEntry(e, k, Elem)
    BY <1>1, ElemIs
  <2>4. \A j \in D : ElemFor[j] = ElemFor[j]
    OBVIOUS
  <2>5. Holds([B EXCEPT ![h] = PushEntry(B[h], e)], c, Elem, ElemFor, D \cup {k})
    BY <2>1, <2>2, <2>3, <2>4, HoldsMore
  <2> QED BY <1>1, <2>5
<1>6. Cardinality(D \cup {k}) = Cardinality(D) + 1
  <2>1. IsFiniteSet(D)
    BY SetNumbers
  <2> QED BY <2>1, FS_AddElement
<1>7. /\ s.size = Cardinality(D) /\ s.array \in Arrays /\ c \in 1 .. SizeMax /\ Steady(c)
  BY <1>1 DEF SetHolds
<1>8. w.size = Cardinality(D \cup {k}) /\ 4 * w.size <= 3 * w.capacity
  BY <1>1, <1>4, <1>6, <1>7
<1>9. SetHolds(w, D \cup {k})
  BY <1>4, <1>5, <1>7, <1>8 DEF SetHolds
<1> QED BY <1>1, <1>4, <1>9

LEMMA SetRemoved ==
  ASSUME NEW s, NEW D, SetHolds(s, D), NEW k \in D, NEW w, w = WithoutElem(s, k)
  PROVE  /\ SetHolds(w, D \ {k})
         /\ w.capacity = s.capacity /\ w.array = s.array
<1>1. PICK B, c, h, C : /\ B = s.buckets /\ c = s.capacity /\ h = Hash[k] % c
                        /\ C = [B EXCEPT ![h] = Without(B[h], k)]
  OBVIOUS
<1>2. /\ s = [size |-> s.size, capacity |-> s.capacity, array |-> s.array,
              buckets |-> s.buckets]
  BY DEF SetHolds
<1>3. w = [size |-> s.size - 1, capacity |-> c, array |-> s.array, buckets |-> C]
  BY <1>1, <1>2 DEF WithoutElem
<1>4. /\ w.size = s.size - 1 /\ w.capacity = c /\ w.array = s.array /\ w.buckets = C
      /\ w = [size |-> w.size, capacity |-> w.capacity, array |-> w.array,
              buckets |-> w.buckets]
  BY <1>3
<1>5. Holds(C, c, Elem, ElemFor, D \ {k})
  <2>1. Holds(B, c, Elem, ElemFor, D)
    BY <1>1 DEF SetHolds
  <2>2. h = Hash[k] % c
    BY <1>1
  <2>3. \A j \in D \ {k} : ElemFor[j] = ElemFor[j]
    OBVIOUS
  <2>4. Holds([B EXCEPT ![h] = Without(B[h], k)], c, Elem, ElemFor, D \ {k})
    BY <2>1, <2>2, <2>3, HoldsLess
  <2> QED BY <1>1, <2>4
<1>6. Cardinality(D \ {k}) = Cardinality(D) - 1
  <2>1. IsFiniteSet(D)
    BY SetNumbers
  <2> QED BY <2>1, FS_RemoveElement
<1>7. /\ s.size = Cardinality(D) /\ s.array \in Arrays /\ c \in 1 .. SizeMax /\ Steady(c)
      /\ 4 * s.size <= 3 * c /\ s.size \in Nat
  BY <1>1, SetNumbers DEF SetHolds
<1>8. w.size = Cardinality(D \ {k}) /\ 4 * w.size <= 3 * w.capacity
  BY <1>4, <1>6, <1>7
<1>9. SetHolds(w, D \ {k})
  BY <1>4, <1>5, <1>7, <1>8 DEF SetHolds
<1> QED BY <1>1, <1>4, <1>9

(***************************************************************************)
(* The states of the set.                                                  *)
(***************************************************************************)
KeysOf(gave) == {gave[i].key : i \in 1 .. Len(gave)}

SIterIs(it, s) ==
  \/ it = Set!NoIter
  \/ \E gave, node, b, hint, ended :
       /\ it = [on |-> TRUE, bucket |-> b, node |-> node, hint |-> hint,
                given |-> KeysOf(gave), ended |-> ended]
       /\ IterAt(s.buckets, s.capacity, Elem, gave, node, b, hint)
       /\ ended => node = << >> /\ b = s.capacity

SHeldBy(s, D) == {"set", s.array} \cup D

SetState(D) ==
  /\ SetHolds(set, D)
  /\ \/ sHeld = {} /\ set = Set!EmptySet
     \/ sHeld = SHeldBy(set, D)
  /\ answer \in BOOLEAN
  /\ sReserved \in SizeT /\ 4 * sReserved <= 3 * set.capacity
  /\ SIterIs(sIter, set)

MemberStep(D, E) ==
  \/ E = D /\ answer' = answer
  \/ answer' = answer /\ \E k \in Key : E = D \cup {k} \/ E = D \ {k}
  \/ E = D /\ \E k \in Key : answer' = (k \in D)
  \/ E = {} /\ answer' = FALSE

SRoomStep ==
  Set!Exists /\ Set!Exists' /\ set'.array # set.array =>
    set'.capacity > set.capacity /\ (sReserved' > sReserved \/ set.size + 1 > sReserved)

SetStep(D) == SRoomStep /\ \E E : SetState(E)' /\ MemberStep(D, E)

LEMMA SBlocksDiffer ==
  /\ \A k \in Key : k \notin Arrays /\ k # "set"
  /\ \A x \in Arrays : Fresh(x) \in Arrays /\ Fresh(x) # x /\ x # "set"
<1>1. \A k \in Key : k \notin Arrays /\ k # "set"
  BY BlockAssumption DEF Arrays
<1>2. "array A" # "array B" /\ "set" # "array A" /\ "set" # "array B"
  OBVIOUS
<1> QED BY <1>1, <1>2 DEF Arrays, Fresh

LEMMA SetExists ==
  ASSUME NEW D, SetState(D)
  PROVE  /\ Set!Exists <=> sHeld = SHeldBy(set, D)
         /\ ~ Set!Exists <=> sHeld = {}
         /\ ~ Set!Exists => set = Set!EmptySet /\ D = {}
<1>1. set = Set!EmptySet => D = {}
  BY EmptyHasNone DEF SetState
<1>2. "set" \in SHeldBy(set, D)
  BY DEF SHeldBy
<1> QED BY <1>1, <1>2 DEF SetState, Set!Exists

\* The blocks after a growth.
LEMMA SHeldGrown ==
  ASSUME NEW D, SetState(D), Set!Exists, NEW w,
         w = set \/ w.array = Fresh(set.array)
  PROVE  Set!HeldWith(w) = SHeldBy(w, D)
<1>1. PICK a, f, h : a = set.array /\ f = w.array /\ h = sHeld
  OBVIOUS
<1>2. h = {"set", a} \cup D /\ a \in Arrays /\ D \subseteq Key
  BY <1>1, SetExists, SetNumbers DEF SetState, SetHolds, SHeldBy
<1>3. a \notin D /\ a # "set"
  BY <1>2, SBlocksDiffer
<1>4. (h \ {a}) \cup {f} = {"set", f} \cup D
  BY <1>2, <1>3
<1> QED BY <1>1, <1>4 DEF Set!HeldWith, SHeldBy

LEMMA SNoIterIs ==
  ASSUME NEW s
  PROVE  SIterIs(Set!NoIter, s)
  BY DEF SIterIs

\* The set a reserve leaves.
LEMMA SetReserves ==
  ASSUME NEW D, SetState(D), Set!Exists, NEW n \in Nat, Set!ReserveFits(n),
         NEW w, w = Set!Reserved(n)
  PROVE  /\ SetHolds(w, D) /\ w.size = set.size
         /\ 4 * n <= 3 * w.capacity /\ 4 * sReserved <= 3 * w.capacity
         /\ Set!HeldWith(w) = SHeldBy(w, D)
         /\ w.array # set.array => w.capacity > set.capacity /\ n > sReserved
<1>1. PICK s, q : s = set /\ q = sReserved
  OBVIOUS
<1>2. CapacityForSize(n) # Overflow
        /\ w = IF CapacityForSize(n) > s.capacity THEN GrownSet(s, CapacityForSize(n)) ELSE s
  BY <1>1, SetOperators
<1>3. SetHolds(s, D) /\ q \in Nat /\ 4 * q <= 3 * s.capacity /\ s.capacity \in Nat
  <2>1. SetHolds(s, D) /\ q \in SizeT /\ 4 * q <= 3 * s.capacity
    BY <1>1 DEF SetState
  <2>2. SizeT \subseteq Nat
    BY Numbers DEF SizeT
  <2>3. s.capacity \in Nat
    BY <2>1, SetNumbers
  <2> QED BY <2>1, <2>2, <2>3
<1>4. /\ SetHolds(w, D) /\ w.size = s.size
      /\ 4 * n <= 3 * w.capacity /\ s.capacity <= w.capacity
      /\ \/ w = s
         \/ /\ w.array = Fresh(s.array) /\ w.capacity > s.capacity
            /\ ~ (4 * n <= 3 * s.capacity)
  BY <1>2, <1>3, SetGrown
<1>5. w.capacity \in Nat
  BY <1>4, SetNumbers
<1>6. 4 * q <= 3 * w.capacity
  BY <1>3, <1>4, <1>5
<1>7. ~ (4 * n <= 3 * s.capacity) => n > q
  BY <1>3
<1>8. Set!HeldWith(w) = SHeldBy(w, D)
  BY <1>1, <1>4, SHeldGrown
<1> QED BY <1>1, <1>4, <1>6, <1>7, <1>8

\* The set an absent element is inserted into.
LEMMA SetReady ==
  ASSUME NEW D, SetState(D), Set!Exists, Set!CanInsert, NEW w, w = Set!Ready
  PROVE  /\ SetHolds(w, D) /\ 4 * (w.size + 1) <= 3 * w.capacity
         /\ 4 * sReserved <= 3 * w.capacity
         /\ Set!HeldWith(w) = SHeldBy(w, D)
         /\ w.array # set.array => w.capacity > set.capacity /\ set.size + 1 > sReserved
<1>1. SetHolds(set, D) /\ 4 * sReserved <= 3 * set.capacity
  BY DEF SetState
<1>2. set.size \in Nat /\ set.size + 1 \in Nat /\ set.capacity \in Nat
  BY <1>1, SetNumbers
<1>3. CASE ~ Set!NeedsGrowth
  <2>1. w = set
    BY <1>3 DEF Set!Ready
  <2>2. ~ ShouldGrow(set.size, set.capacity)
    BY <1>3, SetLoads DEF Set!NeedsGrowth
  <2>3. 4 * (set.size + 1) <= 3 * set.capacity
    BY <1>2, <2>2, RoomForOne
  <2>4. Set!HeldWith(w) = SHeldBy(w, D)
    BY <2>1, SHeldGrown
  <2> QED BY <1>1, <2>1, <2>3, <2>4
<1>4. CASE Set!NeedsGrowth
  <2>1. PICK n : n = set.size + 1
    OBVIOUS
  <2>2. w = Set!Reserved(n) /\ Set!ReserveFits(n) /\ n \in Nat
    BY <1>2, <1>4, <2>1 DEF Set!Ready, Set!CanInsert
  <2>3. /\ SetHolds(w, D) /\ w.size = set.size
        /\ 4 * n <= 3 * w.capacity /\ 4 * sReserved <= 3 * w.capacity
        /\ Set!HeldWith(w) = SHeldBy(w, D)
        /\ w.array # set.array => w.capacity > set.capacity /\ n > sReserved
    BY <2>2, SetReserves
  <2> QED BY <2>1, <2>3
<1> QED BY <1>3, <1>4

(***************************************************************************)
(* One lemma per operation of the set.                                     *)
(***************************************************************************)
LEMMA SetKept ==
  ASSUME NEW D, SetState(D), UNCHANGED <<set, sHeld, sReserved>>, SIterIs(sIter', set'),
         answer' \in BOOLEAN, MemberStep(D, D)
  PROVE  SetStep(D)
<1>1. SetState(D)'
  BY DEF SetState
<1>2. SRoomStep
  BY DEF SRoomStep
<1> QED BY <1>1, <1>2 DEF SetStep

LEMMA SetStutters ==
  ASSUME NEW D, SetState(D), UNCHANGED Set!vars
  PROVE  SetStep(D)
<1>1. UNCHANGED <<set, sHeld, sReserved>> /\ sIter' = sIter /\ answer' = answer
  BY DEF Set!vars
<1>2. SIterIs(sIter', set') /\ answer' \in BOOLEAN
  BY <1>1 DEF SetState
<1>3. MemberStep(D, D)
  BY <1>1 DEF MemberStep
<1> QED BY <1>1, <1>2, <1>3, SetKept

LEMMA SCreateIsStep ==
  ASSUME NEW D, SetState(D), Set!Create
  PROVE  SetStep(D)
<1>1. /\ set' = Set!EmptySet /\ set = Set!EmptySet
      /\ sHeld' = {"set", Set!EmptySet.array}
      /\ answer' = answer /\ sIter' = sIter /\ sReserved' = sReserved
      /\ D = {} /\ ~ Set!Exists
  BY SetExists DEF Set!Create
<1>2. sHeld' = SHeldBy(set', D)
  BY <1>1 DEF SHeldBy
<1>3. SetState(D)'
  BY <1>1, <1>2 DEF SetState
<1>4. SRoomStep
  BY <1>1 DEF SRoomStep
<1>5. MemberStep(D, D)
  BY <1>1 DEF MemberStep
<1> QED BY <1>3, <1>4, <1>5 DEF SetStep

LEMMA SCreateFailsIsStep ==
  ASSUME NEW D, SetState(D), Set!CreateFails
  PROVE  SetStep(D)
<1>1. sHeld = {}
  BY SetExists DEF Set!CreateFails
<1>2. sHeld' = sHeld
  BY <1>1 DEF Set!CreateFails
<1>3. UNCHANGED Set!vars
  BY <1>2 DEF Set!CreateFails, Set!vars
<1> QED BY <1>3, SetStutters

LEMMA SDestroyIsStep ==
  ASSUME NEW D, SetState(D), Set!Destroy
  PROVE  SetStep(D)
<1>1. /\ set' = Set!EmptySet /\ answer' = FALSE /\ sIter' = Set!NoIter /\ sReserved' = 0
      /\ sHeld' = sHeld \ (Set!Members(set) \cup {set.array, "set"})
      /\ sHeld = SHeldBy(set, D) /\ SetHolds(set, D)
  BY SetExists DEF Set!Destroy, SetState
<1>2. Set!Members(set) = D
  BY <1>1, SetFound
<1>3. sHeld' = {}
  BY <1>1, <1>2 DEF SHeldBy
<1>4. SetHolds(Set!EmptySet, {}) /\ SIterIs(Set!NoIter, Set!EmptySet)
  BY SetEmpty, SNoIterIs
<1>5. Set!EmptySet.capacity = DefaultCapacity /\ DefaultCapacity \in Nat /\ 0 \in SizeT
  BY SetEmpty, Numbers DEF SizeT
<1>6. 4 * 0 <= 3 * DefaultCapacity
  BY <1>5
<1>7. SetState({})'
  BY <1>1, <1>3, <1>4, <1>5, <1>6 DEF SetState
<1>8. SRoomStep
  BY <1>3 DEF SRoomStep, Set!Exists
<1>9. MemberStep(D, {})
  BY <1>1 DEF MemberStep
<1> QED BY <1>7, <1>8, <1>9 DEF SetStep

LEMMA SReserveIsStep ==
  ASSUME NEW D, SetState(D), NEW n \in ReserveSizes, Set!Reserve(n)
  PROVE  SetStep(D)
<1>1. PICK w : w = set'
  OBVIOUS
<1>2. /\ w = Set!Reserved(n) /\ sHeld' = Set!HeldWith(w) /\ Set!ReserveFits(n)
      /\ sReserved' = (IF n > sReserved THEN n ELSE sReserved)
      /\ sIter' = Set!NoIter /\ answer' = answer /\ Set!Exists
  BY <1>1 DEF Set!Reserve
<1>3. n \in SizeT /\ n \in Nat /\ sReserved \in SizeT /\ sReserved \in Nat
  <2>1. n \in SizeT /\ sReserved \in SizeT
    BY ReserveSizesAssumption DEF SetState
  <2> QED BY <2>1, Numbers DEF SizeT
<1>4. /\ SetHolds(w, D) /\ 4 * n <= 3 * w.capacity /\ 4 * sReserved <= 3 * w.capacity
      /\ Set!HeldWith(w) = SHeldBy(w, D)
      /\ w.array # set.array => w.capacity > set.capacity /\ n > sReserved
  BY <1>2, <1>3, SetReserves
<1>5. 4 * sReserved' <= 3 * w.capacity /\ sReserved' \in SizeT
  BY <1>2, <1>3, <1>4
<1>6. answer' \in BOOLEAN
  BY <1>2 DEF SetState
<1>7. SetState(D)'
  BY <1>1, <1>2, <1>4, <1>5, <1>6, SNoIterIs DEF SetState
<1>8. SRoomStep
  BY <1>1, <1>2, <1>4 DEF SRoomStep
<1>9. MemberStep(D, D)
  BY <1>2 DEF MemberStep
<1> QED BY <1>7, <1>8, <1>9 DEF SetStep

LEMMA SInsertIsStep ==
  ASSUME NEW D, SetState(D), NEW k \in Key, Set!Insert(k)
  PROVE  SetStep(D)
<1>1. PICK s, w : s = Set!Ready /\ w = set'
  OBVIOUS
<1>2. /\ SetHolds(set, D) /\ Set!Exists /\ Set!CanInsert /\ ~ Set!IsMember(set, k)
      /\ sIter' = Set!NoIter /\ sHeld' = Set!HeldWith(w) \cup {k}
      /\ answer' = answer /\ sReserved' = sReserved
  BY <1>1 DEF Set!Insert, SetState
<1>3. w = WithElem(s, k)
  BY <1>1 DEF Set!Insert, Set!Bucket, Set!PushEntry, PushEntry, WithElem, ElemOf
<1>4. /\ SetHolds(s, D) /\ 4 * (s.size + 1) <= 3 * s.capacity
      /\ 4 * sReserved <= 3 * s.capacity /\ Set!HeldWith(s) = SHeldBy(s, D)
      /\ s.array # set.array => s.capacity > set.capacity /\ set.size + 1 > sReserved
  BY <1>1, <1>2, SetReady
<1>5. k \notin D
  BY <1>2, SetFound
<1>6. SetHolds(w, D \cup {k}) /\ w.capacity = s.capacity /\ w.array = s.array
  BY <1>3, <1>4, <1>5, SetInserted
<1>7. sHeld' = SHeldBy(w, D \cup {k})
  <2>1. Set!HeldWith(w) = Set!HeldWith(s)
    BY <1>6 DEF Set!HeldWith
  <2> QED BY <1>2, <1>4, <1>6, <2>1 DEF SHeldBy
<1>8. 4 * sReserved' <= 3 * w.capacity /\ sReserved' \in SizeT /\ answer' \in BOOLEAN
  BY <1>2, <1>4, <1>6 DEF SetState
<1>9. SetState(D \cup {k})'
  BY <1>1, <1>2, <1>6, <1>7, <1>8, SNoIterIs DEF SetState
<1>10. SRoomStep
  BY <1>1, <1>4, <1>6 DEF SRoomStep
<1>11. MemberStep(D, D \cup {k})
  BY <1>2 DEF MemberStep
<1> QED BY <1>9, <1>10, <1>11 DEF SetStep

LEMMA SInsertFailsIsStep ==
  ASSUME NEW D, SetState(D), NEW k \in Key, Set!InsertFails(k)
  PROVE  SetStep(D)
<1>1. Set!Exists /\ answer' = answer /\ sReserved' = sReserved
  BY DEF Set!InsertFails
<1>2. CASE UNCHANGED <<set, sHeld, sIter>>
  <2>1. UNCHANGED Set!vars
    BY <1>1, <1>2 DEF Set!vars
  <2> QED BY <2>1, SetStutters
<1>3. CASE Set!CanInsert /\ set' = Set!Ready /\ sHeld' = Set!HeldWith(set')
             /\ sIter' = Set!NoIter
  <2>1. PICK w : w = set'
    OBVIOUS
  <2>2. /\ SetHolds(w, D) /\ 4 * sReserved <= 3 * w.capacity
        /\ Set!HeldWith(w) = SHeldBy(w, D)
        /\ w.array # set.array => w.capacity > set.capacity /\ set.size + 1 > sReserved
    BY <1>1, <1>3, <2>1, SetReady
  <2>3. 4 * sReserved' <= 3 * w.capacity /\ sReserved' \in SizeT /\ answer' \in BOOLEAN
    BY <1>1, <2>2 DEF SetState
  <2>4. SetState(D)'
    BY <1>3, <2>1, <2>2, <2>3, SNoIterIs DEF SetState
  <2>5. SRoomStep
    BY <2>1, <2>2 DEF SRoomStep
  <2>6. MemberStep(D, D)
    BY <1>1 DEF MemberStep
  <2> QED BY <2>4, <2>5, <2>6 DEF SetStep
<1> QED BY <1>2, <1>3 DEF Set!InsertFails

LEMMA SAskIsStep ==
  ASSUME NEW D, SetState(D), NEW k \in Key, Set!Ask(k)
  PROVE  SetStep(D)
<1>1. /\ SetHolds(set, D) /\ UNCHANGED <<set, sHeld, sReserved>> /\ sIter' = sIter
      /\ answer' = Set!IsMember(set, k)
  BY DEF Set!Ask, SetState
<1>2. PICK found : found = (Set!Find(set.buckets[Set!Bucket(set, k)], k) # 0)
  OBVIOUS
<1>3. answer' = found /\ found \in BOOLEAN /\ (found <=> k \in D)
  <2>1. Set!IsMember(set, k) <=> k \in D
    BY <1>1, SetFound
  <2> QED BY <1>1, <1>2, <2>1 DEF Set!IsMember
<1>4. answer' \in BOOLEAN /\ MemberStep(D, D)
  <2>1. CASE k \in D
    <3>1. answer' = TRUE /\ (k \in D) = TRUE
      BY <1>3, <2>1
    <3> QED BY <3>1 DEF MemberStep
  <2>2. CASE k \notin D
    <3>1. answer' = FALSE /\ (k \in D) = FALSE
      BY <1>3, <2>2
    <3> QED BY <3>1 DEF MemberStep
  <2> QED BY <2>1, <2>2
<1>5. SIterIs(sIter', set')
  BY <1>1 DEF SetState
<1> QED BY <1>1, <1>4, <1>5, SetKept

LEMMA SRemoveIsStep ==
  ASSUME NEW D, SetState(D), NEW k \in Key, Set!RemoveElem(k)
  PROVE  SetStep(D)
<1>1. PICK w : w = set'
  OBVIOUS
<1>2. /\ SetHolds(set, D) /\ Set!Exists /\ Set!IsMember(set, k)
      /\ sIter' = Set!NoIter /\ sHeld' = sHeld \ {k}
      /\ answer' = answer /\ sReserved' = sReserved
  BY DEF Set!RemoveElem, SetState
<1>3. w = WithoutElem(set, k)
  BY <1>1, Zenon
     DEF Set!RemoveElem, Set!Bucket, Set!Without, Without, Set!RemoveAt, RemoveAt,
         Set!Find, Find, Set!SelectInSeq, SelectInSeq, Set!Min, Min, WithoutElem
<1>4. k \in D /\ sHeld = SHeldBy(set, D) /\ set.array \in Arrays
  BY <1>2, SetFound, SetExists DEF SetHolds
<1>5. SetHolds(w, D \ {k}) /\ w.capacity = set.capacity /\ w.array = set.array
  BY <1>2, <1>3, <1>4, SetRemoved
<1>6. k # "set" /\ k # set.array
  BY <1>4, SBlocksDiffer
<1>7. sHeld' = SHeldBy(w, D \ {k})
  BY <1>2, <1>4, <1>5, <1>6 DEF SHeldBy
<1>8. 4 * sReserved' <= 3 * w.capacity /\ sReserved' \in SizeT /\ answer' \in BOOLEAN
  BY <1>2, <1>5 DEF SetState
<1>9. SetState(D \ {k})'
  BY <1>1, <1>2, <1>5, <1>7, <1>8, SNoIterIs DEF SetState
<1>10. SRoomStep
  BY <1>1, <1>5 DEF SRoomStep
<1>11. MemberStep(D, D \ {k})
  BY <1>2 DEF MemberStep
<1> QED BY <1>9, <1>10, <1>11 DEF SetStep

\* The iterator's record.
SIterRec(b, node, hint, gave, ended) ==
  [on |-> TRUE, bucket |-> b, node |-> node, hint |-> hint, given |-> KeysOf(gave),
   ended |-> ended]

LEMMA SIterRecIs ==
  ASSUME NEW s, NEW b, NEW node, NEW hint, NEW gave, NEW ended,
         IterAt(s.buckets, s.capacity, Elem, gave, node, b, hint),
         ended => node = << >> /\ b = s.capacity
  PROVE  SIterIs(SIterRec(b, node, hint, gave, ended), s)
<1>1. \E g, n, x, h, e :
        /\ SIterRec(b, node, hint, gave, ended)
             = [on |-> TRUE, bucket |-> x, node |-> n, hint |-> h,
                given |-> KeysOf(g), ended |-> e]
        /\ IterAt(s.buckets, s.capacity, Elem, g, n, x, h)
        /\ e => n = << >> /\ x = s.capacity
  BY Zenon DEF SIterRec
<1> QED BY <1>1 DEF SIterIs

LEMMA SGetIteratorIsStep ==
  ASSUME NEW D, SetState(D), Set!GetIterator
  PROVE  SetStep(D)
<1>1. /\ SetHolds(set, D) /\ UNCHANGED <<set, sHeld, sReserved>> /\ answer' = answer
      /\ answer \in BOOLEAN
      /\ sIter' = [Set!NoIter EXCEPT !.on = TRUE, !.hint = set.size]
  BY DEF Set!GetIterator, SetState
<1>2. KeysOf(<< >>) = {}
  BY DEF KeysOf
<1>3. sIter' = SIterRec(0, << >>, set.size, << >>, FALSE)
  BY <1>1, <1>2 DEF Set!NoIter, SIterRec
<1>4. IterAt(set.buckets, set.capacity, Elem, << >>, << >>, 0, set.size)
  <2>1. PICK B, c, n : B = set.buckets /\ c = set.capacity /\ n = set.size
    OBVIOUS
  <2>2. IsTable(B, c, Elem) /\ n = Len(Visit(B, c))
    BY <1>1, <2>1, SetNumbers
  <2>3. IterAt(B, c, Elem, << >>, << >>, 0, n)
    BY <2>2, IterStarts
  <2> QED BY <2>1, <2>3
<1>5. SIterIs(sIter', set')
  <2>1. SIterIs(SIterRec(0, << >>, set.size, << >>, FALSE), set)
    BY <1>4, SIterRecIs
  <2> QED BY <1>1, <1>3, <2>1
<1>6. MemberStep(D, D)
  BY <1>1 DEF MemberStep
<1> QED BY <1>1, <1>5, <1>6, SetKept

LEMMA KeysOfAppend ==
  ASSUME NEW gave \in Seq(Elem), NEW e \in Elem
  PROVE  KeysOf(Append(gave, e)) = KeysOf(gave) \cup {e.key}
<1>1. PICK w, n : w = Append(gave, e) /\ n = Len(gave)
  OBVIOUS
<1>2. /\ n \in Nat /\ Len(w) = n + 1 /\ w[n + 1] = e
      /\ \A i \in 1 .. n : w[i] = gave[i]
  BY <1>1, AppendProperties, LenProperties
<1>3. \A i \in 1 .. n + 1 : i \in 1 .. n \/ i = n + 1
  BY <1>2
<1>4. \A i \in 1 .. n : i \in 1 .. n + 1
  BY <1>2
<1>5. n + 1 \in 1 .. n + 1
  BY <1>2
<1>6. {w[i].key : i \in 1 .. n + 1} = {gave[i].key : i \in 1 .. n} \cup {e.key}
  BY <1>2, <1>3, <1>4, <1>5
<1> QED BY <1>1, <1>2, <1>6 DEF KeysOf

LEMMA SIterGoes ==
  ASSUME NEW s, IsTable(s.buckets, s.capacity, Elem),
         NEW b, NEW node, NEW hint, NEW gave, node # << >>, NEW ended, ~ ended,
         IterAt(s.buckets, s.capacity, Elem, gave, node, b, hint),
         NEW it,
         it = [on |-> TRUE, bucket |-> b, node |-> Tail(node),
               hint |-> IF hint > 0 THEN hint - 1 ELSE 0,
               given |-> KeysOf(gave) \cup {Head(node).key}, ended |-> ended]
  PROVE  SIterIs(it, s)
<1>1. PICK B, c, to : B = s.buckets /\ c = s.capacity /\ to = Append(gave, Head(node))
  OBVIOUS
<1>2. IsTable(B, c, Elem) /\ IterAt(B, c, Elem, gave, node, b, hint)
  BY <1>1
<1>3. /\ IterAt(B, c, Elem, Append(gave, Head(node)), Tail(node), b, hint - 1)
      /\ hint \in Nat \ {0}
  BY <1>2, IterSteps
<1>4. (IF hint > 0 THEN hint - 1 ELSE 0) = hint - 1
  BY <1>3
<1>5. KeysOf(to) = KeysOf(gave) \cup {Head(node).key}
  <2>1. gave \in Seq(Elem) /\ node \in Seq(Elem)
    BY <1>2 DEF IterAt
  <2>2. Head(node) \in Elem
    BY <2>1, HeadTailProperties
  <2> QED BY <1>1, <2>1, <2>2, KeysOfAppend
<1>6. it = SIterRec(b, Tail(node), hint - 1, to, ended)
  BY <1>4, <1>5 DEF SIterRec
<1>7. IterAt(s.buckets, s.capacity, Elem, to, Tail(node), b, hint - 1)
  BY <1>1, <1>3
<1> QED BY <1>6, <1>7, SIterRecIs

LEMMA SIterNextIsStep ==
  ASSUME NEW D, SetState(D), Set!IterNext
  PROVE  SetStep(D)
<1>1. /\ SetHolds(set, D) /\ UNCHANGED <<set, sHeld, sReserved>> /\ answer' = answer
      /\ answer \in BOOLEAN /\ sIter.on /\ SIterIs(sIter, set)
  BY DEF Set!IterNext, SetState
<1>2. PICK s, B, c : s = set /\ B = s.buckets /\ c = s.capacity
  OBVIOUS
<1>3. IsTable(B, c, Elem)
  BY <1>1, <1>2, SetNumbers
<1>4. sIter # Set!NoIter
  BY <1>1 DEF Set!NoIter
<1>5. PICK gave, node, b, hint, ended :
        /\ sIter = SIterRec(b, node, hint, gave, ended)
        /\ IterAt(B, c, Elem, gave, node, b, hint)
        /\ ended => node = << >> /\ b = c
  BY <1>1, <1>2, <1>4 DEF SIterIs, SIterRec
<1>6. /\ sIter.on = TRUE /\ sIter.bucket = b /\ sIter.node = node /\ sIter.hint = hint
      /\ sIter.given = KeysOf(gave) /\ sIter.ended = ended
  BY <1>5 DEF SIterRec
<1>7. PICK rest, ahead, first : rest = Set!Rest /\ ahead = Set!Ahead /\ first = Set!FirstAhead
  OBVIOUS
<1>8. /\ ahead = LaterIn(B, c, b)
      /\ first = CHOOSE x \in ahead : \A y \in ahead : x <= y
      /\ rest = IF node # << >> THEN node ELSE IF ahead # {} THEN B[first] ELSE << >>
  <2>1. ahead = LaterIn(B, c, b)
    BY <1>2, <1>6, <1>7 DEF Set!Ahead, LaterIn
  <2>2. first = CHOOSE x \in ahead : \A y \in ahead : x <= y
    BY <1>7 DEF Set!FirstAhead
  <2>3. rest = IF node # << >> THEN node ELSE IF ahead # {} THEN B[first] ELSE << >>
    BY <1>2, <1>6, <1>7 DEF Set!Rest
  <2> QED BY <2>1, <2>2, <2>3
<1>9. sIter' = IF rest = << >> THEN [sIter EXCEPT !.bucket = c, !.ended = TRUE]
               ELSE [sIter EXCEPT
                       !.node = Tail(rest),
                       !.bucket = IF node # << >> THEN @ ELSE first + 1,
                       !.hint = IF @ > 0 THEN @ - 1 ELSE 0,
                       !.given = @ \cup {Head(rest).key}]
  BY <1>2, <1>6, <1>7 DEF Set!IterNext
<1>10. ASSUME ahead # {}
       PROVE  first \in LaterIn(B, c, b) /\ \A y \in LaterIn(B, c, b) : first <= y
  <2>1. b \in 0 .. c
    BY <1>5 DEF IterAt
  <2>2. first = CHOOSE x \in LaterIn(B, c, b) : \A y \in LaterIn(B, c, b) : x <= y
    BY <1>8
  <2>3. LaterIn(B, c, b) # {}
    BY <1>8, <1>10
  <2> QED BY <1>3, <2>1, <2>2, <2>3, LeastAhead
<1>11. SIterIs(sIter', s)
  <2>1. CASE rest = << >>
    <3>1. node = << >> /\ LaterIn(B, c, b) = {}
      <4>1. node = << >>
        BY <1>8, <2>1
      <4>2. ASSUME ahead # {} PROVE FALSE
        BY <1>8, <1>10, <2>1, <4>1, <4>2 DEF LaterIn
      <4> QED BY <1>8, <4>1, <4>2
    <3>2. sIter' = SIterRec(c, << >>, hint, gave, TRUE)
      BY <1>5, <1>9, <2>1, <3>1 DEF SIterRec
    <3>3. IterAt(B, c, Elem, gave, << >>, c, hint)
      BY <1>3, <1>5, <3>1, IterEnds
    <3> QED BY <1>2, <3>2, <3>3, SIterRecIs
  <2>2. CASE rest # << >> /\ node # << >>
    <3>1. rest = node /\ ~ ended
      BY <1>5, <1>8, <2>2
    <3>2. sIter' = [on |-> TRUE, bucket |-> b, node |-> Tail(node),
                    hint |-> IF hint > 0 THEN hint - 1 ELSE 0,
                    given |-> KeysOf(gave) \cup {Head(node).key}, ended |-> ended]
      BY <1>5, <1>9, <2>2, <3>1 DEF SIterRec
    <3>3. /\ IsTable(s.buckets, s.capacity, Elem) /\ node # << >>
          /\ IterAt(s.buckets, s.capacity, Elem, gave, node, b, hint)
      BY <1>2, <1>3, <1>5, <2>2
    <3> QED BY <3>1, <3>2, <3>3, SIterGoes
  <2>3. CASE rest # << >> /\ node = << >>
    <3>1. ahead # {} /\ rest = B[first]
      BY <1>8, <2>3
    <3>2. first \in LaterIn(B, c, b) /\ \A y \in LaterIn(B, c, b) : first <= y
      BY <1>10, <3>1
    <3>3. ~ ended
      <4>1. c \in Nat /\ LaterIn(B, c, c) = {}
        BY <1>3 DEF IsTable, LaterIn
      <4> QED BY <1>5, <3>2, <4>1
    <3>4. IterAt(B, c, Elem, gave, rest, first + 1, hint)
      <4>1. IterAt(B, c, Elem, gave, << >>, b, hint)
        BY <1>5, <2>3
      <4> QED BY <1>3, <3>1, <3>2, <4>1, IterEnters
    <3>5. sIter' = [on |-> TRUE, bucket |-> first + 1, node |-> Tail(rest),
                    hint |-> IF hint > 0 THEN hint - 1 ELSE 0,
                    given |-> KeysOf(gave) \cup {Head(rest).key}, ended |-> ended]
      BY <1>5, <1>9, <2>3 DEF SIterRec
    <3>6. /\ IsTable(s.buckets, s.capacity, Elem) /\ rest # << >>
          /\ IterAt(s.buckets, s.capacity, Elem, gave, rest, first + 1, hint)
      BY <1>2, <1>3, <2>3, <3>4
    <3> QED BY <3>3, <3>5, <3>6, SIterGoes
  <2> QED BY <2>1, <2>2, <2>3
<1>12. MemberStep(D, D)
  BY <1>1 DEF MemberStep
<1> QED BY <1>1, <1>2, <1>11, <1>12, SetKept

LEMMA SetSteps ==
  ASSUME NEW D, SetState(D), [Set!Next]_(Set!vars)
  PROVE  SetStep(D)
<1>1. CASE Set!Create
  BY <1>1, SCreateIsStep
<1>2. CASE Set!CreateFails
  BY <1>2, SCreateFailsIsStep
<1>3. CASE Set!Destroy
  BY <1>3, SDestroyIsStep
<1>4. ASSUME NEW n \in ReserveSizes, Set!Reserve(n) \/ Set!ReserveFails(n)
      PROVE  SetStep(D)
  <2>1. CASE Set!Reserve(n)
    BY <2>1, SReserveIsStep
  <2>2. CASE Set!ReserveFails(n)
    BY <2>2, SetStutters DEF Set!ReserveFails
  <2> QED BY <1>4, <2>1, <2>2
<1>5. ASSUME NEW k \in Key,
             Set!Insert(k) \/ Set!InsertFails(k) \/ Set!Ask(k) \/ Set!RemoveElem(k)
      PROVE  SetStep(D)
  BY <1>5, SInsertIsStep, SInsertFailsIsStep, SAskIsStep, SRemoveIsStep
<1>6. CASE Set!GetIterator
  BY <1>6, SGetIteratorIsStep
<1>7. CASE Set!IterNext
  BY <1>7, SIterNextIsStep
<1>8. CASE UNCHANGED Set!vars
  BY <1>8, SetStutters
<1> QED BY <1>1, <1>2, <1>3, <1>4, <1>5, <1>6, <1>7, <1>8 DEF Set!Next

(***************************************************************************)
(* What the states of the set make true.                                   *)
(***************************************************************************)
LEMMA SetConsistent ==
  ASSUME NEW D, SetState(D)
  PROVE  Set!Consistent
<1>1. SetHolds(set, D)
  BY DEF SetState
<1>2. PICK B, c : B = set.buckets /\ c = set.capacity
  OBVIOUS
<1>3. Holds(B, c, Elem, ElemFor, D) /\ c \in 1 .. SizeMax
  BY <1>1, <1>2 DEF SetHolds
<1>4. DOMAIN B = 0 .. c - 1 /\ \A b \in 0 .. c - 1 : B[b] \in Seq(Elem)
  BY <1>3 DEF Holds, IsTable
<1>5. \A b \in 0 .. c - 1 : DOMAIN B[b] = 1 .. Len(B[b])
  BY <1>4
<1>6. set.size \in Nat /\ D \subseteq Key /\ set.array \in Arrays
  BY <1>1, SetNumbers DEF SetHolds
<1>7. Set!Members(set) = D
  BY <1>1, SetFound
<1>8. sIter.given \subseteq Key
  <2>1. CASE sIter = Set!NoIter
    BY <2>1 DEF Set!NoIter
  <2>2. CASE sIter # Set!NoIter
    <3>1. PICK gave, node, b, hint, ended :
            /\ sIter = SIterRec(b, node, hint, gave, ended)
            /\ IterAt(set.buckets, set.capacity, Elem, gave, node, b, hint)
      BY <2>2 DEF SetState, SIterIs, SIterRec
    <3>2. sIter.given = KeysOf(gave)
      BY <3>1 DEF SIterRec
    <3>3. \A i \in 1 .. Len(gave) : gave[i].key \in Key
      <4>1. gave \in Seq(Elem)
        BY <3>1 DEF IterAt
      <4>2. \A i \in 1 .. Len(gave) : gave[i] \in Elem
        BY <4>1
      <4> QED BY <4>2 DEF Elem
    <3> QED BY <3>2, <3>3 DEF KeysOf
  <2> QED BY <2>1, <2>2
<1>9. Set!TypeOK
  <2>1. sHeld \subseteq Key \cup Arrays \cup {"set"}
    BY <1>6 DEF SetState, SHeldBy
  <2>2. answer \in BOOLEAN /\ sReserved \in SizeT
    BY DEF SetState
  <2>3. Set!Arrays = Arrays /\ Set!SizeT = SizeT
    BY SetLoads
  <2>4. /\ DOMAIN set.buckets = 0 .. set.capacity - 1
        /\ \A b \in DOMAIN set.buckets : set.buckets[b] \in Seq([key : Key, hash : Nat])
    BY <1>2, <1>4 DEF Elem
  <2> QED BY <1>2, <1>3, <1>6, <1>8, <2>1, <2>2, <2>3, <2>4 DEF Set!TypeOK
<1>10. Set!Placed
  <2>1. ASSUME NEW b \in DOMAIN B, NEW i \in DOMAIN B[b]
        PROVE  Hash[B[b][i].key] % c = b
    <3>1. b \in 0 .. c - 1 /\ i \in 1 .. Len(B[b])
      BY <1>4, <1>5
    <3> QED BY <1>3, <3>1, HoldsPlaced
  <2> QED BY <1>2, <2>1 DEF Set!Placed
<1>11. Set!Accounted
  <2>1. set.size = Cardinality(D) /\ 4 * set.size <= 3 * c /\ c \in Nat
    BY <1>1, <1>2, <1>3, Numbers DEF SetHolds
  <2>2. set.size * 4 <= c * 3
    BY <1>6, <2>1
  <2>3. set.size = Set!Cardinality(Set!Members(set))
    BY <1>7, <2>1 DEF Set!Cardinality, Cardinality
  <2>4. set.size = Len(Set!Visit(set.buckets, set.capacity))
    BY <1>1, SetNumbers, SetVisits
  <2>5. sHeld = IF Set!Exists THEN {"set", set.array} \cup Set!Members(set) ELSE {}
    BY <1>7, SetExists DEF SHeldBy
  <2>6. set.size * Set!LoadDenominator <= set.capacity * Set!LoadNumerator
    BY <1>2, <2>2, SetLoads
  <2> QED BY <2>3, <2>4, <2>5, <2>6 DEF Set!Accounted
<1> QED BY <1>9, <1>10, <1>11 DEF Set!Consistent

LEMMA SetIterates ==
  ASSUME NEW D, SetState(D)
  PROVE  Set!IteratorIsExact
<1> SUFFICES ASSUME sIter.on
             PROVE  /\ sIter.given \subseteq Set!Members(set)
                    /\ sIter.hint + Set!Cardinality(sIter.given) = set.size
                    /\ sIter.ended => sIter.given = Set!Members(set)
  BY DEF Set!IteratorIsExact
<1>1. SetHolds(set, D) /\ SIterIs(sIter, set) /\ sIter # Set!NoIter
  BY DEF SetState, Set!NoIter
<1>2. PICK B, c, v : B = set.buckets /\ c = set.capacity /\ v = Visit(B, c)
  OBVIOUS
<1>3. PICK gave, node, b, hint, ended :
        /\ sIter = SIterRec(b, node, hint, gave, ended)
        /\ IterAt(B, c, Elem, gave, node, b, hint)
        /\ ended => node = << >> /\ b = c
  BY <1>1, <1>2 DEF SIterIs, SIterRec
<1>4. sIter.hint = hint /\ sIter.given = KeysOf(gave) /\ sIter.ended = ended
  BY <1>3 DEF SIterRec
<1>5. Set!Members(set) = D /\ v \in Seq(Elem) /\ Lists(v, ElemFor, D) /\ Len(v) = set.size
      /\ IsTable(B, c, Elem)
  BY <1>1, <1>2, SetFound, SetNumbers
<1>6. PICK r : r = node \o From(B, c, b)
  OBVIOUS
<1>7. gave \in Seq(Elem) /\ r \in Seq(Elem) /\ v = gave \o r /\ hint = Len(r)
  <2>1. gave \in Seq(Elem) /\ node \in Seq(Elem) /\ b \in 0 .. c
        /\ gave \o r = v /\ hint = Len(r)
    BY <1>2, <1>3, <1>6 DEF IterAt
  <2>2. From(B, c, b) \in Seq(Elem)
    BY <1>5, <2>1, FromIsSeq
  <2>3. r \in Seq(Elem)
    BY <1>6, <2>1, <2>2, ConcatProperties
  <2> QED BY <2>1, <2>3
<1>8. /\ Len(gave) \in Nat /\ Len(r) \in Nat /\ Len(v) = Len(gave) + Len(r)
      /\ \A i \in 1 .. Len(gave) : i \in 1 .. Len(v) /\ v[i] = gave[i]
  <2>1. Len(gave) \in Nat /\ Len(r) \in Nat
    BY <1>7, LenProperties
  <2>2. /\ Len(v) = Len(gave) + Len(r)
        /\ \A i \in 1 .. Len(gave) + Len(r) :
             v[i] = IF i <= Len(gave) THEN gave[i] ELSE r[i - Len(gave)]
    BY <1>7, ConcatProperties
  <2>3. \A i \in 1 .. Len(gave) : i \in 1 .. Len(gave) + Len(r) /\ i <= Len(gave)
    BY <2>1
  <2> QED BY <2>1, <2>2, <2>3
<1>9. /\ \A i \in 1 .. Len(gave) : gave[i].key \in D /\ gave[i] = ElemFor[gave[i].key]
      /\ \A i, j \in 1 .. Len(gave) : gave[i].key = gave[j].key => i = j
  BY <1>5, <1>8 DEF Lists
<1>10. Lists(gave, ElemFor, KeysOf(gave))
  BY <1>9 DEF Lists, KeysOf
<1>11. KeysOf(gave) \subseteq D
  BY <1>9 DEF KeysOf
<1>12. Cardinality(KeysOf(gave)) = Len(gave)
  BY <1>7, <1>10, ListsCount
<1>13. sIter.hint + Set!Cardinality(sIter.given) = set.size
  <2>1. Set!Cardinality(KeysOf(gave)) = Len(gave)
    BY <1>12 DEF Set!Cardinality, Cardinality
  <2>2. hint + Len(gave) = set.size
    BY <1>5, <1>7, <1>8
  <2> QED BY <1>4, <2>1, <2>2
<1>14. ASSUME ended PROVE KeysOf(gave) = D
  <2>1. IterAt(B, c, Elem, gave, << >>, c, hint) /\ LaterIn(B, c, c) = {}
    BY <1>3, <1>5, <1>14 DEF LaterIn, IsTable
  <2>2. gave = v
    BY <1>2, <1>5, <2>1, IterEnds
  <2>3. {v[i].key : i \in 1 .. Len(v)} = D
    BY <1>5 DEF Lists
  <2> QED BY <2>2, <2>3 DEF KeysOf
<1> QED BY <1>4, <1>5, <1>11, <1>13, <1>14

LEMMA SetInitially ==
  ASSUME Set!Init
  PROVE  SetState({}) /\ Set!Contract!Init
<1>1. /\ set = Set!EmptySet /\ sHeld = {} /\ answer = FALSE /\ sIter = Set!NoIter
      /\ sReserved = 0
  BY DEF Set!Init
<1>2. /\ SetHolds(Set!EmptySet, {}) /\ SIterIs(Set!NoIter, Set!EmptySet)
      /\ Set!EmptySet.capacity = DefaultCapacity
  BY SetEmpty, SNoIterIs
<1>3. 0 \in SizeT /\ DefaultCapacity \in Nat
  BY Numbers DEF SizeT
<1>4. 4 * 0 <= 3 * DefaultCapacity
  BY <1>3
<1>5. SetState({})
  BY <1>1, <1>2, <1>3, <1>4 DEF SetState
<1>6. Set!Members(set) = {}
  BY <1>1, <1>2, SetFound
<1> QED BY <1>1, <1>5, <1>6 DEF Set!Contract!Init

\* A step of the set is a step of its contract.
LEMMA SetSimulates ==
  ASSUME NEW D, SetState(D), SetStep(D)
  PROVE  [Set!Contract!Next]_(Set!Contract!contractVars)
<1>1. PICK E : SetState(E)' /\ MemberStep(D, E)
  BY DEF SetStep
<1>2. PICK r, q : r = Set!Members(set) /\ q = Set!Members(set)'
  OBVIOUS
<1>3. r = D /\ q = E
  <2>1. SetHolds(set, D) /\ SetHolds(set', E)
    BY <1>1 DEF SetState
  <2>2. r = D
    BY <1>2, <2>1, SetFound
  <2>3. Set!Members(set') = E
    BY <2>1, SetFound
  <2> QED BY <1>2, <2>2, <2>3
<1>4. CASE E = D /\ answer' = answer
  BY <1>2, <1>3, <1>4 DEF Set!Contract!contractVars
<1>5. ASSUME answer' = answer, NEW k \in Key, E = D \cup {k} \/ E = D \ {k}
      PROVE  Set!Contract!Next
  <2>1. CASE E = D \cup {k}
    <3>1. Set!Contract!Insert
      BY <1>2, <1>3, <1>5, <2>1, Zenon DEF Set!Contract!Insert
    <3> QED BY <3>1 DEF Set!Contract!Next
  <2>2. CASE E = D \ {k}
    <3>1. Set!Contract!Remove
      BY <1>2, <1>3, <1>5, <2>2, Zenon DEF Set!Contract!Remove
    <3> QED BY <3>1 DEF Set!Contract!Next
  <2> QED BY <1>5, <2>1, <2>2
<1>6. ASSUME E = D, NEW k \in Key, answer' = (k \in D)
      PROVE  Set!Contract!Next
  <2>1. Set!Contract!Ask
    BY <1>2, <1>3, <1>6, Zenon DEF Set!Contract!Ask
  <2> QED BY <2>1 DEF Set!Contract!Next
<1>7. CASE E = {} /\ answer' = FALSE
  <2>1. Set!Contract!Destroy
    BY <1>2, <1>3, <1>7, Zenon DEF Set!Contract!Destroy
  <2> QED BY <2>1 DEF Set!Contract!Next
<1> QED BY <1>1, <1>4, <1>5, <1>6, <1>7 DEF MemberStep

(***************************************************************************)
(* Both tables.                                                            *)
(***************************************************************************)
TablesInv == (\E st : MapState(st)) /\ (\E D : SetState(D))

LEMMA TableSteps ==
  ASSUME [UseMap \/ UseSet]_<<used, vars, sVars>>
  PROVE  [Next]_vars /\ [Set!Next]_(Set!vars)
  BY DEF UseMap, UseSet, sVars, Set!vars

LEMMA TablesInitially == TablesInit => TablesInv
<1> SUFFICES ASSUME TablesInit PROVE TablesInv
  OBVIOUS
<1>1. MapState(NoStore) /\ SetState({})
  BY MapInitially, SetInitially DEF TablesInit
<1> QED BY <1>1 DEF TablesInv

LEMMA TablesStep == TablesInv /\ [UseMap \/ UseSet]_<<used, vars, sVars>> => TablesInv'
<1> SUFFICES ASSUME TablesInv, [UseMap \/ UseSet]_<<used, vars, sVars>>
             PROVE  TablesInv'
  OBVIOUS
<1>1. PICK st : MapState(st)
  BY DEF TablesInv
<1>2. PICK D : SetState(D)
  BY DEF TablesInv
<1>3. PICK s2 : MapState(s2)'
  BY <1>1, TableSteps, MapSteps DEF MapStep
<1>4. PICK E : SetState(E)'
  BY <1>2, TableSteps, SetSteps DEF SetStep
<1> QED BY <1>3, <1>4 DEF TablesInv

\* hashmap.c and hashset.c, whichever is in use: the map stores a function from
\* keys to values and the set a set of keys after every operation.
THEOREM TablesKeepInv == TablesSpec => []TablesInv
  BY TablesInitially, TablesStep, PTL DEF TablesSpec

\* hash/hashmap.c and hash/hashset.c: for any hash and through collisions,
\* growths, removals and failing allocations every entry is in the bucket a
\* lookup searches, once and counted, the load factor stays within 3/4, and no
\* block is held but the struct, one bucket array and one per entry.
THEOREM TablesAreConsistent == TablesSpec => []TablesConsistent
<1>1. TablesInv => TablesConsistent
  BY MapConsistent, SetConsistent DEF TablesInv, TablesConsistent
<1> QED BY <1>1, TablesKeepInv, PTL

\* The iterators of both tables give every entry once, in the order of the
\* buckets, over empty buckets and within chains, and the size hint is the
\* number that is left.
THEOREM IteratorsAreAlwaysExact == TablesSpec => []IteratorsAreExact
<1>1. TablesInv => IteratorsAreExact
  BY MapIterates, SetIterates DEF TablesInv, IteratorsAreExact
<1> QED BY <1>1, TablesKeepInv, PTL

LEMMA RoomIsKept ==
  TablesInv /\ [UseMap \/ UseSet]_<<used, vars, sVars>> =>
    /\ [Exists /\ Exists' /\ map'.array # map.array =>
          reserved' > reserved \/ map.size + 1 > reserved]_vars
    /\ [Set!Exists /\ Set!Exists' /\ set'.array # set.array =>
          set'.capacity > set.capacity
          /\ (sReserved' > sReserved \/ set.size + 1 > sReserved)]_(Set!vars)
<1> SUFFICES ASSUME TablesInv, [UseMap \/ UseSet]_<<used, vars, sVars>>
             PROVE  RoomStep /\ SRoomStep
  BY DEF RoomStep, SRoomStep
<1>1. PICK st : MapState(st)
  BY DEF TablesInv
<1>2. PICK D : SetState(D)
  BY DEF TablesInv
<1> QED BY <1>1, <1>2, TableSteps, MapSteps, SetSteps DEF MapStep, SetStep

\* hashmap.md: after a successful reserve of n entries the bucket array stays
\* until more are reserved or an entry beyond n is put; the set never shrinks.
THEOREM ReservesStayKept == TablesSpec => ReservesAreKept
<1>1. TablesInv /\ [UseMap \/ UseSet]_<<used, vars, sVars>> =>
        /\ [Exists /\ Exists' /\ map'.array # map.array =>
              reserved' > reserved \/ map.size + 1 > reserved]_vars
        /\ [Set!Exists /\ Set!Exists' /\ set'.array # set.array =>
              set'.capacity > set.capacity
              /\ (sReserved' > sReserved \/ set.size + 1 > sReserved)]_(Set!vars)
  BY RoomIsKept
<1> QED BY <1>1, TablesKeepInv, PTL
        DEF TablesSpec, ReservesAreKept, ReserveIsKept, Set!ReserveIsKept

\* The map is a function from keys to the values last put, the set a set of
\* elements: growths, collisions and failing puts and inserts do not show.
THEOREM TablesImplement == TablesSpec => ImplementContracts
<1>1. TablesInit => Contract!Init /\ Set!Contract!Init
  BY MapStartsAsContract, SetInitially DEF TablesInit
<1>2. TablesInv /\ [UseMap \/ UseSet]_<<used, vars, sVars>> =>
        /\ [Contract!Next]_(Contract!contractVars)
        /\ [Set!Contract!Next]_(Set!Contract!contractVars)
  <2> SUFFICES ASSUME TablesInv, [UseMap \/ UseSet]_<<used, vars, sVars>>
               PROVE  /\ [Contract!Next]_(Contract!contractVars)
                      /\ [Set!Contract!Next]_(Set!Contract!contractVars)
    OBVIOUS
  <2>1. PICK st : MapState(st)
    BY DEF TablesInv
  <2>2. PICK D : SetState(D)
    BY DEF TablesInv
  <2>3. MapStep(st) /\ SetStep(D)
    BY <2>1, <2>2, TableSteps, MapSteps, SetSteps
  <2> QED BY <2>1, <2>2, <2>3, MapSimulates, SetSimulates
<1> QED BY <1>1, <1>2, TablesKeepInv, PTL
        DEF TablesSpec, ImplementContracts, ImplementsContract, Set!ImplementsContract,
            Contract!Spec, Set!Contract!Spec

=============================================================================
