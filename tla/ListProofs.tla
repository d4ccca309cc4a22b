----------------------------- MODULE ListProofs -----------------------------
(***************************************************************************)
(* The two linked lists for every finite set of nodes.  What a list is at  *)
(* the level of its pointers is said of a sequence s of n nodes: it        *)
(* enumerates the nodes the caller put in, and the links lead along it.    *)
(* One lemma says what an insertion and one what a removal must do to the  *)
(* links; each operation of either list is shown to do that.               *)
(***************************************************************************)
EXTENDS MCLists, FiniteSetTheorems, WellFoundedInduction, TLAPS

(***************************************************************************)
(* Walks.  The walk of the properties is a recursive function; that there  *)
(* is exactly one such function is an induction, for which the provers are *)
(* given the least argument where two of them would differ.                *)
(***************************************************************************)
LEMMA Least ==
  ASSUME NEW T, T \subseteq Nat, T # {}
  PROVE  \E m \in T : \A k \in T : m <= k
<1>1. PICK m \in T : \A k \in T : <<k, m>> \notin OpToRel(<, Nat)
  BY WFMin, NatLessThanWellFounded, Zenon
<1>2. m \in Nat /\ \A k \in T : k \in Nat
  OBVIOUS
<1>3. \A k \in T : ~ (k < m)
  BY <1>1, <1>2, Zenon DEF OpToRel
<1> QED BY <1>2, <1>3

Step(f, i, from, link) ==
  IF i = 0 THEN from ELSE IF f[i - 1] \in Node THEN link[f[i - 1]] ELSE NULL

LEMMA OneWalk ==
  ASSUME NEW n \in Nat, NEW from, NEW link, NEW f, NEW g,
         f = [i \in 0 .. n |-> Step(f, i, from, link)],
         g = [i \in 0 .. n |-> Step(g, i, from, link)]
  PROVE  f = g
<1> DEFINE T == {i \in 0 .. n : f[i] # g[i]}
<1>1. ASSUME T # {} PROVE FALSE
  <2>1. T \subseteq Nat
    OBVIOUS
  <2>2. PICK m \in T : \A k \in T : m <= k
    BY <1>1, <2>1, Least
  <2>3. m \in 0 .. n /\ f[m] # g[m]
    OBVIOUS
  <2>4. f[m] = Step(f, m, from, link) /\ g[m] = Step(g, m, from, link)
    BY <2>3
  <2>5. m # 0
    BY <2>3, <2>4 DEF Step
  <2>6. m - 1 \in 0 .. n /\ m - 1 \notin T
    BY <2>2, <2>3, <2>5
  <2>7. f[m - 1] = g[m - 1]
    BY <2>6
  <2> QED BY <2>3, <2>4, <2>7 DEF Step
<1>2. \A i \in 0 .. n : f[i] = g[i]
  BY <1>1
<1>3. f = [i \in 0 .. n |-> f[i]] /\ g = [i \in 0 .. n |-> g[i]]
  OBVIOUS
<1> QED BY <1>2, <1>3

Follows(g, from, link) ==
  g = [i \in 0 .. Cardinality(Node) |-> Step(g, i, from, link)]

NodesOf(g) ==
  [i \in 1 .. Cardinality({k \in 0 .. Cardinality(Node) : g[k] \in Node}) |-> g[i - 1]]

\* Whatever satisfies the recursion is the function Walk chooses.
LEMMA WalkIsThat ==
  ASSUME NEW from, NEW link, NEW g, Follows(g, from, link)
  PROVE  Walk(from, link) = NodesOf(g)
<1> DEFINE at == CHOOSE f : f = [i \in 0 .. Cardinality(Node) |->
             IF i = 0 THEN from ELSE IF f[i - 1] \in Node THEN link[f[i - 1]] ELSE NULL]
<1>1. Walk(from, link) = NodesOf(at)
  BY DEF Walk, NodesOf
<1>2. at = [i \in 0 .. Cardinality(Node) |->
             IF i = 0 THEN from ELSE IF at[i - 1] \in Node THEN link[at[i - 1]] ELSE NULL]
  BY DEF Follows, Step
<1> HIDE DEF at
<1>3. at = [i \in 0 .. Cardinality(Node) |-> Step(at, i, from, link)]
  BY <1>2 DEF Step
<1>4. Cardinality(Node) \in Nat
  BY NodeAssumption, FS_CardinalityType
<1>5. g = [i \in 0 .. Cardinality(Node) |-> Step(g, i, from, link)]
  BY DEF Follows
<1> QED BY <1>1, <1>3, <1>4, <1>5, OneWalk, SMTT(20)

(***************************************************************************)
(* Sequences of nodes and the links along them.                            *)
(***************************************************************************)
Distinct(s, n) == \A i, j \in 1 .. n : s[i] = s[j] => i = j

\* s lists every node of S once.
Enumerates(s, n, S) ==
  /\ s \in [1 .. n -> Node] /\ Distinct(s, n)
  /\ \A i \in 1 .. n : s[i] \in S
  /\ \A x \in S : \E i \in 1 .. n : x = s[i]

Ahead(s, n, link) == \A i \in 1 .. n : link[s[i]] = IF i = n THEN NULL ELSE s[i + 1]
Behind(s, n, link) == \A i \in 1 .. n : link[s[i]] = IF i = 1 THEN NULL ELSE s[i - 1]

LEMMA NoMoreThanThere ==
  ASSUME NEW n \in Nat, NEW s \in [1 .. n -> Node], Distinct(s, n)
  PROVE  n <= Cardinality(Node)
<1>1. IsFiniteSet(1 .. n) /\ Cardinality(1 .. n) = n
  BY FS_Interval
<1>2. IsFiniteSet(Node) /\ Cardinality(Node) \in Nat
  BY NodeAssumption, FS_CardinalityType
<1>3. ASSUME Cardinality(Node) < Cardinality(1 .. n)
      PROVE  FALSE
  <2>1. PICK x, y \in 1 .. n : x # y /\ s[x] = s[y]
    BY <1>1, <1>2, <1>3, FS_PigeonHole
  <2> QED BY <2>1 DEF Distinct
<1> QED BY <1>1, <1>2, <1>3

\* Walking from the p-th node meets it and those after it.
Rest(s, n, p) == [i \in 1 .. (n - p) + 1 |-> s[p + i - 1]]

LEMMA WalkMeets ==
  ASSUME NEW n \in Nat, NEW s \in [1 .. n -> Node], NEW link,
         Distinct(s, n), Ahead(s, n, link), NEW p \in 1 .. n
  PROVE  Walk(s[p], link) = Rest(s, n, p)
<1> DEFINE N == Cardinality(Node)
           g == [i \in 0 .. N |-> IF p + i <= n THEN s[p + i] ELSE NULL]
<1>1. N \in Nat /\ n <= N
  BY NodeAssumption, FS_CardinalityType, NoMoreThanThere
<1>2. ASSUME NEW i \in 0 .. N
      PROVE  g[i] = Step(g, i, s[p], link)
  <2>1. CASE i = 0
    BY <2>1, <1>1 DEF Step
  <2>2. CASE i # 0 /\ p + i - 1 <= n
    <3>1. i - 1 \in 0 .. N /\ p + (i - 1) <= n /\ p + (i - 1) \in 1 .. n
      BY <2>2, <1>1
    <3>2. g[i - 1] = s[p + (i - 1)] /\ g[i - 1] \in Node
      BY <3>1
    <3>3. link[s[p + (i - 1)]] = IF p + (i - 1) = n THEN NULL ELSE s[p + (i - 1) + 1]
      BY <3>1 DEF Ahead
    <3>4. p + (i - 1) + 1 = p + i /\ (p + (i - 1) = n <=> ~ (p + i <= n))
      BY <3>1, <1>1
    <3> QED BY <2>2, <3>2, <3>3, <3>4 DEF Step
  <2>3. CASE i # 0 /\ ~ (p + i - 1 <= n)
    <3>1. i - 1 \in 0 .. N /\ ~ (p + (i - 1) <= n) /\ ~ (p + i <= n)
      BY <2>3, <1>1
    <3>2. g[i - 1] = NULL /\ g[i - 1] \notin Node
      BY <3>1, NodeAssumption
    <3> QED BY <2>3, <3>1, <3>2 DEF Step
  <2> QED BY <2>1, <2>2, <2>3
<1>3. Follows(g, s[p], link)
  <2>1. g = [i \in 0 .. N |-> g[i]]
    OBVIOUS
  <2> HIDE DEF g
  <2> QED BY <1>2, <2>1 DEF Follows
<1>4. {k \in 0 .. N : g[k] \in Node} = 0 .. n - p
  <2>1. \A k \in 0 .. N : g[k] \in Node <=> p + k <= n
    BY <1>1, NodeAssumption
  <2> HIDE DEF g
  <2> QED BY <2>1, <1>1
<1>5. Cardinality(0 .. n - p) = (n - p) + 1
  BY FS_Interval
<1>6. \A i \in 1 .. (n - p) + 1 : g[i - 1] = s[p + i - 1]
  BY <1>1
<1> HIDE DEF g
<1>7. Walk(s[p], link) = NodesOf(g)
  BY <1>3, WalkIsThat
<1> QED BY <1>4, <1>5, <1>6, <1>7 DEF NodesOf, Rest

LEMMA NothingMet ==
  ASSUME NEW link
  PROVE  Walk(NULL, link) = << >>
<1> DEFINE N == Cardinality(Node)
           g == [i \in 0 .. N |-> NULL]
<1>1. N \in Nat /\ NULL \notin Node
  BY NodeAssumption, FS_CardinalityType
<1>2. \A i \in 0 .. N : g[i] = Step(g, i, NULL, link)
  <2>1. \A i \in 0 .. N : i # 0 => i - 1 \in 0 .. N
    BY <1>1
  <2> QED BY <1>1, <2>1 DEF Step
<1>3. Follows(g, NULL, link)
  <2>1. g = [i \in 0 .. N |-> g[i]]
    OBVIOUS
  <2> HIDE DEF g
  <2> QED BY <1>2, <2>1 DEF Follows
<1>4. {k \in 0 .. N : g[k] \in Node} = {}
  BY <1>1
<1>5. Cardinality({}) = 0
  BY FS_EmptySet
<1> HIDE DEF g
<1>6. Walk(NULL, link) = NodesOf(g)
  BY <1>3, WalkIsThat
<1>7. \A f : [i \in 1 .. 0 |-> f[i - 1]] = << >>
  OBVIOUS
<1> QED BY <1>4, <1>5, <1>6, <1>7, ZenonT(20) DEF NodesOf
(***************************************************************************)
(* A node put in behind the k-th, and the k-th node taken out.             *)
(***************************************************************************)
With(s, n, k, x) ==
  [i \in 1 .. n + 1 |-> IF i <= k THEN s[i] ELSE IF i = k + 1 THEN x ELSE s[i - 1]]

Without(s, n, k) == [i \in 1 .. n - 1 |-> IF i < k THEN s[i] ELSE s[i + 1]]

LEMMA WithEnumerates ==
  ASSUME NEW n \in Nat, NEW s, NEW S, Enumerates(s, n, S),
         NEW k \in 0 .. n, NEW x \in Node, x \notin S,
         NEW t, t = With(s, n, k, x)
  PROVE  Enumerates(t, n + 1, S \cup {x})
<1>1. /\ s \in [1 .. n -> Node]
      /\ \A i, j \in 1 .. n : s[i] = s[j] => i = j
      /\ \A i \in 1 .. n : s[i] \in S /\ s[i] # x
      /\ \A y \in S : \E i \in 1 .. n : y = s[i]
  BY DEF Enumerates, Distinct
<1>2. /\ DOMAIN t = 1 .. n + 1
      /\ \A i \in 1 .. k : i \in 1 .. n /\ t[i] = s[i]
      /\ k + 1 \in 1 .. n + 1 /\ t[k + 1] = x
      /\ \A i \in k + 2 .. n + 1 : i - 1 \in 1 .. n /\ t[i] = s[i - 1]
  BY DEF With
<1>3. \A i \in 1 .. n + 1 : i \in 1 .. k \/ i = k + 1 \/ i \in k + 2 .. n + 1
  OBVIOUS
<1>4. t \in [1 .. n + 1 -> Node]
  <2>1. t = [i \in 1 .. n + 1 |-> t[i]]
    BY DEF With
  <2>2. \A i \in 1 .. n + 1 : t[i] \in Node
    BY <1>1, <1>2, <1>3
  <2> QED BY <2>1, <2>2
<1>5. ASSUME NEW i \in 1 .. n + 1, NEW j \in 1 .. n + 1, t[i] = t[j]
      PROVE  i = j
  <2>1. CASE i = k + 1
    BY <1>1, <1>2, <1>3, <1>5, <2>1
  <2>2. CASE j = k + 1
    BY <1>1, <1>2, <1>3, <1>5, <2>2
  <2>3. CASE i # k + 1 /\ j # k + 1
    <3> DEFINE at(m) == IF m <= k THEN m ELSE m - 1
    <3>1. /\ at(i) \in 1 .. n /\ t[i] = s[at(i)]
          /\ at(j) \in 1 .. n /\ t[j] = s[at(j)]
      BY <1>2, <1>3, <2>3
    <3>2. at(i) = at(j)
      BY <1>1, <1>5, <3>1
    <3> QED BY <2>3, <3>2
  <2> QED BY <2>1, <2>2, <2>3
<1>6. \A i \in 1 .. n + 1 : t[i] \in S \cup {x}
  BY <1>1, <1>2, <1>3
<1>7. ASSUME NEW y \in S \cup {x}
      PROVE  \E i \in 1 .. n + 1 : y = t[i]
  <2>1. CASE y = x
    BY <1>2, <2>1
  <2>2. CASE y \in S
    <3>1. PICK i \in 1 .. n : y = s[i]
      BY <1>1, <2>2
    <3>2. CASE i <= k
      BY <1>2, <3>1, <3>2
    <3>3. CASE ~ (i <= k)
      <4>1. i + 1 \in k + 2 .. n + 1 /\ (i + 1) - 1 = i /\ i + 1 \in 1 .. n + 1
        BY <3>3
      <4>2. t[i + 1] = s[i]
        BY <1>2, <4>1
      <4> QED BY <3>1, <4>1, <4>2
    <3> QED BY <3>2, <3>3
  <2> QED BY <2>1, <2>2
<1> QED BY <1>4, <1>5, <1>6, <1>7 DEF Enumerates, Distinct

LEMMA WithoutEnumerates ==
  ASSUME NEW n \in Nat, NEW s, NEW S, Enumerates(s, n, S), NEW k \in 1 .. n,
         NEW t, t = Without(s, n, k)
  PROVE  Enumerates(t, n - 1, S \ {s[k]})
<1>1. /\ s \in [1 .. n -> Node]
      /\ \A i, j \in 1 .. n : s[i] = s[j] => i = j
      /\ \A i \in 1 .. n : s[i] \in S
      /\ \A y \in S : \E i \in 1 .. n : y = s[i]
  BY DEF Enumerates, Distinct
<1> DEFINE at(m) == IF m < k THEN m ELSE m + 1
<1>2. \A i \in 1 .. n - 1 : t[i] = s[at(i)] /\ at(i) \in 1 .. n /\ at(i) # k
  BY DEF Without
<1>3. \A i, j \in 1 .. n - 1 : at(i) = at(j) => i = j
  OBVIOUS
<1>4. \A i \in 1 .. n : i # k => \E j \in 1 .. n - 1 : at(j) = i
  <2> SUFFICES ASSUME NEW i \in 1 .. n, i # k
               PROVE  \E j \in 1 .. n - 1 : at(j) = i
    OBVIOUS
  <2>1. CASE i < k
    <3>1. i \in 1 .. n - 1 /\ at(i) = i
      BY <2>1
    <3> QED BY <3>1
  <2>2. CASE ~ (i < k)
    <3>1. i - 1 \in 1 .. n - 1 /\ at(i - 1) = i
      BY <2>2
    <3> QED BY <3>1
  <2> QED BY <2>1, <2>2
<1> HIDE DEF at
<1>5. t \in [1 .. n - 1 -> Node]
  <2>1. t = [i \in 1 .. n - 1 |-> t[i]]
    BY DEF Without
  <2>2. \A i \in 1 .. n - 1 : t[i] \in Node
    BY <1>1, <1>2
  <2> QED BY <2>1, <2>2
<1>6. \A i, j \in 1 .. n - 1 : t[i] = t[j] => i = j
  BY <1>1, <1>2, <1>3
<1>7. \A i \in 1 .. n - 1 : t[i] \in S \ {s[k]}
  BY <1>1, <1>2
<1>8. \A y \in S \ {s[k]} : \E i \in 1 .. n - 1 : y = t[i]
  BY <1>1, <1>2, <1>4, SMTT(20)
<1> QED BY <1>5, <1>6, <1>7, <1>8 DEF Enumerates, Distinct

\* The node x comes between the k-th and its successor.
LEMMA WithLinks ==
  ASSUME NEW n \in Nat, NEW s \in [1 .. n -> Node], NEW k \in 0 .. n,
         NEW x \in Node, NEW t, t = With(s, n, k, x), NEW link, NEW new
  PROVE  /\ /\ Ahead(s, n, link)
            /\ new[x] = (IF k = n THEN NULL ELSE s[k + 1])
            /\ \A i \in 1 .. n : new[s[i]] = IF i = k THEN x ELSE link[s[i]]
            => Ahead(t, n + 1, new)
         /\ /\ Behind(s, n, link)
            /\ new[x] = (IF k = 0 THEN NULL ELSE s[k])
            /\ \A i \in 1 .. n : new[s[i]] = IF i = k + 1 THEN x ELSE link[s[i]]
            => Behind(t, n + 1, new)
<1>1. /\ \A i \in 1 .. k : i \in 1 .. n /\ t[i] = s[i]
      /\ k + 1 \in 1 .. n + 1 /\ t[k + 1] = x
      /\ \A i \in k + 2 .. n + 1 : i - 1 \in 1 .. n /\ t[i] = s[i - 1]
  BY DEF With
<1>2. \A i \in 1 .. n + 1 : i \in 1 .. k \/ i = k + 1 \/ i \in k + 2 .. n + 1
  OBVIOUS
<1>3. ASSUME Ahead(s, n, link),
             new[x] = (IF k = n THEN NULL ELSE s[k + 1]),
             \A i \in 1 .. n : new[s[i]] = IF i = k THEN x ELSE link[s[i]],
             NEW i \in 1 .. n + 1
      PROVE  new[t[i]] = IF i = n + 1 THEN NULL ELSE t[i + 1]
  <2>1. CASE i < k
    <3>1. i \in 1 .. k /\ i + 1 \in 1 .. k /\ i # k /\ i # n /\ i # n + 1
      BY <2>1
    <3> QED BY <1>1, <1>3, <3>1 DEF Ahead
  <2>2. CASE i = k
    <3>1. i \in 1 .. k /\ i # n + 1
      BY <2>2
    <3> QED BY <1>1, <1>3, <2>2, <3>1
  <2>3. CASE i = k + 1
    <3>1. i # n + 1 => /\ i + 1 \in k + 2 .. n + 1 /\ (i + 1) - 1 = k + 1 /\ k # n
      BY <2>3
    <3>2. i = n + 1 => k = n
      BY <2>3
    <3> QED BY <1>1, <1>3, <2>3, <3>1, <3>2
  <2>4. CASE i > k + 1
    <3>1. i \in k + 2 .. n + 1 /\ i - 1 # k /\ (i - 1) + 1 = i
      BY <2>4
    <3>2. i # n + 1 => i + 1 \in k + 2 .. n + 1 /\ (i + 1) - 1 = i /\ i - 1 # n
      BY <2>4
    <3>3. i = n + 1 => i - 1 = n
      OBVIOUS
    <3>4. new[t[i]] = IF i - 1 = n THEN NULL ELSE s[i]
      BY <1>1, <1>3, <3>1 DEF Ahead
    <3> QED BY <1>1, <3>2, <3>3, <3>4
  <2> QED BY <2>1, <2>2, <2>3, <2>4
<1>4. ASSUME Behind(s, n, link),
             new[x] = (IF k = 0 THEN NULL ELSE s[k]),
             \A i \in 1 .. n : new[s[i]] = IF i = k + 1 THEN x ELSE link[s[i]],
             NEW i \in 1 .. n + 1
      PROVE  new[t[i]] = IF i = 1 THEN NULL ELSE t[i - 1]
  <2>1. CASE i <= k
    <3>1. i \in 1 .. k /\ i # k + 1 /\ (i # 1 => i - 1 \in 1 .. k)
      BY <2>1
    <3> QED BY <1>1, <1>4, <3>1 DEF Behind
  <2>2. CASE i = k + 1
    <3>1. (i = 1 <=> k = 0) /\ i - 1 = k /\ (i # 1 => k \in 1 .. k)
      BY <2>2
    <3> QED BY <1>1, <1>4, <2>2, <3>1
  <2>3. CASE i = k + 2
    <3>1. i \in k + 2 .. n + 1 /\ i - 1 = k + 1 /\ i # 1 /\ k + 1 \in 1 .. n
      BY <2>3
    <3> QED BY <1>1, <1>4, <2>3, <3>1
  <2>4. CASE i > k + 2
    <3>1. /\ i \in k + 2 .. n + 1 /\ i - 1 \in k + 2 .. n + 1
          /\ i - 1 # k + 1 /\ i # 1 /\ i - 1 # 1
      BY <2>4
    <3> QED BY <1>1, <1>4, <3>1 DEF Behind
  <2> QED BY <2>1, <2>2, <2>3, <2>4
<1>5. ASSUME Ahead(s, n, link), new[x] = (IF k = n THEN NULL ELSE s[k + 1]),
             \A i \in 1 .. n : new[s[i]] = IF i = k THEN x ELSE link[s[i]]
      PROVE  Ahead(t, n + 1, new)
  BY <1>3, <1>5 DEF Ahead
<1>6. ASSUME Behind(s, n, link), new[x] = (IF k = 0 THEN NULL ELSE s[k]),
             \A i \in 1 .. n : new[s[i]] = IF i = k + 1 THEN x ELSE link[s[i]]
      PROVE  Behind(t, n + 1, new)
  BY <1>4, <1>6 DEF Behind
<1> QED BY <1>5, <1>6

\* The neighbours of the k-th node are joined over it.
LEMMA WithoutLinks ==
  ASSUME NEW n \in Nat, NEW s \in [1 .. n -> Node], NEW k \in 1 .. n,
         NEW t, t = Without(s, n, k), NEW link, NEW new
  PROVE  /\ /\ Ahead(s, n, link)
            /\ \A i \in 1 .. n : i # k => new[s[i]] = IF i = k - 1 THEN link[s[k]]
                                                    ELSE link[s[i]]
            => Ahead(t, n - 1, new)
         /\ /\ Behind(s, n, link)
            /\ \A i \in 1 .. n : i # k => new[s[i]] = IF i = k + 1 THEN link[s[k]]
                                                    ELSE link[s[i]]
            => Behind(t, n - 1, new)
<1>1. /\ \A i \in 1 .. n - 1 : i < k => i \in 1 .. n /\ t[i] = s[i]
      /\ \A i \in 1 .. n - 1 : ~ (i < k) => i + 1 \in 1 .. n /\ t[i] = s[i + 1]
  BY DEF Without
<1>2. ASSUME Ahead(s, n, link),
             \A i \in 1 .. n : i # k => new[s[i]] = IF i = k - 1 THEN link[s[k]]
                                                  ELSE link[s[i]],
             NEW i \in 1 .. n - 1
      PROVE  new[t[i]] = IF i = n - 1 THEN NULL ELSE t[i + 1]
  <2>1. CASE i < k - 1
    <3>1. i \in 1 .. n /\ i < k /\ i # k /\ i # n /\ i # k - 1
      BY <2>1
    <3>2. i # n - 1 /\ i + 1 \in 1 .. n - 1 /\ i + 1 < k
      BY <2>1
    <3> QED BY <1>1, <1>2, <3>1, <3>2 DEF Ahead
  <2>2. CASE i = k - 1
    <3>1. i \in 1 .. n /\ i < k /\ i # k /\ (i = n - 1 <=> k = n) /\ i + 1 = k
      BY <2>2
    <3>2. i # n - 1 => i + 1 \in 1 .. n - 1 /\ ~ (i + 1 < k)
      BY <2>2
    <3> QED BY <1>1, <1>2, <2>2, <3>1, <3>2 DEF Ahead
  <2>3. CASE i > k - 1
    <3>1. ~ (i < k) /\ i + 1 \in 1 .. n /\ i + 1 # k /\ i + 1 # k - 1
      BY <2>3
    <3>2. (i = n - 1 <=> i + 1 = n) /\ (i # n - 1 => i + 1 \in 1 .. n - 1 /\ ~ (i + 1 < k))
      BY <2>3
    <3> QED BY <1>1, <1>2, <3>1, <3>2 DEF Ahead
  <2> QED BY <2>1, <2>2, <2>3
<1>3. ASSUME Behind(s, n, link),
             \A i \in 1 .. n : i # k => new[s[i]] = IF i = k + 1 THEN link[s[k]]
                                                  ELSE link[s[i]],
             NEW i \in 1 .. n - 1
      PROVE  new[t[i]] = IF i = 1 THEN NULL ELSE t[i - 1]
  <2>1. CASE i < k
    <3>1. i \in 1 .. n /\ i # k /\ i # k + 1
      BY <2>1
    <3>2. i # 1 => i - 1 \in 1 .. n - 1 /\ i - 1 < k
      BY <2>1
    <3> QED BY <1>1, <1>3, <2>1, <3>1, <3>2 DEF Behind
  <2>2. CASE i = k
    <3>1. ~ (i < k) /\ i + 1 \in 1 .. n /\ i + 1 = k + 1 /\ i + 1 # k
      BY <2>2
    <3>2. i # 1 => i - 1 \in 1 .. n - 1 /\ i - 1 < k
      BY <2>2
    <3> QED BY <1>1, <1>3, <2>2, <3>1, <3>2 DEF Behind
  <2>3. CASE i > k
    <3>1. ~ (i < k) /\ i + 1 \in 1 .. n /\ i + 1 # k + 1 /\ i + 1 # k /\ i + 1 # 1
      BY <2>3
    <3>2. i # 1 /\ i - 1 \in 1 .. n - 1 /\ ~ (i - 1 < k) /\ (i - 1) + 1 = i
          /\ (i + 1) - 1 = i
      BY <2>3
    <3> QED BY <1>1, <1>3, <3>1, <3>2 DEF Behind
  <2> QED BY <2>1, <2>2, <2>3
<1>4. ASSUME Ahead(s, n, link),
             \A i \in 1 .. n : i # k => new[s[i]] = IF i = k - 1 THEN link[s[k]]
                                                  ELSE link[s[i]]
      PROVE  Ahead(t, n - 1, new)
  BY <1>2, <1>4 DEF Ahead
<1>5. ASSUME Behind(s, n, link),
             \A i \in 1 .. n : i # k => new[s[i]] = IF i = k + 1 THEN link[s[k]]
                                                  ELSE link[s[i]]
      PROVE  Behind(t, n - 1, new)
  BY <1>3, <1>5 DEF Behind
<1> QED BY <1>4, <1>5
(***************************************************************************)
(* The same as operations on sequences.                                    *)
(***************************************************************************)
LEMMA IsSequence ==
  ASSUME NEW n \in Nat, NEW s \in [1 .. n -> Node]
  PROVE  s \in Seq(Node) /\ Len(s) = n
<1>1. s \in Seq(Node)
  OBVIOUS
<1>2. DOMAIN s = 1 .. n /\ DOMAIN s = 1 .. Len(s) /\ Len(s) \in Nat
  BY <1>1
<1> QED BY <1>1, <1>2

LEMMA WithAsSequence ==
  ASSUME NEW n \in Nat, NEW s \in [1 .. n -> Node], NEW x \in Node
  PROVE  /\ With(s, n, n, x) = Append(s, x)
         /\ With(s, n, 0, x) = <<x>> \o s
         /\ \A k \in 0 .. n :
              With(s, n, k, x) = SubSeq(s, 1, k) \o <<x>> \o SubSeq(s, k + 1, Len(s))
<1>1. s \in Seq(Node) /\ Len(s) = n
  BY IsSequence
<1>2. With(s, n, n, x) = Append(s, x)
  <2>1. PICK w : w = Append(s, x)
    OBVIOUS
  <2>2. w \in Seq(Node) /\ Len(w) = n + 1
    BY <1>1, <2>1
  <2>3. w = [i \in 1 .. n + 1 |-> w[i]]
    BY <2>2
  <2>4. \A i \in 1 .. n + 1 : w[i] = IF i <= n THEN s[i] ELSE x
    BY <1>1, <2>1
  <2>5. \A i \in 1 .. n + 1 : ~ (i <= n) => i = n + 1
    OBVIOUS
  <2> QED BY <2>1, <2>3, <2>4, <2>5 DEF With
<1>3. ASSUME NEW k \in 0 .. n
      PROVE  With(s, n, k, x) = SubSeq(s, 1, k) \o <<x>> \o SubSeq(s, k + 1, Len(s))
  <2>1. PICK u : u = SubSeq(s, 1, k)
    OBVIOUS
  <2>2. PICK v : v = SubSeq(s, k + 1, n)
    OBVIOUS
  <2>3. u \in Seq(Node) /\ Len(u) = k /\ \A i \in 1 .. k : u[i] = s[i]
    BY <1>1, <2>1
  <2>4. v \in Seq(Node) /\ Len(v) = n - k /\ \A i \in 1 .. n - k : v[i] = s[k + i]
    BY <1>1, <2>2
  <2>5. PICK w : w = u \o <<x>> \o v
    OBVIOUS
  <2>6. w \in Seq(Node) /\ Len(w) = n + 1
    BY <2>3, <2>4, <2>5
  <2>7. \A i \in 1 .. n + 1 :
          w[i] = IF i <= k THEN u[i] ELSE IF i = k + 1 THEN x ELSE v[i - (k + 1)]
    BY <2>3, <2>4, <2>5
  <2>8. \A i \in 1 .. n + 1 :
          w[i] = IF i <= k THEN s[i] ELSE IF i = k + 1 THEN x ELSE s[i - 1]
    <3>1. \A i \in 1 .. n + 1 : i <= k => i \in 1 .. k
      OBVIOUS
    <3>2. \A i \in 1 .. n + 1 : ~ (i <= k) /\ i # k + 1 =>
            i - (k + 1) \in 1 .. n - k /\ k + (i - (k + 1)) = i - 1
      OBVIOUS
    <3> QED BY <2>3, <2>4, <2>7, <3>1, <3>2, SMTT(20)
  <2>9. w = [i \in 1 .. n + 1 |-> w[i]]
    BY <2>6
  <2> QED BY <1>1, <2>1, <2>2, <2>5, <2>8, <2>9 DEF With
<1>4. With(s, n, 0, x) = <<x>> \o s
  <2>1. PICK w : w = <<x>> \o s
    OBVIOUS
  <2>2. w \in Seq(Node) /\ Len(w) = n + 1
    BY <1>1, <2>1
  <2>3. w = [i \in 1 .. n + 1 |-> w[i]]
    BY <2>2
  <2>4. \A i \in 1 .. n + 1 : w[i] = IF i = 1 THEN x ELSE s[i - 1]
    BY <1>1, <2>1
  <2>5. \A i \in 1 .. n + 1 : ~ (i <= 0) /\ 0 + 1 = 1
    OBVIOUS
  <2> QED BY <2>1, <2>3, <2>4, <2>5 DEF With
<1> QED BY <1>2, <1>3, <1>4

LEMMA WithoutAsSequence ==
  ASSUME NEW n \in Nat, NEW s \in [1 .. n -> Node], NEW k \in 1 .. n
  PROVE  /\ Without(s, n, k) = SubSeq(s, 1, k - 1) \o SubSeq(s, k + 1, Len(s))
         /\ k = 1 => Without(s, n, k) = Tail(s) /\ s = <<s[1]>> \o Without(s, n, k)
         /\ k = n => s = Append(Without(s, n, k), s[n])
<1>1. s \in Seq(Node) /\ Len(s) = n
  BY IsSequence
<1>2. PICK t : t = Without(s, n, k)
  OBVIOUS
<1>3. /\ DOMAIN t = 1 .. n - 1 /\ t \in [1 .. n - 1 -> Node]
      /\ \A i \in 1 .. n - 1 : t[i] = IF i < k THEN s[i] ELSE s[i + 1]
  BY <1>2 DEF Without
<1>4. t \in Seq(Node) /\ Len(t) = n - 1
  <2>1. n - 1 \in Nat
    OBVIOUS
  <2> QED BY <1>3, <2>1, IsSequence
<1>5. t = SubSeq(s, 1, k - 1) \o SubSeq(s, k + 1, Len(s))
  <2>1. PICK u : u = SubSeq(s, 1, k - 1)
    OBVIOUS
  <2>2. PICK v : v = SubSeq(s, k + 1, n)
    OBVIOUS
  <2>3. u \in Seq(Node) /\ Len(u) = k - 1 /\ \A i \in 1 .. k - 1 : u[i] = s[i]
    BY <1>1, <2>1
  <2>4. v \in Seq(Node) /\ Len(v) = n - k /\ \A i \in 1 .. n - k : v[i] = s[k + i]
    BY <1>1, <2>2
  <2>5. PICK w : w = u \o v
    OBVIOUS
  <2>6. w \in Seq(Node) /\ Len(w) = n - 1
    BY <2>3, <2>4, <2>5
  <2>7. \A i \in 1 .. n - 1 : w[i] = IF i <= k - 1 THEN u[i] ELSE v[i - (k - 1)]
    BY <2>3, <2>4, <2>5
  <2>8. \A i \in 1 .. n - 1 : w[i] = IF i < k THEN s[i] ELSE s[i + 1]
    <3>1. \A i \in 1 .. n - 1 : (i <= k - 1 <=> i < k) /\ (i < k => i \in 1 .. k - 1)
      OBVIOUS
    <3>2. \A i \in 1 .. n - 1 : ~ (i < k) =>
            i - (k - 1) \in 1 .. n - k /\ k + (i - (k - 1)) = i + 1
      OBVIOUS
    <3> QED BY <2>3, <2>4, <2>7, <3>1, <3>2
  <2>9. w = [i \in 1 .. n - 1 |-> w[i]] /\ t = [i \in 1 .. n - 1 |-> t[i]]
    BY <2>6, <1>3
  <2>10. w = t
    BY <1>3, <2>8, <2>9
  <2> QED BY <1>1, <2>1, <2>2, <2>5, <2>10
<1>6. ASSUME k = 1
      PROVE  t = Tail(s) /\ s = <<s[1]>> \o t
  <2>1. PICK w : w = Tail(s)
    OBVIOUS
  <2>2. w \in Seq(Node) /\ Len(w) = n - 1 /\ \A i \in 1 .. n - 1 : w[i] = s[i + 1]
    BY <1>1, <1>6, <2>1
  <2>3. w = [i \in 1 .. n - 1 |-> w[i]] /\ t = [i \in 1 .. n - 1 |-> t[i]]
    BY <1>3, <2>2
  <2>4. \A i \in 1 .. n - 1 : t[i] = s[i + 1]
    BY <1>3, <1>6
  <2>5. w = t
    BY <2>2, <2>3, <2>4
  <2>6. PICK z : z = <<s[1]>> \o t
    OBVIOUS
  <2>7. s[1] \in Node
    BY <1>6
  <2>8. z \in Seq(Node) /\ Len(z) = n
    BY <1>4, <2>6, <2>7
  <2>9. \A i \in 1 .. n : z[i] = IF i = 1 THEN s[1] ELSE t[i - 1]
    BY <1>4, <2>6, <2>7
  <2>10. \A i \in 1 .. n : i # 1 => i - 1 \in 1 .. n - 1 /\ (i - 1) + 1 = i
    OBVIOUS
  <2>11. \A i \in 1 .. n : z[i] = s[i]
    BY <2>4, <2>9, <2>10
  <2>12. z = [i \in 1 .. n |-> z[i]] /\ s = [i \in 1 .. n |-> s[i]]
    BY <2>8
  <2> QED BY <2>1, <2>5, <2>6, <2>11, <2>12
<1>7. ASSUME k = n
      PROVE  s = Append(t, s[n])
  <2>1. PICK z : z = Append(t, s[n])
    OBVIOUS
  <2>2. s[n] \in Node
    BY <1>7
  <2>3. z \in Seq(Node) /\ Len(z) = n
    BY <1>4, <2>1, <2>2
  <2>4. \A i \in 1 .. n : z[i] = IF i <= n - 1 THEN t[i] ELSE s[n]
    BY <1>4, <2>1, <2>2
  <2>5. \A i \in 1 .. n : (i <= n - 1 => i \in 1 .. n - 1 /\ i < k)
                          /\ (~ (i <= n - 1) => i = n)
    BY <1>7
  <2>6. \A i \in 1 .. n : z[i] = s[i]
    BY <1>3, <2>4, <2>5
  <2>7. z = [i \in 1 .. n |-> z[i]] /\ s = [i \in 1 .. n |-> s[i]]
    BY <2>3
  <2> QED BY <2>1, <2>6, <2>7
<1> QED BY <1>2, <1>5, <1>6, <1>7
(***************************************************************************)
(* An iterator over a list of n nodes s: it stands at a node of the list,  *)
(* its hint counts that node and those after it, and it gave none of them. *)
(***************************************************************************)
IterAt(s, n, on, node, hint, given) ==
  on /\ node # NULL =>
    \E p \in 1 .. n : /\ node = s[p] /\ hint = (n - p) + 1
                      /\ \A i \in p .. n : s[i] \notin given

\* It may stay when a node it gave is taken out.
LEMMA IterStays ==
  ASSUME NEW n \in Nat, NEW s, NEW k \in 1 .. n, NEW t, t = Without(s, n, k),
         NEW on, NEW node, NEW hint, NEW given,
         IterAt(s, n, on, node, hint, given), s[k] \in given
  PROVE  IterAt(t, n - 1, on, node, hint, given)
<1> SUFFICES ASSUME on /\ node # NULL
             PROVE  \E p \in 1 .. n - 1 : /\ node = t[p] /\ hint = ((n - 1) - p) + 1
                                          /\ \A i \in p .. n - 1 : t[i] \notin given
  BY DEF IterAt
<1>1. PICK p \in 1 .. n : /\ node = s[p] /\ hint = (n - p) + 1
                          /\ \A i \in p .. n : s[i] \notin given
  BY DEF IterAt
<1>2. \A i \in 1 .. n - 1 : t[i] = IF i < k THEN s[i] ELSE s[i + 1]
  BY DEF Without
<1>3. k < p
  BY <1>1
<1>4. /\ p - 1 \in 1 .. n - 1 /\ ~ (p - 1 < k) /\ (p - 1) + 1 = p
      /\ ((n - 1) - (p - 1)) + 1 = (n - p) + 1
  BY <1>3
<1>5. t[p - 1] = s[p]
  BY <1>2, <1>4
<1>6. \A i \in p - 1 .. n - 1 : i \in 1 .. n - 1 /\ ~ (i < k) /\ i + 1 \in p .. n
  BY <1>3
<1>7. \A i \in p - 1 .. n - 1 : t[i] \notin given
  BY <1>1, <1>2, <1>6
<1> QED BY <1>1, <1>4, <1>5, <1>7

\* What it stands at is the walk of what is left to give.
LEMMA IterWalks ==
  ASSUME NEW n \in Nat, NEW s \in [1 .. n -> Node], NEW link,
         Distinct(s, n), Ahead(s, n, link),
         NEW on, NEW node, NEW hint, NEW given,
         IterAt(s, n, on, node, hint, given), on /\ node # NULL
  PROVE  /\ \E i \in 1 .. n : node = s[i]
         /\ hint = Len(Walk(node, link))
         /\ \A j \in DOMAIN Walk(node, link) : Walk(node, link)[j] \notin given
<1>1. PICK p \in 1 .. n : /\ node = s[p] /\ hint = (n - p) + 1
                          /\ \A i \in p .. n : s[i] \notin given
  BY DEF IterAt
<1>2. PICK w : w = Walk(node, link)
  OBVIOUS
<1>3. w = [i \in 1 .. (n - p) + 1 |-> s[p + i - 1]]
  <2>1. Walk(s[p], link) = Rest(s, n, p)
    BY WalkMeets
  <2> QED BY <1>1, <1>2, <2>1 DEF Rest
<1>4. \A i \in 1 .. (n - p) + 1 : p + i - 1 \in p .. n /\ p + i - 1 \in 1 .. n
  OBVIOUS
<1>5. (n - p) + 1 \in Nat /\ w \in [1 .. (n - p) + 1 -> Node]
  BY <1>3, <1>4
<1>6. Len(w) = (n - p) + 1
  BY <1>5, IsSequence
<1>7. \A j \in DOMAIN w : w[j] \notin given
  BY <1>1, <1>3, <1>4
<1> QED BY <1>1, <1>2, <1>6, <1>7

\* And it moves on along the links.
LEMMA IterMoves ==
  ASSUME NEW n \in Nat, NEW s \in [1 .. n -> Node], NEW link,
         Distinct(s, n), Ahead(s, n, link),
         NEW node, NEW hint, NEW given, node # NULL,
         IterAt(s, n, TRUE, node, hint, given)
  PROVE  /\ IterAt(s, n, TRUE, link[node], IF hint > 0 THEN hint - 1 ELSE 0,
                   given \cup {node})
         /\ node \in Node /\ link[node] \in Node \cup {NULL} /\ hint \in Nat
<1>1. PICK p \in 1 .. n : /\ node = s[p] /\ hint = (n - p) + 1
                          /\ \A i \in p .. n : s[i] \notin given
  BY DEF IterAt
<1>2. link[node] = IF p = n THEN NULL ELSE s[p + 1]
  BY <1>1 DEF Ahead
<1>3. hint \in Nat /\ hint > 0 /\ hint - 1 = (n - (p + 1)) + 1
  BY <1>1
<1>4. ASSUME p # n
      PROVE  /\ p + 1 \in 1 .. n /\ link[node] = s[p + 1] /\ s[p + 1] \in Node
             /\ \A i \in p + 1 .. n : s[i] \notin given \cup {node}
  <2>1. p + 1 \in 1 .. n
    BY <1>4
  <2>2. \A i \in p + 1 .. n : i \in p .. n /\ i \in 1 .. n /\ i # p
    OBVIOUS
  <2>3. \A i \in p + 1 .. n : s[i] # s[p]
    BY <2>2 DEF Distinct
  <2> QED BY <1>1, <1>2, <1>4, <2>1, <2>2, <2>3
<1>5. CASE p = n
  BY <1>1, <1>2, <1>3, <1>5 DEF IterAt
<1>6. CASE p # n
  <2>1. IterAt(s, n, TRUE, link[node], IF hint > 0 THEN hint - 1 ELSE 0,
               given \cup {node})
    BY <1>3, <1>4, <1>6 DEF IterAt
  <2> QED BY <1>1, <1>3, <1>4, <1>6, <2>1
<1> QED BY <1>5, <1>6

(***************************************************************************)
(* The singly linked list.                                                 *)
(***************************************************************************)
Gave(given) == {given[i] : i \in DOMAIN given}

\* The fields of the list, of its nodes and of its iterator say s.
Shows(s) ==
  /\ Enumerates(s, list.size, linked)
  /\ Ahead(s, list.size, next)
  /\ list.head = IF list.size = 0 THEN NULL ELSE s[1]
  /\ list.tail = IF list.size = 0 THEN NULL ELSE s[list.size]
  /\ IterAt(s, list.size, iter.on, iter.node, iter.hint, Gave(iter.given))

IterTypeOK ==
  iter \in [on : BOOLEAN, node : Node \cup {NULL}, hint : Nat, given : Seq(Node)]

InvFor(s) ==
  /\ TypeOK /\ IterTypeOK /\ GivenBackClean
  /\ ~ exists => list.size = 0
  /\ Shows(s)

LEMMA NoIterIsFine ==
  /\ NoIter \in [on : BOOLEAN, node : Node \cup {NULL}, hint : Nat, given : Seq(Node)]
  /\ \A s, n : IterAt(s, n, NoIter.on, NoIter.node, NoIter.hint, Gave(NoIter.given))
  BY DEF NoIter, IterAt

\* Push and pushfront: n comes behind the k-th node.
LEMMA InsertionKeeps ==
  ASSUME NEW s, InvFor(s), NEW n \in Node, exists, n \notin linked,
         NEW k \in 0 .. list.size, NEW t, t = With(s, list.size, k, n),
         next' \in [Node -> Link],
         next'[n] = (IF k = list.size THEN NULL ELSE s[k + 1]),
         \A i \in 1 .. list.size : next'[s[i]] = IF i = k THEN n ELSE next[s[i]],
         \A m \in Node : m \notin linked /\ m # n => next'[m] = next[m],
         list' = [size |-> list.size + 1, head |-> t[1], tail |-> t[list.size + 1]],
         linked' = linked \cup {n}, iter' = NoIter, UNCHANGED <<exists, returned>>
  PROVE  InvFor(t)'
<1>1. PICK z \in Nat : z = list.size
  BY DEF InvFor, TypeOK
<1>2. /\ Enumerates(s, z, linked) /\ Ahead(s, z, next) /\ s \in [1 .. z -> Node]
      /\ exists \in BOOLEAN /\ linked \subseteq Node /\ returned \in Node \cup {NULL}
  BY <1>1 DEF InvFor, TypeOK, Shows, Enumerates
<1>3. Enumerates(t, z + 1, linked')
  BY <1>1, <1>2, WithEnumerates
<1>4. Ahead(t, z + 1, next')
  <2>1. /\ k \in 0 .. z /\ t = With(s, z, k, n)
        /\ next'[n] = (IF k = z THEN NULL ELSE s[k + 1])
        /\ \A i \in 1 .. z : next'[s[i]] = IF i = k THEN n ELSE next[s[i]]
    BY <1>1
  <2> QED BY <1>2, <2>1, WithLinks, ZenonT(20)
<1>5. t \in [1 .. z + 1 -> Node] /\ 1 \in 1 .. z + 1 /\ z + 1 \in 1 .. z + 1
  BY <1>3 DEF Enumerates
<1>6. list'.size = z + 1 /\ list'.head = t[1] /\ list'.tail = t[z + 1] /\ z + 1 # 0
  BY <1>1
<1>7. list' \in [size : Nat, head : Node \cup {NULL}, tail : Node \cup {NULL}]
  <2>1. z + 1 \in Nat /\ t[1] \in Node /\ t[z + 1] \in Node
    BY <1>5
  <2> QED BY <1>1, <2>1
<1>8. TypeOK' /\ IterTypeOK' /\ (~ exists => list.size = 0)'
  BY <1>2, <1>7, NoIterIsFine DEF TypeOK, IterTypeOK
<1>9. GivenBackClean'
  BY <1>2 DEF InvFor, GivenBackClean
<1>10. IterAt(t, list'.size, iter'.on, iter'.node, iter'.hint, Gave(iter'.given))
  BY NoIterIsFine
<1>11. Shows(t)'
  BY <1>3, <1>4, <1>6, <1>10 DEF Shows
<1> QED BY <1>8, <1>9, <1>11 DEF InvFor

\* popleft and remove_after: the k-th node goes.
LEMMA RemovalKeeps ==
  ASSUME NEW s, InvFor(s), exists, NEW k \in 1 .. list.size,
         NEW t, t = Without(s, list.size, k),
         next' \in [Node -> Link], next'[s[k]] = NULL,
         \A i \in 1 .. list.size : i # k =>
           next'[s[i]] = IF i = k - 1 THEN next[s[k]] ELSE next[s[i]],
         list' = [size |-> list.size - 1,
                  head |-> IF list.size = 1 THEN NULL ELSE t[1],
                  tail |-> IF list.size = 1 THEN NULL ELSE t[list.size - 1]],
         Unlinked(s[k])
  PROVE  InvFor(t)'
<1>1. PICK z \in Nat : z = list.size
  BY DEF InvFor, TypeOK
<1>2. /\ Enumerates(s, z, linked) /\ Ahead(s, z, next) /\ s \in [1 .. z -> Node]
      /\ exists \in BOOLEAN /\ linked \subseteq Node
  BY <1>1 DEF InvFor, TypeOK, Shows, Enumerates
<1>3. /\ linked' = linked \ {s[k]} /\ returned' = s[k] /\ exists' = exists
      /\ iter' = IterAfterRemoval(s[k]) /\ s[k] \in Node
  BY <1>1, <1>2 DEF Unlinked
<1>4. Enumerates(t, z - 1, linked')
  BY <1>1, <1>2, <1>3, WithoutEnumerates
<1>5. Ahead(t, z - 1, next')
  BY <1>1, <1>2, WithoutLinks
<1>6. t \in [1 .. z - 1 -> Node] /\ z - 1 \in Nat /\ (z = 1 <=> z - 1 = 0)
      /\ (z # 1 => 1 \in 1 .. z - 1 /\ z - 1 \in 1 .. z - 1)
  BY <1>1, <1>4 DEF Enumerates
<1>7. /\ list'.size = z - 1
      /\ list'.head = IF z - 1 = 0 THEN NULL ELSE t[1]
      /\ list'.tail = IF z - 1 = 0 THEN NULL ELSE t[z - 1]
  BY <1>1, <1>6
<1>8. list' \in [size : Nat, head : Node \cup {NULL}, tail : Node \cup {NULL}]
  <2>1. /\ (IF z = 1 THEN NULL ELSE t[1]) \in Node \cup {NULL}
        /\ (IF z = 1 THEN NULL ELSE t[z - 1]) \in Node \cup {NULL}
    BY <1>6
  <2> QED BY <1>1, <1>6, <2>1
<1>9. IterTypeOK'
  BY <1>3, NoIterIsFine DEF InvFor, IterTypeOK, IterAfterRemoval
<1>10. TypeOK' /\ (~ exists => list.size = 0)'
  BY <1>2, <1>3, <1>8 DEF TypeOK
<1>11. GivenBackClean'
  BY <1>3 DEF GivenBackClean
<1>12. IterAt(t, z - 1, iter'.on, iter'.node, iter'.hint, Gave(iter'.given))
  <2>1. CASE iter' = NoIter
    BY <2>1, NoIterIsFine
  <2>2. CASE iter' = iter /\ s[k] \in Gave(iter.given)
    <3>1. IterAt(s, z, iter.on, iter.node, iter.hint, Gave(iter.given))
      BY <1>1 DEF InvFor, Shows
    <3> QED BY <1>1, <2>2, <3>1, IterStays
  <2> QED BY <1>3, <2>1, <2>2 DEF IterAfterRemoval, Gave
<1>13. Shows(t)'
  BY <1>4, <1>5, <1>7, <1>12 DEF Shows
<1> QED BY <1>9, <1>10, <1>11, <1>13 DEF InvFor
\* What is known of a list that shows s, with its size named.
LEMMA Shown ==
  ASSUME NEW s, InvFor(s), NEW z, z = list.size
  PROVE  /\ z \in Nat /\ s \in [1 .. z -> Node] /\ Distinct(s, z)
         /\ \A i \in 1 .. z : s[i] \in linked
         /\ \A x \in linked : \E i \in 1 .. z : x = s[i]
         /\ \A i \in 1 .. z : next[s[i]] = IF i = z THEN NULL ELSE s[i + 1]
         /\ list.head = IF z = 0 THEN NULL ELSE s[1]
         /\ list.tail = IF z = 0 THEN NULL ELSE s[z]
         /\ next \in [Node -> Link] /\ linked \subseteq Node
         /\ NULL \in Link /\ Node \subseteq Link
BY DEF InvFor, TypeOK, Shows, Enumerates, Ahead, Link

LEMMA PushKeeps ==
  ASSUME NEW s, InvFor(s), NEW n \in Node, Push(n),
         NEW t, t = With(s, list.size, list.size, n)
  PROVE  InvFor(t)'
<1>1. PICK z : z = list.size
  OBVIOUS
<1>2. /\ z \in Nat /\ s \in [1 .. z -> Node] /\ Distinct(s, z)
      /\ \A i \in 1 .. z : s[i] \in linked
      /\ list.head = IF z = 0 THEN NULL ELSE s[1]
      /\ list.tail = IF z = 0 THEN NULL ELSE s[z]
      /\ next \in [Node -> Link] /\ linked \subseteq Node
      /\ NULL \in Link /\ Node \subseteq Link
  BY <1>1, Shown
<1>3. /\ exists /\ n \notin linked
      /\ next' = [m \in Node |-> CASE m = n -> NULL [] m = list.tail -> n
                                   [] OTHER -> next[m]]
      /\ list' = [size |-> z + 1,
                  head |-> IF list.tail = NULL THEN n ELSE list.head, tail |-> n]
      /\ linked' = linked \cup {n} /\ iter' = NoIter
      /\ UNCHANGED <<exists, returned>>
  BY <1>1 DEF Push
<1>4. /\ n # list.tail /\ (z # 0 => list.tail \in linked /\ list.tail # NULL)
  BY <1>2, <1>3, NodeAssumption
<1>5. next'[n] = NULL /\ \A m \in Node : m # n => next'[m] = IF m = list.tail THEN n
                                                           ELSE next[m]
  BY <1>3, <1>4
<1>6. next' \in [Node -> Link]
  BY <1>2, <1>3
<1>7. \A i \in 1 .. z : next'[s[i]] = IF i = z THEN n ELSE next[s[i]]
  <2>1. \A i \in 1 .. z : s[i] \in Node /\ s[i] # n /\ (s[i] = list.tail <=> i = z)
    BY <1>2, <1>3 DEF Distinct
  <2> QED BY <1>5, <2>1
<1>8. \A m \in Node : m \notin linked /\ m # n => next'[m] = next[m]
  <2>1. \A m \in Node : m \notin linked => m # list.tail
    BY <1>2, <1>4, NodeAssumption
  <2> QED BY <1>5, <2>1
<1>9. list' = [size |-> z + 1, head |-> t[1], tail |-> t[z + 1]]
  <2>1. t[z + 1] = n
    BY <1>1, <1>2 DEF With
  <2>2. t[1] = IF z = 0 THEN n ELSE s[1]
    BY <1>1, <1>2 DEF With
  <2>3. t[1] = IF list.tail = NULL THEN n ELSE list.head
    BY <1>2, <1>4, <2>2
  <2> QED BY <1>3, <2>1, <2>3
<1>10. z \in 0 .. z /\ t = With(s, z, z, n)
  BY <1>1, <1>2
<1> QED BY <1>1, <1>3, <1>5, <1>6, <1>7, <1>8, <1>9, <1>10, InsertionKeeps

LEMMA PushFrontKeeps ==
  ASSUME NEW s, InvFor(s), NEW n \in Node, PushFront(n),
         NEW t, t = With(s, list.size, 0, n)
  PROVE  InvFor(t)'
<1>1. PICK z : z = list.size
  OBVIOUS
<1>2. /\ z \in Nat /\ s \in [1 .. z -> Node] /\ Distinct(s, z)
      /\ \A i \in 1 .. z : s[i] \in linked
      /\ list.head = IF z = 0 THEN NULL ELSE s[1]
      /\ list.tail = IF z = 0 THEN NULL ELSE s[z]
      /\ next \in [Node -> Link]
      /\ NULL \in Link /\ Node \subseteq Link
  BY <1>1, Shown
<1>3. /\ exists /\ n \notin linked
      /\ next' = [next EXCEPT ![n] = list.head]
      /\ list' = [size |-> z + 1, head |-> n,
                  tail |-> IF list.tail = NULL THEN n ELSE list.tail]
      /\ linked' = linked \cup {n} /\ iter' = NoIter
      /\ UNCHANGED <<exists, returned>>
  BY <1>1 DEF PushFront
<1>4. next'[n] = list.head /\ \A m \in Node : m # n => next'[m] = next[m]
  BY <1>2, <1>3
<1>5. next' \in [Node -> Link]
  BY <1>2, <1>3
<1>6. next'[n] = IF 0 = z THEN NULL ELSE s[0 + 1]
  BY <1>2, <1>4
<1>7. \A i \in 1 .. z : next'[s[i]] = IF i = 0 THEN n ELSE next[s[i]]
  <2>1. \A i \in 1 .. z : s[i] \in Node /\ s[i] # n /\ i # 0
    BY <1>2, <1>3
  <2> QED BY <1>4, <2>1
<1>8. list' = [size |-> z + 1, head |-> t[1], tail |-> t[z + 1]]
  <2>1. t[1] = n
    BY <1>1, <1>2 DEF With
  <2>2. t[z + 1] = IF z = 0 THEN n ELSE s[z]
    BY <1>1, <1>2 DEF With
  <2>3. z # 0 => s[z] # NULL
    BY <1>2, NodeAssumption
  <2>4. t[z + 1] = IF list.tail = NULL THEN n ELSE list.tail
    BY <1>2, <2>2, <2>3
  <2> QED BY <1>3, <2>1, <2>4
<1>9. 0 \in 0 .. z /\ t = With(s, z, 0, n)
  BY <1>1, <1>2
<1> QED BY <1>1, <1>3, <1>4, <1>5, <1>6, <1>7, <1>8, <1>9, InsertionKeeps

LEMMA PopLeftKeeps ==
  ASSUME NEW s, InvFor(s), PopLeft, NEW t, t = Without(s, list.size, 1)
  PROVE  InvFor(t)' /\ 1 \in 1 .. list.size /\ returned' = s[1]
<1>1. PICK z : z = list.size
  OBVIOUS
<1>2. /\ z \in Nat /\ s \in [1 .. z -> Node] /\ Distinct(s, z)
      /\ \A i \in 1 .. z : s[i] \in linked
      /\ \A i \in 1 .. z : next[s[i]] = IF i = z THEN NULL ELSE s[i + 1]
      /\ list.head = IF z = 0 THEN NULL ELSE s[1]
      /\ list.tail = IF z = 0 THEN NULL ELSE s[z]
      /\ next \in [Node -> Link] /\ NULL \in Link
  BY <1>1, Shown
<1>3. /\ exists /\ list.head # NULL
      /\ list' = [size |-> z - 1, head |-> next[list.head],
                  tail |-> IF next[list.head] = NULL THEN NULL ELSE list.tail]
      /\ next' = [next EXCEPT ![list.head] = NULL]
      /\ Unlinked(list.head)
  BY <1>1 DEF PopLeft
<1>4. 1 \in 1 .. z /\ list.head = s[1] /\ list.tail = s[z] /\ s[1] \in Node
      /\ s[z] \in Node
  BY <1>2, <1>3
<1>5. next[list.head] = IF z = 1 THEN NULL ELSE s[2]
  BY <1>2, <1>4
<1>6. next'[s[1]] = NULL /\ next' \in [Node -> Link]
  BY <1>2, <1>3, <1>4
<1>7. \A i \in 1 .. z : i # 1 =>
        next'[s[i]] = IF i = 1 - 1 THEN next[s[1]] ELSE next[s[i]]
  <2>1. \A i \in 1 .. z : i # 1 => s[i] # s[1] /\ s[i] \in Node /\ i # 1 - 1
    BY <1>2, <1>4 DEF Distinct
  <2> QED BY <1>2, <1>3, <1>4, <2>1
<1>8. z # 1 => s[2] # NULL /\ t[1] = s[2] /\ t[z - 1] = s[z]
  <2>1. z # 1 => /\ 2 \in 1 .. z /\ 1 \in 1 .. z - 1 /\ z - 1 \in 1 .. z - 1
                 /\ ~ (z - 1 < 1) /\ (z - 1) + 1 = z /\ 1 + 1 = 2 /\ ~ (1 < 1)
    BY <1>2, <1>4
  <2>2. t = [i \in 1 .. z - 1 |-> IF i < 1 THEN s[i] ELSE s[i + 1]]
    BY <1>1 DEF Without
  <2> QED BY <1>2, <2>1, <2>2, NodeAssumption
<1>9. list' = [size |-> z - 1, head |-> IF z = 1 THEN NULL ELSE t[1],
               tail |-> IF z = 1 THEN NULL ELSE t[z - 1]]
  BY <1>3, <1>4, <1>5, <1>8
<1>10. InvFor(t)'
  BY <1>1, <1>3, <1>4, <1>6, <1>7, <1>9, RemovalKeeps
<1> QED BY <1>1, <1>3, <1>4, <1>10 DEF Unlinked

\* The node after prev, which is the k-th, goes.
LEMMA RemoveAfterKeeps ==
  ASSUME NEW s, InvFor(s), NEW prev \in Node, RemoveAfter(prev)
  PROVE  \E j \in 1 .. list.size : \E t :
           /\ j + 1 \in 1 .. list.size /\ s[j] = prev /\ returned' = s[j + 1]
           /\ t = Without(s, list.size, j + 1) /\ InvFor(t)'
<1>1. PICK z : z = list.size
  OBVIOUS
<1>2. /\ z \in Nat /\ s \in [1 .. z -> Node] /\ Distinct(s, z)
      /\ \A x \in linked : \E i \in 1 .. z : x = s[i]
      /\ \A i \in 1 .. z : next[s[i]] = IF i = z THEN NULL ELSE s[i + 1]
      /\ list.head = IF z = 0 THEN NULL ELSE s[1]
      /\ list.tail = IF z = 0 THEN NULL ELSE s[z]
      /\ next \in [Node -> Link] /\ NULL \in Link
  BY <1>1, Shown
<1>3. /\ exists /\ prev \in linked /\ next[prev] # NULL
      /\ list' = [size |-> z - 1, head |-> list.head,
                  tail |-> IF list.tail = next[prev] THEN prev ELSE list.tail]
      /\ next' = [m \in Node |-> CASE m = next[prev] -> NULL
                                   [] m = prev -> next[next[prev]]
                                   [] OTHER -> next[m]]
      /\ Unlinked(next[prev])
  BY <1>1 DEF RemoveAfter
<1>4. PICK j \in 1 .. z : prev = s[j]
  BY <1>2, <1>3
<1>5. j # z /\ next[prev] = s[j + 1]
  BY <1>2, <1>3, <1>4
<1>6. PICK k : k = j + 1
  OBVIOUS
<1>7. /\ k \in 1 .. z /\ k # j /\ j = k - 1 /\ k # 1 /\ z # 1 /\ z # 0
      /\ 1 \in 1 .. z - 1 /\ z - 1 \in 1 .. z - 1
  BY <1>2, <1>4, <1>5, <1>6
<1>8. s[k] # s[j] /\ s[k] \in Node /\ next[prev] = s[k]
  BY <1>2, <1>5, <1>6, <1>7 DEF Distinct
<1>9. /\ next'[s[k]] = NULL
      /\ \A m \in Node : m # s[k] => next'[m] = IF m = prev THEN next[s[k]] ELSE next[m]
  BY <1>3, <1>4, <1>8
<1>10. next' \in [Node -> Link]
  BY <1>2, <1>3, <1>8
<1>11. \A i \in 1 .. z : i # k =>
         next'[s[i]] = IF i = k - 1 THEN next[s[k]] ELSE next[s[i]]
  <2>1. \A i \in 1 .. z : i # k => s[i] # s[k] /\ s[i] \in Node /\ (s[i] = prev <=> i = j)
    BY <1>2, <1>4, <1>7 DEF Distinct
  <2> QED BY <1>7, <1>9, <2>1
<1>12. PICK t : t = Without(s, z, k)
  OBVIOUS
<1>13. t[1] = s[1] /\ t[z - 1] = IF k = z THEN prev ELSE s[z]
  <2>1. 1 < k /\ (z - 1 < k <=> k = z) /\ (z - 1) + 1 = z /\ (k = z => z - 1 = j)
    BY <1>2, <1>7
  <2> QED BY <1>4, <1>7, <1>12, <2>1 DEF Without
<1>14. list.tail = next[prev] <=> k = z
  BY <1>2, <1>7, <1>8 DEF Distinct
<1>15. list' = [size |-> z - 1, head |-> IF z = 1 THEN NULL ELSE t[1],
                tail |-> IF z = 1 THEN NULL ELSE t[z - 1]]
  <2>1. list.head = t[1] /\ list.tail = s[z]
    BY <1>2, <1>7, <1>13
  <2>2. t[z - 1] = IF list.tail = next[prev] THEN prev ELSE list.tail
    BY <1>13, <1>14, <2>1
  <2> QED BY <1>3, <1>7, <2>1, <2>2
<1>16. Unlinked(s[k])
  BY <1>3, <1>8
<1>17. InvFor(t)'
  BY <1>1, <1>3, <1>7, <1>9, <1>10, <1>11, <1>12, <1>15, <1>16, RemovalKeeps
<1>18. returned' = s[k]
  BY <1>16 DEF Unlinked
<1> QED BY <1>1, <1>4, <1>6, <1>7, <1>12, <1>17, <1>18
LEMMA InitShows == Init => InvFor(<< >>)
<1> SUFFICES ASSUME Init
             PROVE  InvFor(<< >>)
  OBVIOUS
<1>1. list = [size |-> 0, head |-> NULL, tail |-> NULL] /\ exists = FALSE /\ linked = {}
      /\ returned = NULL /\ iter = NoIter /\ next = [n \in Node |-> Garbage]
  BY DEF Init, EmptyList
<1>2. TypeOK
  BY <1>1 DEF TypeOK, Link
<1>3. IterTypeOK /\ GivenBackClean
  BY <1>1, NoIterIsFine, NodeAssumption DEF IterTypeOK, GivenBackClean
<1>4. Shows(<< >>)
  BY <1>1, NoIterIsFine DEF Shows, Enumerates, Distinct, Ahead
<1> QED BY <1>1, <1>2, <1>3, <1>4 DEF InvFor

LEMMA DestroyEmpties ==
  ASSUME NEW s, InvFor(s), Destroy
  PROVE  InvFor(<< >>)'
<1>1. list' = [size |-> 0, head |-> NULL, tail |-> NULL] /\ exists' = FALSE
      /\ linked' = {} /\ returned' = NULL /\ iter' = NoIter /\ next' = next
  BY DEF Destroy, EmptyList
<1>2. TypeOK'
  BY <1>1 DEF InvFor, TypeOK
<1>3. IterTypeOK' /\ GivenBackClean'
  BY <1>1, NoIterIsFine, NodeAssumption DEF IterTypeOK, GivenBackClean
<1>4. Shows(<< >>)'
  BY <1>1, NoIterIsFine DEF Shows, Enumerates, Distinct, Ahead
<1> QED BY <1>1, <1>2, <1>3, <1>4 DEF InvFor

\* The operations that leave the list as it is.
LEMMA OthersKeep ==
  ASSUME NEW s, InvFor(s), Create \/ NothingToRemove \/ GetIterator \/ IterNext
  PROVE  InvFor(s)'
<1>1. PICK z : z = list.size
  OBVIOUS
<1>2. /\ TypeOK /\ IterTypeOK /\ GivenBackClean /\ Shows(s) /\ z \in Nat
      /\ (~ exists => z = 0)
      /\ list.head = IF z = 0 THEN NULL ELSE s[1]
      /\ list.tail = IF z = 0 THEN NULL ELSE s[z]
      /\ list \in [size : Nat, head : Node \cup {NULL}, tail : Node \cup {NULL}]
      /\ s \in [1 .. z -> Node] /\ Distinct(s, z) /\ Ahead(s, z, next)
  BY <1>1 DEF InvFor, TypeOK, Shows, Enumerates
<1>3. CASE Create
  <2>1. list' = [size |-> 0, head |-> NULL, tail |-> NULL] /\ exists' = TRUE
        /\ UNCHANGED <<next, linked, returned, iter>> /\ z = 0
    BY <1>2, <1>3 DEF Create, EmptyList
  <2>2. list' = list
    BY <1>1, <1>2, <2>1
  <2> QED BY <1>2, <2>1, <2>2
          DEF InvFor, TypeOK, IterTypeOK, GivenBackClean, Shows
<1>4. CASE NothingToRemove
  <2>1. returned' = NULL /\ UNCHANGED <<exists, list, next, linked, iter>>
    BY <1>4 DEF NothingToRemove
  <2> QED BY <1>1, <1>2, <2>1, NodeAssumption
          DEF InvFor, TypeOK, IterTypeOK, GivenBackClean, Shows
<1>5. CASE GetIterator
  <2>1. /\ iter' = [on |-> TRUE, node |-> list.head, hint |-> z, given |-> << >>]
        /\ UNCHANGED <<exists, list, next, linked, returned>>
    BY <1>1, <1>5 DEF GetIterator
  <2>2. IterTypeOK'
    BY <1>1, <1>2, <2>1 DEF IterTypeOK
  <2>3. Gave(<< >>) = {}
    BY DEF Gave
  <2>4. IterAt(s, z, TRUE, list.head, z, {})
    <3>1. z # 0 => 1 \in 1 .. z /\ z = (z - 1) + 1 /\ list.head = s[1]
      BY <1>2
    <3> QED BY <1>2, <3>1 DEF IterAt
  <2>5. Shows(s)'
    BY <1>1, <1>2, <2>1, <2>3, <2>4 DEF Shows
  <2> QED BY <1>1, <1>2, <2>1, <2>2, <2>5 DEF InvFor, TypeOK, GivenBackClean
<1>6. CASE IterNext
  <2>1. /\ iter.on /\ iter.node # NULL
        /\ iter' = [on |-> TRUE, node |-> next[iter.node],
                    hint |-> IF iter.hint > 0 THEN iter.hint - 1 ELSE 0,
                    given |-> Append(iter.given, iter.node)]
        /\ UNCHANGED <<exists, list, next, linked, returned>>
    BY <1>6 DEF IterNext
  <2>2. IterAt(s, z, TRUE, iter.node, iter.hint, Gave(iter.given))
    BY <1>1, <1>2, <2>1 DEF Shows, IterAt
  <2>3. /\ IterAt(s, z, TRUE, next[iter.node], IF iter.hint > 0 THEN iter.hint - 1 ELSE 0,
                  Gave(iter.given) \cup {iter.node})
        /\ iter.node \in Node /\ next[iter.node] \in Node \cup {NULL} /\ iter.hint \in Nat
    <3>1. PICK node, hint, gave :
            node = iter.node /\ hint = iter.hint /\ gave = Gave(iter.given)
      OBVIOUS
    <3>2. IterAt(s, z, TRUE, node, hint, gave) /\ node # NULL
      BY <2>1, <2>2, <3>1
    <3>3. /\ IterAt(s, z, TRUE, next[node], IF hint > 0 THEN hint - 1 ELSE 0,
                    gave \cup {node})
          /\ node \in Node /\ next[node] \in Node \cup {NULL} /\ hint \in Nat
      BY <1>2, <3>2, IterMoves
    <3> QED BY <3>1, <3>3
  <2>4. iter.given \in Seq(Node)
    BY <1>2 DEF IterTypeOK
  <2>5. IterTypeOK'
    <3>1. Append(iter.given, iter.node) \in Seq(Node)
      BY <2>3, <2>4
    <3>2. (IF iter.hint > 0 THEN iter.hint - 1 ELSE 0) \in Nat
      BY <2>3
    <3> QED BY <2>1, <2>3, <3>1, <3>2 DEF IterTypeOK
  <2>6. Gave(Append(iter.given, iter.node)) = Gave(iter.given) \cup {iter.node}
    <3>1. PICK g : g = iter.given
      OBVIOUS
    <3>2. PICK h : h = Append(g, iter.node)
      OBVIOUS
    <3>3. /\ Len(g) \in Nat /\ DOMAIN g = 1 .. Len(g) /\ DOMAIN h = 1 .. Len(g) + 1
          /\ \A i \in 1 .. Len(g) : h[i] = g[i]
          /\ h[Len(g) + 1] = iter.node
      BY <2>3, <2>4, <3>1, <3>2
    <3>4. \A i \in 1 .. Len(g) + 1 : i \in 1 .. Len(g) \/ i = Len(g) + 1
      BY <3>3
    <3>5. \A i \in 1 .. Len(g) : i \in 1 .. Len(g) + 1
      BY <3>3
    <3>6. Len(g) + 1 \in 1 .. Len(g) + 1
      BY <3>3
    <3>7. \A x \in Gave(h) : x \in Gave(g) \cup {iter.node}
      BY <3>3, <3>4 DEF Gave
    <3>8. \A x \in Gave(g) : x \in Gave(h)
      BY <3>3, <3>5 DEF Gave
    <3>9. iter.node \in Gave(h)
      BY <3>3, <3>6 DEF Gave
    <3> QED BY <3>1, <3>2, <3>7, <3>8, <3>9
  <2>7. Shows(s)'
    BY <1>1, <1>2, <2>1, <2>3, <2>6 DEF Shows
  <2> QED BY <1>1, <1>2, <2>1, <2>5, <2>7 DEF InvFor, TypeOK, GivenBackClean
<1> QED BY <1>3, <1>4, <1>5, <1>6

LEMMA SinglyStep ==
  ASSUME NEW s, InvFor(s), [Next]_vars
  PROVE  \E t : InvFor(t)'
<1>1. ASSUME NEW n \in Node, Push(n)
      PROVE  \E t : InvFor(t)'
  BY <1>1, PushKeeps
<1>2. ASSUME NEW n \in Node, PushFront(n)
      PROVE  \E t : InvFor(t)'
  BY <1>2, PushFrontKeeps
<1>3. ASSUME NEW n \in Node, RemoveAfter(n)
      PROVE  \E t : InvFor(t)'
  BY <1>3, RemoveAfterKeeps
<1>4. CASE PopLeft
  BY <1>4, PopLeftKeeps
<1>5. CASE Destroy
  BY <1>5, DestroyEmpties
<1>6. CASE Create \/ NothingToRemove \/ GetIterator \/ IterNext
  BY <1>6, OthersKeep
<1>7. CASE UNCHANGED vars
  BY <1>7 DEF vars, InvFor, TypeOK, IterTypeOK, GivenBackClean, Shows
<1> QED BY <1>1, <1>2, <1>3, <1>4, <1>5, <1>6, <1>7 DEF Next

LEMMA ListWalk ==
  ASSUME NEW n \in Nat, NEW s, NEW S, Enumerates(s, n, S), NEW link, Ahead(s, n, link),
         NEW head, head = IF n = 0 THEN NULL ELSE s[1]
  PROVE  Walk(head, link) = s
<1>1. s \in [1 .. n -> Node] /\ Distinct(s, n)
  BY DEF Enumerates
<1>2. CASE n = 0
  <2>1. s = << >>
    BY <1>1, <1>2
  <2> QED BY <1>2, <2>1, NothingMet
<1>3. CASE n # 0
  <2>1. 1 \in 1 .. n /\ (n - 1) + 1 = n /\ \A i \in 1 .. n : 1 + i - 1 = i
    BY <1>3
  <2>2. Walk(s[1], link) = Rest(s, n, 1)
    BY <1>1, <2>1, WalkMeets
  <2>3. Rest(s, n, 1) = [i \in 1 .. n |-> s[i]]
    BY <2>1 DEF Rest
  <2>4. s = [i \in 1 .. n |-> s[i]]
    BY <1>1
  <2> QED BY <1>3, <2>2, <2>3, <2>4
<1> QED BY <1>2, <1>3

LEMMA SinglyImplies ==
  ASSUME NEW s, InvFor(s)
  PROVE  Consistent /\ IteratorIsExact
<1>1. PICK z : z = list.size
  OBVIOUS
<1>2. /\ z \in Nat /\ s \in [1 .. z -> Node] /\ Distinct(s, z)
      /\ \A i \in 1 .. z : s[i] \in linked
      /\ \A x \in linked : \E i \in 1 .. z : x = s[i]
      /\ \A i \in 1 .. z : next[s[i]] = IF i = z THEN NULL ELSE s[i + 1]
      /\ list.head = IF z = 0 THEN NULL ELSE s[1]
      /\ list.tail = IF z = 0 THEN NULL ELSE s[z]
  BY <1>1, Shown
<1>3. \A i \in 1 .. z - 1 : next[s[i]] = s[i + 1]
  <2>1. \A i \in 1 .. z - 1 : i \in 1 .. z /\ i # z
    BY <1>2
  <2> QED BY <1>2, <2>1
<1>4. z # 0 => list.head = s[1] /\ list.tail = s[z] /\ next[list.tail] = NULL
  <2>1. z # 0 => z \in 1 .. z
    BY <1>2
  <2> QED BY <1>2, <2>1
<1>5. Represents(s)
  BY <1>1, <1>2, <1>3, <1>4 DEF Represents, Distinct
<1>6. Consistent
  BY <1>1, <1>2, <1>5 DEF Consistent, WellLinked, InvFor
<1>7. ASSUME iter.on /\ iter.node # NULL
      PROVE  /\ iter.node \in linked
             /\ iter.hint = Len(Walk(iter.node, next))
             /\ \A i \in DOMAIN iter.given :
                  \A j \in DOMAIN Walk(iter.node, next) :
                    iter.given[i] # Walk(iter.node, next)[j]
  <2>1. Ahead(s, z, next) /\ IterAt(s, z, iter.on, iter.node, iter.hint, Gave(iter.given))
    BY <1>1 DEF InvFor, Shows
  <2>2. /\ \E i \in 1 .. z : iter.node = s[i]
        /\ iter.hint = Len(Walk(iter.node, next))
        /\ \A j \in DOMAIN Walk(iter.node, next) :
             Walk(iter.node, next)[j] \notin Gave(iter.given)
    BY <1>2, <1>7, <2>1, IterWalks, ZenonT(20)
  <2> QED BY <1>2, <2>2 DEF Gave
<1> QED BY <1>6, <1>7 DEF IteratorIsExact

\* In the singly linked list the links are one sequence of the nodes the caller
\* put in, what a removal gives back carries no link into it, and an iterator
\* stands before exactly the rest: k4c_linked_list_* for any number of nodes.
THEOREM SinglyConsistent == Spec => [](Consistent /\ IteratorIsExact)
<1>1. Init => \E s : InvFor(s)
  BY InitShows
<1>2. (\E s : InvFor(s)) /\ [Next]_vars => (\E s : InvFor(s))'
  BY SinglyStep
<1>3. (\E s : InvFor(s)) => Consistent /\ IteratorIsExact
  BY SinglyImplies
<1> QED BY <1>1, <1>2, <1>3, PTL DEF Spec
LEMMA ItemsAre ==
  ASSUME NEW s, InvFor(s)
  PROVE  Items = s
<1>1. PICK n : n = list.size
  OBVIOUS
<1>2. n \in Nat /\ Enumerates(s, n, linked) /\ Ahead(s, n, next)
      /\ list.head = IF n = 0 THEN NULL ELSE s[1]
  BY <1>1 DEF InvFor, TypeOK, Shows
<1> QED BY <1>2, ListWalk DEF Items

LEMMA ItemsBecome ==
  ASSUME NEW t, InvFor(t)'
  PROVE  Items' = t
<1>1. PICK n : n = list'.size
  OBVIOUS
<1>2. n \in Nat /\ Enumerates(t, n, linked') /\ Ahead(t, n, next')
      /\ list'.head = IF n = 0 THEN NULL ELSE t[1]
  BY <1>1 DEF InvFor, TypeOK, Shows
<1> QED BY <1>2, ListWalk DEF Items

LEMMA SinglySequence ==
  ASSUME NEW s, InvFor(s)
  PROVE  /\ \A n \in Node :
              /\ Push(n) => Items' = Append(Items, n)
              /\ PushFront(n) => Items' = <<n>> \o Items
              /\ RemoveAfter(n) =>
                   \E k \in DOMAIN Items :
                     /\ Items[k] = n /\ returned' = Items[k + 1]
                     /\ Items' = SubSeq(Items, 1, k) \o SubSeq(Items, k + 2, Len(Items))
         /\ PopLeft => returned' = Items[1] /\ Items' = Tail(Items)
<1>1. PICK z : z = list.size
  OBVIOUS
<1>2. z \in Nat /\ s \in [1 .. z -> Node] /\ Items = s
  BY <1>1, Shown, ItemsAre
<1>3. ASSUME NEW n \in Node, Push(n)
      PROVE  Items' = Append(Items, n)
  <2>1. PICK t : t = With(s, z, z, n)
    OBVIOUS
  <2>2. InvFor(t)'
    BY <1>1, <1>3, <2>1, PushKeeps
  <2>3. t = Append(s, n)
    BY <1>2, <2>1, WithAsSequence
  <2> QED BY <1>2, <2>2, <2>3, ItemsBecome
<1>4. ASSUME NEW n \in Node, PushFront(n)
      PROVE  Items' = <<n>> \o Items
  <2>1. PICK t : t = With(s, z, 0, n)
    OBVIOUS
  <2>2. InvFor(t)'
    BY <1>1, <1>4, <2>1, PushFrontKeeps
  <2>3. t = <<n>> \o s
    BY <1>2, <2>1, WithAsSequence
  <2> QED BY <1>2, <2>2, <2>3, ItemsBecome
<1>5. ASSUME NEW n \in Node, RemoveAfter(n)
      PROVE  \E k \in DOMAIN Items :
               /\ Items[k] = n /\ returned' = Items[k + 1]
               /\ Items' = SubSeq(Items, 1, k) \o SubSeq(Items, k + 2, Len(Items))
  <2>1. PICK k \in 1 .. z :
          /\ k + 1 \in 1 .. z /\ s[k] = n /\ returned' = s[k + 1]
          /\ InvFor(Without(s, z, k + 1))'
    BY <1>1, <1>5, RemoveAfterKeeps
  <2>6. PICK t : t = Without(s, z, k + 1)
    OBVIOUS
  <2>7. InvFor(t)'
    BY <2>1, <2>6
  <2>2. t = SubSeq(s, 1, (k + 1) - 1) \o SubSeq(s, (k + 1) + 1, Len(s))
    BY <1>2, <2>1, <2>6, WithoutAsSequence
  <2>3. (k + 1) - 1 = k /\ (k + 1) + 1 = k + 2
    OBVIOUS
  <2>4. t = SubSeq(s, 1, k) \o SubSeq(s, k + 2, Len(s))
    BY <2>2, <2>3
  <2>5. Items' = t /\ k \in DOMAIN s
    BY <1>2, <2>1, <2>7, ItemsBecome
  <2> QED BY <1>2, <2>1, <2>4, <2>5
<1>6. ASSUME PopLeft
      PROVE  returned' = Items[1] /\ Items' = Tail(Items)
  <2>1. PICK t : t = Without(s, z, 1)
    OBVIOUS
  <2>2. InvFor(t)' /\ 1 \in 1 .. z /\ returned' = s[1]
    BY <1>1, <1>6, <2>1, PopLeftKeeps
  <2>3. t = Tail(s)
    BY <1>2, <2>1, <2>2, WithoutAsSequence
  <2> QED BY <1>2, <2>2, <2>3, ItemsBecome
<1> QED BY <1>3, <1>4, <1>5, <1>6

\* The operations of the singly linked list are those of a sequence.
THEOREM SinglyIsASequence == Spec => SequenceSteps
<1>1. Init => \E s : InvFor(s)
  BY InitShows
<1>2. (\E s : InvFor(s)) /\ [Next]_vars => (\E s : InvFor(s))'
  BY SinglyStep
<1>3. (\E s : InvFor(s)) =>
        /\ \A n \in Node :
             /\ Push(n) => Items' = Append(Items, n)
             /\ PushFront(n) => Items' = <<n>> \o Items
             /\ RemoveAfter(n) =>
                  \E k \in DOMAIN Items :
                    /\ Items[k] = n /\ returned' = Items[k + 1]
                    /\ Items' = SubSeq(Items, 1, k) \o SubSeq(Items, k + 2, Len(Items))
        /\ PopLeft => returned' = Items[1] /\ Items' = Tail(Items)
  BY SinglySequence
<1> QED BY <1>1, <1>2, <1>3, PTL DEF Spec, SequenceSteps
(***************************************************************************)
(* The doubly linked list.  Its nodes are also linked behind.              *)
(***************************************************************************)
DoublyShows(s) ==
  /\ Enumerates(s, dList.size, dLinked)
  /\ Ahead(s, dList.size, dNext) /\ Behind(s, dList.size, dPrev)
  /\ dList.head = IF dList.size = 0 THEN NULL ELSE s[1]
  /\ dList.tail = IF dList.size = 0 THEN NULL ELSE s[dList.size]
  /\ IterAt(s, dList.size, dIter.on, dIter.node, dIter.hint, dIter.given)

DoublyIterTypeOK ==
  dIter \in [on : BOOLEAN, node : Node \cup {NULL}, hint : Nat, given : SUBSET Node]

DoublyInvFor(s) ==
  /\ Doubly!TypeOK /\ DoublyIterTypeOK /\ Doubly!GivenBackClean
  /\ ~ dExists => dList.size = 0
  /\ DoublyShows(s)

LEMMA DoublyNoIterIsFine ==
  /\ Doubly!NoIter
       \in [on : BOOLEAN, node : Node \cup {NULL}, hint : Nat, given : SUBSET Node]
  /\ \A s, n : IterAt(s, n, Doubly!NoIter.on, Doubly!NoIter.node, Doubly!NoIter.hint,
                      Doubly!NoIter.given)
  BY DEF Doubly!NoIter, IterAt

Links == Node \cup {NULL, Garbage}

LEMMA DoublyShown ==
  ASSUME NEW s, DoublyInvFor(s), NEW z, z = dList.size
  PROVE  /\ z \in Nat /\ s \in [1 .. z -> Node] /\ Distinct(s, z)
         /\ Enumerates(s, z, dLinked) /\ Ahead(s, z, dNext) /\ Behind(s, z, dPrev)
         /\ \A i \in 1 .. z : s[i] \in dLinked
         /\ \A x \in dLinked : \E i \in 1 .. z : x = s[i]
         /\ \A i \in 1 .. z : dNext[s[i]] = IF i = z THEN NULL ELSE s[i + 1]
         /\ \A i \in 1 .. z : dPrev[s[i]] = IF i = 1 THEN NULL ELSE s[i - 1]
         /\ dList.head = IF z = 0 THEN NULL ELSE s[1]
         /\ dList.tail = IF z = 0 THEN NULL ELSE s[z]
         /\ dNext \in [Node -> Links] /\ dPrev \in [Node -> Links]
         /\ dLinked \subseteq Node /\ dExists \in BOOLEAN
         /\ dReturned \in Node \cup {NULL}
BY DEF DoublyInvFor, Doubly!TypeOK, DoublyShows, Enumerates, Ahead, Behind, Links

\* push, pushfront and insert_after: n comes behind the k-th node.
LEMMA LinkedBetweenKeeps ==
  ASSUME NEW s, DoublyInvFor(s), NEW n \in Node, NEW k \in 0 .. dList.size,
         NEW before, before = IF k = 0 THEN NULL ELSE s[k],
         NEW after, after = IF k = dList.size THEN NULL ELSE s[k + 1],
         Doubly!LinkedBetween(before, n, after),
         NEW t, t = With(s, dList.size, k, n)
  PROVE  DoublyInvFor(t)'
<1>1. PICK z : z = dList.size
  OBVIOUS
<1>2. /\ z \in Nat /\ s \in [1 .. z -> Node] /\ Distinct(s, z)
      /\ Enumerates(s, z, dLinked) /\ Ahead(s, z, dNext) /\ Behind(s, z, dPrev)
      /\ \A i \in 1 .. z : s[i] \in dLinked
      /\ dList.head = IF z = 0 THEN NULL ELSE s[1]
      /\ dList.tail = IF z = 0 THEN NULL ELSE s[z]
      /\ dNext \in [Node -> Links] /\ dPrev \in [Node -> Links]
      /\ dLinked \subseteq Node /\ dExists \in BOOLEAN
      /\ dReturned \in Node \cup {NULL}
  BY <1>1, DoublyShown
<1>3. /\ dExists /\ n \notin dLinked
      /\ dNext' = [m \in Node |-> CASE m = n -> after [] m = before -> n
                                    [] OTHER -> dNext[m]]
      /\ dPrev' = [m \in Node |-> CASE m = n -> before [] m = after -> n
                                    [] OTHER -> dPrev[m]]
      /\ dList' = [size |-> z + 1,
                   head |-> IF before = NULL THEN n ELSE dList.head,
                   tail |-> IF after = NULL THEN n ELSE dList.tail]
      /\ dLinked' = dLinked \cup {n} /\ dIter' = Doubly!NoIter
      /\ UNCHANGED <<dExists, dReturned>>
  BY <1>1 DEF Doubly!LinkedBetween
<1>4. /\ k \in 0 .. z /\ t = With(s, z, k, n)
      /\ before = (IF k = 0 THEN NULL ELSE s[k])
      /\ after = (IF k = z THEN NULL ELSE s[k + 1])
      /\ (k # 0 => k \in 1 .. z) /\ (k # z => k + 1 \in 1 .. z)
  BY <1>1, <1>2
<1>5. /\ k # 0 => before \in dLinked /\ before # NULL
      /\ k # z => after \in dLinked /\ after # NULL
      /\ n # before /\ n # after
  BY <1>2, <1>3, <1>4, NodeAssumption
<1>6. /\ dNext'[n] = after /\ dPrev'[n] = before
      /\ \A m \in Node : m # n =>
           /\ dNext'[m] = IF m = before THEN n ELSE dNext[m]
           /\ dPrev'[m] = IF m = after THEN n ELSE dPrev[m]
  BY <1>3, <1>5
<1>7. dNext' \in [Node -> Links] /\ dPrev' \in [Node -> Links]
  <2>1. before \in Links /\ after \in Links /\ n \in Links
    BY <1>2, <1>4, <1>5 DEF Links
  <2> QED BY <1>2, <1>3, <2>1
<1>8. \A i \in 1 .. z :
        /\ s[i] \in Node /\ s[i] # n /\ s[i] # NULL
        /\ s[i] = before <=> i = k
        /\ s[i] = after <=> i = k + 1
  <2>1. \A i \in 1 .. z : s[i] \in Node /\ s[i] # n /\ s[i] # NULL
    BY <1>2, <1>3, NodeAssumption
  <2>2. \A i \in 1 .. z : s[i] = before <=> i = k
    BY <1>2, <1>4, <2>1 DEF Distinct
  <2>3. \A i \in 1 .. z : s[i] = after <=> i = k + 1
    <3>1. k = z => \A i \in 1 .. z : i # k + 1
      BY <1>4
    <3> QED BY <1>2, <1>4, <2>1, <3>1 DEF Distinct
  <2> QED BY <2>1, <2>2, <2>3
<1>9. Ahead(t, z + 1, dNext')
  <2>1. \A i \in 1 .. z : dNext'[s[i]] = IF i = k THEN n ELSE dNext[s[i]]
    BY <1>6, <1>8
  <2>2. dNext'[n] = (IF k = z THEN NULL ELSE s[k + 1])
    BY <1>4, <1>6
  <2>3. /\ z \in Nat /\ s \in [1 .. z -> Node] /\ k \in 0 .. z
        /\ t = With(s, z, k, n) /\ Ahead(s, z, dNext)
    BY <1>2, <1>4
  <2>4. PICK link, new : link = dNext /\ new = dNext'
    OBVIOUS
  <2>5. /\ Ahead(s, z, link) /\ new[n] = (IF k = z THEN NULL ELSE s[k + 1])
        /\ \A i \in 1 .. z : new[s[i]] = IF i = k THEN n ELSE link[s[i]]
    BY <2>1, <2>2, <2>3, <2>4
  <2>6. Ahead(t, z + 1, new)
    BY <2>3, <2>5, WithLinks
  <2> QED BY <2>4, <2>6
<1>10. Behind(t, z + 1, dPrev')
  <2>1. \A i \in 1 .. z : dPrev'[s[i]] = IF i = k + 1 THEN n ELSE dPrev[s[i]]
    BY <1>6, <1>8
  <2>2. dPrev'[n] = (IF k = 0 THEN NULL ELSE s[k])
    BY <1>4, <1>6
  <2>3. /\ z \in Nat /\ s \in [1 .. z -> Node] /\ k \in 0 .. z
        /\ t = With(s, z, k, n) /\ Behind(s, z, dPrev)
    BY <1>2, <1>4
  <2> QED BY <2>1, <2>2, <2>3, WithLinks
<1>11. Enumerates(t, z + 1, dLinked')
  BY <1>2, <1>3, <1>4, WithEnumerates
<1>12. /\ t[1] = (IF before = NULL THEN n ELSE dList.head)
       /\ t[z + 1] = (IF after = NULL THEN n ELSE dList.tail)
       /\ t[1] \in Node /\ t[z + 1] \in Node
  <2>1. t[1] = IF k = 0 THEN n ELSE s[1]
    <3>1. z \in Nat /\ k \in 0 .. z /\ t = With(s, z, k, n)
      BY <1>2, <1>4
    <3>2. t = [i \in 1 .. z + 1 |-> IF i <= k THEN s[i]
                                   ELSE IF i = k + 1 THEN n ELSE s[i - 1]]
      BY <3>1 DEF With
    <3>3. 1 \in 1 .. z + 1 /\ (k = 0 => ~ (1 <= k) /\ 1 = k + 1) /\ (k # 0 => 1 <= k)
      BY <3>1
    <3> QED BY <3>2, <3>3
  <2>2. t[z + 1] = IF k = z THEN n ELSE s[z]
    <3>1. z \in Nat /\ k \in 0 .. z /\ t = With(s, z, k, n)
      BY <1>2, <1>4
    <3>2. t = [i \in 1 .. z + 1 |-> IF i <= k THEN s[i]
                                   ELSE IF i = k + 1 THEN n ELSE s[i - 1]]
      BY <3>1 DEF With
    <3>3. /\ z + 1 \in 1 .. z + 1 /\ ~ (z + 1 <= k) /\ (z + 1) - 1 = z
          /\ z + 1 = k + 1 <=> k = z
      BY <3>1
    <3> QED BY <3>2, <3>3
  <2>3. (k # 0 => z # 0) /\ (k # z => z # 0)
    BY <1>2, <1>4
  <2>4. t[1] \in Node /\ t[z + 1] \in Node
    BY <1>2, <2>1, <2>2, <2>3
  <2> QED BY <1>2, <1>4, <1>5, <2>1, <2>2, <2>3, <2>4
<1>13. /\ dList'.size = z + 1 /\ z + 1 # 0 /\ z + 1 \in Nat
       /\ dList'.head = t[1] /\ dList'.tail = t[z + 1]
       /\ dList' = [size |-> z + 1, head |-> t[1], tail |-> t[z + 1]]
  BY <1>2, <1>3, <1>12
<1>14. dList' \in [size : Nat, head : Node \cup {NULL}, tail : Node \cup {NULL}]
  BY <1>12, <1>13
<1>15. Doubly!TypeOK' /\ DoublyIterTypeOK' /\ (~ dExists => dList.size = 0)'
  BY <1>2, <1>3, <1>7, <1>14, DoublyNoIterIsFine
     DEF Doubly!TypeOK, DoublyIterTypeOK, Links
<1>16. Doubly!GivenBackClean'
  <2>1. \A m \in Node : m \notin dLinked /\ m # n =>
          dNext'[m] = dNext[m] /\ dPrev'[m] = dPrev[m]
    <3>1. \A m \in Node : m \notin dLinked => m # before /\ m # after
      BY <1>4, <1>5, NodeAssumption
    <3> QED BY <1>6, <3>1
  <2> QED BY <1>3, <2>1 DEF DoublyInvFor, Doubly!GivenBackClean
<1>17. DoublyShows(t)'
  <2>1. IterAt(t, z + 1, dIter'.on, dIter'.node, dIter'.hint, dIter'.given)
    BY <1>3, DoublyNoIterIsFine
  <2> QED BY <1>9, <1>10, <1>11, <1>13, <2>1 DEF DoublyShows
<1> QED BY <1>15, <1>16, <1>17 DEF DoublyInvFor

\* remove, popleft and popback: the k-th node goes.
LEMMA DoublyRemovalKeeps ==
  ASSUME NEW s, DoublyInvFor(s), dExists, NEW k \in 1 .. dList.size,
         NEW t, t = Without(s, dList.size, k),
         dNext' \in [Node -> Links], dNext'[s[k]] = NULL,
         \A i \in 1 .. dList.size : i # k =>
           dNext'[s[i]] = IF i = k - 1 THEN dNext[s[k]] ELSE dNext[s[i]],
         dPrev' \in [Node -> Links], dPrev'[s[k]] = NULL,
         \A i \in 1 .. dList.size : i # k =>
           dPrev'[s[i]] = IF i = k + 1 THEN dPrev[s[k]] ELSE dPrev[s[i]],
         dList' = [size |-> dList.size - 1,
                   head |-> IF k = 1 THEN dNext[s[k]] ELSE dList.head,
                   tail |-> IF k = dList.size THEN dPrev[s[k]] ELSE dList.tail],
         dLinked' = dLinked \ {s[k]}, dReturned' = s[k],
         dIter' = Doubly!IterAfterRemoval(s[k]), UNCHANGED dExists
  PROVE  DoublyInvFor(t)'
<1>1. PICK z : z = dList.size
  OBVIOUS
<1>2. /\ z \in Nat /\ s \in [1 .. z -> Node] /\ k \in 1 .. z /\ t = Without(s, z, k)
      /\ Enumerates(s, z, dLinked) /\ Ahead(s, z, dNext) /\ Behind(s, z, dPrev)
      /\ \A i \in 1 .. z : dNext[s[i]] = IF i = z THEN NULL ELSE s[i + 1]
      /\ \A i \in 1 .. z : dPrev[s[i]] = IF i = 1 THEN NULL ELSE s[i - 1]
      /\ dList.head = IF z = 0 THEN NULL ELSE s[1]
      /\ dList.tail = IF z = 0 THEN NULL ELSE s[z]
      /\ dLinked \subseteq Node /\ dExists \in BOOLEAN
  BY <1>1, DoublyShown
<1>3. Enumerates(t, z - 1, dLinked')
  BY <1>2, WithoutEnumerates
<1>4. Ahead(t, z - 1, dNext')
  <2>1. \A i \in 1 .. z : i # k =>
          dNext'[s[i]] = IF i = k - 1 THEN dNext[s[k]] ELSE dNext[s[i]]
    BY <1>1
  <2> QED BY <1>2, <2>1, WithoutLinks
<1>5. Behind(t, z - 1, dPrev')
  <2>1. \A i \in 1 .. z : i # k =>
          dPrev'[s[i]] = IF i = k + 1 THEN dPrev[s[k]] ELSE dPrev[s[i]]
    BY <1>1
  <2> QED BY <1>2, <2>1, WithoutLinks
<1>6. t \in [1 .. z - 1 -> Node] /\ z - 1 \in Nat /\ s[k] \in Node
  BY <1>2, <1>3 DEF Enumerates
<1> DEFINE left(i) == IF i < k THEN s[i] ELSE s[i + 1]
<1>61. t = [i \in 1 .. z - 1 |-> left(i)]
  BY <1>2 DEF Without
<1> HIDE DEF left
<1>62. z \in Nat /\ k \in 1 .. z
  BY <1>2
<1>7. (IF k = 1 THEN dNext[s[k]] ELSE dList.head) = IF z - 1 = 0 THEN NULL ELSE t[1]
  <2>1. CASE k = 1
    <3>1. z - 1 # 0 => t[1] = s[2]
      <4>1. z - 1 # 0 => 1 \in 1 .. z - 1 /\ ~ (1 < k) /\ 1 + 1 = 2
        BY <1>62, <2>1
      <4> QED BY <1>61, <4>1 DEF left
    <3>2. dNext[s[1]] = IF 1 = z THEN NULL ELSE s[1 + 1]
      BY <1>2, <2>1
    <3>3. (1 = z <=> z - 1 = 0) /\ 1 + 1 = 2
      BY <1>2
    <3> QED BY <2>1, <3>1, <3>2, <3>3
  <2>2. CASE k # 1
    <3>1. z # 0 /\ z - 1 # 0 /\ 1 \in 1 .. z - 1 /\ 1 < k
      BY <1>2, <2>2
    <3>2. t[1] = s[1]
      BY <1>61, <3>1 DEF left
    <3> QED BY <1>2, <2>2, <3>1, <3>2
  <2> QED BY <2>1, <2>2
<1>8. (IF k = z THEN dPrev[s[k]] ELSE dList.tail) = IF z - 1 = 0 THEN NULL ELSE t[z - 1]
  <2>1. CASE k = z
    <3>1. z - 1 # 0 => z - 1 \in 1 .. z - 1 /\ z - 1 < k
      BY <1>2, <2>1
    <3>2. z - 1 # 0 => t[z - 1] = s[z - 1]
      BY <1>61, <3>1 DEF left
    <3>3. dPrev[s[z]] = IF z = 1 THEN NULL ELSE s[z - 1]
      BY <1>2, <2>1
    <3>4. z = 1 <=> z - 1 = 0
      BY <1>2
    <3> QED BY <2>1, <3>2, <3>3, <3>4
  <2>2. CASE k # z
    <3>1. z # 0 /\ z - 1 # 0 /\ z - 1 \in 1 .. z - 1 /\ ~ (z - 1 < k) /\ (z - 1) + 1 = z
      BY <1>2, <2>2
    <3>2. t[z - 1] = s[z]
      BY <1>61, <3>1 DEF left
    <3> QED BY <1>2, <2>2, <3>1, <3>2
  <2> QED BY <2>1, <2>2
<1>9. /\ dList' = [size |-> z - 1, head |-> IF z - 1 = 0 THEN NULL ELSE t[1],
                   tail |-> IF z - 1 = 0 THEN NULL ELSE t[z - 1]]
      /\ dList'.size = z - 1
      /\ dList'.head = IF z - 1 = 0 THEN NULL ELSE t[1]
      /\ dList'.tail = IF z - 1 = 0 THEN NULL ELSE t[z - 1]
  BY <1>1, <1>7, <1>8
<1>10. dList' \in [size : Nat, head : Node \cup {NULL}, tail : Node \cup {NULL}]
  <2>1. z - 1 # 0 => t[1] \in Node /\ t[z - 1] \in Node
    <3>1. z - 1 # 0 => 1 \in 1 .. z - 1 /\ z - 1 \in 1 .. z - 1
      BY <1>62
    <3> QED BY <1>6, <3>1
  <2>2. (IF z - 1 = 0 THEN NULL ELSE t[1]) \in Node \cup {NULL}
        /\ (IF z - 1 = 0 THEN NULL ELSE t[z - 1]) \in Node \cup {NULL}
    BY <2>1
  <2> QED BY <1>6, <1>9, <2>2
<1>11. Doubly!TypeOK' /\ (~ dExists => dList.size = 0)'
  BY <1>2, <1>6, <1>10 DEF Doubly!TypeOK, Links
<1>12. DoublyIterTypeOK' /\ Doubly!GivenBackClean'
  BY DoublyNoIterIsFine
     DEF DoublyInvFor, DoublyIterTypeOK, Doubly!IterAfterRemoval, Doubly!GivenBackClean
<1>13. IterAt(t, z - 1, dIter'.on, dIter'.node, dIter'.hint, dIter'.given)
  <2>1. CASE dIter' = Doubly!NoIter
    BY <2>1, DoublyNoIterIsFine
  <2>2. CASE dIter' = dIter /\ s[k] \in dIter.given
    <3>1. IterAt(s, z, dIter.on, dIter.node, dIter.hint, dIter.given)
      BY <1>1 DEF DoublyInvFor, DoublyShows
    <3> QED BY <1>2, <2>2, <3>1, IterStays
  <2> QED BY <2>1, <2>2 DEF Doubly!IterAfterRemoval
<1>14. DoublyShows(t)'
  BY <1>3, <1>4, <1>5, <1>9, <1>13 DEF DoublyShows
<1> QED BY <1>11, <1>12, <1>14 DEF DoublyInvFor
\* The operations that put a node in.
LEMMA DoublyInsertions ==
  ASSUME NEW s, DoublyInvFor(s), NEW n \in Node
  PROVE  /\ Doubly!Push(n) =>
              \A t : t = With(s, dList.size, dList.size, n) => DoublyInvFor(t)'
         /\ Doubly!PushFront(n) =>
              \A t : t = With(s, dList.size, 0, n) => DoublyInvFor(t)'
         /\ \A after \in Node : Doubly!InsertAfter(n, after) =>
              \E k \in 1 .. dList.size :
                /\ s[k] = after
                /\ \A t : t = With(s, dList.size, k, n) => DoublyInvFor(t)'
<1>1. PICK z : z = dList.size
  OBVIOUS
<1>2. /\ z \in Nat
      /\ \A x \in dLinked : \E i \in 1 .. z : x = s[i]
      /\ \A i \in 1 .. z : dNext[s[i]] = IF i = z THEN NULL ELSE s[i + 1]
      /\ dList.head = IF z = 0 THEN NULL ELSE s[1]
      /\ dList.tail = IF z = 0 THEN NULL ELSE s[z]
  BY <1>1, DoublyShown
<1>3. z \in 0 .. z /\ 0 \in 0 .. z /\ 0 + 1 = 1 /\ \A k \in 1 .. z : k \in 0 .. z /\ k # 0
  BY <1>2
<1>4. ASSUME Doubly!Push(n), NEW t, t = With(s, z, z, n)
      PROVE  DoublyInvFor(t)'
  <2>1. PICK before, after : before = dList.tail /\ after = NULL
    OBVIOUS
  <2>2. /\ before = (IF z = 0 THEN NULL ELSE s[z])
        /\ after = (IF z = dList.size THEN NULL ELSE s[z + 1])
        /\ z \in 0 .. dList.size /\ t = With(s, dList.size, z, n)
    BY <1>1, <1>2, <1>3, <1>4, <2>1
  <2>3. Doubly!LinkedBetween(before, n, after)
    BY <1>4, <2>1 DEF Doubly!Push
  <2> QED BY <2>2, <2>3, LinkedBetweenKeeps
<1>5. ASSUME Doubly!PushFront(n), NEW t, t = With(s, z, 0, n)
      PROVE  DoublyInvFor(t)'
  <2>1. PICK k, before, after : k = 0 /\ before = NULL /\ after = dList.head
    OBVIOUS
  <2>2. /\ before = (IF k = 0 THEN NULL ELSE s[k])
        /\ after = (IF k = dList.size THEN NULL ELSE s[k + 1])
        /\ k \in 0 .. dList.size /\ t = With(s, dList.size, k, n)
    BY <1>1, <1>2, <1>3, <1>5, <2>1
  <2>3. Doubly!LinkedBetween(before, n, after)
    BY <1>5, <2>1 DEF Doubly!PushFront
  <2> QED BY <2>2, <2>3, LinkedBetweenKeeps
<1>6. ASSUME NEW x \in Node, Doubly!InsertAfter(n, x)
      PROVE  \E k \in 1 .. z :
               s[k] = x /\ \A t : t = With(s, z, k, n) => DoublyInvFor(t)'
  <2>1. x \in dLinked /\ Doubly!LinkedBetween(x, n, dNext[x])
    BY <1>6 DEF Doubly!InsertAfter
  <2>2. PICK k \in 1 .. z : x = s[k]
    BY <1>2, <2>1
  <2>3. PICK after : after = dNext[x]
    OBVIOUS
  <2>4. /\ x = (IF k = 0 THEN NULL ELSE s[k])
        /\ after = (IF k = dList.size THEN NULL ELSE s[k + 1])
        /\ k \in 0 .. dList.size
    BY <1>1, <1>2, <1>3, <2>2, <2>3
  <2>5. ASSUME NEW t, t = With(s, z, k, n)
        PROVE  DoublyInvFor(t)'
    <3>1. t = With(s, dList.size, k, n) /\ Doubly!LinkedBetween(x, n, after)
      BY <1>1, <2>1, <2>3, <2>5
    <3> QED BY <2>4, <3>1, LinkedBetweenKeeps
  <2> QED BY <2>2, <2>5
<1> QED BY <1>1, <1>4, <1>5, <1>6

LEMMA RemoveKeeps ==
  ASSUME NEW s, DoublyInvFor(s), NEW n \in Node, Doubly!Remove(n)
  PROVE  \E k \in 1 .. dList.size :
           s[k] = n /\ \A t : t = Without(s, dList.size, k) => DoublyInvFor(t)'
<1>1. PICK z : z = dList.size
  OBVIOUS
<1>2. /\ z \in Nat /\ s \in [1 .. z -> Node] /\ Distinct(s, z)
      /\ \A x \in dLinked : \E i \in 1 .. z : x = s[i]
      /\ \A i \in 1 .. z : dNext[s[i]] = IF i = z THEN NULL ELSE s[i + 1]
      /\ \A i \in 1 .. z : dPrev[s[i]] = IF i = 1 THEN NULL ELSE s[i - 1]
      /\ dNext \in [Node -> Links] /\ dPrev \in [Node -> Links]
  BY <1>1, DoublyShown
<1>3. /\ dExists /\ n \in dLinked
      /\ dNext' = [m \in Node |-> CASE m = n -> NULL [] m = dPrev[n] -> dNext[n]
                                    [] OTHER -> dNext[m]]
      /\ dPrev' = [m \in Node |-> CASE m = n -> NULL [] m = dNext[n] -> dPrev[n]
                                    [] OTHER -> dPrev[m]]
      /\ dList' = [size |-> z - 1,
                   head |-> IF dPrev[n] = NULL THEN dNext[n] ELSE dList.head,
                   tail |-> IF dNext[n] = NULL THEN dPrev[n] ELSE dList.tail]
      /\ dLinked' = dLinked \ {n} /\ dReturned' = n
      /\ dIter' = Doubly!IterAfterRemoval(n) /\ UNCHANGED dExists
  BY <1>1 DEF Doubly!Remove
<1>4. PICK k \in 1 .. z : n = s[k]
  BY <1>2, <1>3
<1>5. PICK p, q : p = dPrev[n] /\ q = dNext[n]
  OBVIOUS
<1>6. p = (IF k = 1 THEN NULL ELSE s[k - 1]) /\ q = (IF k = z THEN NULL ELSE s[k + 1])
  BY <1>2, <1>4, <1>5
<1>7. (k # 1 => k - 1 \in 1 .. z) /\ (k # z => k + 1 \in 1 .. z)
      /\ k - 1 # k /\ k + 1 # k
  BY <1>2
<1>8. /\ k # 1 => p \in Node /\ p # NULL /\ p # n
      /\ k # z => q \in Node /\ q # NULL /\ q # n
      /\ NULL # n /\ NULL \notin Node
  BY <1>2, <1>4, <1>6, <1>7, NodeAssumption DEF Distinct
<1>9. (p = NULL <=> k = 1) /\ (q = NULL <=> k = z) /\ p # n /\ q # n
      /\ p \in Links /\ q \in Links
  BY <1>6, <1>8 DEF Links
<1>10. /\ dNext'[n] = NULL /\ dPrev'[n] = NULL
       /\ \A m \in Node : m # n => /\ dNext'[m] = IF m = p THEN q ELSE dNext[m]
                                   /\ dPrev'[m] = IF m = q THEN p ELSE dPrev[m]
  BY <1>3, <1>5, <1>9
<1>11. dNext' \in [Node -> Links] /\ dPrev' \in [Node -> Links]
  <2>1. NULL \in Links
    BY DEF Links
  <2> QED BY <1>2, <1>3, <1>5, <1>9, <2>1
<1>12. \A i \in 1 .. z : i # k =>
         /\ s[i] \in Node /\ s[i] # n
         /\ s[i] = p <=> i = k - 1
         /\ s[i] = q <=> i = k + 1
  <2>1. \A i \in 1 .. z : i # k => s[i] \in Node /\ s[i] # n /\ s[i] # NULL
    BY <1>2, <1>4, NodeAssumption DEF Distinct
  <2>2. \A i \in 1 .. z : i # k => (s[i] = p <=> i = k - 1)
    <3>1. k = 1 => \A i \in 1 .. z : i # k - 1
      OBVIOUS
    <3> QED BY <1>2, <1>6, <1>7, <2>1, <3>1 DEF Distinct
  <2>3. \A i \in 1 .. z : i # k => (s[i] = q <=> i = k + 1)
    <3>1. k = z => \A i \in 1 .. z : i # k + 1
      BY <1>2
    <3> QED BY <1>2, <1>6, <1>7, <2>1, <3>1 DEF Distinct
  <2> QED BY <2>1, <2>2, <2>3
<1>13. /\ \A i \in 1 .. z : i # k =>
            dNext'[s[i]] = IF i = k - 1 THEN dNext[s[k]] ELSE dNext[s[i]]
       /\ \A i \in 1 .. z : i # k =>
            dPrev'[s[i]] = IF i = k + 1 THEN dPrev[s[k]] ELSE dPrev[s[i]]
  BY <1>4, <1>5, <1>10, <1>12
<1>14. dList' = [size |-> z - 1,
                 head |-> IF k = 1 THEN dNext[s[k]] ELSE dList.head,
                 tail |-> IF k = z THEN dPrev[s[k]] ELSE dList.tail]
  BY <1>3, <1>4, <1>5, <1>9
<1>15. ASSUME NEW t, t = Without(s, z, k)
       PROVE  DoublyInvFor(t)'
  BY <1>1, <1>3, <1>4, <1>10, <1>11, <1>13, <1>14, <1>15, DoublyRemovalKeeps
<1> QED BY <1>1, <1>4, <1>15

LEMMA DoublyPopLeftKeeps ==
  ASSUME NEW s, DoublyInvFor(s), Doubly!PopLeft
  PROVE  /\ 1 \in 1 .. dList.size /\ dReturned' = s[1]
         /\ \A t : t = Without(s, dList.size, 1) => DoublyInvFor(t)'
<1>1. PICK z : z = dList.size
  OBVIOUS
<1>2. /\ z \in Nat /\ s \in [1 .. z -> Node] /\ Distinct(s, z)
      /\ \A i \in 1 .. z : dNext[s[i]] = IF i = z THEN NULL ELSE s[i + 1]
      /\ \A i \in 1 .. z : dPrev[s[i]] = IF i = 1 THEN NULL ELSE s[i - 1]
      /\ dList.head = IF z = 0 THEN NULL ELSE s[1]
      /\ dNext \in [Node -> Links] /\ dPrev \in [Node -> Links]
  BY <1>1, DoublyShown
<1>3. PICK n : n = dList.head
  OBVIOUS
<1>4. /\ dExists /\ n # NULL
      /\ dNext' = [dNext EXCEPT ![n] = NULL]
      /\ dPrev' = [m \in Node |-> IF m \in {n, dNext[n]} THEN NULL ELSE dPrev[m]]
      /\ dList' = [size |-> z - 1, head |-> dNext[n],
                   tail |-> IF dNext[n] = NULL THEN NULL ELSE dList.tail]
      /\ dLinked' = dLinked \ {n} /\ dReturned' = n
      /\ dIter' = Doubly!IterAfterRemoval(n) /\ UNCHANGED dExists
  BY <1>1, <1>3 DEF Doubly!PopLeft
<1>5. /\ 1 \in 1 .. z /\ n = s[1] /\ n \in Node /\ 1 + 1 = 2 /\ 1 - 1 = 0
      /\ (1 # z => 2 \in 1 .. z)
  BY <1>2, <1>3, <1>4
<1>6. PICK q : q = dNext[n]
  OBVIOUS
<1>7. q = (IF 1 = z THEN NULL ELSE s[2]) /\ dPrev[n] = NULL /\ (q = NULL <=> 1 = z)
  BY <1>2, <1>5, <1>6, NodeAssumption
<1>8. /\ dNext' \in [Node -> Links] /\ dPrev' \in [Node -> Links]
      /\ dNext'[s[1]] = NULL /\ dPrev'[s[1]] = NULL
  <2>1. NULL \in Links
    BY DEF Links
  <2> QED BY <1>2, <1>4, <1>5, <2>1
<1>9. \A i \in 1 .. z : i # 1 =>
        /\ s[i] \in Node /\ s[i] # n /\ i # 0
        /\ s[i] = q <=> i = 2
  BY <1>2, <1>5, <1>7, NodeAssumption DEF Distinct
<1>10. PICK k : k = 1
  OBVIOUS
<1>11. /\ \A i \in 1 .. z : i # k =>
            dNext'[s[i]] = IF i = k - 1 THEN dNext[s[k]] ELSE dNext[s[i]]
       /\ \A i \in 1 .. z : i # k =>
            dPrev'[s[i]] = IF i = k + 1 THEN dPrev[s[k]] ELSE dPrev[s[i]]
  BY <1>2, <1>4, <1>5, <1>6, <1>7, <1>9, <1>10
<1>12. dList' = [size |-> z - 1,
                 head |-> IF k = 1 THEN dNext[s[k]] ELSE dList.head,
                 tail |-> IF k = z THEN dPrev[s[k]] ELSE dList.tail]
  BY <1>4, <1>5, <1>6, <1>7, <1>10
<1>13. ASSUME NEW t, t = Without(s, z, k)
       PROVE  DoublyInvFor(t)'
  <2>1. /\ k \in 1 .. z /\ dNext'[s[k]] = NULL /\ dPrev'[s[k]] = NULL
        /\ dLinked' = dLinked \ {s[k]} /\ dReturned' = s[k]
        /\ dIter' = Doubly!IterAfterRemoval(s[k])
    BY <1>4, <1>5, <1>8, <1>10
  <2>2. /\ \A i \in 1 .. dList.size : i # k =>
             dNext'[s[i]] = IF i = k - 1 THEN dNext[s[k]] ELSE dNext[s[i]]
        /\ \A i \in 1 .. dList.size : i # k =>
             dPrev'[s[i]] = IF i = k + 1 THEN dPrev[s[k]] ELSE dPrev[s[i]]
    BY <1>1, <1>11
  <2>3. /\ dExists /\ UNCHANGED dExists /\ k \in 1 .. dList.size
        /\ t = Without(s, dList.size, k)
        /\ dList' = [size |-> dList.size - 1,
                     head |-> IF k = 1 THEN dNext[s[k]] ELSE dList.head,
                     tail |-> IF k = dList.size THEN dPrev[s[k]] ELSE dList.tail]
    BY <1>1, <1>4, <1>12, <1>13, <2>1
  <2> QED BY <1>8, <2>1, <2>2, <2>3, DoublyRemovalKeeps
<1> QED BY <1>1, <1>4, <1>5, <1>10, <1>13

LEMMA DoublyPopBackKeeps ==
  ASSUME NEW s, DoublyInvFor(s), Doubly!PopBack
  PROVE  /\ dList.size \in 1 .. dList.size /\ dReturned' = s[dList.size]
         /\ \A t : t = Without(s, dList.size, dList.size) => DoublyInvFor(t)'
<1>1. PICK z : z = dList.size
  OBVIOUS
<1>2. /\ z \in Nat /\ s \in [1 .. z -> Node] /\ Distinct(s, z)
      /\ \A i \in 1 .. z : dNext[s[i]] = IF i = z THEN NULL ELSE s[i + 1]
      /\ \A i \in 1 .. z : dPrev[s[i]] = IF i = 1 THEN NULL ELSE s[i - 1]
      /\ dList.tail = IF z = 0 THEN NULL ELSE s[z]
      /\ dNext \in [Node -> Links] /\ dPrev \in [Node -> Links]
  BY <1>1, DoublyShown
<1>3. PICK n : n = dList.tail
  OBVIOUS
<1>4. /\ dExists /\ n # NULL
      /\ dPrev' = [dPrev EXCEPT ![n] = NULL]
      /\ dNext' = [m \in Node |-> IF m \in {n, dPrev[n]} THEN NULL ELSE dNext[m]]
      /\ dList' = [size |-> z - 1, tail |-> dPrev[n],
                   head |-> IF dPrev[n] = NULL THEN NULL ELSE dList.head]
      /\ dLinked' = dLinked \ {n} /\ dReturned' = n
      /\ dIter' = Doubly!IterAfterRemoval(n) /\ UNCHANGED dExists
  BY <1>1, <1>3 DEF Doubly!PopBack
<1>5. /\ z \in 1 .. z /\ n = s[z] /\ n \in Node /\ (1 # z => z - 1 \in 1 .. z)
      /\ \A i \in 1 .. z : i # z + 1
  BY <1>2, <1>3, <1>4
<1>6. PICK p : p = dPrev[n]
  OBVIOUS
<1>7. p = (IF z = 1 THEN NULL ELSE s[z - 1]) /\ dNext[n] = NULL /\ (p = NULL <=> z = 1)
  BY <1>2, <1>5, <1>6, NodeAssumption
<1>8. /\ dNext' \in [Node -> Links] /\ dPrev' \in [Node -> Links]
      /\ dNext'[s[z]] = NULL /\ dPrev'[s[z]] = NULL
  <2>1. NULL \in Links
    BY DEF Links
  <2> QED BY <1>2, <1>4, <1>5, <2>1
<1>9. \A i \in 1 .. z : i # z =>
        /\ s[i] \in Node /\ s[i] # n
        /\ s[i] = p <=> i = z - 1
  <2>1. \A i \in 1 .. z : i # z => s[i] \in Node /\ s[i] # n /\ s[i] # NULL
    BY <1>2, <1>5, NodeAssumption DEF Distinct
  <2>2. z = 1 => \A i \in 1 .. z : i = z
    BY <1>2
  <2> QED BY <1>2, <1>5, <1>7, <2>1, <2>2 DEF Distinct
<1>10. /\ \A i \in 1 .. z : i # z =>
            dNext'[s[i]] = IF i = z - 1 THEN dNext[s[z]] ELSE dNext[s[i]]
       /\ \A i \in 1 .. z : i # z =>
            dPrev'[s[i]] = IF i = z + 1 THEN dPrev[s[z]] ELSE dPrev[s[i]]
  BY <1>2, <1>4, <1>5, <1>6, <1>7, <1>9
<1>11. dList' = [size |-> z - 1,
                 head |-> IF z = 1 THEN dNext[s[z]] ELSE dList.head,
                 tail |-> IF z = z THEN dPrev[s[z]] ELSE dList.tail]
  BY <1>4, <1>5, <1>6, <1>7
<1>12. ASSUME NEW t, t = Without(s, z, z)
       PROVE  DoublyInvFor(t)'
  <2>1. /\ dLinked' = dLinked \ {s[z]} /\ dReturned' = s[z]
        /\ dIter' = Doubly!IterAfterRemoval(s[z])
    BY <1>4, <1>5
  <2>2. /\ \A i \in 1 .. dList.size : i # z =>
             dNext'[s[i]] = IF i = z - 1 THEN dNext[s[z]] ELSE dNext[s[i]]
        /\ \A i \in 1 .. dList.size : i # z =>
             dPrev'[s[i]] = IF i = z + 1 THEN dPrev[s[z]] ELSE dPrev[s[i]]
    BY <1>1, <1>10
  <2>3. /\ dExists /\ UNCHANGED dExists /\ z \in 1 .. dList.size
        /\ t = Without(s, dList.size, z)
        /\ dList' = [size |-> dList.size - 1,
                     head |-> IF z = 1 THEN dNext[s[z]] ELSE dList.head,
                     tail |-> IF z = dList.size THEN dPrev[s[z]] ELSE dList.tail]
    BY <1>1, <1>4, <1>5, <1>11, <1>12
  <2> QED BY <1>8, <2>1, <2>2, <2>3, DoublyRemovalKeeps
<1> QED BY <1>1, <1>4, <1>5, <1>12

LEMMA DoublyInitShows == Doubly!Init => DoublyInvFor(<< >>)
<1> SUFFICES ASSUME Doubly!Init
             PROVE  DoublyInvFor(<< >>)
  OBVIOUS
<1>1. /\ dList = [size |-> 0, head |-> NULL, tail |-> NULL] /\ dExists = FALSE
      /\ dLinked = {} /\ dReturned = NULL /\ dIter = Doubly!NoIter
      /\ dNext = [n \in Node |-> Garbage] /\ dPrev = [n \in Node |-> Garbage]
  BY DEF Doubly!Init, Doubly!EmptyList
<1>2. Doubly!TypeOK
  BY <1>1 DEF Doubly!TypeOK
<1>3. DoublyIterTypeOK /\ Doubly!GivenBackClean
  BY <1>1, DoublyNoIterIsFine, NodeAssumption DEF DoublyIterTypeOK, Doubly!GivenBackClean
<1>4. DoublyShows(<< >>)
  BY <1>1, DoublyNoIterIsFine DEF DoublyShows, Enumerates, Distinct, Ahead, Behind
<1> QED BY <1>1, <1>2, <1>3, <1>4 DEF DoublyInvFor

LEMMA DoublyDestroyEmpties ==
  ASSUME NEW s, DoublyInvFor(s), Doubly!Destroy
  PROVE  DoublyInvFor(<< >>)'
<1>1. /\ dList' = [size |-> 0, head |-> NULL, tail |-> NULL] /\ dExists' = FALSE
      /\ dLinked' = {} /\ dReturned' = NULL /\ dIter' = Doubly!NoIter
      /\ dNext' = dNext /\ dPrev' = dPrev
  BY DEF Doubly!Destroy, Doubly!EmptyList
<1>2. Doubly!TypeOK'
  BY <1>1 DEF DoublyInvFor, Doubly!TypeOK
<1>3. DoublyIterTypeOK' /\ Doubly!GivenBackClean'
  BY <1>1, DoublyNoIterIsFine, NodeAssumption DEF DoublyIterTypeOK, Doubly!GivenBackClean
<1>4. DoublyShows(<< >>)'
  BY <1>1, DoublyNoIterIsFine DEF DoublyShows, Enumerates, Distinct, Ahead, Behind
<1> QED BY <1>1, <1>2, <1>3, <1>4 DEF DoublyInvFor

\* The operations that leave the list as it is.
LEMMA DoublyOthersKeep ==
  ASSUME NEW s, DoublyInvFor(s),
         Doubly!Create \/ Doubly!PopNothing \/ Doubly!GetIterator \/ Doubly!IterNext
  PROVE  DoublyInvFor(s)'
<1>1. PICK z : z = dList.size
  OBVIOUS
<1>2. /\ Doubly!TypeOK /\ DoublyIterTypeOK /\ Doubly!GivenBackClean /\ DoublyShows(s)
      /\ z \in Nat /\ (~ dExists => z = 0)
      /\ dList.head = IF z = 0 THEN NULL ELSE s[1]
      /\ dList.tail = IF z = 0 THEN NULL ELSE s[z]
      /\ dList \in [size : Nat, head : Node \cup {NULL}, tail : Node \cup {NULL}]
      /\ s \in [1 .. z -> Node] /\ Distinct(s, z) /\ Ahead(s, z, dNext)
  BY <1>1 DEF DoublyInvFor, Doubly!TypeOK, DoublyShows, Enumerates
<1>3. CASE Doubly!Create
  <2>1. dList' = [size |-> 0, head |-> NULL, tail |-> NULL] /\ dExists' = TRUE
        /\ UNCHANGED <<dNext, dPrev, dLinked, dReturned, dIter>> /\ z = 0
    BY <1>2, <1>3 DEF Doubly!Create, Doubly!EmptyList
  <2>2. dList' = dList
    BY <1>1, <1>2, <2>1
  <2> QED BY <1>2, <2>1, <2>2
          DEF DoublyInvFor, Doubly!TypeOK, DoublyIterTypeOK, Doubly!GivenBackClean, DoublyShows
<1>4. CASE Doubly!PopNothing
  <2>1. dReturned' = NULL /\ UNCHANGED <<dExists, dList, dNext, dPrev, dLinked, dIter>>
    BY <1>4 DEF Doubly!PopNothing
  <2> QED BY <1>1, <1>2, <2>1, NodeAssumption
          DEF DoublyInvFor, Doubly!TypeOK, DoublyIterTypeOK, Doubly!GivenBackClean, DoublyShows
<1>5. CASE Doubly!GetIterator
  <2>1. /\ dIter' = [on |-> TRUE, node |-> dList.head, hint |-> z, given |-> {}]
        /\ UNCHANGED <<dExists, dList, dNext, dPrev, dLinked, dReturned>>
    BY <1>1, <1>5 DEF Doubly!GetIterator
  <2>2. DoublyIterTypeOK'
    BY <1>1, <1>2, <2>1 DEF DoublyIterTypeOK
  <2>3. IterAt(s, z, TRUE, dList.head, z, {})
    <3>1. z # 0 => 1 \in 1 .. z /\ z = (z - 1) + 1 /\ dList.head = s[1]
      BY <1>2
    <3> QED BY <1>2, <3>1 DEF IterAt
  <2>4. DoublyShows(s)'
    BY <1>1, <1>2, <2>1, <2>3 DEF DoublyShows
  <2> QED BY <1>1, <1>2, <2>1, <2>2, <2>4
          DEF DoublyInvFor, Doubly!TypeOK, Doubly!GivenBackClean
<1>6. CASE Doubly!IterNext
  <2>1. /\ dIter.on /\ dIter.node # NULL
        /\ dIter' = [on |-> TRUE, node |-> dNext[dIter.node],
                     hint |-> IF dIter.hint > 0 THEN dIter.hint - 1 ELSE 0,
                     given |-> dIter.given \cup {dIter.node}]
        /\ UNCHANGED <<dExists, dList, dNext, dPrev, dLinked, dReturned>>
    BY <1>6 DEF Doubly!IterNext
  <2>2. PICK node, hint, gave :
          node = dIter.node /\ hint = dIter.hint /\ gave = dIter.given
    OBVIOUS
  <2>3. IterAt(s, z, TRUE, node, hint, gave) /\ node # NULL /\ gave \in SUBSET Node
    BY <1>1, <1>2, <2>1, <2>2 DEF DoublyShows, IterAt, DoublyIterTypeOK
  <2>4. /\ IterAt(s, z, TRUE, dNext[node], IF hint > 0 THEN hint - 1 ELSE 0,
                  gave \cup {node})
        /\ node \in Node /\ dNext[node] \in Node \cup {NULL} /\ hint \in Nat
    BY <1>2, <2>3, IterMoves
  <2>5. DoublyIterTypeOK'
    <3>1. (IF hint > 0 THEN hint - 1 ELSE 0) \in Nat /\ gave \cup {node} \in SUBSET Node
      BY <2>3, <2>4
    <3> QED BY <2>1, <2>2, <2>4, <3>1 DEF DoublyIterTypeOK
  <2>6. DoublyShows(s)'
    BY <1>1, <1>2, <2>1, <2>2, <2>4 DEF DoublyShows
  <2> QED BY <1>1, <1>2, <2>1, <2>5, <2>6
          DEF DoublyInvFor, Doubly!TypeOK, Doubly!GivenBackClean
<1> QED BY <1>3, <1>4, <1>5, <1>6

LEMMA DoublyStep ==
  ASSUME NEW s, DoublyInvFor(s), [Doubly!Next]_(Doubly!vars)
  PROVE  \E t : DoublyInvFor(t)'
<1>1. ASSUME NEW n \in Node, Doubly!Push(n) \/ Doubly!PushFront(n)
      PROVE  \E t : DoublyInvFor(t)'
  BY <1>1, DoublyInsertions
<1>2. ASSUME NEW n \in Node, NEW after \in Node, Doubly!InsertAfter(n, after)
      PROVE  \E t : DoublyInvFor(t)'
  BY <1>2, DoublyInsertions
<1>3. ASSUME NEW n \in Node, Doubly!Remove(n)
      PROVE  \E t : DoublyInvFor(t)'
  BY <1>3, RemoveKeeps
<1>4. CASE Doubly!PopLeft
  BY <1>4, DoublyPopLeftKeeps
<1>5. CASE Doubly!PopBack
  BY <1>5, DoublyPopBackKeeps
<1>6. CASE Doubly!Destroy
  BY <1>6, DoublyDestroyEmpties
<1>7. CASE Doubly!Create \/ Doubly!PopNothing \/ Doubly!GetIterator \/ Doubly!IterNext
  BY <1>7, DoublyOthersKeep
<1>8. CASE UNCHANGED Doubly!vars
  <2>1. UNCHANGED <<dExists, dList, dNext, dPrev, dLinked, dReturned, dIter>>
    BY <1>8 DEF Doubly!vars
  <2> QED BY <2>1
          DEF DoublyInvFor, Doubly!TypeOK, DoublyIterTypeOK, Doubly!GivenBackClean, DoublyShows
<1> QED BY <1>1, <1>2, <1>3, <1>4, <1>5, <1>6, <1>7, <1>8 DEF Doubly!Next
LEMMA DoublyWalkIs ==
  ASSUME NEW from, NEW link
  PROVE  Doubly!Walk(from, link) = Walk(from, link)
BY Zenon DEF Doubly!Walk, Walk, Doubly!Cardinality, Cardinality

LEMMA DoublyImplies ==
  ASSUME NEW s, DoublyInvFor(s)
  PROVE  Doubly!Consistent /\ Doubly!IteratorIsExact
<1>1. PICK z : z = dList.size
  OBVIOUS
<1>2. /\ z \in Nat /\ s \in [1 .. z -> Node] /\ Distinct(s, z)
      /\ \A i \in 1 .. z : s[i] \in dLinked
      /\ \A x \in dLinked : \E i \in 1 .. z : x = s[i]
      /\ \A i \in 1 .. z : dNext[s[i]] = IF i = z THEN NULL ELSE s[i + 1]
      /\ \A i \in 1 .. z : dPrev[s[i]] = IF i = 1 THEN NULL ELSE s[i - 1]
      /\ dList.head = IF z = 0 THEN NULL ELSE s[1]
      /\ dList.tail = IF z = 0 THEN NULL ELSE s[z]
  BY <1>1, DoublyShown
<1>3. \A i \in 1 .. z - 1 : dNext[s[i]] = s[i + 1] /\ dPrev[s[i + 1]] = s[i]
  <2>1. \A i \in 1 .. z - 1 : /\ i \in 1 .. z /\ i # z
                              /\ i + 1 \in 1 .. z /\ i + 1 # 1 /\ (i + 1) - 1 = i
    BY <1>2
  <2> QED BY <1>2, <2>1
<1>4. z # 0 => /\ dList.head = s[1] /\ dPrev[s[1]] = NULL
               /\ dList.tail = s[z] /\ dNext[s[z]] = NULL
  <2>1. z # 0 => z \in 1 .. z /\ 1 \in 1 .. z
    BY <1>2
  <2> QED BY <1>2, <2>1
<1>5. Doubly!Represents(s)
  BY <1>1, <1>2, <1>3, <1>4 DEF Doubly!Represents, Distinct
<1>6. Doubly!Consistent
  BY <1>1, <1>2, <1>5 DEF Doubly!Consistent, Doubly!WellLinked, DoublyInvFor
<1>7. ASSUME dIter.on /\ dIter.node # NULL
      PROVE  /\ dIter.hint = Len(Doubly!Walk(dIter.node, dNext))
             /\ \A n \in dIter.given :
                  \A j \in DOMAIN Doubly!Walk(dIter.node, dNext) :
                    n # Doubly!Walk(dIter.node, dNext)[j]
  <2>1. /\ Ahead(s, z, dNext)
        /\ IterAt(s, z, dIter.on, dIter.node, dIter.hint, dIter.given)
    BY <1>1 DEF DoublyInvFor, DoublyShows
  <2>2. PICK on, node, hint, given : /\ on = dIter.on /\ node = dIter.node
                                     /\ hint = dIter.hint /\ given = dIter.given
    OBVIOUS
  <2>3. IterAt(s, z, on, node, hint, given) /\ on /\ node # NULL
    BY <1>7, <2>1, <2>2
  <2>4. /\ hint = Len(Walk(node, dNext))
        /\ \A j \in DOMAIN Walk(node, dNext) : Walk(node, dNext)[j] \notin given
    <3>1. z \in Nat /\ s \in [1 .. z -> Node] /\ Distinct(s, z)
      BY <1>2
    <3>2. PICK link : link = dNext
      OBVIOUS
    <3>3. Ahead(s, z, link)
      BY <2>1, <3>2
    <3>4. /\ \E i \in 1 .. z : node = s[i]
          /\ hint = Len(Walk(node, link))
          /\ \A j \in DOMAIN Walk(node, link) : Walk(node, link)[j] \notin given
      BY <2>3, <3>1, <3>3, IterWalks
    <3> QED BY <3>2, <3>4
  <2> QED BY <2>2, <2>4, DoublyWalkIs
<1> QED BY <1>6, <1>7 DEF Doubly!IteratorIsExact

LEMMA DoublyItemsAre ==
  ASSUME NEW s, DoublyInvFor(s)
  PROVE  Doubly!Items = s
<1>1. PICK n : n = dList.size
  OBVIOUS
<1>2. n \in Nat /\ Enumerates(s, n, dLinked) /\ Ahead(s, n, dNext)
      /\ dList.head = IF n = 0 THEN NULL ELSE s[1]
  BY <1>1 DEF DoublyInvFor, Doubly!TypeOK, DoublyShows
<1>3. Walk(dList.head, dNext) = s
  BY <1>2, ListWalk
<1> QED BY <1>3, DoublyWalkIs DEF Doubly!Items

LEMMA DoublyItemsBecome ==
  ASSUME NEW t, DoublyInvFor(t)'
  PROVE  Doubly!Items' = t
<1>1. PICK n : n = dList'.size
  OBVIOUS
<1>2. n \in Nat /\ Enumerates(t, n, dLinked') /\ Ahead(t, n, dNext')
      /\ dList'.head = IF n = 0 THEN NULL ELSE t[1]
  BY <1>1 DEF DoublyInvFor, Doubly!TypeOK, DoublyShows
<1>3. Walk(dList'.head, dNext') = t
  BY <1>2, ListWalk
<1> QED BY <1>3, DoublyWalkIs DEF Doubly!Items

LEMMA DoublySequence ==
  ASSUME NEW s, DoublyInvFor(s)
  PROVE  /\ \A n \in Node :
              /\ Doubly!Push(n) => Doubly!Items' = Append(Doubly!Items, n)
              /\ Doubly!PushFront(n) => Doubly!Items' = <<n>> \o Doubly!Items
              /\ Doubly!Remove(n) =>
                   \E k \in DOMAIN Doubly!Items :
                     /\ Doubly!Items[k] = n
                     /\ Doubly!Items' =
                          SubSeq(Doubly!Items, 1, k - 1)
                            \o SubSeq(Doubly!Items, k + 1, Len(Doubly!Items))
              /\ \A after \in Node : Doubly!InsertAfter(n, after) =>
                   \E k \in DOMAIN Doubly!Items :
                     /\ Doubly!Items[k] = after
                     /\ Doubly!Items' =
                          SubSeq(Doubly!Items, 1, k) \o <<n>>
                            \o SubSeq(Doubly!Items, k + 1, Len(Doubly!Items))
         /\ Doubly!PopLeft => Doubly!Items = <<dReturned'>> \o Doubly!Items'
         /\ Doubly!PopBack => Doubly!Items = Append(Doubly!Items', dReturned')
<1>1. PICK z : z = dList.size
  OBVIOUS
<1>2. z \in Nat /\ s \in [1 .. z -> Node] /\ Doubly!Items = s
  BY <1>1, DoublyShown, DoublyItemsAre
<1>3. ASSUME NEW n \in Node, Doubly!Push(n)
      PROVE  Doubly!Items' = Append(Doubly!Items, n)
  <2>1. PICK t : t = With(s, z, z, n)
    OBVIOUS
  <2>2. DoublyInvFor(t)'
    BY <1>1, <1>3, <2>1, DoublyInsertions
  <2>3. t = Append(s, n)
    BY <1>2, <2>1, WithAsSequence
  <2> QED BY <1>2, <2>2, <2>3, DoublyItemsBecome
<1>4. ASSUME NEW n \in Node, Doubly!PushFront(n)
      PROVE  Doubly!Items' = <<n>> \o Doubly!Items
  <2>1. PICK t : t = With(s, z, 0, n)
    OBVIOUS
  <2>2. DoublyInvFor(t)'
    BY <1>1, <1>4, <2>1, DoublyInsertions
  <2>3. t = <<n>> \o s
    BY <1>2, <2>1, WithAsSequence
  <2> QED BY <1>2, <2>2, <2>3, DoublyItemsBecome
<1>5. ASSUME NEW n \in Node, Doubly!Remove(n)
      PROVE  \E k \in DOMAIN Doubly!Items :
               /\ Doubly!Items[k] = n
               /\ Doubly!Items' = SubSeq(Doubly!Items, 1, k - 1)
                                    \o SubSeq(Doubly!Items, k + 1, Len(Doubly!Items))
  <2>1. PICK k \in 1 .. z :
          s[k] = n /\ \A t : t = Without(s, z, k) => DoublyInvFor(t)'
    BY <1>1, <1>5, RemoveKeeps
  <2>2. PICK t : t = Without(s, z, k)
    OBVIOUS
  <2>3. Doubly!Items' = t
    BY <2>1, <2>2, DoublyItemsBecome
  <2>4. t = SubSeq(s, 1, k - 1) \o SubSeq(s, k + 1, Len(s)) /\ k \in DOMAIN s
    BY <1>2, <2>2, WithoutAsSequence
  <2> QED BY <1>2, <2>1, <2>3, <2>4
<1>6. ASSUME NEW n \in Node, NEW after \in Node, Doubly!InsertAfter(n, after)
      PROVE  \E k \in DOMAIN Doubly!Items :
               /\ Doubly!Items[k] = after
               /\ Doubly!Items' = SubSeq(Doubly!Items, 1, k) \o <<n>>
                                    \o SubSeq(Doubly!Items, k + 1, Len(Doubly!Items))
  <2>1. PICK k \in 1 .. z :
          s[k] = after /\ \A t : t = With(s, z, k, n) => DoublyInvFor(t)'
    BY <1>1, <1>6, DoublyInsertions
  <2>2. PICK t : t = With(s, z, k, n)
    OBVIOUS
  <2>3. Doubly!Items' = t
    BY <2>1, <2>2, DoublyItemsBecome
  <2>4. k \in 0 .. z
    BY <1>2
  <2>5. t = SubSeq(s, 1, k) \o <<n>> \o SubSeq(s, k + 1, Len(s)) /\ k \in DOMAIN s
    BY <1>2, <2>2, <2>4, WithAsSequence
  <2> QED BY <1>2, <2>1, <2>3, <2>5
<1>7. ASSUME Doubly!PopLeft
      PROVE  Doubly!Items = <<dReturned'>> \o Doubly!Items'
  <2>1. PICK t : t = Without(s, z, 1)
    OBVIOUS
  <2>2. DoublyInvFor(t)' /\ 1 \in 1 .. z /\ dReturned' = s[1]
    BY <1>1, <1>7, <2>1, DoublyPopLeftKeeps
  <2>3. s = <<s[1]>> \o t
    BY <1>2, <2>1, <2>2, WithoutAsSequence
  <2> QED BY <1>2, <2>2, <2>3, DoublyItemsBecome
<1>8. ASSUME Doubly!PopBack
      PROVE  Doubly!Items = Append(Doubly!Items', dReturned')
  <2>1. PICK t : t = Without(s, z, z)
    OBVIOUS
  <2>2. DoublyInvFor(t)' /\ z \in 1 .. z /\ dReturned' = s[z]
    BY <1>1, <1>8, <2>1, DoublyPopBackKeeps
  <2>3. s = Append(t, s[z])
    BY <1>2, <2>1, <2>2, WithoutAsSequence
  <2> QED BY <1>2, <2>2, <2>3, DoublyItemsBecome
<1> QED BY <1>3, <1>4, <1>5, <1>6, <1>7, <1>8

(***************************************************************************)
(* Both lists, of which a behaviour uses one.                              *)
(***************************************************************************)
BothInv == (\E s : InvFor(s)) /\ (\E s : DoublyInvFor(s))

LEMMA BothInit == ListsInit => BothInv
BY InitShows, DoublyInitShows DEF ListsInit, BothInv

LEMMA BothStep ==
  ASSUME BothInv, [UseSingly \/ UseDoubly]_<<used, vars, dVars>>
  PROVE  BothInv'
<1>1. [Next]_vars /\ [Doubly!Next]_(Doubly!vars)
  BY DEF UseSingly, UseDoubly, vars, dVars, Doubly!vars
<1> QED BY <1>1, SinglyStep, DoublyStep DEF BothInv

\* In both lists the links are one sequence of the nodes the caller put in, read
\* in the doubly linked one alike from either end; nodes that left carry no link
\* into it; and an iterator stands before exactly the rest, also after nodes it
\* gave were removed: linked_list.c and doubly_linked_list.c, any number of nodes.
THEOREM ListsAreConsistent == ListsSpec => []ListsConsistent
<1>1. BothInv => ListsConsistent
  BY SinglyImplies, DoublyImplies DEF BothInv, ListsConsistent
<1>2. BothInv /\ [UseSingly \/ UseDoubly]_<<used, vars, dVars>> => BothInv'
  BY BothStep
<1> QED BY <1>1, <1>2, BothInit, PTL DEF ListsSpec

\* Every push, insertion, pop and removal of both lists is that of a sequence:
\* linked_list.c and doubly_linked_list.c, any number of nodes.
THEOREM ListsAreSequencesAlways == ListsSpec => ListsAreSequences
<1>1. BothInv /\ [UseSingly \/ UseDoubly]_<<used, vars, dVars>> => BothInv'
  BY BothStep
<1>2. (\E s : InvFor(s)) =>
        /\ \A n \in Node :
             /\ Push(n) => Items' = Append(Items, n)
             /\ PushFront(n) => Items' = <<n>> \o Items
             /\ RemoveAfter(n) =>
                  \E k \in DOMAIN Items :
                    /\ Items[k] = n /\ returned' = Items[k + 1]
                    /\ Items' = SubSeq(Items, 1, k) \o SubSeq(Items, k + 2, Len(Items))
        /\ PopLeft => returned' = Items[1] /\ Items' = Tail(Items)
  BY SinglySequence
<1>3. (\E s : DoublyInvFor(s)) =>
        /\ \A n \in Node :
             /\ Doubly!Push(n) => Doubly!Items' = Append(Doubly!Items, n)
             /\ Doubly!PushFront(n) => Doubly!Items' = <<n>> \o Doubly!Items
             /\ Doubly!Remove(n) =>
                  \E k \in DOMAIN Doubly!Items :
                    /\ Doubly!Items[k] = n
                    /\ Doubly!Items' =
                         SubSeq(Doubly!Items, 1, k - 1)
                           \o SubSeq(Doubly!Items, k + 1, Len(Doubly!Items))
             /\ \A after \in Node : Doubly!InsertAfter(n, after) =>
                  \E k \in DOMAIN Doubly!Items :
                    /\ Doubly!Items[k] = after
                    /\ Doubly!Items' =
                         SubSeq(Doubly!Items, 1, k) \o <<n>>
                           \o SubSeq(Doubly!Items, k + 1, Len(Doubly!Items))
        /\ Doubly!PopLeft => Doubly!Items = <<dReturned'>> \o Doubly!Items'
        /\ Doubly!PopBack => Doubly!Items = Append(Doubly!Items', dReturned')
  BY DoublySequence
<1>4. BothInv => (\E s : InvFor(s)) /\ (\E s : DoublyInvFor(s))
  BY DEF BothInv
<1> QED BY <1>1, <1>2, <1>3, <1>4, BothInit, PTL
        DEF ListsSpec, ListsAreSequences, SequenceSteps, Doubly!SequenceSteps

=============================================================================
