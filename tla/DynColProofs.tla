---------------------------- MODULE DynColProofs ----------------------------
(***************************************************************************)
(* Proofs about DynCol: that the blobs hold what was put into them, that    *)
(* they are found in them, and that the buffers hold the blobs.  For any    *)
(* names, numbers, values and objects.                                      *)
(***************************************************************************)
EXTENDS DynCol, SequenceTheorems, FunctionTheorems, FiniteSetTheorems,
        WellFoundedInduction, TLAPS

-----------------------------------------------------------------------------
(* Numbers: induction, from the least of a set; functions by recursion.    *)

LEMMA Least ==
  ASSUME NEW T \in SUBSET Nat, T # {}
  PROVE  \E n \in T : \A m \in T : n <= m
<1>1. IsWellFoundedOn(OpToRel(<, Nat), Nat)
  BY NatLessThanWellFounded
<1>2. PICK n \in T : \A m \in T : ~(<<m, n>> \in OpToRel(<, Nat))
  BY <1>1, WFMin
<1>3. \A m \in T : ~(m < n)
  BY <1>2 DEF OpToRel
<1> QED BY <1>3

LEMMA UpTo ==
  ASSUME NEW N \in Nat, NEW S, 0 \in S, \A n \in 0..(N - 1) : n \in S => n + 1 \in S
  PROVE  \A n \in 0..N : n \in S
<1> DEFINE T == {n \in 0..N : n \notin S}
<1> SUFFICES ASSUME T # {} PROVE FALSE OBVIOUS
<1>1. T \in SUBSET Nat /\ T # {} OBVIOUS
<1> HIDE DEF T
<1>2. PICK n \in T : \A m \in T : n <= m
  BY Least, <1>1
<1> QED BY <1>2 DEF T

\* A function that starts with a and continues with steps: it exists.
Builds(g, N, S, a, step) ==
  g \in [0..N -> S] /\ g[0] = a /\ \A i \in 1..N : g[i] = step[i][g[i - 1]]

LEMMA Recursion ==
  ASSUME NEW N \in Nat, NEW S, NEW a \in S, NEW step \in [1..N -> [S -> S]]
  PROVE  \E g : Builds(g, N, S, a, step)
<1> DEFINE Good(n, g) == g[0] = a /\ \A i \in 1..n : g[i] = step[i][g[i - 1]]
           T == {n \in 0..N : \E g \in [0..n -> S] : Good(n, g)}
<1>1. 0 \in T
  <2> DEFINE h == [i \in 0..0 |-> a]
  <2>1. h \in [0..0 -> S]
    OBVIOUS
  <2>2. Good(0, h) /\ 0 \in 0..N
    OBVIOUS
  <2> QED BY <2>1, <2>2, Zenon
<1>2. ASSUME NEW n \in 0..(N - 1), n \in T PROVE n + 1 \in T
  <2>1. PICK g \in [0..n -> S] : Good(n, g)
    BY <1>2
  <2> DEFINE h == [i \in 0..(n + 1) |-> IF i <= n THEN g[i] ELSE step[n + 1][g[n]]]
  <2>2. h \in [0..(n + 1) -> S]
    OBVIOUS
  <2>3. h[0] = a
    BY <2>1
  <2>4. \A i \in 1..(n + 1) : h[i] = step[i][h[i - 1]]
    BY <2>1
  <2>5. n + 1 \in 0..N
    OBVIOUS
  <2> HIDE DEF h
  <2> QED BY <2>2, <2>3, <2>4, <2>5, Zenon
<1> HIDE DEF T
<1>3. \A n \in 0..N : n \in T
  BY <1>1, <1>2, UpTo
<1>4. N \in T
  BY <1>3
<1>5. PICK g \in [0..N -> S] : Good(N, g)
  BY <1>4, Zenon DEF T
<1> QED BY <1>5 DEF Builds

-----------------------------------------------------------------------------
(* Finite sets of numbers in their order.                                  *)

Increasing(s, n) == \A i, j \in 1..n : i < j => s[i] < s[j]

\* What n numbers count off one by one has n members.
LEMMA Counted ==
  ASSUME NEW n \in Nat, NEW S, NEW f \in [1..n -> S],
         \A i, j \in 1..n : f[i] = f[j] => i = j, \A x \in S : \E i \in 1..n : f[i] = x
  PROVE  IsFiniteSet(S) /\ Cardinality(S) = n
<1>1. IsFiniteSet(1..n) /\ Cardinality(1..n) = n
  BY FS_Interval
<1>2. f \in Bijection(1..n, S)
  BY Fun_IsBij
<1>3. ExistsBijection(1..n, S)
  BY <1>2 DEF ExistsBijection
<1> QED BY <1>1, <1>3, FS_Bijection

\* An increasing sequence is the order of its members.
LEMMA OrderedIs ==
  ASSUME NEW n \in Nat, NEW s \in [1..n -> Nat], Increasing(s, n),
         NEW K, K = {s[i] : i \in 1..n}
  PROVE  IsFiniteSet(K) /\ Cardinality(K) = n /\ Ordered(K) = s
<1> DEFINE below(i) == {j \in K : j < s[i]}
<1>1. \A i \in 1..n : IsFiniteSet(below(i)) /\ Cardinality(below(i)) = i - 1
  <2> SUFFICES ASSUME NEW i \in 1..n
               PROVE  IsFiniteSet(below(i)) /\ Cardinality(below(i)) = i - 1
    OBVIOUS
  <2> DEFINE f == [j \in 1..(i - 1) |-> s[j]]
  <2>1. f \in [1..(i - 1) -> below(i)]
    BY DEF Increasing
  <2>2. \A j, m \in 1..(i - 1) : f[j] = f[m] => j = m
    BY DEF Increasing
  <2>3. \A k \in below(i) : \E j \in 1..(i - 1) : f[j] = k
    <3> SUFFICES ASSUME NEW k \in below(i) PROVE \E j \in 1..(i - 1) : s[j] = k
      OBVIOUS
    <3>1. PICK j \in 1..n : s[j] = k
      OBVIOUS
    <3>2. j < i
      BY <3>1 DEF Increasing
    <3> QED BY <3>1, <3>2
  <2>4. i - 1 \in Nat
    OBVIOUS
  <2> HIDE DEF f, below
  <2> QED BY <2>1, <2>2, <2>3, <2>4, Counted
<1>2. IsFiniteSet(K) /\ Cardinality(K) = n
  <2>1. s \in [1..n -> K] /\ \A k \in K : \E i \in 1..n : s[i] = k
    OBVIOUS
  <2>2. \A i, j \in 1..n : s[i] = s[j] => i = j
    BY DEF Increasing
  <2> QED BY <2>1, <2>2, Counted
<1>3. \A i \in 1..n : (CHOOSE k \in K : Cardinality({j \in K : j < k}) = i - 1) = s[i]
  <2> SUFFICES ASSUME NEW i \in 1..n
               PROVE  (CHOOSE k \in K : Cardinality({j \in K : j < k}) = i - 1) = s[i]
    OBVIOUS
  <2>1. s[i] \in K /\ Cardinality({j \in K : j < s[i]}) = i - 1
    BY <1>1
  <2>2. \A k \in K : Cardinality({j \in K : j < k}) = i - 1 => k = s[i]
    <3> SUFFICES ASSUME NEW k \in K, Cardinality({j \in K : j < k}) = i - 1
                 PROVE  k = s[i]
      OBVIOUS
    <3>1. PICK m \in 1..n : k = s[m]
      OBVIOUS
    <3>2. Cardinality({j \in K : j < k}) = m - 1
      BY <3>1, <1>1
    <3> QED BY <3>1, <3>2
  <2> QED BY <2>1, <2>2
<1>4. Ordered(K) = [i \in 1..n |-> s[i]]
  BY <1>2, <1>3 DEF Ordered
<1> QED BY <1>2, <1>4

\* The order of a finite set is an increasing sequence of its members.
LEMMA OrderedOf ==
  ASSUME NEW K \in SUBSET Nat, IsFiniteSet(K)
  PROVE  /\ Cardinality(K) \in Nat
         /\ Ordered(K) \in [1..Cardinality(K) -> K]
         /\ Increasing(Ordered(K), Cardinality(K))
         /\ K = {Ordered(K)[i] : i \in 1..Cardinality(K)}
<1> DEFINE n == Cardinality(K)
           below(k) == {j \in K : j < k}
           rank == [k \in K |-> Cardinality(below(k))]
<1>1. n \in Nat
  BY FS_CardinalityType
<1>2. \A k \in K : IsFiniteSet(below(k)) /\ rank[k] \in 0..(n - 1)
  <2> SUFFICES ASSUME NEW k \in K
               PROVE  IsFiniteSet(below(k)) /\ Cardinality(below(k)) \in 0..(n - 1)
    OBVIOUS
  <2>1. below(k) \in SUBSET K /\ below(k) # K
    OBVIOUS
  <2> HIDE DEF below
  <2>2. IsFiniteSet(below(k)) /\ Cardinality(below(k)) <= n /\ Cardinality(below(k)) # n
    BY <2>1, FS_Subset
  <2> QED BY <1>1, <2>2, FS_CardinalityType
<1>3. \A k, m \in K : k < m => rank[k] < rank[m]
  <2> SUFFICES ASSUME NEW k \in K, NEW m \in K, k < m
               PROVE  Cardinality(below(k)) < Cardinality(below(m))
    OBVIOUS
  <2>1. below(k) \in SUBSET below(m) /\ k \in below(m) /\ k \notin below(k)
    <3> HIDE DEF rank
    <3>1. k \in Nat /\ m \in Nat /\ k < m
      OBVIOUS
    <3>2. \A j \in K : j \in Nat
      OBVIOUS
    <3>3. \A j \in K : j < k => j < m
      BY <3>1, <3>2
    <3>4. k < m /\ ~(k < k)
      BY <3>1
    <3> QED BY <3>3, <3>4, Zenon
  <2>2. IsFiniteSet(below(k)) /\ IsFiniteSet(below(m))
    BY <1>2
  <2> HIDE DEF below
  <2>3. Cardinality(below(k)) <= Cardinality(below(m))
        /\ Cardinality(below(k)) # Cardinality(below(m))
    BY <2>1, <2>2, FS_Subset
  <2> QED BY <2>2, <2>3, FS_CardinalityType
<1>4. rank \in Surjection(K, 0..(n - 1))
  <2>1. rank \in Injection(K, 0..(n - 1))
    <3>1. rank \in [K -> 0..(n - 1)]
      BY <1>2
    <3>2. \A k, m \in K : rank[k] = rank[m] => k = m
      BY <1>2, <1>3
    <3> HIDE DEF rank
    <3> QED BY <3>1, <3>2, Fun_IsInj
  <2>2. IsFiniteSet(0..(n - 1)) /\ Cardinality(0..(n - 1)) = n
    <3>1. 0 \in Int /\ n - 1 \in Int /\ (IF 0 > n - 1 THEN 0 ELSE n - 1 - 0 + 1) = n
      BY <1>1
    <3> QED BY <3>1, FS_Interval
  <2> HIDE DEF rank
  <2> QED BY <2>1, <2>2, FS_Injection
<1>5. \A i \in 1..n : Ordered(K)[i] \in K /\ rank[Ordered(K)[i]] = i - 1
  <2> SUFFICES ASSUME NEW i \in 1..n
               PROVE  Ordered(K)[i] \in K /\ rank[Ordered(K)[i]] = i - 1
    OBVIOUS
  <2>1. \E k \in K : Cardinality(below(k)) = i - 1
    <3>1. PICK k \in K : rank[k] = i - 1
      <4>1. i - 1 \in 0..(n - 1)
        BY <1>1
      <4> HIDE DEF rank
      <4> QED BY <1>4, <4>1 DEF Surjection
    <3> QED BY <3>1
  <2>2. Ordered(K)[i] = CHOOSE k \in K : Cardinality(below(k)) = i - 1
    BY DEF Ordered
  <2> QED BY <2>1, <2>2
<1>6. Ordered(K) \in [1..n -> K]
  <2> DEFINE pick(i) == CHOOSE k \in K : Cardinality({j \in K : j < k}) = i - 1
  <2>1. Ordered(K) = [i \in 1..n |-> pick(i)]
    BY DEF Ordered
  <2> HIDE DEF pick
  <2>2. \A i \in 1..n : pick(i) \in K
    BY <1>5, <2>1
  <2> QED BY <2>1, <2>2
<1>7. Increasing(Ordered(K), n)
  <2> SUFFICES ASSUME NEW i \in 1..n, NEW j \in 1..n, i < j
               PROVE  Ordered(K)[i] < Ordered(K)[j]
    BY DEF Increasing
  <2> HIDE DEF rank
  <2> DEFINE a == Ordered(K)[i]
             b == Ordered(K)[j]
  <2>1. a \in K /\ b \in K /\ a \in Nat /\ b \in Nat /\ rank[a] = i - 1 /\ rank[b] = j - 1
    BY <1>5
  <2> HIDE DEF a, b
  <2>2. ~(b < a) /\ a # b
    BY <1>1, <1>3, <2>1
  <2>3. a < b
    BY <2>1, <2>2
  <2> QED BY <2>3 DEF a, b
<1>8. ASSUME NEW k \in K PROVE \E i \in 1..n : Ordered(K)[i] = k
  <2>1. rank[k] + 1 \in 1..n
    BY <1>1, <1>2
  <2>2. Ordered(K)[rank[k] + 1] \in K /\ rank[Ordered(K)[rank[k] + 1]] = rank[k]
    BY <1>2, <1>5, <2>1
  <2>3. \A m \in K : rank[m] = rank[k] => m = k
    BY <1>2, <1>3
  <2> QED BY <2>1, <2>2, <2>3
<1> QED BY <1>1, <1>5, <1>6, <1>7, <1>8

-----------------------------------------------------------------------------
(* The columns of a blob, as the sequence of those of a function.          *)

Types == {IntType, StrType, MapType}
Col == [key : Nat, type : Types, bytes : Seq(Byte)]
Entry == [key : Nat, type : Types, off : Nat]

\* A function from keys to values; its numbers are in the order in which c has them.
Held(g) ==
  /\ DOMAIN g \in SUBSET Nat /\ IsFiniteSet(DOMAIN g) /\ g \in [DOMAIN g -> Values]
Lists(c, g) ==
  /\ c \in Seq(Col)
  /\ \A i, j \in 1..Len(c) : i < j => c[i].key < c[j].key
  /\ \A i \in 1..Len(c) : c[i].key \in DOMAIN g /\ c[i] = Column(c[i].key, g[c[i].key])
  /\ \A k \in DOMAIN g : \E i \in 1..Len(c) : c[i].key = k

LEMMA ColumnType ==
  ASSUME NEW k \in Nat, NEW v \in Values
  PROVE  Column(k, v) \in Col /\ Column(k, v).key = k
BY BlobAssumption DEF Column, Col, Types

LEMMA InOrderOf ==
  ASSUME NEW g, Held(g)
  PROVE  Lists(InOrder(g), g)
<1> DEFINE K == DOMAIN g
           n == Cardinality(K)
           ks == Ordered(K)
           c == InOrder(g)
<1>1. /\ n \in Nat /\ ks \in [1..n -> K] /\ Increasing(ks, n)
      /\ K = {ks[i] : i \in 1..n}
  BY OrderedOf DEF Held
<1>2. K \in SUBSET Nat /\ \A k \in K : k \in Nat /\ g[k] \in Values
  BY DEF Held
<1> HIDE DEF K, n
<1>3. c = [i \in 1..n |-> Column(ks[i], g[ks[i]])]
  BY <1>1 DEF InOrder, K
<1> HIDE DEF ks, c
<1>4. \A i \in 1..n : /\ c[i] = Column(ks[i], g[ks[i]])
                      /\ ks[i] \in K /\ c[i] \in Col /\ c[i].key = ks[i]
  BY <1>1, <1>2, <1>3, ColumnType
<1>5. c \in Seq(Col) /\ Len(c) = n
  <2>1. c \in [1..n -> Col]
    BY <1>3, <1>4
  <2> QED BY <1>1, <2>1
<1>6. \A i, j \in 1..n : i < j => c[i].key < c[j].key
  BY <1>1, <1>4 DEF Increasing
<1>7. \A k \in K : \E i \in 1..n : c[i].key = k
  BY <1>1, <1>4
<1> QED BY <1>4, <1>5, <1>6, <1>7 DEF Lists, c, K

LEMMA InOrderIs ==
  ASSUME NEW g, NEW c, Lists(c, g)
  PROVE  InOrder(g) = c
<1> DEFINE n == Len(c)
           s == [i \in 1..n |-> c[i].key]
           K == DOMAIN g
<1>1. n \in Nat /\ c \in [1..n -> Col]
  BY DEF Lists
<1> HIDE DEF n
<1>2. s \in [1..n -> Nat] /\ Increasing(s, n)
  BY <1>1 DEF Lists, Increasing, Col, n
<1>3. K = {s[i] : i \in 1..n}
  BY DEF Lists, n
<1> HIDE DEF s, K
<1>4. Ordered(K) = s
  BY <1>1, <1>2, <1>3, OrderedIs
<1>5. InOrder(g) = [i \in 1..n |-> Column(s[i], g[s[i]])]
  BY <1>2, <1>4 DEF InOrder, K
<1>6. \A i \in 1..n : Column(s[i], g[s[i]]) = c[i]
  BY DEF Lists, n, s
<1> QED BY <1>1, <1>5, <1>6

-----------------------------------------------------------------------------
(* Layout and Columns.                                                     *)

LEMMA WrittenIs ==
  ASSUME NEW cols \in Seq(Col)
  PROVE  /\ Written(cols) \in [0..Len(cols) -> Seq(Byte)]
         /\ Written(cols)[0] = <<>>
         /\ \A i \in 1..Len(cols) : Written(cols)[i] = Written(cols)[i - 1] \o cols[i].bytes
<1> DEFINE n == Len(cols)
           w == Written(cols)
           S == Seq(Byte)
           Rec(f) == f = [i \in 0..n |-> IF i = 0 THEN <<>> ELSE f[i - 1] \o cols[i].bytes]
           step == [i \in 1..n |-> [s \in S |-> s \o cols[i].bytes]]
<1>1. n \in Nat /\ \A i \in 1..n : cols[i].bytes \in S
  <2>1. n \in Nat /\ \A i \in 1..n : cols[i] \in Col
    OBVIOUS
  <2> QED BY <2>1 DEF Col
<1>2. \A s, t \in S : s \o t \in S
  BY ConcatProperties
<1>3. <<>> \in S
  OBVIOUS
<1> HIDE DEF n, S
<1> DEFINE empty == <<>>
<1> HIDE DEF empty
<1>4. step \in [1..n -> [S -> S]]
  BY <1>1, <1>2
<1>5. PICK g : Builds(g, n, S, empty, step)
  <2> HIDE DEF step
  <2>1. empty \in S
    BY <1>3 DEF empty
  <2> QED BY <1>1, <1>4, <2>1, Recursion
<1>6. \A i \in 1..n : i - 1 \in 0..n /\ g[i] = g[i - 1] \o cols[i].bytes
  <2>1. \A i \in 1..n : i - 1 \in 0..n
    BY <1>1
  <2>2. \A i \in 1..n : g[i - 1] \in S
    BY <1>5, <2>1 DEF Builds
  <2> QED BY <1>5, <2>1, <2>2 DEF step, Builds
<1>7. Rec(g)
  <2>1. \A i \in 0..n : i = 0 \/ i \in 1..n
    BY <1>1
  <2>2. \A i \in 0..n : g[i] = IF i = 0 THEN <<>> ELSE g[i - 1] \o cols[i].bytes
    BY <1>1, <1>5, <1>6, <2>1 DEF empty, Builds
  <2>3. g = [i \in 0..n |-> g[i]]
    BY <1>5 DEF Builds
  <2> QED BY <2>2, <2>3
<1>8. w = CHOOSE f : Rec(f)
  BY DEF Written, n
<1>9. Rec(w)
  <2> HIDE DEF w, Rec
  <2> QED BY <1>7, <1>8
<1> HIDE DEF w
<1>10. w[0] = <<>> /\ \A i \in 1..n : w[i] = w[i - 1] \o cols[i].bytes
  <2>1. 0 \in 0..n /\ \A i \in 1..n : i \in 0..n /\ i # 0
    BY <1>1
  <2> QED BY <1>9, <2>1
<1>11. \A i \in 0..n : w[i] \in S
  <2> DEFINE T == {i \in 0..n : w[i] \in S}
  <2>1. 0 \in T
    BY <1>1, <1>3, <1>10
  <2>2. \A i \in 0..(n - 1) : i \in T => i + 1 \in T
    <3> SUFFICES ASSUME NEW i \in 0..(n - 1), w[i] \in S PROVE i + 1 \in 0..n /\ w[i + 1] \in S
      OBVIOUS
    <3>1. i + 1 \in 1..n /\ i + 1 \in 0..n /\ (i + 1) - 1 = i
      BY <1>1
    <3>2. w[i + 1] = w[i] \o cols[i + 1].bytes
      BY <1>10, <3>1
    <3> QED BY <1>1, <1>2, <3>1, <3>2
  <2> HIDE DEF T
  <2>3. \A i \in 0..n : i \in T
    BY <1>1, <2>1, <2>2, UpTo
  <2> QED BY <2>3 DEF T
<1>12. w \in [0..n -> S]
  BY <1>9, <1>11
<1> QED BY <1>10, <1>12 DEF w, n, S

\* Each column's bytes begin where those before it end, and later ones do not disturb them.
LEMMA Places ==
  ASSUME NEW cols \in Seq(Col), NEW w, w = Written(cols)
  PROVE  /\ \A i \in 0..Len(cols) : w[i] \in Seq(Byte) /\ Len(w[i]) \in Nat
         /\ \A i \in 1..Len(cols) :
              /\ cols[i].bytes \in Seq(Byte)
              /\ Len(w[i]) = Len(w[i - 1]) + Len(cols[i].bytes)
         /\ \A i \in 1..Len(cols) :
              /\ Len(w[i]) <= Len(w[Len(cols)])
              /\ \A p \in 1..Len(cols[i].bytes) :
                   w[Len(cols)][Len(w[i - 1]) + p] = cols[i].bytes[p]
<1> DEFINE n == Len(cols)
           x(i) == cols[i].bytes
           In(m, i) == /\ Len(w[i]) <= Len(w[m])
                       /\ \A p \in 1..Len(x(i)) : w[m][Len(w[i - 1]) + p] = x(i)[p]
           T == {m \in 0..n : \A i \in 1..m : In(m, i)}
<1>1. n \in Nat /\ \A i \in 1..n : x(i) \in Seq(Byte) /\ Len(x(i)) \in Nat
  <2>1. n \in Nat /\ \A i \in 1..n : cols[i] \in Col
    OBVIOUS
  <2> QED BY <2>1 DEF Col
<1>2. /\ \A i \in 0..n : w[i] \in Seq(Byte)
      /\ \A i \in 1..n : w[i] = w[i - 1] \o x(i)
  BY WrittenIs
<1> HIDE DEF n, x
<1>3. \A i \in 0..n : w[i] \in Seq(Byte) /\ Len(w[i]) \in Nat
  BY <1>2
<1>4. \A i \in 1..n : /\ i - 1 \in 0..n /\ i \in 0..n
                      /\ Len(w[i]) = Len(w[i - 1]) + Len(x(i))
  <2> SUFFICES ASSUME NEW i \in 1..n
               PROVE  /\ i - 1 \in 0..n /\ i \in 0..n
                      /\ Len(w[i]) = Len(w[i - 1]) + Len(x(i))
    OBVIOUS
  <2>1. i - 1 \in 0..n /\ i \in 0..n
    BY <1>1
  <2>2. w[i] = w[i - 1] \o x(i) /\ w[i - 1] \in Seq(Byte) /\ x(i) \in Seq(Byte)
    BY <1>1, <1>2, <2>1
  <2> QED BY <2>1, <2>2, ConcatProperties
<1>5. 0 \in T
  BY <1>1
<1>6. ASSUME NEW m \in 0..(n - 1), m \in T PROVE m + 1 \in T
  <2>1. m + 1 \in 1..n /\ m + 1 \in 0..n /\ m \in 0..n /\ (m + 1) - 1 = m
    BY <1>1
  <2> DEFINE k == m + 1
  <2>2. /\ w[k] = w[m] \o x(k) /\ w[m] \in Seq(Byte) /\ x(k) \in Seq(Byte)
    BY <1>1, <1>2, <1>3, <2>1
  <2> DEFINE a == Len(w[m])
             c == Len(x(k))
  <2>6. a \in Nat /\ c \in Nat /\ Len(w[k]) = a + c
    BY <1>1, <1>3, <1>4, <2>1
  <2>3. \A q \in 1..(a + c) : w[k][q] = IF q <= a THEN w[m][q] ELSE x(k)[q - a]
    BY <2>2, ConcatProperties
  <2> SUFFICES ASSUME NEW i \in 1..k PROVE In(k, i)
    BY <2>1
  <2>4. CASE i = k
    <3>1. Len(w[i]) <= Len(w[k])
      BY <2>4, <2>6
    <3>2. ASSUME NEW p \in 1..c PROVE w[k][a + p] = x(k)[p]
      <4> HIDE DEF a, c
      <4>1. a + p \in 1..(a + c) /\ ~(a + p <= a) /\ (a + p) - a = p
        BY <2>6
      <4> QED BY <2>3, <4>1
    <3> QED BY <2>1, <2>4, <3>1, <3>2
  <2>5. CASE i \in 1..m
    <3> DEFINE lo == Len(w[i - 1])
               e == Len(x(i))
    <3>1. In(m, i)
      BY <1>6, <2>5
    <3>2. i \in 1..n /\ i \in 0..n /\ i - 1 \in 0..n
      BY <1>1, <2>5
    <3>3. Len(w[i]) \in Nat /\ lo \in Nat /\ e \in Nat /\ Len(w[i]) = lo + e /\ Len(w[i]) <= a
      BY <1>1, <1>3, <1>4, <3>1, <3>2
    <3>4. Len(w[i]) <= Len(w[k])
      <4> HIDE DEF a, c
      <4> QED BY <2>6, <3>3
    <3>5. ASSUME NEW p \in 1..e PROVE w[k][lo + p] = x(i)[p]
      <4>1. w[m][lo + p] = x(i)[p]
        BY <3>1
      <4> HIDE DEF a, c, lo, e
      <4>2. lo + p \in 1..(a + c) /\ lo + p <= a
        BY <2>6, <3>3
      <4> QED BY <2>3, <4>1, <4>2
    <3> QED BY <3>4, <3>5
  <2> QED BY <2>1, <2>4, <2>5
<1>7. n \in T
  <2> HIDE DEF T
  <2>1. \A m \in 0..n : m \in T
    BY <1>1, <1>5, <1>6, UpTo
  <2> QED BY <1>1, <2>1
<1> QED BY <1>1, <1>3, <1>4, <1>7 DEF n, x

\* Offsets and types stay apart.
Apart(fmt, cols) == fmt = "num" => \A i \in 1..Len(cols) : cols[i].type # MapType

LEMMA LayoutIs ==
  ASSUME NEW fmt \in Formats, NEW cols \in Seq(Col), Apart(fmt, cols), NEW w, w = Written(cols),
         NEW b, b = Layout(fmt, cols)
  PROVE  /\ b.fmt = fmt /\ b.data = w[Len(cols)]
         /\ b.hdr \in Seq(Entry) /\ Len(b.hdr) = Len(cols)
         /\ DOMAIN b.hdr = 1..Len(cols)
         /\ \A i \in 1..Len(cols) :
              b.hdr[i] = [key |-> cols[i].key, type |-> cols[i].type, off |-> Len(w[i - 1])]
<1> DEFINE n == Len(cols)
           entry(i) == [key |-> cols[i].key, type |-> cols[i].type, off |-> Len(w[i - 1])]
<1>1. n \in Nat /\ DOMAIN cols = 1..n /\ \A i \in 1..n : cols[i] \in Col
  OBVIOUS
<1>2. \A i \in 1..n : Len(w[i - 1]) \in Nat
  BY <1>1, Places
<1>3. \A i \in 1..n : Place(fmt, cols[i].type, Len(w[i - 1]))
                        = [type |-> cols[i].type, off |-> Len(w[i - 1])]
  <2> SUFFICES ASSUME NEW i \in 1..n
               PROVE  Place(fmt, cols[i].type, Len(w[i - 1]))
                        = [type |-> cols[i].type, off |-> Len(w[i - 1])]
    OBVIOUS
  <2>1. cols[i].type \in Types /\ ~(fmt = "num" /\ cols[i].type > 8)
    BY <1>1 DEF Apart, Types, Col, IntType, StrType, MapType
  <2> QED BY <2>1 DEF Place
<1>4. b.fmt = fmt /\ b.data = w[n] /\ b.hdr = [i \in 1..n |-> entry(i)]
  <2>1. \A i \in 1..n : LET p == Place(fmt, cols[i].type, Len(w[i - 1]))
                        IN  [key |-> cols[i].key, type |-> p.type, off |-> p.off] = entry(i)
    <3> SUFFICES ASSUME NEW i \in 1..n, NEW p, p = Place(fmt, cols[i].type, Len(w[i - 1]))
                 PROVE  [key |-> cols[i].key, type |-> p.type, off |-> p.off] = entry(i)
      OBVIOUS
    <3>1. p = [type |-> cols[i].type, off |-> Len(w[i - 1])]
      BY <1>3
    <3>2. p.type = cols[i].type /\ p.off = Len(w[i - 1])
      BY <3>1
    <3> QED BY <3>2
  <2>2. b = [fmt |-> fmt,
             hdr |-> [i \in 1..n |->
               LET p == Place(fmt, cols[i].type, Len(w[i - 1]))
               IN  [key |-> cols[i].key, type |-> p.type, off |-> p.off]],
             data |-> w[n]]
    BY <1>1, Zenon DEF Layout
  <2> HIDE DEF entry, n
  <2> QED BY <2>1, <2>2
<1>5. \A i \in 1..n : entry(i) \in Entry
  BY <1>1, <1>2 DEF Col, Entry
<1> DEFINE hdr == b.hdr
<1> HIDE DEF entry, n
<1>6. hdr \in [1..n -> Entry]
  <2>1. hdr = [i \in 1..n |-> entry(i)]
    BY <1>4
  <2>2. \A i \in 1..n : entry(i) \in Entry
    BY <1>5
  <2> HIDE DEF hdr
  <2> QED BY <2>1, <2>2
<1> HIDE DEF hdr
<1>7. hdr \in Seq(Entry) /\ Len(hdr) = n
  BY <1>1, <1>6
<1> QED BY <1>4, <1>6, <1>7 DEF n, entry, hdr

\* What has been written is read back.
LEMMA ColumnsBack ==
  ASSUME NEW fmt \in Formats, NEW cols \in Seq(Col), Apart(fmt, cols)
  PROVE  /\ Columns(Layout(fmt, cols)) = cols
         /\ \A i \in 1..Len(cols) : Cell(Layout(fmt, cols), i) = cols[i].bytes
<1> DEFINE n == Len(cols)
           w == Written(cols)
           b == Layout(fmt, cols)
<1>1. n \in Nat /\ cols = [i \in 1..n |-> cols[i]] /\ \A i \in 1..n : cols[i] \in Col
  OBVIOUS
<1>2. /\ b.data = w[n] /\ Len(b.hdr) = n /\ DOMAIN b.hdr = 1..n
      /\ \A i \in 1..n : /\ b.hdr[i].key = cols[i].key /\ b.hdr[i].type = cols[i].type
                         /\ b.hdr[i].off = Len(w[i - 1])
  <2>1. w = Written(cols) /\ b = Layout(fmt, cols)
    OBVIOUS
  <2> HIDE DEF w, b, n
  <2>2. /\ b.data = w[Len(cols)] /\ Len(b.hdr) = Len(cols) /\ DOMAIN b.hdr = 1..Len(cols)
        /\ \A i \in 1..Len(cols) :
             b.hdr[i] = [key |-> cols[i].key, type |-> cols[i].type, off |-> Len(w[i - 1])]
    BY <2>1, LayoutIs
  <2>3. ASSUME NEW i \in 1..Len(cols)
        PROVE  /\ b.hdr[i].key = cols[i].key /\ b.hdr[i].type = cols[i].type
               /\ b.hdr[i].off = Len(w[i - 1])
    <3>1. b.hdr[i] = [key |-> cols[i].key, type |-> cols[i].type, off |-> Len(w[i - 1])]
      BY <2>2
    <3> QED BY <3>1
  <2> QED BY <2>2, <2>3 DEF n
<1>3. /\ \A i \in 0..n : w[i] \in Seq(Byte) /\ Len(w[i]) \in Nat
      /\ \A i \in 1..n : /\ cols[i].bytes \in Seq(Byte)
                         /\ Len(w[i]) = Len(w[i - 1]) + Len(cols[i].bytes)
                         /\ Len(w[i]) <= Len(w[n])
                         /\ \A p \in 1..Len(cols[i].bytes) :
                              w[n][Len(w[i - 1]) + p] = cols[i].bytes[p]
  <2>1. w = Written(cols)
    OBVIOUS
  <2> HIDE DEF w
  <2> QED BY <2>1, Places
<1> HIDE DEF n, w, b
<1>4. ASSUME NEW i \in 1..n PROVE Cell(b, i) = cols[i].bytes
  <2> DEFINE x == cols[i].bytes
             lo == Len(w[i - 1])
             d == w[n]
  <2>1. i - 1 \in 0..n /\ n \in 0..n /\ i \in 0..n
    BY <1>1
  <2>2. /\ lo \in Nat /\ x \in Seq(Byte) /\ Len(x) \in Nat /\ Len(w[i]) = lo + Len(x)
        /\ d \in Seq(Byte) /\ Len(d) \in Nat /\ lo + Len(x) <= Len(d)
    <3>1. lo \in Nat /\ d \in Seq(Byte) /\ Len(d) \in Nat
      BY <1>3, <2>1
    <3>2. x \in Seq(Byte) /\ Len(w[i]) = lo + Len(x) /\ Len(w[i]) <= Len(d)
      BY <1>3
    <3>3. Len(x) \in Nat
      BY <3>2
    <3> HIDE DEF lo, x, d
    <3> QED BY <3>1, <3>2, <3>3
  <2>7. \A p \in 1..Len(x) : d[lo + p] = x[p]
    BY <1>3
  <2>3. Extent(b, i) = Len(x)
    <3>1. b.hdr[i].off = lo /\ Len(b.hdr) = n /\ Len(b.data) = Len(w[n])
      BY <1>2
    <3>2. i # n => b.hdr[i + 1].off = Len(w[i])
      <4> SUFFICES ASSUME i # n PROVE b.hdr[i + 1].off = Len(w[i])
        OBVIOUS
      <4>1. i + 1 \in 1..n /\ (i + 1) - 1 = i
        BY <1>1
      <4> QED BY <1>2, <4>1
    <3>3. Extent(b, i) = Len(w[i]) - lo
      BY <3>1, <3>2 DEF Extent
    <3> HIDE DEF lo, x
    <3> QED BY <2>2, <3>3
  <2>4. Cell(b, i) = SubSeq(d, lo + 1, lo + Len(x))
    BY <1>2, <2>3 DEF Cell
  <2> HIDE DEF x, lo, d
  <2> DEFINE c == SubSeq(d, lo + 1, lo + Len(x))
  <2>5. /\ c \in Seq(Byte) /\ Len(c) = Len(x)
        /\ \A p \in 1..Len(x) : c[p] = d[lo + p]
    <3>1. lo + 1 \in Int /\ lo + Len(x) \in Int /\ (lo + Len(x)) - (lo + 1) + 1 = Len(x)
      BY <2>2
    <3>2. \A p \in (lo + 1)..(lo + Len(x)) : d[p] \in Byte
      BY <2>2
    <3>3. /\ c \in Seq(Byte)
          /\ Len(c) = IF lo + 1 <= lo + Len(x) THEN Len(x) ELSE 0
          /\ \A p \in 1..Len(x) : c[p] = d[lo + 1 + p - 1]
      BY <3>1, <3>2, SubSeqProperties
    <3>4. (IF lo + 1 <= lo + Len(x) THEN Len(x) ELSE 0) = Len(x)
          /\ \A p \in 1..Len(x) : lo + 1 + p - 1 = lo + p
      BY <2>2
    <3> QED BY <3>3, <3>4
  <2> HIDE DEF c
  <2>6. c = x
    BY <2>2, <2>5, <2>7, SeqEqual
  <2> QED BY <2>4, <2>6 DEF c, x
<1>5. Columns(b) = [i \in 1..n |->
                     [key |-> cols[i].key, type |-> cols[i].type, bytes |-> cols[i].bytes]]
  BY <1>2, <1>4 DEF Columns
<1>6. \A i \in 1..n :
        [key |-> cols[i].key, type |-> cols[i].type, bytes |-> cols[i].bytes] = cols[i]
  BY <1>1 DEF Col
<1>7. Columns(b) = cols
  BY <1>1, <1>5, <1>6
<1> QED BY <1>4, <1>7 DEF b, n

-----------------------------------------------------------------------------
(* Search.                                                                 *)

\* The keys of a header: n numbers, in increasing order.
LEMMA SearchFinds ==
  ASSUME NEW b, NEW n \in Nat, n = Len(b.hdr), NEW k \in Nat,
         \A i \in 1..n : b.hdr[i].key \in Nat,
         \A i, j \in 1..n : i < j => b.hdr[i].key < b.hdr[j].key
  PROVE  \/ \E i \in 1..n : b.hdr[i].key = k /\ Search(b, k) = i
         \/ (\A i \in 1..n : b.hdr[i].key # k) /\ Search(b, k) = 0
<1> DEFINE key(i) == b.hdr[i].key
           D == (1..n + 1) \X (0..n)
           At(lo, hi) == {i \in lo..hi : key(i) = k}
           any(S) == IF S = {} THEN 0 ELSE CHOOSE i \in S : TRUE
           h(lo, hi) == any(At(lo, hi))
           body(f, r) ==
             IF r[1] > r[2] THEN 0
             ELSE LET mid == (r[1] + r[2]) \div 2
                  IN  CASE key(mid) < k -> f[<<mid + 1, r[2]>>]
                        [] key(mid) > k -> f[<<r[1], mid - 1>>]
                        [] OTHER -> mid
           Rec(f) == f = [r \in D |-> body(f, r)]
           g == [r \in D |-> h(r[1], r[2])]
           find == CHOOSE f : Rec(f)
\* A step of the search, at any function that is right for the ranges that are left.
<1>1. ASSUME NEW f, NEW lo \in 1..n + 1, NEW hi \in 0..n,
             \A l \in 1..n + 1, m \in 0..n : m - l < hi - lo => f[<<l, m>>] = h(l, m)
      PROVE  body(f, <<lo, hi>>) = h(lo, hi)
  <2>1. CASE lo > hi
    <3>1. At(lo, hi) = {}
      BY <2>1
    <3> QED BY <2>1, <3>1
  <2>2. CASE lo <= hi
    <3> DEFINE mid == (lo + hi) \div 2
    <3>1. mid \in lo..hi /\ mid \in 1..n /\ mid + 1 \in 1..n + 1 /\ mid - 1 \in 0..n
      BY <2>2
    <3>2. /\ hi - (mid + 1) < hi - lo /\ (mid - 1) - lo < hi - lo
      BY <3>1
    <3> HIDE DEF mid
    <3>3. f[<<mid + 1, hi>>] = h(mid + 1, hi) /\ f[<<lo, mid - 1>>] = h(lo, mid - 1)
      <4> HIDE DEF h
      <4> QED BY <1>1, <3>1, <3>2
    <3>4. \A i \in lo..hi : i \in 1..n
      OBVIOUS
    <3>5. CASE key(mid) < k
      <4>1. At(mid + 1, hi) = At(lo, hi)
        <5>1. ASSUME NEW i \in lo..hi, key(i) = k PROVE i \in mid + 1..hi
          <6>1. i \in 1..n /\ i \in Int /\ mid \in Int
            BY <3>1, <3>4
          <6>2. key(i) \in Nat /\ key(mid) \in Nat /\ mid \in 1..n
            BY <3>1, <6>1
          <6>3. i < mid => key(i) < key(mid)
            BY <6>1, <6>2
          <6>4. key(i) = k /\ key(mid) < k
            BY <3>5, <5>1
          <6> HIDE DEF key
          <6>5. i # mid /\ ~(i < mid)
            BY <6>2, <6>3, <6>4
          <6> QED BY <6>1, <6>5
        <5>2. \A i \in mid + 1..hi : i \in lo..hi
          BY <3>1
        <5> HIDE DEF key
        <5> QED BY <5>1, <5>2
      <4>2. ~(key(mid) > k)
        BY <3>1, <3>5
      <4>3. body(f, <<lo, hi>>) = f[<<mid + 1, hi>>]
        BY <2>2, <3>5, <4>2 DEF mid
      <4> HIDE DEF At, body, any
      <4> QED BY <3>3, <4>1, <4>3
    <3>6. CASE key(mid) > k
      <4>1. At(lo, mid - 1) = At(lo, hi)
        <5>1. ASSUME NEW i \in lo..hi, key(i) = k PROVE i \in lo..mid - 1
          <6>1. i \in 1..n /\ i \in Int /\ mid \in Int
            BY <3>1, <3>4
          <6>2. key(i) \in Nat /\ key(mid) \in Nat /\ mid \in 1..n
            BY <3>1, <6>1
          <6>3. mid < i => key(mid) < key(i)
            BY <6>1, <6>2
          <6>4. key(i) = k /\ key(mid) > k
            BY <3>6, <5>1
          <6> HIDE DEF key
          <6>5. i # mid /\ ~(mid < i)
            BY <6>2, <6>3, <6>4
          <6> QED BY <6>1, <6>5
        <5>2. \A i \in lo..mid - 1 : i \in lo..hi
          BY <3>1
        <5> HIDE DEF key
        <5> QED BY <5>1, <5>2
      <4>2. ~(key(mid) < k)
        BY <3>1, <3>6
      <4>3. body(f, <<lo, hi>>) = f[<<lo, mid - 1>>]
        BY <2>2, <3>6, <4>2 DEF mid
      <4> HIDE DEF At, body, any
      <4> QED BY <3>3, <4>1, <4>3
    <3>7. CASE key(mid) = k
      <4>1. At(lo, hi) = {mid}
        BY <3>1, <3>4, <3>7
      <4>2. ~(key(mid) < k) /\ ~(key(mid) > k)
        BY <3>7
      <4>3. body(f, <<lo, hi>>) = mid
        BY <2>2, <4>2 DEF mid
      <4> HIDE DEF At, body
      <4> QED BY <4>1, <4>3
    <3>8. key(mid) \in Nat
      BY <3>1
    <3> HIDE DEF h, body, key
    <3> QED BY <3>5, <3>6, <3>7, <3>8
  <2>3. lo > hi \/ lo <= hi
    OBVIOUS
  <2> HIDE DEF h, body
  <2> QED BY <2>1, <2>2, <2>3
<1>2. Search(b, k) = find[<<1, n>>]
  BY DEF Search
<1> HIDE DEF h, body, key
<1>3. Rec(g)
  <2>1. \A l \in 1..n + 1, m \in 0..n : g[<<l, m>>] = h(l, m)
    OBVIOUS
  <2> HIDE DEF g
  <2>2. ASSUME NEW l \in 1..n + 1, NEW m \in 0..n PROVE body(g, <<l, m>>) = h(l, m)
    BY <1>1, <2>1
  <2>3. \A r \in D : r = <<r[1], r[2]>> /\ r[1] \in 1..n + 1 /\ r[2] \in 0..n
    OBVIOUS
  <2>4. \A r \in D : h(r[1], r[2]) = body(g, r)
    BY <2>2, <2>3
  <2> QED BY <2>4 DEF g
<1>4. Rec(find)
  <2> HIDE DEF Rec, g
  <2> QED BY <1>3
<1> HIDE DEF find
<1>5. \A l \in 1..n + 1, m \in 0..n : find[<<l, m>>] = body(find, <<l, m>>)
  BY <1>4
<1> HIDE DEF Rec
<1>6. \A l \in 1..n + 1, m \in 0..n : find[<<l, m>>] = h(l, m)
  <2> DEFINE N == 2 * n + 2
             T == {s \in 0..N :
                    \A l \in 1..n + 1, m \in 0..n : m - l + n + 1 < s => find[<<l, m>>] = h(l, m)}
  <2>1. 0 \in T
    OBVIOUS
  <2>2. ASSUME NEW s \in 0..(N - 1), s \in T PROVE s + 1 \in T
    <3> SUFFICES ASSUME NEW lo \in 1..n + 1, NEW hi \in 0..n, hi - lo + n + 1 < s + 1
                 PROVE  find[<<lo, hi>>] = h(lo, hi)
      OBVIOUS
    <3>1. \A l \in 1..n + 1, m \in 0..n : m - l < hi - lo => find[<<l, m>>] = h(l, m)
      <4>1. \A l \in 1..n + 1, m \in 0..n : m - l < hi - lo => m - l + n + 1 < s
        OBVIOUS
      <4> QED BY <2>2, <4>1
    <3>2. body(find, <<lo, hi>>) = h(lo, hi)
      BY <1>1, <3>1
    <3> QED BY <1>5, <3>2
  <2>3. N \in T
    <3>1. N \in Nat /\ N \in 0..N
      OBVIOUS
    <3> HIDE DEF N, T
    <3> QED BY <2>1, <2>2, <3>1, UpTo
  <2>4. \A l \in 1..n + 1, m \in 0..n : m - l + n + 1 < N
    OBVIOUS
  <2> QED BY <2>3, <2>4
<1>7. Search(b, k) = h(1, n)
  BY <1>2, <1>6
<1>8. CASE At(1, n) = {}
  BY <1>7, <1>8 DEF h, key
<1>9. CASE At(1, n) # {}
  <2>1. Search(b, k) \in At(1, n)
    <3> HIDE DEF At
    <3> QED BY <1>7, <1>9 DEF h
  <2> QED BY <2>1 DEF key
<1> QED BY <1>8, <1>9

-----------------------------------------------------------------------------
(* Put and Merged.                                                         *)

Plus(g, k, v) == [j \in DOMAIN g \cup {k} |-> IF j = k THEN v ELSE g[j]]

\* The position of a key among those of a header.
LEMMA PutPlace ==
  ASSUME NEW g, NEW c, Lists(c, g), NEW k \in Nat,
         NEW p, p = 1 + Cardinality({i \in DOMAIN c : c[i].key < k})
  PROVE  /\ p \in 1..Len(c) + 1
         /\ \A i \in 1..Len(c) : c[i].key \in Nat /\ (i < p <=> c[i].key < k)
<1> DEFINE n == Len(c)
           T == {i \in 1..n + 1 : i = n + 1 \/ c[i].key >= k}
<1>1. /\ n \in Nat /\ DOMAIN c = 1..n
      /\ \A i \in 1..n : c[i].key \in Nat
      /\ \A i, j \in 1..n : i < j => c[i].key < c[j].key
  <2>1. c \in Seq(Col)
    BY DEF Lists
  <2>2. n \in Nat /\ DOMAIN c = 1..n /\ \A i \in 1..n : c[i] \in Col
    BY <2>1
  <2>3. \A i \in 1..n : c[i].key \in Nat
    BY <2>2 DEF Col
  <2> QED BY <2>2, <2>3 DEF Lists
<1> HIDE DEF n
<1>2. PICK t \in T : \A m \in T : t <= m
  <2>1. T \in SUBSET Nat /\ T # {}
    BY <1>1
  <2> HIDE DEF T
  <2> QED BY <2>1, Least
<1>3. \A i \in 1..n : i < t <=> c[i].key < k
  <2> SUFFICES ASSUME NEW i \in 1..n PROVE i < t <=> c[i].key < k
    OBVIOUS
  <2>1. i < t => c[i].key < k
    BY <1>1, <1>2
  <2>2. ASSUME ~(i < t) PROVE ~(c[i].key < k)
    <3>1. t \in 1..n /\ c[t].key >= k
      BY <1>1, <1>2, <2>2
    <3>2. c[t].key <= c[i].key
      BY <1>1, <2>2, <3>1
    <3> QED BY <1>1, <3>1, <3>2
  <2> QED BY <2>1, <2>2
<1>4. {i \in DOMAIN c : c[i].key < k} = 1..(t - 1)
  <2>1. \A i \in 1..(t - 1) : i \in 1..n /\ i < t
    BY <1>1, <1>2
  <2>2. \A i \in 1..n : i < t => i \in 1..(t - 1)
    BY <1>1, <1>2
  <2> QED BY <1>1, <1>3, <2>1, <2>2
<1>5. Cardinality(1..(t - 1)) = t - 1
  <2>1. 1 \in Int /\ t - 1 \in Int /\ (IF 1 > t - 1 THEN 0 ELSE t - 1 - 1 + 1) = t - 1
    BY <1>1, <1>2
  <2> QED BY <2>1, FS_Interval
<1>6. p = t
  <2>1. p = 1 + Cardinality(1..(t - 1))
    BY <1>4
  <2> QED BY <1>2, <1>5, <2>1
<1> QED BY <1>1, <1>2, <1>3, <1>6 DEF n

LEMMA PutIs ==
  ASSUME NEW g, NEW c, Lists(c, g), NEW k \in Nat, NEW v \in Values
  PROVE  Lists(Put(c, Column(k, v)), Plus(g, k, v))
<1> DEFINE n == Len(c)
           e == Column(k, v)
           h == Plus(g, k, v)
           p == 1 + Cardinality({i \in DOMAIN c : c[i].key < k})
<1>1. n \in Nat /\ c \in Seq(Col) /\ c \in [1..n -> Col] /\ DOMAIN c = 1..n
  BY DEF Lists
<1>2. e \in Col /\ e.key = k
  BY ColumnType
<1>3. p \in 1..n + 1 /\ \A i \in 1..n : c[i].key \in Nat /\ (i < p <=> c[i].key < k)
  BY PutPlace
<1>4. /\ \A i, j \in 1..n : i < j => c[i].key < c[j].key
      /\ \A i \in 1..n : c[i].key \in DOMAIN g /\ c[i] = Column(c[i].key, g[c[i].key])
      /\ \A j \in DOMAIN g : \E i \in 1..n : c[i].key = j
  BY DEF Lists
<1>5. /\ DOMAIN h = DOMAIN g \cup {k} /\ h[k] = v
      /\ \A j \in DOMAIN g : j # k => h[j] = g[j]
  BY DEF Plus
<1>6. Put(c, e) = IF p <= n /\ c[p].key = k THEN ReplaceAt(c, p, e) ELSE InsertAt(c, p, e)
  BY <1>2 DEF Put
<1> HIDE DEF n, e, h, p
<1>7. CASE p <= n /\ c[p].key = k
  <2> DEFINE r == [c EXCEPT ![p] = e]
  <2>1. p \in 1..n /\ c[p].key = k
    BY <1>1, <1>3, <1>7
  <2>2. r \in [1..n -> Col] /\ \A i \in 1..n : r[i] = IF i = p THEN e ELSE c[i]
    BY <1>1, <1>2, <2>1
  <2>3. \A i \in 1..n : r[i].key = c[i].key
    BY <1>2, <2>1, <2>2
  <2>4. \A i \in 1..n : i # p => c[i].key # k
    <3> SUFFICES ASSUME NEW i \in 1..n, i # p, c[i].key = k PROVE FALSE
      OBVIOUS
    <3>1. i < p => c[i].key < k
      BY <1>3
    <3>2. p < i => c[p].key < c[i].key
      BY <1>4, <2>1
    <3>3. i < p \/ p < i
      BY <1>1, <1>3
    <3> QED BY <2>1, <3>1, <3>2, <3>3
  <2> HIDE DEF r
  <2>5. r \in Seq(Col) /\ Len(r) = n
    BY <1>1, <2>2
  <2>6. \A i \in 1..n : r[i].key \in DOMAIN h /\ r[i] = Column(r[i].key, h[r[i].key])
    BY <1>2, <1>4, <1>5, <2>1, <2>2, <2>3, <2>4 DEF e
  <2>7. \A j \in DOMAIN h : \E i \in 1..n : r[i].key = j
    BY <1>4, <1>5, <2>1, <2>3
  <2>8. Lists(r, h)
    BY <1>4, <2>3, <2>5, <2>6, <2>7 DEF Lists
  <2> QED BY <1>6, <1>7, <2>8 DEF ReplaceAt, r, e, h
<1>8. CASE ~(p <= n /\ c[p].key = k)
  <2> DEFINE r == InsertAt(c, p, e)
  <2>1. /\ r \in Seq(Col) /\ Len(r) = n + 1
        /\ \A i \in 1..n + 1 : r[i] = IF i < p THEN c[i] ELSE IF i = p THEN e ELSE c[i - 1]
    <3> DEFINE a == SubSeq(c, 1, p - 1)
               z == SubSeq(c, p, n)
    <3>1. a \in Seq(Col) /\ Len(a) = p - 1 /\ \A i \in 1..(p - 1) : a[i] = c[i]
      <4>1. 1 \in Int /\ p - 1 \in Int /\ \A i \in 1..(p - 1) : i \in 1..n
        BY <1>1, <1>3
      <4>2. \A i \in 1..(p - 1) : c[i] \in Col
        BY <1>1, <4>1
      <4>3. /\ a \in Seq(Col) /\ Len(a) = IF 1 <= p - 1 THEN p - 1 - 1 + 1 ELSE 0
            /\ \A i \in 1..(p - 1 - 1 + 1) : a[i] = c[1 + i - 1]
        BY <4>1, <4>2, SubSeqProperties
      <4> QED BY <1>1, <1>3, <4>3
    <3>2. z \in Seq(Col) /\ Len(z) = n + 1 - p /\ \A i \in 1..(n + 1 - p) : z[i] = c[p + i - 1]
      <4>1. p \in Int /\ n \in Int /\ \A i \in p..n : i \in 1..n
        BY <1>1, <1>3
      <4>2. \A i \in p..n : c[i] \in Col
        BY <1>1, <4>1
      <4>3. /\ z \in Seq(Col) /\ Len(z) = IF p <= n THEN n - p + 1 ELSE 0
            /\ \A i \in 1..(n - p + 1) : z[i] = c[p + i - 1]
        BY <4>1, <4>2, SubSeqProperties
      <4> QED BY <1>1, <1>3, <4>3
    <3>3. <<e>> \in Seq(Col) /\ Len(<<e>>) = 1 /\ <<e>>[1] = e
      BY <1>2
    <3> DEFINE ae == a \o <<e>>
    <3> HIDE DEF a, z
    <3>4. /\ ae \in Seq(Col) /\ Len(ae) = Len(a) + 1
          /\ \A i \in 1..Len(a) + 1 : ae[i] = IF i <= Len(a) THEN a[i] ELSE <<e>>[i - Len(a)]
      BY <3>1, <3>3, ConcatProperties
    <3>5. Len(ae) = p /\ \A i \in 1..p : ae[i] = IF i < p THEN c[i] ELSE e
      <4>1. Len(ae) = p
        BY <1>1, <1>3, <3>1, <3>4
      <4>2. ASSUME NEW i \in 1..p PROVE ae[i] = IF i < p THEN c[i] ELSE e
        <5>1. CASE i < p
          <6>1. i \in 1..Len(a) + 1 /\ i <= Len(a) /\ i \in 1..(p - 1)
            BY <1>1, <1>3, <3>1, <5>1
          <6> QED BY <3>1, <3>4, <5>1, <6>1
        <5>2. CASE i = p
          <6>1. i \in 1..Len(a) + 1 /\ ~(i <= Len(a)) /\ i - Len(a) = 1 /\ ~(i < p)
            BY <1>1, <1>3, <3>1, <5>2
          <6> QED BY <3>3, <3>4, <6>1
        <5>3. i < p \/ i = p
          BY <1>1, <1>3
        <5> HIDE DEF ae
        <5> QED BY <5>1, <5>2, <5>3
      <4> QED BY <4>1, <4>2
    <3>6. r = ae \o z
      BY DEF InsertAt, a, z, n
    <3> HIDE DEF ae, r
    <3>7. /\ r \in Seq(Col) /\ Len(r) = Len(ae) + Len(z)
          /\ \A i \in 1..Len(ae) + Len(z) : r[i] = IF i <= Len(ae) THEN ae[i] ELSE z[i - Len(ae)]
      BY <3>2, <3>4, <3>6, ConcatProperties
    <3>8. Len(r) = n + 1
      BY <1>1, <1>3, <3>2, <3>5, <3>7
    <3>9. ASSUME NEW i \in 1..n + 1
          PROVE  r[i] = IF i < p THEN c[i] ELSE IF i = p THEN e ELSE c[i - 1]
      <4>1. Len(ae) = p /\ i \in 1..Len(ae) + Len(z)
        BY <1>1, <1>3, <3>2, <3>5
      <4>2. CASE i <= p
        <5>1. i \in 1..p
          BY <1>1, <1>3, <4>2
        <5> QED BY <1>1, <1>3, <3>5, <3>7, <4>1, <4>2, <5>1
      <4>3. CASE ~(i <= p)
        <5>1. i - p \in 1..(n + 1 - p) /\ p + (i - p) - 1 = i - 1 /\ ~(i < p) /\ i # p
          BY <1>1, <1>3, <4>3
        <5> QED BY <3>2, <3>7, <4>1, <4>3, <5>1
      <4> QED BY <4>2, <4>3
    <3> QED BY <3>7, <3>8, <3>9
  <2> HIDE DEF r
  <2>2. \A i \in 1..n : c[i].key # k /\ (i < p <=> c[i].key < k) /\ (~(i < p) <=> c[i].key > k)
    <3> SUFFICES ASSUME NEW i \in 1..n, c[i].key = k PROVE FALSE
      BY <1>3
    <3>1. ~(i < p)
      BY <1>3
    <3>2. i # p
      BY <1>1, <1>3, <1>8
    <3>3. p \in 1..n /\ p < i
      BY <1>1, <1>3, <3>1, <3>2
    <3>4. c[p].key < k /\ ~(c[p].key < k)
      BY <1>3, <1>4, <3>3
    <3> QED BY <3>4
  <2>3. \A i \in 1..n + 1 : /\ i < p => i \in 1..n /\ r[i] = c[i]
                            /\ i = p => r[i] = e
                            /\ i > p => i - 1 \in 1..n /\ ~(i - 1 < p) /\ r[i] = c[i - 1]
    BY <1>1, <1>3, <2>1
  <2>4. ASSUME NEW i \in 1..n + 1, NEW j \in 1..n + 1, i < j PROVE r[i].key < r[j].key
    <3>1. CASE j < p
      <4>1. i < p
        BY <1>3, <2>4, <3>1
      <4>2. i \in 1..n /\ j \in 1..n /\ r[i] = c[i] /\ r[j] = c[j]
        BY <2>3, <3>1, <4>1
      <4> QED BY <1>4, <2>4, <4>2
    <3>2. CASE j = p
      BY <1>1, <1>2, <1>3, <2>2, <2>3, <2>4, <3>2
    <3>3. CASE j > p /\ i < p
      <4>1. i \in 1..n /\ j - 1 \in 1..n /\ i < j - 1 /\ r[i] = c[i] /\ r[j] = c[j - 1]
        BY <1>1, <1>3, <2>3, <2>4, <3>3
      <4> QED BY <1>4, <4>1
    <3>4. CASE j > p /\ i = p
      <4>1. j - 1 \in 1..n /\ ~(j - 1 < p) /\ r[i] = e /\ r[j] = c[j - 1]
        BY <2>3, <3>4
      <4> QED BY <1>2, <2>2, <4>1
    <3>5. CASE j > p /\ i > p
      <4>1. i - 1 \in 1..n /\ j - 1 \in 1..n /\ i - 1 < j - 1 /\ r[i] = c[i - 1] /\ r[j] = c[j - 1]
        BY <2>3, <2>4, <3>5
      <4> QED BY <1>4, <4>1
    <3> QED BY <1>3, <3>1, <3>2, <3>3, <3>4, <3>5
  <2>5. ASSUME NEW i \in 1..n + 1
        PROVE  r[i].key \in DOMAIN h /\ r[i] = Column(r[i].key, h[r[i].key])
    <3>1. CASE i = p
      BY <1>2, <1>5, <2>3, <3>1 DEF e
    <3>2. CASE i # p
      <4>1. PICK m \in 1..n : r[i] = c[m]
        BY <1>1, <1>3, <2>3, <3>2
      <4>2. c[m].key # k /\ c[m].key \in DOMAIN g
        BY <1>4, <2>2
      <4> QED BY <1>4, <1>5, <4>1, <4>2
    <3> QED BY <3>1, <3>2
  <2>6. ASSUME NEW j \in DOMAIN h PROVE \E i \in 1..n + 1 : r[i].key = j
    <3>1. CASE j = k
      <4>1. p \in 1..n + 1 /\ r[p].key = k
        BY <1>2, <1>3, <2>3
      <4> QED BY <3>1, <4>1
    <3>2. CASE j # k
      <4>1. PICK m \in 1..n : c[m].key = j
        BY <1>4, <1>5, <3>2
      <4>2. CASE m < p
        <5>1. m \in 1..n + 1 /\ r[m] = c[m]
          BY <1>1, <2>3, <4>2
        <5> QED BY <4>1, <5>1
      <4>3. CASE ~(m < p)
        <5>1. m + 1 \in 1..n + 1 /\ m + 1 > p /\ (m + 1) - 1 = m
          BY <1>1, <1>3, <4>3
        <5>2. r[m + 1] = c[m]
          BY <2>3, <5>1
        <5> QED BY <4>1, <5>1, <5>2
      <4> QED BY <4>2, <4>3
    <3> QED BY <3>1, <3>2
  <2>7. Lists(r, h)
    BY <2>1, <2>4, <2>5, <2>6 DEF Lists
  <2> QED BY <1>6, <1>8, <2>7 DEF r, e, h
<1> QED BY <1>7, <1>8

\* f, and what g has besides.
Over(f, g) == [j \in DOMAIN f \cup DOMAIN g |-> IF j \in DOMAIN f THEN f[j] ELSE g[j]]

LEMMA ListsType ==
  ASSUME NEW g, NEW c, Lists(c, g)
  PROVE  /\ c \in Seq(Col) /\ Len(c) \in Nat /\ c \in [1..Len(c) -> Col] /\ DOMAIN c = 1..Len(c)
         /\ \A i \in 1..Len(c) : c[i].key \in Nat /\ c[i].type \in Types /\ c[i].bytes \in Seq(Byte)
<1>1. c \in Seq(Col)
  BY DEF Lists
<1>2. Len(c) \in Nat /\ c \in [1..Len(c) -> Col] /\ DOMAIN c = 1..Len(c)
  BY <1>1
<1>3. \A i \in 1..Len(c) : c[i].key \in Nat /\ c[i].type \in Types /\ c[i].bytes \in Seq(Byte)
  BY <1>2 DEF Col
<1> QED BY <1>1, <1>2, <1>3

LEMMA MergedIs ==
  ASSUME NEW g, NEW c, Lists(c, g), Held(g), NEW f, Held(f)
  PROVE  Merged(c, f) = InOrder(Over(f, g))
<1> DEFINE new == InOrder(f)
           m == Len(new)
           done(i) == {new[j].key : j \in 1..i}
           part(i) == [k \in done(i) \cup DOMAIN g |-> IF k \in done(i) THEN f[k] ELSE g[k]]
           G == [i \in 0..m |-> InOrder(part(i))]
           Rec(h) == h = [i \in 0..m |-> IF i = 0 THEN c ELSE Put(h[i - 1], new[i])]
           merge == CHOOSE h : Rec(h)
<1>1. Lists(new, f)
  BY InOrderOf
<1>2. /\ m \in Nat
      /\ \A i \in 1..m : /\ new[i].key \in DOMAIN f /\ new[i].key \in Nat
                         /\ f[new[i].key] \in Values
                         /\ new[i] = Column(new[i].key, f[new[i].key])
      /\ \A i, j \in 1..m : i < j => new[i].key < new[j].key
      /\ \A k \in DOMAIN f : \E i \in 1..m : new[i].key = k
  BY <1>1, ListsType DEF Lists, Held
<1>3. Merged(c, f) = merge[m]
  BY DEF Merged
<1> HIDE DEF new, m, merge
<1>4. part(0) = g
  <2>1. done(0) = {}
    OBVIOUS
  <2>2. part(0) = [k \in DOMAIN g |-> g[k]]
    BY <2>1
  <2>3. g = [k \in DOMAIN g |-> g[k]]
    BY DEF Held
  <2> QED BY <2>2, <2>3
<1>5. ASSUME NEW i \in 1..m PROVE part(i) = Plus(part(i - 1), new[i].key, f[new[i].key])
  <2>1. done(i) = done(i - 1) \cup {new[i].key}
    <3>1. \A j \in 1..i : j \in 1..(i - 1) \/ j = i
      BY <1>2
    <3>2. i \in 1..i /\ \A j \in 1..(i - 1) : j \in 1..i
      BY <1>2
    <3> QED BY <3>1, <3>2
  <2> HIDE DEF done
  <2> QED BY <2>1 DEF Plus
<1>6. \A i \in 0..m : \E d : Lists(d, part(i))
  <2> DEFINE T == {i \in 0..m : \E d : Lists(d, part(i))}
  <2> HIDE DEF part
  <2>1. 0 \in T
    BY <1>2, <1>4
  <2>2. ASSUME NEW i \in 0..(m - 1), i \in T PROVE i + 1 \in T
    <3>1. i + 1 \in 1..m /\ (i + 1) - 1 = i
      BY <1>2
    <3>2. PICK d : Lists(d, part(i))
      BY <2>2
    <3>3. part(i + 1) = Plus(part(i), new[i + 1].key, f[new[i + 1].key])
      BY <1>5, <3>1
    <3>4. \E e : Lists(e, part(i + 1))
      BY <1>2, <3>1, <3>2, <3>3, PutIs
    <3> QED BY <1>2, <3>1, <3>4
  <2> HIDE DEF T
  <2>3. \A i \in 0..m : i \in T
    BY <1>2, <2>1, <2>2, UpTo
  <2> QED BY <2>3 DEF T
<1>7. \A i \in 0..m : Lists(G[i], part(i)) /\ G[i] = InOrder(part(i))
  <2> HIDE DEF part
  <2> QED BY <1>6, InOrderIs
<1>8. G[0] = c
  BY <1>2, <1>4, <1>7, InOrderIs
<1>9. ASSUME NEW i \in 1..m PROVE G[i] = Put(G[i - 1], new[i])
  <2> HIDE DEF part
  <2>1. i \in 0..m /\ i - 1 \in 0..m
    BY <1>2
  <2>2. Lists(G[i - 1], part(i - 1))
    BY <1>7, <2>1
  <2>3. Lists(Put(G[i - 1], new[i]), part(i))
    <3> DEFINE k == new[i].key
    <3>1. k \in Nat /\ f[k] \in Values /\ new[i] = Column(k, f[k]) /\ part(i) = Plus(part(i - 1), k, f[k])
      BY <1>2, <1>5
    <3> HIDE DEF k
    <3>2. Lists(Put(G[i - 1], Column(k, f[k])), Plus(part(i - 1), k, f[k]))
      BY <2>2, <3>1, PutIs
    <3> QED BY <3>1, <3>2
  <2> QED BY <1>7, <2>1, <2>3, InOrderIs
<1>10. Rec(G)
  <2>1. \A i \in 0..m : i = 0 \/ i \in 1..m
    BY <1>2
  <2>2. \A i \in 0..m : G[i] = IF i = 0 THEN c ELSE Put(G[i - 1], new[i])
    <3> HIDE DEF G
    <3> QED BY <1>8, <1>9, <2>1
  <2> QED BY <2>2
<1> HIDE DEF G
<1>11. Rec(merge)
  <2> HIDE DEF Rec
  <2> QED BY <1>10 DEF merge
<1>12. \A i \in 0..m : merge[i] = G[i]
  <2> DEFINE T == {i \in 0..m : merge[i] = G[i]}
  <2>1. 0 \in T
    BY <1>2, <1>8, <1>11
  <2>2. ASSUME NEW i \in 0..(m - 1), i \in T PROVE i + 1 \in T
    <3>1. i + 1 \in 1..m /\ i + 1 \in 0..m /\ i + 1 # 0 /\ (i + 1) - 1 = i
      BY <1>2
    <3>2. merge[i + 1] = Put(merge[i], new[i + 1])
      BY <1>11, <3>1
    <3>3. G[i + 1] = Put(G[i], new[i + 1])
      BY <1>9, <3>1
    <3> QED BY <2>2, <3>1, <3>2, <3>3
  <2> HIDE DEF T
  <2>3. \A i \in 0..m : i \in T
    BY <1>2, <2>1, <2>2, UpTo
  <2> QED BY <2>3 DEF T
<1>13. part(m) = Over(f, g)
  <2>1. done(m) = DOMAIN f
    BY <1>2
  <2> HIDE DEF done
  <2> QED BY <2>1 DEF Over
<1>14. Merged(c, f) = InOrder(part(m))
  BY <1>2, <1>3, <1>7, <1>12
<1> QED BY <1>13, <1>14

-----------------------------------------------------------------------------
(* Without.                                                                *)

Less(g, K) == [j \in DOMAIN g \ K |-> g[j]]

\* What is kept, in its order.
LEMMA WithoutIs ==
  ASSUME NEW g, NEW c, Lists(c, g), NEW K
  PROVE  /\ Without(c, K) = InOrder(Less(g, K)) /\ Lists(Without(c, K), Less(g, K))
         /\ \E kept \in [1..Len(Without(c, K)) -> 1..Len(c)] :
              /\ Increasing(kept, Len(Without(c, K)))
              /\ \A j \in 1..Len(Without(c, K)) : Without(c, K)[j] = c[kept[j]]
<1> DEFINE n == Len(c)
           I == {i \in 1..n : c[i].key \notin K}
           s == Ordered(I)
           m == Cardinality(I)
           r == Without(c, K)
<1>1. n \in Nat /\ c \in [1..n -> Col] /\ DOMAIN c = 1..n
  BY ListsType
<1>2. I \in SUBSET Nat /\ IsFiniteSet(I)
  <2>1. IsFiniteSet(1..n) /\ I \in SUBSET (1..n)
    BY <1>1, FS_Interval
  <2>2. IsFiniteSet(I)
    BY <2>1, FS_Subset
  <2> QED BY <2>2
<1> HIDE DEF n
<1>3. /\ m \in Nat /\ s \in [1..m -> I] /\ Increasing(s, m) /\ I = {s[j] : j \in 1..m}
  <2> HIDE DEF I
  <2> QED BY <1>2, OrderedOf
<1>4. r = [j \in 1..m |-> c[s[j]]]
  BY <1>1, <1>3 DEF Without
<1> HIDE DEF m, s, r
<1>5. r \in Seq(Col) /\ Len(r) = m
  <2>1. r \in [1..m -> Col]
    BY <1>1, <1>3, <1>4
  <2> QED BY <1>3, <2>1
<1>6. \A i, j \in 1..m : i < j => r[i].key < r[j].key
  <2>1. \A i \in 1..m : s[i] \in 1..n /\ s[i] \in Nat
    BY <1>1, <1>3
  <2>2. \A i, j \in 1..m : i < j => s[i] < s[j]
    BY <1>3 DEF Increasing
  <2> QED BY <1>4, <2>1, <2>2 DEF Lists, n
<1>7. \A j \in 1..m : r[j].key \in DOMAIN Less(g, K)
                      /\ r[j] = Column(r[j].key, Less(g, K)[r[j].key])
  <2> SUFFICES ASSUME NEW j \in 1..m
               PROVE  r[j].key \in DOMAIN Less(g, K)
                      /\ r[j] = Column(r[j].key, Less(g, K)[r[j].key])
    OBVIOUS
  <2>1. s[j] \in 1..n /\ c[s[j]].key \notin K /\ r[j] = c[s[j]]
    BY <1>3, <1>4
  <2>2. c[s[j]].key \in DOMAIN g /\ c[s[j]] = Column(c[s[j]].key, g[c[s[j]].key])
    BY <2>1 DEF Lists, n
  <2> QED BY <2>1, <2>2 DEF Less
<1>8. ASSUME NEW k \in DOMAIN Less(g, K) PROVE \E j \in 1..m : r[j].key = k
  <2>1. k \in DOMAIN g /\ k \notin K
    BY DEF Less
  <2>2. PICK i \in 1..n : c[i].key = k
    BY <2>1 DEF Lists, n
  <2>3. i \in I
    BY <2>1, <2>2
  <2>4. PICK j \in 1..m : s[j] = i
    BY <1>3, <2>3
  <2> QED BY <1>4, <2>2, <2>4
<1>9. Lists(r, Less(g, K))
  BY <1>5, <1>6, <1>7, <1>8 DEF Lists
<1>10. s \in [1..m -> 1..n] /\ \A j \in 1..m : r[j] = c[s[j]]
  BY <1>3, <1>4
<1> QED BY <1>3, <1>5, <1>9, <1>10, InOrderIs DEF r, n

\* The data grow from column to column.
LEMMA Grows ==
  ASSUME NEW cols \in Seq(Col), NEW w, w = Written(cols),
         NEW a \in 0..Len(cols), NEW b \in a..Len(cols)
  PROVE  Len(w[a]) \in Nat /\ Len(w[b]) \in Nat /\ Len(w[a]) <= Len(w[b])
<1> DEFINE n == Len(cols)
           T == {i \in 0..n : a <= i => Len(w[a]) <= Len(w[i])}
<1>1. /\ n \in Nat /\ \A i \in 0..n : Len(w[i]) \in Nat
      /\ \A i \in 1..n : cols[i].bytes \in Seq(Byte)
      /\ \A i \in 1..n : Len(w[i]) = Len(w[i - 1]) + Len(cols[i].bytes)
  <2> HIDE DEF T
  <2>1. n \in Nat
    OBVIOUS
  <2> QED BY <2>1, Places
<1>2. \A i \in 1..n : Len(cols[i].bytes) \in Nat
  BY <1>1
<1> HIDE DEF n
<1>3. a \in 0..n /\ b \in 0..n /\ a <= b
  BY <1>1 DEF n
<1>4. 0 \in T
  BY <1>1, <1>3
<1>5. ASSUME NEW i \in 0..(n - 1), i \in T PROVE i + 1 \in T
  <2>1. i + 1 \in 1..n /\ i + 1 \in 0..n /\ (i + 1) - 1 = i /\ i \in 0..n
    BY <1>1
  <2>2. Len(w[i]) <= Len(w[i + 1])
    <3> DEFINE x == Len(cols[i + 1].bytes)
    <3>1. Len(w[i + 1]) = Len(w[i]) + x
      BY <1>1, <2>1
    <3>2. Len(w[i]) \in Nat /\ x \in Nat
      BY <1>1, <1>2, <2>1
    <3> HIDE DEF x
    <3> QED BY <3>1, <3>2
  <2>3. Len(w[i]) \in Nat /\ Len(w[i + 1]) \in Nat /\ Len(w[a]) \in Nat
    BY <1>1, <1>3, <2>1
  <2>4. a <= i + 1 => a <= i \/ a = i + 1
    BY <1>3, <2>1
  <2> QED BY <1>5, <2>1, <2>2, <2>3, <2>4
<1>6. b \in T
  <2> HIDE DEF T
  <2>1. \A i \in 0..n : i \in T
    BY <1>1, <1>4, <1>5, UpTo
  <2> QED BY <1>3, <2>1
<1> QED BY <1>1, <1>3, <1>6

\* How long the data are, column by column.
LEMMA Lengths ==
  ASSUME NEW cols \in Seq(Col), NEW w, w = Written(cols)
  PROVE  /\ \A i \in 0..Len(cols) : Len(w[i]) \in Nat
         /\ \A i \in 1..Len(cols) : Len(w[i]) = Len(w[i - 1]) + Len(cols[i].bytes)
         /\ \A i \in 1..Len(cols) : Len(cols[i].bytes) \in Nat
         /\ Len(w[0]) = 0
<1>1. \A i \in 1..Len(cols) : cols[i].bytes \in Seq(Byte)
  BY Places
<1>2. \A i \in 1..Len(cols) : Len(cols[i].bytes) \in Nat
  BY <1>1
<1>3. w[0] = <<>>
  BY WrittenIs
<1> QED BY <1>2, <1>3, Places

\* Removing columns makes the data shorter, by at least the bytes of any column that goes.
LEMMA ShrinksBy ==
  ASSUME NEW g, NEW c, Lists(c, g), NEW K, NEW r, r = Without(c, K),
         NEW gone \in Nat \ {0}, NEW x \in Nat,
         x # 0 => gone \in 1..Len(c) /\ c[gone].key \in K /\ Len(c[gone].bytes) = x
  PROVE  /\ r \in Seq(Col) /\ Len(r) \in Nat /\ Len(c) \in Nat /\ Len(r) <= Len(c)
         /\ Len(Written(r)[Len(r)]) \in Nat /\ Len(Written(c)[Len(c)]) \in Nat
         /\ Len(Written(r)[Len(r)]) + x <= Len(Written(c)[Len(c)])
<1> DEFINE n == Len(c)
           m == Len(r)
           w == Written(c)
           v == Written(r)
<1>1. /\ c \in Seq(Col) /\ r \in Seq(Col) /\ n \in Nat /\ m \in Nat
  BY WithoutIs, ListsType
<1>2. PICK s \in [1..m -> 1..n] :
        Increasing(s, m) /\ \A j \in 1..m : r[j] = c[s[j]]
  BY WithoutIs
<1>3. /\ \A i \in 0..n : Len(w[i]) \in Nat
      /\ \A i \in 1..n : Len(w[i]) = Len(w[i - 1]) + Len(c[i].bytes)
      /\ \A i \in 1..n : Len(c[i].bytes) \in Nat
  BY <1>1, Lengths, Zenon
<1>4. /\ \A j \in 0..m : Len(v[j]) \in Nat
      /\ \A j \in 1..m : Len(v[j]) = Len(v[j - 1]) + Len(r[j].bytes)
      /\ Len(v[0]) = 0
  BY <1>1, Lengths, Zenon
<1>5. \A j \in 1..m : r[j].key \notin K
  <2>1. Lists(r, Less(g, K))
    BY WithoutIs
  <2> QED BY <2>1 DEF Lists, Less
<1>6. x # 0 => gone \in 1..n /\ c[gone].key \in K /\ Len(c[gone].bytes) = x
  OBVIOUS
<1>7. ASSUME NEW a \in 0..n, NEW b \in a..n PROVE Len(w[a]) <= Len(w[b])
  BY <1>1, Grows
<1> HIDE DEF n, m, w, v
<1>8. ASSUME NEW a \in 0..n, NEW b \in a..n
      PROVE  Len(w[a]) + (IF a < gone /\ gone <= b THEN x ELSE 0) <= Len(w[b])
  <2>1. b \in 0..n /\ Len(w[a]) \in Nat /\ Len(w[b]) \in Nat
    BY <1>1, <1>3
  <2>2. CASE a < gone /\ gone <= b /\ x # 0
    <3>0. a \in Int /\ b \in Int /\ gone \in Int /\ n \in Int /\ a <= b /\ b <= n /\ 0 <= a
      BY <1>1, <2>1
    <3>1. gone - 1 \in a..n /\ gone - 1 \in 0..n /\ gone \in 0..n /\ b \in gone..n /\ gone \in 1..n
      BY <1>6, <2>2, <3>0
    <3>2. Len(w[a]) <= Len(w[gone - 1]) /\ Len(w[gone]) <= Len(w[b])
      BY <1>7, <3>1
    <3>3. Len(w[gone]) = Len(w[gone - 1]) + x
      BY <1>3, <1>6, <2>2, <3>1
    <3>4. Len(w[gone - 1]) \in Nat /\ Len(w[gone]) \in Nat
      BY <1>3, <3>1
    <3>5. Len(w[a]) + x <= Len(w[b])
      BY <2>1, <3>2, <3>3, <3>4
    <3> QED BY <2>2, <3>5
  <2>3. CASE ~(a < gone /\ gone <= b /\ x # 0)
    <3>1. Len(w[a]) <= Len(w[b])
      BY <1>7
    <3>2. (IF a < gone /\ gone <= b THEN x ELSE 0) = 0
      BY <2>3
    <3>3. Len(w[a]) + 0 <= Len(w[b])
      BY <2>1, <3>1
    <3> QED BY <3>2, <3>3
  <2> QED BY <2>2, <2>3
<1> DEFINE end(j) == IF j = 0 THEN 0 ELSE s[j]
           passed(e) == IF gone <= e THEN x ELSE 0
           T == {j \in 0..m : j <= end(j) /\ Len(v[j]) + passed(end(j)) <= Len(w[end(j)])}
<1>9. \A j \in 0..m : end(j) \in 0..n
  BY <1>1, <1>2
<1>10. 0 \in T
  <2>1. Len(v[0]) = 0 /\ passed(0) = 0 /\ end(0) = 0
    BY <1>4
  <2>2. 0 \in 0..n /\ 0 \in 0..m
    BY <1>1
  <2>3. Len(w[0]) \in Nat
    BY <1>3, <2>2
  <2> HIDE DEF passed, end
  <2> QED BY <2>1, <2>2, <2>3
<1>11. ASSUME NEW j \in 0..(m - 1), j \in T PROVE j + 1 \in T
  <2>1. j + 1 \in 1..m /\ j + 1 \in 0..m /\ (j + 1) - 1 = j /\ j + 1 # 0 /\ j \in 0..m
    BY <1>1
  <2> DEFINE t == s[j + 1]
             e == end(j)
  <2>2. t \in 1..n /\ end(j + 1) = t /\ t - 1 \in 0..n /\ t \in 0..n
    BY <1>1, <1>2, <2>1
  <2>3. e <= t - 1 /\ e \in 0..n /\ j <= e
    <3>1. CASE j = 0
      BY <1>1, <2>2, <3>1
    <3>2. CASE j # 0
      <4>1. j \in 1..m /\ j < j + 1 /\ s[j] \in 1..n
        <5>1. j \in 1..m /\ j < j + 1
          BY <1>1, <3>2
        <5> QED BY <1>2, <5>1
      <4>2. s[j] < s[j + 1]
        BY <1>2, <2>1, <4>1 DEF Increasing
      <4> QED BY <1>11, <2>2, <3>2, <4>1, <4>2
    <3> QED BY <3>1, <3>2
  <2>4. r[j + 1] = c[t] /\ c[t].key \notin K
    BY <1>2, <1>5, <2>1
  <2>5. Len(w[e]) + (IF e < gone /\ gone <= t - 1 THEN x ELSE 0) <= Len(w[t - 1])
    <3>1. t - 1 \in e..n
      BY <2>2, <2>3
    <3> HIDE DEF t, e
    <3> QED BY <1>8, <2>3, <3>1
  <2>6. /\ Len(v[j + 1]) = Len(v[j]) + Len(c[t].bytes)
        /\ Len(w[t]) = Len(w[t - 1]) + Len(c[t].bytes)
    BY <1>3, <1>4, <2>1, <2>2, <2>4
  <2>7. Len(v[j]) + passed(e) <= Len(w[e])
    BY <1>11
  <2>8. /\ Len(v[j]) \in Nat /\ Len(w[e]) \in Nat /\ Len(w[t - 1]) \in Nat
        /\ Len(c[t].bytes) \in Nat
    BY <1>3, <1>4, <2>1, <2>2, <2>3
  <2>9. x # 0 => gone # t
    BY <1>6, <2>4
  <2> HIDE DEF t, e
  <2>10. passed(t) <= passed(e) + (IF e < gone /\ gone <= t - 1 THEN x ELSE 0)
    BY <2>2, <2>3, <2>9
  <2>11. Len(v[j + 1]) + passed(t) <= Len(w[t])
    <3> DEFINE p == passed(t)
               q == passed(e)
               y == IF e < gone /\ gone <= t - 1 THEN x ELSE 0
    <3>1. p \in Nat /\ q \in Nat /\ y \in Nat
      OBVIOUS
    <3>2. p <= q + y /\ Len(v[j]) + q <= Len(w[e]) /\ Len(w[e]) + y <= Len(w[t - 1])
      BY <2>5, <2>7, <2>10
    <3> DEFINE v0 == Len(v[j])
               v1 == Len(v[j + 1])
               w0 == Len(w[e])
               w1 == Len(w[t - 1])
               w2 == Len(w[t])
               z == Len(c[t].bytes)
    <3> HIDE DEF p, q, y
    <3>4. v1 = v0 + z /\ w2 = w1 + z /\ v0 \in Nat /\ w0 \in Nat /\ w1 \in Nat /\ z \in Nat
      BY <2>6, <2>8
    <3>5. v0 + q <= w0 /\ w0 + y <= w1
      BY <3>2
    <3> HIDE DEF v0, v1, w0, w1, w2, z
    <3>6. v1 + p <= w2
      BY <3>1, <3>2, <3>4, <3>5
    <3>3. Len(v[j + 1]) + p <= Len(w[t])
      BY <3>6 DEF v1, w2
    <3> QED BY <3>3 DEF p
  <2>12. j + 1 <= t
    BY <2>2, <2>3
  <2> HIDE DEF passed
  <2> QED BY <2>1, <2>2, <2>11, <2>12
<1>12. m \in T
  <2> HIDE DEF T
  <2>1. \A j \in 0..m : j \in T
    BY <1>1, <1>10, <1>11, UpTo
  <2> QED BY <1>1, <2>1
<1>13. m <= n /\ Len(v[m]) + x <= Len(w[n])
  <2> DEFINE e == end(m)
  <2>1. e \in 0..n /\ n \in e..n /\ n \in 0..n /\ m \in 0..m
    BY <1>1, <1>9
  <2>2. Len(w[e]) + (IF e < gone /\ gone <= n THEN x ELSE 0) <= Len(w[n])
    <3> HIDE DEF e
    <3> QED BY <1>8, <2>1
  <2>3. Len(v[m]) \in Nat /\ Len(w[e]) \in Nat /\ Len(w[n]) \in Nat
    BY <1>3, <1>4, <2>1
  <2>4. m <= e /\ Len(v[m]) + passed(e) <= Len(w[e])
    BY <1>12
  <2>5. x # 0 => gone <= n
    BY <1>1, <1>6
  <2> HIDE DEF e
  <2>6. m <= n
    BY <1>1, <2>1, <2>4
  <2> DEFINE vm == Len(v[m])
             we == Len(w[e])
             wn == Len(w[n])
  <2>7. vm + passed(e) <= we /\ we + (IF e < gone /\ gone <= n THEN x ELSE 0) <= wn
    BY <2>2, <2>4
  <2>8. vm \in Nat /\ we \in Nat /\ wn \in Nat
    BY <2>3
  <2> HIDE DEF vm, we, wn
  <2>9. vm + x <= wn
    <3>1. e \in Int /\ gone \in Int /\ n \in Int
      BY <1>1, <2>1
    <3>2. CASE gone <= e
      BY <2>7, <2>8, <3>1, <3>2
    <3>3. CASE ~(gone <= e) /\ x # 0
      BY <2>5, <2>7, <2>8, <3>1, <3>3
    <3>4. CASE ~(gone <= e) /\ x = 0
      BY <2>7, <2>8, <3>1, <3>4
    <3> QED BY <3>2, <3>3, <3>4
  <2> QED BY <2>6, <2>9 DEF vm, wn
<1> QED BY <1>1, <1>3, <1>4, <1>13 DEF n, m, w, v

LEMMA Shrinks ==
  ASSUME NEW g, NEW c, Lists(c, g), NEW K, NEW r, r = Without(c, K)
  PROVE  /\ r \in Seq(Col) /\ Len(r) \in Nat /\ Len(c) \in Nat /\ Len(r) <= Len(c)
         /\ Len(Written(r)[Len(r)]) \in Nat /\ Len(Written(c)[Len(c)]) \in Nat
         /\ Len(Written(r)[Len(r)]) <= Len(Written(c)[Len(c)])
         /\ \A i \in 1..Len(c) :
              c[i].key \in K /\ Len(Written(r)[Len(r)]) = Len(Written(c)[Len(c)])
                => c[i].bytes = <<>>
<1> DEFINE a == Len(Written(r)[Len(r)])
           b == Len(Written(c)[Len(c)])
<1>1. /\ r \in Seq(Col) /\ Len(r) \in Nat /\ Len(c) \in Nat /\ Len(r) <= Len(c)
      /\ a \in Nat /\ b \in Nat /\ a + 0 <= b
  <2>1. 1 \in Nat \ {0} /\ 0 \in Nat
    OBVIOUS
  <2> QED BY <2>1, ShrinksBy, Zenon
<1>2. ASSUME NEW i \in 1..Len(c), c[i].key \in K, a = b PROVE c[i].bytes = <<>>
  <2> DEFINE x == Len(c[i].bytes)
  <2>1. c \in Seq(Col)
    BY ListsType
  <2>2. c[i].bytes \in Seq(Byte)
    BY <2>1, Places
  <2>3. x \in Nat /\ i \in Nat \ {0}
    BY <2>2
  <2>4. a + x <= b
    <3>1. x # 0 => i \in 1..Len(c) /\ c[i].key \in K /\ Len(c[i].bytes) = x
      BY <1>2
    <3> HIDE DEF x, a, b
    <3> QED BY <2>3, <3>1, ShrinksBy DEF a, b
  <2> HIDE DEF a, b
  <2>5. x = 0
    BY <1>1, <1>2, <2>3, <2>4
  <2> QED BY <2>2, <2>5
<1> HIDE DEF a, b
<1> QED BY <1>1, <1>2 DEF a, b

-----------------------------------------------------------------------------
(* What a blob of a format can hold, and its names.                        *)

Contents(fmt, g) ==
  /\ DOMAIN g \in SUBSET Keys(fmt) /\ IsFiniteSet(DOMAIN g) /\ g \in [DOMAIN g -> Values]
  /\ fmt = "num" => \A k \in DOMAIN g : TypeOf[g[k]] # MapType

\* Names are in the order of their keys.
LEMMA KeyNames ==
  ASSUME NEW fmt \in Formats
  PROVE  /\ Keys(fmt) \in SUBSET Nat
         /\ \A k \in Keys(fmt) : k \in Nat /\ Name(fmt, k) \in Names /\ Name(fmt, k) \in Nat
         /\ \A j, k \in Keys(fmt) : j < k => Name(fmt, j) < Name(fmt, k)
         /\ \A j, k \in Keys(fmt) : Name(fmt, j) = Name(fmt, k) => j = k
<1>1. CASE fmt = "num"
  <2>1. /\ Keys(fmt) = Numbers /\ Numbers \in SUBSET Nat /\ Names \in SUBSET Nat
        /\ \A k \in Numbers : Name(fmt, k) = NameOf[k] /\ NameOf[k] \in Names
        /\ \A j, k \in Numbers : j < k => NameOf[j] < NameOf[k]
        /\ \A k \in Numbers : NumberOf[NameOf[k]] = k
    BY <1>1, BlobAssumption DEF Keys, Name
  <2> QED BY <2>1
<1>2. CASE fmt = "named"
  BY <1>2, BlobAssumption DEF Keys, Name
<1> QED BY <1>1, <1>2 DEF Formats

LEMMA ContentsHeld ==
  ASSUME NEW fmt \in Formats, NEW g, Contents(fmt, g)
  PROVE  /\ Held(g) /\ Lists(InOrder(g), g) /\ Apart(fmt, InOrder(g))
         /\ \A k \in DOMAIN g : k \in Keys(fmt) /\ g[k] \in Values
<1>1. Held(g) /\ \A k \in DOMAIN g : k \in Keys(fmt) /\ g[k] \in Values
  BY KeyNames DEF Held, Contents
<1> DEFINE c == InOrder(g)
<1>2. Lists(c, g)
  BY <1>1, InOrderOf
<1>3. Apart(fmt, c)
  <2> SUFFICES ASSUME fmt = "num", NEW i \in 1..Len(c) PROVE c[i].type # MapType
    BY DEF Apart
  <2>1. c[i].key \in DOMAIN g /\ c[i] = Column(c[i].key, g[c[i].key])
    BY <1>2 DEF Lists
  <2> HIDE DEF c
  <2>2. c[i].type = TypeOf[g[c[i].key]]
    BY <2>1 DEF Column
  <2> QED BY <2>1, <2>2 DEF Contents
<1> QED BY <1>1, <1>2, <1>3

LEMMA NamedIs ==
  ASSUME NEW fmt \in Formats, NEW g, Contents(fmt, g)
  PROVE  /\ DOMAIN Named(fmt, g) = {Name(fmt, k) : k \in DOMAIN g}
         /\ \A k \in DOMAIN g : Named(fmt, g)[Name(fmt, k)] = g[k]
         /\ Contents("named", Named(fmt, g))
<1> DEFINE h == Named(fmt, g)
           N == {Name(fmt, k) : k \in DOMAIN g}
<1>1. DOMAIN h = N
  BY DEF Named
<1>2. \A k \in DOMAIN g : k \in Keys(fmt) /\ g[k] \in Values
  BY ContentsHeld
<1>3. ASSUME NEW k \in DOMAIN g PROVE h[Name(fmt, k)] = g[k]
  <2> DEFINE n == Name(fmt, k)
             j == CHOOSE j \in DOMAIN g : Name(fmt, j) = n
  <2>1. h[n] = g[j]
    BY DEF Named
  <2>2. j \in DOMAIN g /\ Name(fmt, j) = n
    OBVIOUS
  <2> HIDE DEF j
  <2>3. j = k
    BY <1>2, <2>2, KeyNames
  <2> QED BY <2>1, <2>3
<1>4. h = [n \in N |-> h[n]]
  BY DEF Named
<1>5. IsFiniteSet(N)
  <2> DEFINE f == [k \in DOMAIN g |-> Name(fmt, k)]
  <2>1. f \in Surjection(DOMAIN g, N)
    BY Fun_IsSurj
  <2> HIDE DEF f, N
  <2> QED BY <2>1, FS_Surjection DEF Contents
<1>6. N \in SUBSET Keys("named")
  BY <1>2, KeyNames DEF Keys
<1>7. \A n \in N : h[n] \in Values
  <2> HIDE DEF h
  <2> QED BY <1>2, <1>3
<1> HIDE DEF h, N
<1>8. h \in [N -> Values]
  BY <1>4, <1>7
<1>9. Contents("named", h)
  BY <1>1, <1>5, <1>6, <1>8 DEF Contents
<1> QED BY <1>1, <1>3, <1>9 DEF h, N

LEMMA NamedNamed ==
  ASSUME NEW g, Contents("named", g)
  PROVE  Named("named", g) = g
<1>1. \A k \in DOMAIN g : Name("named", k) = k
  BY DEF Name
<1>2. {Name("named", k) : k \in DOMAIN g} = DOMAIN g
  BY <1>1
<1>3. "named" \in Formats
  BY DEF Formats
<1>4. DOMAIN Named("named", g) = DOMAIN g /\ \A k \in DOMAIN g : Named("named", g)[k] = g[k]
  BY <1>1, <1>2, <1>3, NamedIs
<1>5. g = [k \in DOMAIN g |-> g[k]]
  BY DEF Contents
<1>6. Named("named", g) = [k \in DOMAIN Named("named", g) |-> Named("named", g)[k]]
  BY DEF Named
<1> QED BY <1>4, <1>5, <1>6

\* Names in the order of the numbers are in their own order.
LEMMA Renamed ==
  ASSUME NEW fmt \in Formats, NEW g, Contents(fmt, g), NEW c, Lists(c, g)
  PROVE  InOrder(Named(fmt, g))
           = [i \in 1..Len(c) |-> [c[i] EXCEPT !.key = Name(fmt, c[i].key)]]
<1> DEFINE n == Len(c)
           h == Named(fmt, g)
           r == [i \in 1..n |-> [c[i] EXCEPT !.key = Name(fmt, c[i].key)]]
<1>1. n \in Nat /\ c \in [1..n -> Col]
  BY ListsType
<1>2. \A k \in DOMAIN g : k \in Keys(fmt)
  BY ContentsHeld
<1>3. /\ \A i, j \in 1..n : i < j => c[i].key < c[j].key
      /\ \A i \in 1..n : /\ c[i].key \in DOMAIN g /\ c[i].key \in Keys(fmt)
                         /\ c[i] = Column(c[i].key, g[c[i].key])
      /\ \A k \in DOMAIN g : \E i \in 1..n : c[i].key = k
  BY <1>2 DEF Lists
<1>4. /\ DOMAIN h = {Name(fmt, k) : k \in DOMAIN g}
      /\ \A k \in DOMAIN g : h[Name(fmt, k)] = g[k]
  BY NamedIs
<1> HIDE DEF n, h
<1>5. \A i \in 1..n : /\ r[i] \in Col /\ r[i].key = Name(fmt, c[i].key)
                      /\ r[i].type = c[i].type /\ r[i].bytes = c[i].bytes
  BY <1>1, <1>3, KeyNames DEF Col
<1>6. r \in Seq(Col) /\ Len(r) = n
  <2>1. r \in [1..n -> Col]
    BY <1>5
  <2> QED BY <1>1, <2>1
<1>7. ASSUME NEW i \in 1..n PROVE r[i].key \in DOMAIN h /\ r[i] = Column(r[i].key, h[r[i].key])
  <2>1. r[i] = [key |-> Name(fmt, c[i].key), type |-> c[i].type, bytes |-> c[i].bytes]
    BY <1>1 DEF Col
  <2>2. c[i].type = TypeOf[g[c[i].key]] /\ c[i].bytes = Bytes[g[c[i].key]]
    <3> DEFINE k == c[i].key
    <3>1. c[i] = [key |-> k, type |-> TypeOf[g[k]], bytes |-> Bytes[g[k]]]
      BY <1>3 DEF Column
    <3> HIDE DEF k
    <3>2. c[i].type = TypeOf[g[k]] /\ c[i].bytes = Bytes[g[k]]
      BY <3>1
    <3> QED BY <3>2 DEF k
  <2>3. h[Name(fmt, c[i].key)] = g[c[i].key] /\ Name(fmt, c[i].key) \in DOMAIN h
    BY <1>3, <1>4
  <2> HIDE DEF r
  <2> QED BY <1>5, <2>1, <2>2, <2>3 DEF Column
<1> HIDE DEF r
<1>8. \A i, j \in 1..n : i < j => r[i].key < r[j].key
  BY <1>3, <1>5, KeyNames
<1>9. \A m \in DOMAIN h : \E i \in 1..n : r[i].key = m
  BY <1>3, <1>4, <1>5
<1>10. Lists(r, h)
  BY <1>6, <1>7, <1>8, <1>9 DEF Lists
<1> QED BY <1>10, InOrderIs DEF r, h, n

\* The blob of g, and the columns of it that an update begins with.
LEMMA ConvertedIs ==
  ASSUME NEW fmt \in Formats, NEW g, Contents(fmt, g), NEW b, b = Layout(fmt, InOrder(g))
  PROVE  /\ Converted(b, "named") = InOrder(Named(fmt, g))
         /\ fmt = "num" => Converted(b, "num") = InOrder(g)
         /\ Columns(b) = InOrder(g)
<1> DEFINE c == InOrder(g)
           n == Len(c)
<1>1. Lists(c, g) /\ Apart(fmt, c)
  BY ContentsHeld
<1>2. c \in Seq(Col) /\ n \in Nat /\ c \in [1..n -> Col] /\ DOMAIN c = 1..n
  BY <1>1, ListsType
<1>3. Columns(b) = c
  BY <1>1, <1>2, ColumnsBack
<1>4. b.fmt = fmt /\ DOMAIN b.hdr = 1..n
  <2> DEFINE w == Written(c)
  <2>1. w = Written(c)
    OBVIOUS
  <2> HIDE DEF w
  <2> QED BY <1>1, <1>2, <2>1, LayoutIs
<1>5. InOrder(Named(fmt, g)) = [i \in 1..n |-> [c[i] EXCEPT !.key = Name(fmt, c[i].key)]]
  <2> HIDE DEF c
  <2> QED BY <1>1, Renamed
<1> HIDE DEF c, n
<1>6. Converted(b, "named") = [i \in 1..n |-> [c[i] EXCEPT !.key = Name(fmt, c[i].key)]]
  <2>1. \A i \in 1..n : [c[i] EXCEPT !.key = IF "named" = "named" THEN Name(fmt, @) ELSE @]
                        = [c[i] EXCEPT !.key = Name(fmt, c[i].key)]
    OBVIOUS
  <2> QED BY <1>3, <1>4, <2>1 DEF Converted
<1>7. Converted(b, "num") = c
  <2>1. \A i \in 1..n : [c[i] EXCEPT !.key = IF "num" = "named" THEN Name(fmt, @) ELSE @] = c[i]
    BY <1>2 DEF Col
  <2>2. Converted(b, "num") = [i \in 1..n |-> c[i]]
    BY <1>3, <1>4, <2>1 DEF Converted
  <2> QED BY <1>2, <2>2
<1> QED BY <1>3, <1>5, <1>6, <1>7 DEF c, n

\* Names of contents that were overridden, or of which some were removed.
LEMMA OverIs ==
  ASSUME NEW fmt \in Formats, NEW f, Contents(fmt, f), NEW g, Contents(fmt, g)
  PROVE  /\ Contents(fmt, Over(f, g))
         /\ Named(fmt, Over(f, g)) = Over(Named(fmt, f), Named(fmt, g))
<1> DEFINE h == Over(f, g)
           D == DOMAIN f \cup DOMAIN g
<1>1. /\ h = [j \in D |-> IF j \in DOMAIN f THEN f[j] ELSE g[j]] /\ DOMAIN h = D
      /\ \A j \in D : h[j] = IF j \in DOMAIN f THEN f[j] ELSE g[j]
  BY DEF Over
<1> HIDE DEF h
<1>2. Contents(fmt, h)
  <2>1. IsFiniteSet(D)
    BY FS_Union DEF Contents
  <2>2. \A j \in DOMAIN f : f[j] \in Values /\ j \in Keys(fmt)
    BY DEF Contents
  <2>3. \A j \in DOMAIN g : g[j] \in Values /\ j \in Keys(fmt)
    BY DEF Contents
  <2>4. h \in [D -> Values] /\ D \in SUBSET Keys(fmt)
    BY <1>1, <2>2, <2>3
  <2>5. ASSUME fmt = "num", NEW j \in D PROVE TypeOf[h[j]] # MapType
    BY <1>1, <2>5 DEF Contents
  <2> QED BY <1>1, <2>1, <2>4, <2>5 DEF Contents
<1>3. /\ DOMAIN Named(fmt, h) = {Name(fmt, k) : k \in D}
      /\ \A k \in D : Named(fmt, h)[Name(fmt, k)] = h[k]
  BY <1>1, <1>2, NamedIs
<1>4. /\ DOMAIN Named(fmt, f) = {Name(fmt, k) : k \in DOMAIN f}
      /\ \A k \in DOMAIN f : Named(fmt, f)[Name(fmt, k)] = f[k]
  BY NamedIs
<1>5. /\ DOMAIN Named(fmt, g) = {Name(fmt, k) : k \in DOMAIN g}
      /\ \A k \in DOMAIN g : Named(fmt, g)[Name(fmt, k)] = g[k]
  BY NamedIs
<1> DEFINE F == Named(fmt, f)
           G == Named(fmt, g)
           H == Named(fmt, h)
<1>6. \A k \in D : k \in Keys(fmt) /\ (k \in DOMAIN f <=> Name(fmt, k) \in DOMAIN F)
  <2>1. \A k \in D : k \in Keys(fmt)
    BY DEF Contents
  <2> QED BY <1>4, <2>1, KeyNames
<1>7. H = [n \in DOMAIN H |-> H[n]]
  BY DEF Named
<1> HIDE DEF F, G, H
<1>8. DOMAIN H = DOMAIN F \cup DOMAIN G
  BY <1>3, <1>4, <1>5 DEF F, G, H
<1>9. ASSUME NEW n \in DOMAIN H PROVE H[n] = IF n \in DOMAIN F THEN F[n] ELSE G[n]
  <2>1. PICK k \in D : n = Name(fmt, k)
    BY <1>3 DEF H
  <2>2. H[n] = h[k]
    BY <1>3, <2>1 DEF H
  <2>3. CASE k \in DOMAIN f
    BY <1>1, <1>4, <1>6, <2>1, <2>2, <2>3 DEF F
  <2>4. CASE k \notin DOMAIN f
    BY <1>1, <1>5, <1>6, <2>1, <2>2, <2>4 DEF G
  <2> QED BY <2>3, <2>4
<1>10. Over(F, G) = [n \in DOMAIN F \cup DOMAIN G |-> IF n \in DOMAIN F THEN F[n] ELSE G[n]]
  BY DEF Over
<1>11. H = Over(F, G)
  BY <1>7, <1>8, <1>9, <1>10
<1> QED BY <1>2, <1>11 DEF F, G, H, h

LEMMA LessIs ==
  ASSUME NEW fmt \in Formats, NEW g, Contents(fmt, g), NEW K \in SUBSET Keys(fmt)
  PROVE  /\ Contents(fmt, Less(g, K))
         /\ Named(fmt, Less(g, K)) = Less(Named(fmt, g), {Name(fmt, k) : k \in K})
<1> DEFINE h == Less(g, K)
           D == DOMAIN g \ K
<1>1. h = [j \in D |-> g[j]] /\ DOMAIN h = D /\ \A j \in D : h[j] = g[j]
  BY DEF Less
<1> HIDE DEF h
<1>2. Contents(fmt, h)
  <2>1. IsFiniteSet(D)
    BY FS_Difference DEF Contents
  <2>2. \A j \in DOMAIN g : g[j] \in Values /\ j \in Keys(fmt)
    BY DEF Contents
  <2>3. h \in [D -> Values] /\ D \in SUBSET Keys(fmt)
    BY <1>1, <2>2
  <2> QED BY <1>1, <2>1, <2>3 DEF Contents
<1>3. /\ DOMAIN Named(fmt, h) = {Name(fmt, k) : k \in D}
      /\ \A k \in D : Named(fmt, h)[Name(fmt, k)] = h[k]
  BY <1>1, <1>2, NamedIs
<1>4. /\ DOMAIN Named(fmt, g) = {Name(fmt, k) : k \in DOMAIN g}
      /\ \A k \in DOMAIN g : Named(fmt, g)[Name(fmt, k)] = g[k]
  BY NamedIs
<1> DEFINE G == Named(fmt, g)
           H == Named(fmt, h)
           N == {Name(fmt, k) : k \in K}
<1>5. H = [n \in DOMAIN H |-> H[n]]
  BY DEF Named
<1>6. \A k \in DOMAIN g : k \in Keys(fmt) /\ (k \in K <=> Name(fmt, k) \in N)
  <2>1. \A k \in DOMAIN g : k \in Keys(fmt)
    BY DEF Contents
  <2> QED BY <2>1, KeyNames
<1> HIDE DEF G, H, N
<1>7. DOMAIN H = DOMAIN G \ N
  BY <1>3, <1>4, <1>6 DEF G, H
<1>8. \A n \in DOMAIN H : H[n] = G[n]
  BY <1>1, <1>3, <1>4 DEF G, H
<1>9. H = Less(G, N)
  BY <1>5, <1>7, <1>8 DEF Less
<1> QED BY <1>2, <1>9 DEF G, H, N, h

-----------------------------------------------------------------------------
(* Reading a blob.                                                         *)

Holds(b, fmt, g) == Contents(fmt, g) /\ b = Layout(fmt, InOrder(g))
Empty(b) == b = NoBlob \/ \E fmt \in Formats : b = Zeroed(fmt)

LEMMA HeaderOf ==
  ASSUME NEW fmt \in Formats, NEW g, NEW b, Holds(b, fmt, g)
  PROVE  /\ b.fmt = fmt /\ Len(b.hdr) \in Nat /\ DOMAIN b.hdr = 1..Len(b.hdr)
         /\ \A i \in 1..Len(b.hdr) :
              /\ b.hdr[i].key \in DOMAIN g /\ b.hdr[i].off \in Nat
              /\ b.hdr[i].type = TypeOf[g[b.hdr[i].key]]
              /\ Cell(b, i) = Bytes[g[b.hdr[i].key]]
         /\ \A i, j \in 1..Len(b.hdr) : i < j => b.hdr[i].key < b.hdr[j].key
         /\ \A k \in DOMAIN g : \E i \in 1..Len(b.hdr) : b.hdr[i].key = k
         /\ \A k \in DOMAIN g : k \in Keys(fmt) /\ k \in Nat /\ g[k] \in Values
         /\ b.hdr = <<>> <=> DOMAIN g = {}
<1> DEFINE c == InOrder(g)
           n == Len(b.hdr)
           w == Written(c)
<1>1. Lists(c, g) /\ Apart(fmt, c) /\ \A k \in DOMAIN g : k \in Keys(fmt) /\ g[k] \in Values
  BY ContentsHeld DEF Holds
<1>2. c \in Seq(Col)
  BY <1>1, ListsType
<1>3. /\ b.fmt = fmt /\ b.hdr \in Seq(Entry) /\ n = Len(c)
      /\ DOMAIN b.hdr = 1..n
      /\ \A i \in 1..n :
           b.hdr[i] = [key |-> c[i].key, type |-> c[i].type, off |-> Len(w[i - 1])]
  <2>1. w = Written(c) /\ b = Layout(fmt, c)
    BY DEF Holds
  <2> HIDE DEF w, c
  <2> HIDE DEF n
  <2>2. b.fmt = fmt /\ b.hdr \in Seq(Entry)
    BY <1>1, <1>2, <2>1, LayoutIs
  <2>3. /\ Len(b.hdr) = Len(c) /\ DOMAIN b.hdr = 1..Len(c)
        /\ \A i \in 1..Len(c) :
             b.hdr[i] = [key |-> c[i].key, type |-> c[i].type, off |-> Len(w[i - 1])]
    BY <1>1, <1>2, <2>1, LayoutIs
  <2>4. n = Len(c)
    BY <2>3 DEF n
  <2> QED BY <2>2, <2>3, <2>4
<1>4. \A i \in 1..n : Cell(b, i) = c[i].bytes
  BY <1>1, <1>2, <1>3, ColumnsBack DEF Holds
<1>5. n \in Nat
  BY <1>3
<1>6. ASSUME NEW i \in 1..n
      PROVE  /\ b.hdr[i].key \in DOMAIN g /\ b.hdr[i].off \in Nat
             /\ b.hdr[i].key = c[i].key
             /\ b.hdr[i].type = TypeOf[g[b.hdr[i].key]]
             /\ Cell(b, i) = Bytes[g[b.hdr[i].key]]
  <2> DEFINE k == c[i].key
  <2>1. k \in DOMAIN g /\ c[i] = [key |-> k, type |-> TypeOf[g[k]], bytes |-> Bytes[g[k]]]
    BY <1>1, <1>3 DEF Lists, Column
  <2> HIDE DEF k
  <2>2. c[i].type = TypeOf[g[k]] /\ c[i].bytes = Bytes[g[k]]
    BY <2>1
  <2>3. b.hdr[i].key = k /\ b.hdr[i].type = c[i].type
    <3>1. b.hdr[i] = [key |-> k, type |-> c[i].type, off |-> Len(w[i - 1])]
      BY <1>3 DEF k
    <3> QED BY <3>1
  <2>4. b.hdr[i] \in Entry
    BY <1>3, ElementOfSeq
  <2>5. b.hdr[i].off \in Nat
    BY <2>4 DEF Entry
  <2> QED BY <1>4, <2>1, <2>2, <2>3, <2>5 DEF k
<1>7. /\ \A i, j \in 1..n : i < j => b.hdr[i].key < b.hdr[j].key
      /\ \A k \in DOMAIN g : \E i \in 1..n : b.hdr[i].key = k
  BY <1>1, <1>3, <1>6 DEF Lists
<1>8. \A k \in DOMAIN g : k \in Keys(fmt) /\ k \in Nat /\ g[k] \in Values
  BY <1>1, KeyNames
<1>9. b.hdr = <<>> <=> DOMAIN g = {}
  <2>1. b.hdr = <<>> <=> n = 0
    BY <1>3
  <2>2. n # 0 => 1 \in 1..n
    BY <1>5
  <2>3. n # 0 => DOMAIN g # {}
    BY <1>6, <2>2
  <2>4. n = 0 => DOMAIN g = {}
    BY <1>7
  <2> QED BY <2>1, <2>3, <2>4
<1> QED BY <1>3, <1>5, <1>6, <1>7, <1>8, <1>9

LEMMA EmptyIs ==
  ASSUME NEW b, Empty(b)
  PROVE  /\ b.hdr = <<>> /\ Len(b.hdr) = 0 /\ DOMAIN b.hdr = {}
         /\ b.fmt \in {"none", "num"} /\ (b.fmt = "none" => b = NoBlob)
<1>1. CASE b = NoBlob
  BY <1>1 DEF NoBlob
<1>2. ASSUME NEW fmt \in Formats, b = Zeroed(fmt)
      PROVE  b.hdr = <<>> /\ b.fmt = "num"
  BY <1>2 DEF NoBlob, Zeroed
<1>3. b.hdr = <<>> /\ b.fmt \in {"none", "num"} /\ (b.fmt = "none" => b = NoBlob)
  BY <1>1, <1>2 DEF Empty
<1> QED BY <1>3

LEMMA UnpackedIs ==
  ASSUME NEW fmt \in Formats, NEW g, NEW b, Holds(b, fmt, g)
  PROVE  Unpacked(b) = [n \in DOMAIN Named(fmt, g) |-> Returned(Named(fmt, g)[n])]
<1> DEFINE h == Named(fmt, g)
           N == {Name(b.fmt, b.hdr[i].key) : i \in DOMAIN b.hdr}
           at(n) == CHOOSE i \in DOMAIN b.hdr : Name(b.fmt, b.hdr[i].key) = n
           val(n) == Decoded(b.hdr[at(n)].type, Cell(b, at(n)))
<1>1. /\ DOMAIN h = {Name(fmt, k) : k \in DOMAIN g}
      /\ \A k \in DOMAIN g : h[Name(fmt, k)] = g[k]
  BY NamedIs DEF Holds
<1>2. N = DOMAIN h
  <2>1. /\ b.fmt = fmt /\ DOMAIN b.hdr = 1..Len(b.hdr)
        /\ \A i \in 1..Len(b.hdr) : b.hdr[i].key \in DOMAIN g
        /\ \A k \in DOMAIN g : \E i \in 1..Len(b.hdr) : b.hdr[i].key = k
    BY HeaderOf
  <2> HIDE DEF h
  <2> QED BY <1>1, <2>1
<1>3. ASSUME NEW n \in N PROVE val(n) = Returned(h[n])
  <2> DEFINE i == at(n)
             k == b.hdr[i].key
  <2>1. i \in DOMAIN b.hdr /\ Name(b.fmt, k) = n
    OBVIOUS
  <2> HIDE DEF at
  <2> HIDE DEF i
  <2>4. /\ b.fmt = fmt /\ b.hdr[i].key \in DOMAIN g
        /\ b.hdr[i].type = TypeOf[g[k]] /\ Cell(b, i) = Bytes[g[k]]
    BY <2>1, HeaderOf
  <2>2. k \in DOMAIN g /\ h[n] = g[k]
    <3> HIDE DEF h
    <3> QED BY <1>1, <2>1, <2>4
  <2>3. b.hdr[i].type = TypeOf[g[k]] /\ Cell(b, i) = Bytes[g[k]]
    BY <2>4
  <2>5. Returned(h[n]) = Decoded(TypeOf[g[k]], Bytes[g[k]])
    BY <2>2 DEF Returned
  <2> QED BY <2>3, <2>5 DEF i
<1>4. Unpacked(b) = [n \in N |-> val(n)]
  BY DEF Unpacked
<1> HIDE DEF N, val, h
<1> QED BY <1>2, <1>3, <1>4 DEF h

LEMMA SearchOf ==
  ASSUME NEW fmt \in Formats, NEW g, NEW b, Holds(b, fmt, g), NEW k \in Nat
  PROVE  \/ /\ k \in DOMAIN g
            /\ Search(b, k) \in 1..Len(b.hdr) /\ b.hdr[Search(b, k)].key = k
         \/ k \notin DOMAIN g /\ Search(b, k) = 0
<1>1. /\ Len(b.hdr) \in Nat
      /\ \A i \in 1..Len(b.hdr) : b.hdr[i].key \in Nat /\ b.hdr[i].key \in DOMAIN g
      /\ \A i, j \in 1..Len(b.hdr) : i < j => b.hdr[i].key < b.hdr[j].key
      /\ \A j \in DOMAIN g : \E i \in 1..Len(b.hdr) : b.hdr[i].key = j
  BY HeaderOf
<1>2. \/ \E i \in 1..Len(b.hdr) : b.hdr[i].key = k /\ Search(b, k) = i
      \/ (\A i \in 1..Len(b.hdr) : b.hdr[i].key # k) /\ Search(b, k) = 0
  BY <1>1, SearchFinds
<1> QED BY <1>1, <1>2

\* The remainder of a number by the limit of the numeric format is a number.
LEMMA Lower ==
  ASSUME NEW k \in Nat
  PROVE  k % (Limit + 1) \in Numbers /\ k % (Limit + 1) \in Nat
<1>1. Limit + 1 \in Nat \ {0} /\ Limit \in Nat
  BY BlobAssumption
<1> DEFINE m == Limit + 1
<1>2. m \in Nat \ {0}
  BY <1>1
<1> HIDE DEF m
<1>3. k % m \in 0..(m - 1)
  BY <1>2
<1>4. k % m \in 0..Limit
  BY <1>1, <1>3 DEF m
<1> QED BY <1>1, <1>4, DynColAssumption DEF m

LEMMA GetIs ==
  ASSUME NEW fmt \in Formats, NEW g, NEW b, Holds(b, fmt, g), NEW by \in Formats, NEW k \in Keys(by),
         NEW n, n = Meant(b, by, k), NEW h, h = Named(fmt, g)
  PROVE  Get(b, by, k) = IF n \in DOMAIN h THEN Returned(h[n]) ELSE Absent
<1>1. /\ b.fmt = fmt
      /\ \A j \in DOMAIN g : j \in Keys(fmt)
      /\ \A i \in 1..Len(b.hdr) :
           b.hdr[i].type = TypeOf[g[b.hdr[i].key]] /\ Cell(b, i) = Bytes[g[b.hdr[i].key]]
  BY HeaderOf
<1>2. /\ DOMAIN h = {Name(fmt, j) : j \in DOMAIN g}
      /\ \A j \in DOMAIN g : h[Name(fmt, j)] = g[j]
  BY NamedIs DEF Holds
<1>3. k \in Nat
  BY KeyNames
\* The key that is searched for is the one of that name.
<1>4. ASSUME NEW j \in Keys(fmt), j \in Nat, Find(b, by, k) = Search(b, j), n = Name(fmt, j)
      PROVE  Get(b, by, k) = IF n \in DOMAIN h THEN Returned(h[n]) ELSE Absent
  <2>1. n \in DOMAIN h <=> j \in DOMAIN g
    BY <1>1, <1>2, <1>4, KeyNames
  <2> DEFINE i == Search(b, j)
  <2>2. Get(b, by, k) = IF i = 0 THEN Absent ELSE Decoded(b.hdr[i].type, Cell(b, i))
    BY <1>4 DEF Get
  <2>3. CASE j \in DOMAIN g
    <3>1. i \in 1..Len(b.hdr) /\ b.hdr[i].key = j
      BY <1>4, <2>3, SearchOf
    <3> HIDE DEF i
    <3>2. b.hdr[i].type = TypeOf[g[j]] /\ Cell(b, i) = Bytes[g[j]] /\ i # 0
      BY <1>1, <3>1
    <3>3. h[n] = g[j]
      BY <1>2, <1>4, <2>3
    <3> QED BY <2>1, <2>2, <2>3, <3>2, <3>3 DEF Returned
  <2>4. CASE j \notin DOMAIN g
    <3>1. i = 0
      BY <1>4, <2>4, SearchOf
    <3> QED BY <2>1, <2>2, <2>4, <3>1
  <2> QED BY <2>3, <2>4
<1>5. CASE fmt = "num" /\ by = "num"
  <2>1. k % (Limit + 1) \in Numbers /\ k % (Limit + 1) \in Nat
    BY <1>3, Lower
  <2>2. Find(b, by, k) = Search(b, k % (Limit + 1))
    BY <1>1, <1>5 DEF Find
  <2>3. n = NameOf[k % (Limit + 1)]
    BY <1>1, <1>5 DEF Meant
  <2> QED BY <1>4, <1>5, <2>1, <2>2, <2>3 DEF Keys, Name
<1>6. CASE fmt = "num" /\ by = "named"
  <2>1. CASE k \in DOMAIN NumberOf
    <3> DEFINE j == NumberOf[k] % (Limit + 1)
    <3>1. NumberOf[k] \in Nat
      BY <2>1, BlobAssumption
    <3>2. j \in Numbers /\ j \in Nat
      BY <3>1, Lower
    <3>3. Find(b, by, k) = Search(b, j)
      BY <1>1, <1>6, <2>1 DEF Find
    <3>4. n = NameOf[j]
      BY <1>1, <1>6, <2>1 DEF Meant
    <3> HIDE DEF j
    <3> QED BY <1>4, <1>6, <3>2, <3>3, <3>4 DEF Keys, Name
  <2>2. CASE k \notin DOMAIN NumberOf
    <3>1. Find(b, by, k) = 0 /\ n = k
      BY <1>1, <1>6, <2>2 DEF Find, Meant
    <3>2. \A j \in DOMAIN g : Name(fmt, j) \in DOMAIN NumberOf
      BY <1>1, <1>6, BlobAssumption DEF Keys, Name
    <3>3. n \notin DOMAIN h
      BY <1>2, <2>2, <3>1, <3>2
    <3> QED BY <3>1, <3>3 DEF Get
  <2> QED BY <2>1, <2>2
<1>7. CASE fmt = "named"
  <2>1. Name(by, k) \in Names /\ Name(by, k) \in Nat
    BY KeyNames
  <2>2. Find(b, by, k) = Search(b, Name(by, k)) /\ n = Name(by, k)
    BY <1>1, <1>7 DEF Find, Meant
  <2>3. Name(by, k) \in Keys(fmt) /\ n = Name(fmt, Name(by, k))
    BY <1>7, <2>1, <2>2 DEF Keys, Name
  <2> QED BY <1>4, <2>1, <2>2, <2>3
<1> QED BY <1>5, <1>6, <1>7 DEF Formats

\* No column is found where there is none.
LEMMA GetNone ==
  ASSUME NEW b, Empty(b), NEW by \in Formats, NEW k \in Keys(by)
  PROVE  Get(b, by, k) = Absent
<1>1. Len(b.hdr) = 0 /\ b.fmt \in {"none", "num"}
  BY EmptyIs
<1>2. \A j \in Nat : Search(b, j) = 0
  BY <1>1, SearchFinds
<1>3. k \in Nat /\ Name(by, k) \in Nat
  BY KeyNames
<1>4. Find(b, by, k) = 0
  <2>1. CASE b.fmt # "num"
    BY <1>2, <1>3, <2>1 DEF Find
  <2>2. CASE b.fmt = "num" /\ by = "num"
    BY <1>2, <1>3, <2>2, Lower DEF Find
  <2>3. CASE b.fmt = "num" /\ by = "named"
    <3>1. k \in DOMAIN NumberOf => NumberOf[k] % (Limit + 1) \in Nat
      BY Lower, BlobAssumption
    <3> QED BY <1>2, <2>3, <3>1 DEF Find
  <2> QED BY <2>1, <2>2, <2>3 DEF Formats
<1> QED BY <1>4 DEF Get

\* check_format(): whether each value starts behind the one before it.
LEMMA VerdictIs ==
  ASSUME NEW fmt \in Formats, NEW g, NEW b, Holds(b, fmt, g), NEW h, h = Named(fmt, g)
  PROVE  WellFormed(b) <=> \A m, n \in DOMAIN h : m < n => Bytes[h[m]] # <<>>
<1> DEFINE c == InOrder(g)
           w == Written(c)
           N == Len(c)
<1>1. Lists(c, g) /\ Apart(fmt, c) /\ b = Layout(fmt, c)
  BY ContentsHeld DEF Holds
<1>2. c \in Seq(Col) /\ N \in Nat
  BY <1>1, ListsType
<1>3. \A k \in DOMAIN g : k \in Keys(fmt)
  BY ContentsHeld DEF Holds
<1>4. /\ DOMAIN h = {Name(fmt, k) : k \in DOMAIN g}
      /\ \A k \in DOMAIN g : h[Name(fmt, k)] = g[k]
  BY NamedIs DEF Holds
<1>5. w = Written(c) /\ N = Len(c)
  OBVIOUS
<1>6. /\ \A i, j \in 1..N : i < j => c[i].key < c[j].key
      /\ \A i \in 1..N : c[i].key \in DOMAIN g /\ c[i].key \in Nat
      /\ \A k \in DOMAIN g : \E i \in 1..N : c[i].key = k
  BY <1>1, ListsType DEF Lists
<1>7. \A i \in 1..N : c[i].bytes = Bytes[g[c[i].key]]
  <2> SUFFICES ASSUME NEW i \in 1..N PROVE c[i].bytes = Bytes[g[c[i].key]]
    OBVIOUS
  <2> HIDE DEF c
  <2>1. c[i] = [key |-> c[i].key, type |-> TypeOf[g[c[i].key]], bytes |-> Bytes[g[c[i].key]]]
    BY <1>1 DEF Lists, Column
  <2> QED BY <2>1
<1> HIDE DEF c, w, N
<1>8. /\ b.data = w[N] /\ Len(b.hdr) = N /\ DOMAIN b.hdr = 1..N
      /\ \A i \in 1..N :
           b.hdr[i] = [key |-> c[i].key, type |-> c[i].type, off |-> Len(w[i - 1])]
  <2>1. /\ b.data = w[Len(c)] /\ Len(b.hdr) = Len(c) /\ DOMAIN b.hdr = 1..Len(c)
        /\ \A i \in 1..Len(c) :
             b.hdr[i] = [key |-> c[i].key, type |-> c[i].type, off |-> Len(w[i - 1])]
    BY <1>1, <1>2, <1>5, LayoutIs
  <2> QED BY <1>5, <2>1
<1>9. \A i \in 1..N : b.hdr[i].key = c[i].key /\ b.hdr[i].off = Len(w[i - 1])
  <2> SUFFICES ASSUME NEW i \in 1..N
               PROVE  b.hdr[i].key = c[i].key /\ b.hdr[i].off = Len(w[i - 1])
    OBVIOUS
  <2>1. b.hdr[i] = [key |-> c[i].key, type |-> c[i].type, off |-> Len(w[i - 1])]
    BY <1>8
  <2> QED BY <2>1
<1>10. /\ \A i \in 0..N : Len(w[i]) \in Nat
       /\ \A i \in 1..N : c[i].bytes \in Seq(Byte) /\ Len(w[i]) = Len(w[i - 1]) + Len(c[i].bytes)
       /\ \A i \in 1..N : Len(w[i]) <= Len(w[N])
  BY <1>2, <1>5, Places
<1>11. \A i \in 1..N : /\ Len(w[i - 1]) <= Len(w[N])
                       /\ Len(w[i - 1]) < Len(w[i]) <=> c[i].bytes # <<>>
  <2> SUFFICES ASSUME NEW i \in 1..N
               PROVE  /\ Len(w[i - 1]) <= Len(w[N])
                      /\ Len(w[i - 1]) < Len(w[i]) <=> c[i].bytes # <<>>
    OBVIOUS
  <2> DEFINE x == c[i].bytes
             lo == Len(w[i - 1])
  <2>1. x \in Seq(Byte) /\ Len(w[i]) = lo + Len(x) /\ Len(w[i]) <= Len(w[N])
    BY <1>10
  <2>2. lo \in Nat /\ Len(w[N]) \in Nat
    BY <1>2, <1>10
  <2> HIDE DEF x, lo
  <2>3. Len(x) \in Nat /\ (x = <<>> <=> Len(x) = 0)
    BY <2>1
  <2>4. lo <= Len(w[N]) /\ (lo < Len(w[i]) <=> x # <<>>)
    BY <2>1, <2>2, <2>3
  <2> QED BY <2>4 DEF x, lo
<1>12. WellFormed(b) <=> \A i \in 1..(N - 1) : c[i].bytes # <<>>
  <2>1. \A i \in DOMAIN b.hdr : b.hdr[i].off <= Len(b.data)
    BY <1>8, <1>9, <1>11
  <2>2. \A i \in 2..N : b.hdr[i - 1].key < b.hdr[i].key
    <3> SUFFICES ASSUME NEW i \in 2..N PROVE b.hdr[i - 1].key < b.hdr[i].key
      OBVIOUS
    <3>1. i - 1 \in 1..N /\ i \in 1..N /\ i - 1 < i
      BY <1>2
    <3> QED BY <1>6, <1>9, <3>1
  <2>3. \A i \in 2..N : b.hdr[i - 1].off < b.hdr[i].off <=> c[i - 1].bytes # <<>>
    <3> SUFFICES ASSUME NEW i \in 2..N
                 PROVE  b.hdr[i - 1].off < b.hdr[i].off <=> c[i - 1].bytes # <<>>
      OBVIOUS
    <3>1. i - 1 \in 1..N /\ i \in 1..N
      BY <1>2
    <3>2. b.hdr[i - 1].off = Len(w[(i - 1) - 1]) /\ b.hdr[i].off = Len(w[i - 1])
      BY <1>9, <3>1
    <3> QED BY <1>11, <3>1, <3>2
  <2>4. WellFormed(b) <=> \A i \in 2..N : c[i - 1].bytes # <<>>
    BY <1>8, <2>1, <2>2, <2>3 DEF WellFormed
  <2>5. ASSUME \A i \in 2..N : c[i - 1].bytes # <<>>, NEW i \in 1..(N - 1) PROVE c[i].bytes # <<>>
    <3>1. i + 1 \in 2..N /\ (i + 1) - 1 = i
      BY <1>2
    <3> QED BY <2>5, <3>1
  <2>6. ASSUME \A i \in 1..(N - 1) : c[i].bytes # <<>>, NEW i \in 2..N PROVE c[i - 1].bytes # <<>>
    <3>1. i - 1 \in 1..(N - 1)
      BY <1>2
    <3> QED BY <2>6, <3>1
  <2> QED BY <2>4, <2>5, <2>6
<1>13. ASSUME \A m, n \in DOMAIN h : m < n => Bytes[h[m]] # <<>>, NEW i \in 1..(N - 1)
       PROVE  c[i].bytes # <<>>
  <2>1. i \in 1..N /\ i + 1 \in 1..N /\ i < i + 1
    BY <1>2
  <2> DEFINE j == c[i].key
             k == c[i + 1].key
  <2>2. j \in DOMAIN g /\ k \in DOMAIN g /\ j < k
    BY <1>6, <2>1
  <2>3. Name(fmt, j) < Name(fmt, k)
    BY <1>3, <2>2, KeyNames
  <2>4. Bytes[g[j]] # <<>>
    BY <1>4, <1>13, <2>2, <2>3
  <2> QED BY <1>7, <2>1, <2>4
<1>14. ASSUME \A i \in 1..(N - 1) : c[i].bytes # <<>>,
              NEW m \in DOMAIN h, NEW n \in DOMAIN h, m < n
       PROVE  Bytes[h[m]] # <<>>
  <2>1. PICK j \in DOMAIN g : m = Name(fmt, j)
    BY <1>4
  <2>2. PICK k \in DOMAIN g : n = Name(fmt, k)
    BY <1>4
  <2>3. j < k
    <3>1. j \in Nat /\ k \in Nat /\ m \in Nat /\ n \in Nat
      BY <1>3, <2>1, <2>2, KeyNames
    <3>2. CASE j = k
      BY <1>14, <2>1, <2>2, <3>1, <3>2
    <3>3. CASE k < j
      <4>1. n < m
        BY <1>3, <2>1, <2>2, <3>3, KeyNames
      <4> QED BY <1>14, <3>1, <4>1
    <3> QED BY <3>1, <3>2, <3>3
  <2>4. PICK i \in 1..N : c[i].key = j
    BY <1>6
  <2>5. PICK l \in 1..N : c[l].key = k
    BY <1>6
  <2>6. i < l
    <3>1. CASE i = l
      BY <1>6, <2>3, <2>4, <2>5, <3>1
    <3>2. CASE l < i
      <4>1. k < j /\ j \in Nat /\ k \in Nat
        BY <1>6, <2>4, <2>5, <3>2
      <4> QED BY <2>3, <4>1
    <3> QED BY <1>2, <3>1, <3>2
  <2>7. i \in 1..(N - 1)
    BY <1>2, <2>6
  <2> QED BY <1>4, <1>7, <1>14, <2>1, <2>4, <2>7
<1> QED BY <1>12, <1>13, <1>14

\* The size of a blob.
LEMMA SizeIs ==
  ASSUME NEW fmt \in Formats, NEW g, NEW b, Holds(b, fmt, g)
  PROVE  Size(b) \in Nat /\ FixedHeader(fmt) <= Size(b)
<1> DEFINE c == InOrder(g)
           w == Written(c)
<1>1. Lists(c, g) /\ Apart(fmt, c) /\ b = Layout(fmt, c)
  BY ContentsHeld DEF Holds
<1>2. c \in Seq(Col) /\ Len(c) \in Nat
  BY <1>1, ListsType
<1>3. w = Written(c)
  OBVIOUS
<1> HIDE DEF c, w
<1>4. b.fmt = fmt /\ b.data = w[Len(c)]
  BY <1>1, <1>2, <1>3, LayoutIs
<1>5. Len(b.data) \in Nat
  <2>1. \A i \in 0..Len(c) : Len(w[i]) \in Nat
    BY <1>2, <1>3, Places
  <2> QED BY <1>2, <1>4, <2>1
<1>6. Len(b.hdr) \in Nat /\ DOMAIN b.hdr = 1..Len(b.hdr)
  BY HeaderOf
<1>7. CASE fmt = "num"
  <2>1. Size(b) = FixedHeader("num") + Len(b.data) + 3 * Len(b.hdr)
    BY <1>4, <1>7 DEF Size
  <2> DEFINE d == Len(b.data)
             n == Len(b.hdr)
  <2>2. FixedHeader("num") = 3 /\ d \in Nat /\ n \in Nat
    BY <1>5, <1>6 DEF FixedHeader
  <2> HIDE DEF d, n
  <2>3. 3 + d + 3 * n \in Nat /\ 3 <= 3 + d + 3 * n
    BY <2>2
  <2> QED BY <1>7, <2>1, <2>2, <2>3 DEF d, n
<1>8. CASE fmt = "named"
  <2>1. Size(b) = FixedHeader("named") + Len(b.data) + 4 * Len(b.hdr) + Cardinality(Characters(b))
    BY <1>4, <1>8 DEF Size
  <2>2. Cardinality(Characters(b)) \in Nat
    <3> DEFINE n == Len(b.hdr)
               of(i) == {i} \X (1..NameLength[b.hdr[i].key])
               S == {of(i) : i \in 1..n}
    <3>1. \A i \in 1..n : IsFiniteSet(of(i))
      <4> SUFFICES ASSUME NEW i \in 1..n PROVE IsFiniteSet(of(i))
        OBVIOUS
      <4>1. NameLength[b.hdr[i].key] \in Nat
        <5>1. b.hdr[i].key \in Names
          BY <1>8, HeaderOf DEF Keys
        <5> QED BY <5>1, BlobAssumption
      <4>2. IsFiniteSet(1..NameLength[b.hdr[i].key])
        <5> DEFINE l == NameLength[b.hdr[i].key]
        <5>1. 1 \in Int /\ l \in Int
          BY <4>1
        <5> HIDE DEF l
        <5> QED BY <5>1, FS_Interval DEF l
      <4>3. IsFiniteSet({i})
        BY FS_Singleton
      <4> QED BY <4>2, <4>3, FS_Product
    <3>2. IsFiniteSet(S)
      <4> DEFINE f == [i \in 1..n |-> of(i)]
      <4> HIDE DEF of
      <4>1. f \in Surjection(1..n, S)
        BY Fun_IsSurj
      <4>2. IsFiniteSet(1..n)
        BY <1>6, FS_Interval
      <4> HIDE DEF f, S
      <4> QED BY <4>1, <4>2, FS_Surjection
    <3>3. \A T \in S : IsFiniteSet(T)
      BY <3>1
    <3>4. Characters(b) = UNION S
      BY <1>6 DEF Characters
    <3> HIDE DEF S
    <3>5. IsFiniteSet(UNION S)
      BY <3>2, <3>3, FS_UNION
    <3> QED BY <3>4, <3>5, FS_CardinalityType
  <2> DEFINE d == Len(b.data)
             n == Len(b.hdr)
             l == Cardinality(Characters(b))
  <2>3. FixedHeader("named") = 5 /\ d \in Nat /\ n \in Nat /\ l \in Nat
    BY <1>5, <1>6, <2>2 DEF FixedHeader
  <2> HIDE DEF d, n, l
  <2>4. 5 + d + 4 * n + l \in Nat /\ 5 <= 5 + d + 4 * n + l
    BY <2>3
  <2> QED BY <1>8, <2>1, <2>3, <2>4 DEF d, n, l
<1> QED BY <1>7, <1>8 DEF Formats


-----------------------------------------------------------------------------
(* The inductive invariant.  A numbered column has no nested map in it:     *)
(* its type would not fit (see Place), and what is read back is another     *)
(* value.  The theorems say so as an assumption about Storable.             *)

Flattened == \A v \in Storable["num"] : TypeOf[v] # MapType

\* The blob is one that a create left without columns, or the layout of its columns.
Laid(b, col) ==
  \/ Empty(b) /\ col \in {Lost, Contract!NoColumns}
  \/ \E fmt \in Formats : \E g : Holds(b, fmt, g) /\ col \in {Lost, Named(fmt, g)}
\* Or a removal has left it with some header of numbers.
Bent(b) ==
  /\ b.fmt = "num" /\ Size(b) \in Nat
  /\ \A i \in DOMAIN b.hdr : b.hdr[i].key \in Keys("num") /\ b.hdr[i].off \in Nat
Maps == UNION {[N -> Values] : N \in SUBSET Names}
Stands(b, col, spoilt) ==
  \/ Laid(b, col)
  \/ spoilt /\ Bent(b) /\ col \in {Lost} \cup Maps
\* The contents are lost exactly with the buffer of a blob that has a length.
Told(b, m, col) ==
  /\ col = Lost => ~m.str \/ b.fmt = "none"
  /\ ~m.str /\ b.fmt # "none" => col = Lost
\* The buffer is large enough, and what the connector allocated it can grow.
Backed(b, m) ==
  /\ m \in Memory
  /\ m.str => m.room >= Size(b)
  /\ m.own => m.cap = m.room /\ (m.str => m.inc > 0)
  /\ m.own /\ ~m.str => b.fmt = "none"

Fine(b, m, col, spoilt) == Stands(b, col, spoilt) /\ Told(b, m, col) /\ Backed(b, m)
Sound ==
  /\ DOMAIN blob = Objects /\ DOMAIN mem = Objects /\ DOMAIN columns = Objects
  /\ skewed \subseteq Objects
  /\ \A d \in Objects : Fine(blob[d], mem[d], columns[d], d \in skewed)
Reported ==
  /\ ret \in [call : {"none", "insert", "update", "remove", "assign"}, code : {"OK", "DATA"}]
  /\ fault \in {NoFault} \cup
       [kind : {"null", "overrun", "divide", "garbled", "torn", "buffer", "skewed"}, own : BOOLEAN]
  /\ FaultsNeedADuplicate
IInv == Sound /\ Reported

\* Contents that are known are not the mark of lost ones.
LEMMA KnownContents ==
  ASSUME NEW fmt \in Formats, NEW g, Contents(fmt, g)
  PROVE  /\ Named(fmt, g) \in UNION {[N -> Values] : N \in SUBSET Names}
         /\ Named(fmt, g) # Lost
         /\ DOMAIN g = {} => Named(fmt, g) = Contract!NoColumns
<1> DEFINE h == Named(fmt, g)
<1>1. DOMAIN h = {Name(fmt, k) : k \in DOMAIN g} /\ Contents("named", h)
  BY NamedIs
<1>2. DOMAIN h \in SUBSET Names /\ h \in [DOMAIN h -> Values]
  BY <1>1 DEF Contents, Keys
<1>3. ASSUME DOMAIN g = {} PROVE h = Contract!NoColumns
  <2>1. DOMAIN h = {}
    BY <1>1, <1>3
  <2>2. h = [n \in DOMAIN h |-> h[n]]
    BY <1>2
  <2> HIDE DEF h
  <2> QED BY <2>1, <2>2 DEF Contract!NoColumns
<1> HIDE DEF h
<1>4. h \in UNION {[N -> Values] : N \in SUBSET Names}
  BY <1>2
<1>5. h # Lost
  BY <1>4, DynColAssumption
<1> QED BY <1>3, <1>4, <1>5 DEF h

LEMMA NoColumnsKnown ==
  /\ Contract!NoColumns \in UNION {[N -> Values] : N \in SUBSET Names}
  /\ Contract!NoColumns # Lost /\ DOMAIN Contract!NoColumns = {}
<1>1. Contract!NoColumns \in [{} -> Values] /\ DOMAIN Contract!NoColumns = {}
  BY DEF Contract!NoColumns
<1>2. Contract!NoColumns \in UNION {[N -> Values] : N \in SUBSET Names}
  BY <1>1
<1> QED BY <1>1, <1>2, DynColAssumption

\* The columns of a call.
LEMMA GivenIs ==
  ASSUME Flattened, NEW by \in Formats, NEW f \in Given(by)
  PROVE  Contents(by, f) /\ DOMAIN f \in KeySets(by)
<1>1. PICK K \in KeySets(by) : f \in [K -> Storable[by]]
  BY DEF Given
<1>2. K \in SUBSET Keys(by) /\ IsFiniteSet(K)
  BY DEF KeySets
<1>3. Storable[by] \in SUBSET Values
  BY DynColAssumption
<1>4. DOMAIN f = K /\ \A k \in K : f[k] \in Storable[by]
  BY <1>1
<1>5. f \in [DOMAIN f -> Values]
  BY <1>1, <1>3, <1>4
<1>6. by = "num" => \A k \in DOMAIN f : TypeOf[f[k]] # MapType
  BY <1>4 DEF Flattened
<1> QED BY <1>2, <1>4, <1>5, <1>6 DEF Contents

\* Sizes of blobs without columns.
LEMMA EmptySize ==
  /\ Size(NoBlob) = 0
  /\ \A fmt \in Formats : Size(Zeroed(fmt)) = FixedHeader(fmt) /\ FixedHeader(fmt) \in {3, 5}
  /\ \A b : Empty(b) => Size(b) \in Nat
<1>1. Size(NoBlob) = 0
  BY DEF Size, NoBlob
<1>2. ASSUME NEW fmt \in Formats PROVE Size(Zeroed(fmt)) = FixedHeader(fmt)
  <2> DEFINE z == Zeroed(fmt)
  <2>1. /\ z.fmt = "num" /\ z.hdr = <<>>
        /\ z.data = IF fmt = "num" THEN <<>> ELSE <<Terminator, Terminator>>
    BY DEF Zeroed, NoBlob
  <2>2. Size(z) = 3 + Len(z.data) + 3 * Len(z.hdr)
    BY <2>1 DEF Size, FixedHeader
  <2>3. Len(z.hdr) = 0 /\ Len(z.data) = IF fmt = "num" THEN 0 ELSE 2
    BY <2>1
  <2> HIDE DEF z
  <2>4. Size(z) = 3 + (IF fmt = "num" THEN 0 ELSE 2)
    BY <2>2, <2>3
  <2> QED BY <2>4 DEF FixedHeader, Formats, z
<1>3. ASSUME NEW fmt \in Formats PROVE FixedHeader(fmt) \in {3, 5}
  BY DEF FixedHeader
<1> QED BY <1>1, <1>2, <1>3 DEF Empty


\* What ma_dynstr_realloc() leaves.
LEMMA GrownIs ==
  ASSUME NEW m \in Memory, NEW need \in Nat, need > m.cap => m.inc # 0
  PROVE  /\ Grown(m, need) \in Memory
         /\ Grown(m, need).str = m.str /\ Grown(m, need).inc = m.inc
         /\ IF need <= m.cap THEN Grown(m, need) = m
            ELSE LET r == Grown(m, need) IN r.own /\ r.cap = r.room /\ r.room >= need
<1>1. /\ m.str \in BOOLEAN /\ m.cap \in Nat /\ m.inc \in {0, Reserve} /\ m.room \in Nat
      /\ m.own \in BOOLEAN /\ Reserve = 80
  BY DEF Memory, Reserve
<1>2. CASE need <= m.cap
  BY <1>2 DEF Grown
<1>3. CASE ~(need <= m.cap)
  <2>1. m.inc = 80
    BY <1>1, <1>3
  <2> DEFINE n == ((need + 80 - 1) \div 80) * 80
             r == [m EXCEPT !.cap = n, !.room = n, !.own = TRUE]
  <2>2. Grown(m, need) = r
    BY <1>3, <2>1 DEF Grown
  <2>3. n \in Nat /\ n >= need
    OBVIOUS
  <2> HIDE DEF n
  <2>4. /\ r.str = m.str /\ r.inc = m.inc /\ r.cap = n /\ r.room = n /\ r.own = TRUE
        /\ r \in Memory
    BY <1>1, <2>3 DEF Memory
  <2> QED BY <1>3, <2>2, <2>3, <2>4
<1> QED BY <1>2, <1>3

\* The bytes behind the blob that a create writes.
LEMMA OverhangIs ==
  ASSUME NEW cols
  PROVE  Overhang(cols) \in {0, 1}
BY DEF Overhang

\* Sound after a step that changes one object.
LEMMA OneChanges ==
  ASSUME Sound, NEW d \in Objects, NEW b, NEW m, NEW col, NEW spoilt \in BOOLEAN,
         Fine(b, m, col, spoilt), Becomes(d, b, spoilt),
         mem' = [mem EXCEPT ![d] = m] \/ (mem' = mem /\ m = mem[d]),
         columns' = [columns EXCEPT ![d] = col]
  PROVE  Sound'
<1>1. blob' = [blob EXCEPT ![d] = b] /\ skewed' = IF spoilt THEN skewed \cup {d} ELSE skewed \ {d}
  BY DEF Becomes
<1>2. /\ DOMAIN blob' = Objects /\ DOMAIN mem' = Objects /\ DOMAIN columns' = Objects
      /\ skewed' \subseteq Objects
  BY <1>1 DEF Sound
<1>3. ASSUME NEW e \in Objects PROVE Fine(blob'[e], mem'[e], columns'[e], e \in skewed')
  <2>1. CASE e = d
    <3>1. (e \in skewed') = spoilt
      BY <1>1, <2>1
    <3>2. blob'[e] = b /\ mem'[e] = m /\ columns'[e] = col
      BY <1>1, <2>1 DEF Sound
    <3> QED BY <3>1, <3>2
  <2>2. CASE e # d
    <3>1. /\ blob'[e] = blob[e] /\ mem'[e] = mem[e] /\ columns'[e] = columns[e]
          /\ (e \in skewed') = (e \in skewed)
      BY <1>1, <2>2 DEF Sound
    <3>2. Fine(blob[e], mem[e], columns[e], e \in skewed)
      BY DEF Sound
    <3> QED BY <3>1, <3>2
  <2> QED BY <2>1, <2>2
<1> QED BY <1>2, <1>3 DEF Sound

\* Reported after a step that ends with an answer, and after one that ends in a fault.
LEMMA Answered ==
  ASSUME fault = NoFault, NEW call \in {"none", "insert", "update", "remove", "assign"},
         NEW code \in {"OK", "DATA"}, Answer(call, code)
  PROVE  Reported'
BY DEF Reported, Answer, FaultsNeedADuplicate

LEMMA Faulted ==
  ASSUME IInv, NEW d \in Objects,
         NEW kind \in {"null", "overrun", "divide", "garbled", "torn", "buffer", "skewed"}, Fault(kind, d),
         kind \in {"null", "overrun", "divide"} => ~mem[d].own
  PROVE  IInv'
<1>1. mem[d] \in Memory
  BY DEF IInv, Sound, Fine, Backed
<1>2. mem[d].own \in BOOLEAN
  BY <1>1 DEF Memory
<1>3. fault' = [kind |-> kind, own |-> mem[d].own]
      /\ UNCHANGED <<blob, mem, skewed, columns, ret>>
  BY DEF Fault
<1>4. fault'.kind = kind /\ fault'.own = mem[d].own
  BY <1>3
<1>5. fault' \in [kind : {"null", "overrun", "divide", "garbled", "torn", "buffer", "skewed"}, own : BOOLEAN]
  BY <1>2, <1>3
<1>6. Sound'
  BY <1>3 DEF IInv, Sound
<1> QED BY <1>3, <1>4, <1>5, <1>6 DEF IInv, Reported, FaultsNeedADuplicate


-----------------------------------------------------------------------------
(* One lemma for each call: it keeps the invariant.                        *)

\* A create writes a blob that fits into the buffer, and faults only in one that is shared.
LEMMA CreateKeeps ==
  ASSUME IInv, fault = NoFault, Flattened, NEW d \in Objects, NEW by \in Formats,
         NEW f \in Given(by), NEW new \in BOOLEAN, NEW call \in {"insert", "update"},
         Create(d, by, f, new, call)
  PROVE  IInv'
<1> DEFINE cols == InOrder(f)
           b == Layout(by, cols)
           refused == \E k \in DOMAIN f : TooLarge(by, k)
           fresh == new \/ ~mem[d].str
           need == Size(b) + Reserve
           m == IF ~fresh THEN Grown(mem[d], need)
                ELSE IF cols = <<>> THEN NoMemory ELSE Allocated(need)
           written == CASE cols = <<>> -> 0
                        [] cols # <<>> /\ refused -> FixedHeader(by)
                        [] OTHER -> Size(b) + Overhang(cols)
           nb == IF cols = <<>> THEN NoBlob ELSE IF refused THEN Zeroed(by) ELSE b
           nc == IF refused THEN Contract!NoColumns ELSE Named(by, f)
           divides == ~fresh /\ need > mem[d].cap /\ mem[d].inc = 0
<1>1. \/ divides /\ Fault("divide", d)
      \/ ~divides /\ written > m.room /\ Fault("overrun", d)
      \/ /\ ~divides /\ ~(written > m.room)
         /\ mem' = [mem EXCEPT ![d] = m] /\ Becomes(d, nb, FALSE)
         /\ columns' = [columns EXCEPT ![d] = nc]
         /\ Answer(call, IF refused THEN "DATA" ELSE "OK")
  BY DEF Create, Contract!Store
<1>2. Contents(by, f) /\ Holds(b, by, f)
  BY GivenIs DEF Holds
<1>3. Size(b) \in Nat /\ FixedHeader(by) <= Size(b) /\ FixedHeader(by) \in {3, 5}
  BY <1>2, SizeIs, EmptySize
<1>4. need \in Nat /\ need = Size(b) + 80
  <2> HIDE DEF b
  <2> QED BY <1>3 DEF Reserve
<1>5. cols = <<>> <=> DOMAIN f = {}
  <2>1. Lists(cols, f)
    BY <1>2, ContentsHeld
  <2>2. cols \in Seq(Col) /\ Len(cols) \in Nat
    BY <2>1, ListsType
  <2> HIDE DEF cols
  <2>3. ASSUME cols = <<>> PROVE DOMAIN f = {}
    <3>1. Len(cols) = 0
      BY <2>3
    <3>2. 1..Len(cols) = {}
      BY <3>1
    <3> QED BY <2>1, <3>2 DEF Lists
  <2>4. ASSUME DOMAIN f = {} PROVE cols = <<>>
    <3>1. ~(1 \in 1..Len(cols))
      BY <2>1, <2>4 DEF Lists
    <3>2. Len(cols) = 0
      BY <2>2, <3>1
    <3> QED BY <2>2, <3>2
  <2> QED BY <2>3, <2>4
<1>6. /\ cols = <<>> => written = 0 /\ nb = NoBlob /\ ~refused
      /\ cols # <<>> /\ refused => written = FixedHeader(by) /\ nb = Zeroed(by)
      /\ cols # <<>> /\ ~refused => written = Size(b) + Overhang(cols) /\ nb = b
  BY <1>5
<1>7. Overhang(cols) \in {0, 1}
  BY OverhangIs
<1>8. mem[d] \in Memory /\ Backed(blob[d], mem[d])
  BY DEF IInv, Sound, Fine, Backed
<1>9. /\ mem[d].str \in BOOLEAN /\ mem[d].own \in BOOLEAN
      /\ mem[d].cap \in Nat /\ mem[d].room \in Nat /\ mem[d].inc \in {0, 80}
  BY <1>8 DEF Memory, Reserve
<1>10. written \in Nat /\ written <= need /\ Size(nb) <= written /\ Size(nb) \in Nat
  <2>1. Size(NoBlob) = 0 /\ Size(Zeroed(by)) = FixedHeader(by)
    BY EmptySize
  <2> HIDE DEF b, cols, refused, need, written, nb
  <2> QED BY <1>3, <1>4, <1>6, <1>7, <2>1
<1>11. refused => cols # <<>>
  BY <1>5
<1>12. Laid(nb, nc)
  <2>1. Named(by, f) = Contract!NoColumns \/ cols # <<>>
    BY <1>2, <1>5, KnownContents
  <2>2. \/ nb \in {NoBlob, Zeroed(by)} /\ nc = Contract!NoColumns
        \/ nb = b /\ nc = Named(by, f)
    <3>1. CASE refused
      <4>1. nc = Contract!NoColumns
        BY <3>1
      <4> HIDE DEF nc, nb, b, refused, cols
      <4> QED BY <1>6, <1>11, <3>1, <4>1
    <3>2. CASE ~refused
      <4>1. nc = Named(by, f)
        BY <3>2
      <4> HIDE DEF nc, nb, b, refused, cols
      <4> QED BY <1>6, <2>1, <3>2, <4>1
    <3> QED BY <3>1, <3>2
  <2> HIDE DEF b, nb, nc
  <2> QED BY <1>2, <2>2 DEF Laid, Empty
<1>13. nc # Lost
  BY <1>2, KnownContents, NoColumnsKnown
<1>14. ~divides => (~fresh /\ need > mem[d].cap => mem[d].inc # 0)
  OBVIOUS
<1>15. ASSUME ~divides
       PROVE  /\ m \in Memory
              /\ m.own => m.cap = m.room /\ (m.str => m.inc > 0)
              /\ ~m.str => nb.fmt = "none"
              /\ written > m.room => ~fresh /\ ~mem[d].own
  <2>1. CASE fresh /\ cols = <<>>
    <3>1. m = NoMemory /\ written = 0 /\ nb = NoBlob
      BY <1>6, <2>1
    <3> HIDE DEF m, nb, written, fresh
    <3>2. m \in Memory /\ m.str = FALSE /\ m.room = 0 /\ m.cap = 0
      BY <3>1 DEF Memory, NoMemory
    <3>3. nb.fmt = "none"
      BY <3>1 DEF NoBlob
    <3>4. ~(written > m.room) /\ written <= m.room
      BY <3>1, <3>2
    <3> QED BY <3>2, <3>3, <3>4
  <2>2. CASE fresh /\ cols # <<>>
    <3>1. m = Allocated(need)
      BY <2>2
    <3> HIDE DEF need, m, nb, written, fresh
    <3>2. /\ m \in Memory /\ m.str = TRUE /\ m.room = need /\ m.cap = need /\ m.inc = 80
      BY <1>4, <3>1 DEF Memory, Allocated, Reserve
    <3>3. ~(written > m.room) /\ written <= m.room
      BY <1>4, <1>10, <3>2
    <3> QED BY <3>2, <3>3
  <2>3. CASE ~fresh
    <3>1. m = Grown(mem[d], need) /\ mem[d].str
      BY <2>3, <1>9
    <3>2. need > mem[d].cap => mem[d].inc # 0
      BY <1>14, <1>15, <2>3
    <3>3. mem[d].own => mem[d].cap = mem[d].room /\ mem[d].inc > 0
      BY <1>8, <3>1 DEF Backed
    <3> HIDE DEF need, m, nb, written, fresh
    <3> DEFINE x == mem[d]
    <3>4. x \in Memory /\ (need > x.cap => x.inc # 0)
      BY <1>8, <3>2
    <3>5. m = Grown(x, need)
      BY <3>1
    <3> HIDE DEF x
    <3>6. m \in Memory /\ m.str = x.str /\ m.inc = x.inc
      BY <1>4, <3>4, <3>5, GrownIs
    <3>7. CASE need <= x.cap
      <4>1. m = x
        BY <1>4, <3>4, <3>5, <3>7, GrownIs
      <4>2. x.cap \in Nat /\ x.room \in Nat
        BY <1>9 DEF x
      <4>3. m.own => written <= m.room
        BY <1>4, <1>10, <3>3, <3>7, <4>1, <4>2 DEF x
      <4>4. m.own => m.cap = m.room /\ m.inc > 0
        BY <3>3, <4>1 DEF x
      <4>5. written > m.room => ~x.own
        BY <1>10, <4>1, <4>2, <4>3
      <4> QED BY <1>9, <2>3, <3>1, <3>6, <4>1, <4>3, <4>4, <4>5 DEF x
    <3>8. CASE ~(need <= x.cap)
      <4>1. m.own /\ m.cap = m.room /\ m.room >= need
        BY <1>4, <3>4, <3>5, <3>8, GrownIs
      <4>2. m.room \in Nat
        BY <3>6 DEF Memory
      <4>3. m.inc > 0
        <5>1. x.inc # 0 /\ x.inc \in {0, 80}
          BY <1>4, <1>9, <3>4, <3>8 DEF x
        <5> QED BY <3>6, <5>1
      <4>4. written <= m.room /\ ~(written > m.room)
        BY <1>4, <1>10, <4>1, <4>2
      <4> QED BY <3>1, <3>6, <4>1, <4>3, <4>4 DEF x
    <3> QED BY <3>7, <3>8
  <2> QED BY <2>1, <2>2, <2>3
<1>16. CASE divides /\ Fault("divide", d)
  <2>1. mem[d].str /\ mem[d].inc = 0
    BY <1>9, <1>16
  <2>2. ~mem[d].own
    BY <1>8, <2>1 DEF Backed
  <2> QED BY <1>16, <2>2, Faulted
<1>17. CASE ~divides /\ written > m.room /\ Fault("overrun", d)
  <2>1. ~mem[d].own
    BY <1>15, <1>17
  <2> HIDE DEF divides, written, m
  <2> QED BY <1>17, <2>1, Faulted
<1>18. CASE /\ ~divides /\ ~(written > m.room)
            /\ mem' = [mem EXCEPT ![d] = m] /\ Becomes(d, nb, FALSE)
            /\ columns' = [columns EXCEPT ![d] = nc]
            /\ Answer(call, IF refused THEN "DATA" ELSE "OK")
  <2>1. Backed(nb, m) /\ (~m.str => nb.fmt = "none")
    <3>1. m \in Memory
      BY <1>15, <1>18
    <3>2. m.room \in Nat
      BY <3>1 DEF Memory
    <3>3. m.own => m.cap = m.room /\ (m.str => m.inc > 0)
      BY <1>15, <1>18
    <3>4. ~m.str => nb.fmt = "none"
      BY <1>15, <1>18
    <3>5. ~(written > m.room)
      BY <1>18
    <3> HIDE DEF m, nb, written
    <3>6. m.room >= Size(nb)
      BY <1>10, <3>2, <3>5
    <3> QED BY <3>1, <3>3, <3>4, <3>6 DEF Backed
  <2>2. Fine(nb, m, nc, FALSE)
    <3> HIDE DEF m, nb, nc
    <3> QED BY <1>12, <1>13, <2>1 DEF Fine, Told, Stands
  <2>3. mem' = [mem EXCEPT ![d] = m] /\ Becomes(d, nb, FALSE)
        /\ columns' = [columns EXCEPT ![d] = nc]
    BY <1>18
  <2>4. \E code \in {"OK", "DATA"} : Answer(call, code)
    BY <1>18
  <2> HIDE DEF m, nb, nc
  <2>5. Sound'
    <3>1. Sound
      BY DEF IInv
    <3> QED BY <2>2, <2>3, <3>1, OneChanges
  <2>6. Reported'
    BY <2>4, Answered
  <2> QED BY <2>5, <2>6 DEF IInv
<1> HIDE DEF divides, written, m, nb, nc, refused
<1> QED BY <1>1, <1>16, <1>17, <1>18


LEMMA UnmovedKeeps ==
  ASSUME IInv, fault = NoFault, NEW call \in {"none", "insert", "update", "remove", "assign"},
         NEW code \in {"OK", "DATA"}, Unmoved(call, code)
  PROVE  IInv'
<1>1. Answer(call, code) /\ UNCHANGED <<blob, mem, skewed, columns>>
  BY DEF Unmoved
<1>2. Reported'
  BY <1>1, Answered
<1>3. Sound'
  BY <1>1 DEF IInv, Sound
<1> QED BY <1>2, <1>3 DEF IInv

\* Reading through NULL happens to objects that were moved from.
LEMMA GoneIsShared ==
  ASSUME Sound, NEW d \in Objects, Gone(d)
  PROVE  ~mem[d].own
BY DEF Sound, Fine, Backed, Gone

\* Where an update or a removal edits a blob, the blob holds the columns.
LEMMA EditIs ==
  ASSUME Sound, NEW d \in Objects, NEW by \in Formats, NEW K, NEW twice \in BOOLEAN,
         Route(d, by, K, twice) = "edit"
  PROVE  \E g : /\ Contents(by, g) /\ columns[d] = Named(by, g) /\ mem[d].str
                /\ Converted(blob[d], by) = InOrder(g)
                /\ by = "num" => Holds(blob[d], "num", g)
                /\ d \notin skewed
<1> DEFINE b == blob[d]
           col == columns[d]
<1>1. /\ b.fmt # "none" /\ ~Gone(d) /\ b.hdr # <<>> /\ ~(by = "num" /\ b.fmt = "named")
      /\ d \notin skewed
  BY DEF Route
<1>2. mem[d] \in Memory /\ Laid(b, col) /\ Told(b, mem[d], col)
  BY <1>1 DEF Sound, Fine, Backed, Stands
<1>3. mem[d].str
  BY <1>1 DEF Gone
<1>4. col # Lost
  BY <1>1, <1>2, <1>3 DEF Told
<1> HIDE DEF b, col
<1>5. ~Empty(b)
  BY <1>1, EmptyIs
<1>6. PICK fmt \in Formats : \E g : Holds(b, fmt, g) /\ col \in {Lost, Named(fmt, g)}
  BY <1>2, <1>5 DEF Laid
<1>7. PICK g : Holds(b, fmt, g) /\ col \in {Lost, Named(fmt, g)}
  BY <1>6
<1>8. Contents(fmt, g) /\ b = Layout(fmt, InOrder(g)) /\ col = Named(fmt, g)
  BY <1>4, <1>7 DEF Holds
<1>9. b.fmt = fmt
  BY <1>7, HeaderOf
<1>10. CASE by = "named"
  <2> DEFINE h == Named(fmt, g)
  <2>1. Contents("named", h)
    BY <1>8, NamedIs
  <2>2. Converted(b, "named") = InOrder(h)
    BY <1>8, ConvertedIs
  <2> HIDE DEF h
  <2>3. Named("named", h) = h
    BY <2>1, NamedNamed
  <2>4. col = Named("named", h)
    BY <1>8, <2>3 DEF h
  <2>5. /\ Contents(by, h) /\ col = Named(by, h) /\ Converted(b, by) = InOrder(h)
        /\ by # "num"
    BY <1>10, <2>1, <2>2, <2>4
  <2> QED BY <1>1, <1>3, <2>5 DEF b, col
<1>11. CASE by = "num"
  <2>1. fmt = "num"
    BY <1>1, <1>9, <1>11 DEF Formats, b
  <2>2. Converted(b, "num") = InOrder(g)
    BY <1>8, <2>1, ConvertedIs
  <2> QED BY <1>1, <1>3, <1>7, <1>8, <1>11, <2>1, <2>2 DEF b, col
<1> QED BY <1>10, <1>11 DEF Formats

\* A removal of numbers closes the gaps in place, where the smaller blob fits.
LEMMA SizeShrinks ==
  ASSUME NEW g, Contents("num", g), NEW K \in SUBSET Keys("num")
  PROVE  Size(Layout("num", InOrder(Less(g, K)))) <= Size(Layout("num", InOrder(g)))
<1> DEFINE c == InOrder(g)
           r == InOrder(Less(g, K))
<1>1. "num" \in Formats
  BY DEF Formats
<1>2. Lists(c, g) /\ Apart("num", c)
  BY <1>1, ContentsHeld
<1>3. Contents("num", Less(g, K))
  BY <1>1, LessIs
<1>4. Apart("num", r)
  BY <1>1, <1>3, ContentsHeld
<1>5. r = Without(c, K)
  BY <1>2, WithoutIs
<1> HIDE DEF c, r
<1>6. /\ r \in Seq(Col) /\ Len(r) \in Nat /\ Len(c) \in Nat /\ Len(r) <= Len(c)
      /\ Len(Written(r)[Len(r)]) \in Nat /\ Len(Written(c)[Len(c)]) \in Nat
      /\ Len(Written(r)[Len(r)]) <= Len(Written(c)[Len(c)])
  BY <1>2, <1>5, Shrinks
<1>7. c \in Seq(Col)
  BY <1>2, ListsType
<1>8. ASSUME NEW x \in Seq(Col), Apart("num", x)
      PROVE  Size(Layout("num", x)) = 3 + Len(Written(x)[Len(x)]) + 3 * Len(x)
  <2> DEFINE b == Layout("num", x)
             w == Written(x)
  <2>1. b.fmt = "num" /\ b.data = w[Len(x)] /\ Len(b.hdr) = Len(x)
    BY <1>1, <1>8, LayoutIs
  <2>2. FixedHeader("num") = 3
    BY DEF FixedHeader
  <2> HIDE DEF b, w
  <2>3. Size(b) = FixedHeader("num") + Len(b.data) + 3 * Len(b.hdr)
    BY <2>1 DEF Size
  <2>4. Size(b) = 3 + Len(w[Len(x)]) + 3 * Len(x)
    BY <2>1, <2>2, <2>3
  <2> QED BY <2>4 DEF b, w
<1> DEFINE nr == Len(r)
           nc == Len(c)
           wr == Len(Written(r)[nr])
           wc == Len(Written(c)[nc])
<1>9. /\ Size(Layout("num", r)) = 3 + wr + 3 * nr /\ Size(Layout("num", c)) = 3 + wc + 3 * nc
  BY <1>2, <1>4, <1>6, <1>7, <1>8
<1>10. nr \in Nat /\ nc \in Nat /\ wr \in Nat /\ wc \in Nat /\ nr <= nc /\ wr <= wc
  BY <1>6
<1> HIDE DEF nr, nc, wr, wc
<1>11. 3 + wr + 3 * nr <= 3 + wc + 3 * nc
  BY <1>10
<1>12. Size(Layout("num", r)) <= Size(Layout("num", c))
  BY <1>9, <1>11
<1> QED BY <1>12 DEF r, c

\* What a removal of numbers does to a header: Before are the entries that are kept in front of
\* one that goes, Left the header that remains when the data stay as long as they are.
Before(b, K) ==
  {i \in DOMAIN b.hdr \ {j \in DOMAIN b.hdr : b.hdr[j].key \in K} :
     \E j \in {j \in DOMAIN b.hdr : b.hdr[j].key \in K} : i < j}
Left(b, K, closed) ==
  [closed EXCEPT !.hdr =
    [i \in DOMAIN @ |-> IF i <= Cardinality(Before(b, K)) THEN @[i] ELSE b.hdr[i]]]
\* NoBytesAhead, of the columns of the blob.
Ahead(g, K) ==
  /\ \A k \in K \cap DOMAIN g : Bytes[g[k]] = <<>>
  /\ \E k \in DOMAIN g : \A j \in K \cap DOMAIN g : j < k

LEMMA AheadIs ==
  ASSUME NEW g, Contents("num", g), NEW K \in SUBSET Keys("num"), NEW d,
         columns[d] = Named("num", g)
  PROVE  NoBytesAhead(d, K) <=> Ahead(g, K)
<1> DEFINE G == Named("num", g)
           gone == {NameOf[k] : k \in K} \cap DOMAIN G
<1>1. "num" \in Formats /\ \A k : Name("num", k) = NameOf[k]
  BY DEF Formats, Name
<1>2. /\ DOMAIN G = {NameOf[k] : k \in DOMAIN g}
      /\ \A k \in DOMAIN g : G[NameOf[k]] = g[k]
  <2>1. /\ DOMAIN Named("num", g) = {Name("num", k) : k \in DOMAIN g}
        /\ \A k \in DOMAIN g : Named("num", g)[Name("num", k)] = g[k]
    <3> HIDE DEF G, gone
    <3>1. \A fmt \in Formats : fmt = "num" => Contents(fmt, g)
      OBVIOUS
    <3>2. \A fmt \in Formats : fmt = "num" =>
            /\ DOMAIN Named(fmt, g) = {Name(fmt, k) : k \in DOMAIN g}
            /\ \A k \in DOMAIN g : Named(fmt, g)[Name(fmt, k)] = g[k]
      BY <3>1, NamedIs
    <3> QED BY <1>1, <3>2
  <2>2. {Name("num", k) : k \in DOMAIN g} = {NameOf[k] : k \in DOMAIN g}
    BY <1>1
  <2> QED BY <1>1, <2>1, <2>2
<1>3. DOMAIN g \in SUBSET Keys("num")
  BY DEF Contents
<1>4. /\ Keys("num") \in SUBSET Nat
      /\ \A k \in Keys("num") : NameOf[k] \in Nat
      /\ \A j, k \in Keys("num") : j < k => NameOf[j] < NameOf[k]
      /\ \A j, k \in Keys("num") : NameOf[j] = NameOf[k] => j = k
  BY <1>1, KeyNames
<1>5. NoBytesAhead(d, K) <=>
        /\ \A n \in gone : Bytes[G[n]] = <<>>
        /\ \E n \in DOMAIN G : \A m \in gone : m < n
  BY DEF NoBytesAhead
<1> HIDE DEF G
<1>6. gone = {NameOf[k] : k \in K \cap DOMAIN g}
  BY <1>2, <1>3, <1>4
<1> HIDE DEF gone
<1>7. (\A n \in gone : Bytes[G[n]] = <<>>) <=> \A k \in K \cap DOMAIN g : Bytes[g[k]] = <<>>
  BY <1>2, <1>6
<1>8. ASSUME NEW j \in Keys("num"), NEW k \in Keys("num") PROVE NameOf[j] < NameOf[k] <=> j < k
  <2>1. j \in Nat /\ k \in Nat /\ NameOf[j] \in Nat /\ NameOf[k] \in Nat
    BY <1>4
  <2>2. /\ j < k => NameOf[j] < NameOf[k]
        /\ k < j => NameOf[k] < NameOf[j]
    BY <1>4
  <2> QED BY <2>1, <2>2
<1>9. (\E n \in DOMAIN G : \A m \in gone : m < n) <=>
        \E k \in DOMAIN g : \A j \in K \cap DOMAIN g : j < k
  BY <1>2, <1>3, <1>6, <1>8
<1> QED BY <1>5, <1>7, <1>9 DEF Ahead

LEMMA LeftIs ==
  ASSUME NEW g, Contents("num", g), NEW K \in SUBSET Keys("num"),
         NEW old, Holds(old, "num", g), NEW closed, Holds(closed, "num", Less(g, K)),
         NEW left, left = Left(old, K, closed)
  PROVE  /\ Bent(closed)
         /\ Bent(left) /\ Size(left) = Size(closed)
         /\ Len(closed.data) = Len(old.data) /\ ~Ahead(g, K) => left = closed
<1> DEFINE c == InOrder(g)
           h == Less(g, K)
           r == InOrder(h)
           n == Len(old.hdr)
           m == Len(closed.hdr)
           before == Cardinality(Before(old, K))
<1>1. "num" \in Formats
  BY DEF Formats
<1>2. Lists(c, g) /\ Apart("num", c) /\ Lists(r, h) /\ Apart("num", r)
  BY <1>1, ContentsHeld DEF Holds
<1>3. r = Without(c, K)
  BY <1>2, WithoutIs
<1>4. c \in Seq(Col) /\ r \in Seq(Col) /\ DOMAIN c = 1..Len(c)
  BY <1>2, ListsType
<1>5. /\ old = Layout("num", c) /\ closed = Layout("num", r)
  BY DEF Holds
<1>6. /\ old.fmt = "num" /\ n \in Nat /\ DOMAIN old.hdr = 1..n
      /\ \A i \in 1..n : old.hdr[i].key \in DOMAIN g /\ old.hdr[i].off \in Nat
      /\ \A i, j \in 1..n : i < j => old.hdr[i].key < old.hdr[j].key
      /\ \A k \in DOMAIN g : \E i \in 1..n : old.hdr[i].key = k
      /\ \A k \in DOMAIN g : k \in Keys("num") /\ k \in Nat
  <2>1. Holds(old, "num", g)
    OBVIOUS
  <2>2. /\ old.fmt = "num" /\ Len(old.hdr) \in Nat /\ DOMAIN old.hdr = 1..Len(old.hdr)
        /\ \A i \in 1..Len(old.hdr) : old.hdr[i].key \in DOMAIN g /\ old.hdr[i].off \in Nat
        /\ \A i, j \in 1..Len(old.hdr) : i < j => old.hdr[i].key < old.hdr[j].key
        /\ \A k \in DOMAIN g : \E i \in 1..Len(old.hdr) : old.hdr[i].key = k
        /\ \A k \in DOMAIN g : k \in Keys("num") /\ k \in Nat
    <3> HIDE DEF c, h, r, n, m, before
    <3> QED BY <1>1, <2>1, HeaderOf
  <2> QED BY <2>2
<1>7. /\ closed.fmt = "num" /\ m \in Nat /\ DOMAIN closed.hdr = 1..m
      /\ \A i \in 1..m : closed.hdr[i].key \in DOMAIN h /\ closed.hdr[i].off \in Nat
      /\ \A k \in DOMAIN h : k \in Keys("num")
  <2>1. Holds(closed, "num", h)
    OBVIOUS
  <2> HIDE DEF c, h, r, n, before
  <2>2. /\ closed.fmt = "num" /\ Len(closed.hdr) \in Nat /\ DOMAIN closed.hdr = 1..Len(closed.hdr)
        /\ \A i \in 1..Len(closed.hdr) :
             closed.hdr[i].key \in DOMAIN h /\ closed.hdr[i].off \in Nat
        /\ \A k \in DOMAIN h : k \in Keys("num")
    <3> HIDE DEF m
    <3> QED BY <1>1, <2>1, HeaderOf
  <2> QED BY <2>2
<1> HIDE DEF c, h, r
<1>8. /\ n = Len(c) /\ \A i \in 1..n : old.hdr[i].key = c[i].key
      /\ old.data = Written(c)[Len(c)]
  <2>1. /\ Len(old.hdr) = Len(c) /\ old.data = Written(c)[Len(c)]
        /\ \A i \in 1..Len(c) :
             old.hdr[i] = [key |-> c[i].key, type |-> c[i].type, off |-> Len(Written(c)[i - 1])]
    <3> DEFINE w == Written(c)
    <3>1. w = Written(c)
      OBVIOUS
    <3> HIDE DEF w, n, m, before
    <3> QED BY <1>1, <1>2, <1>4, <1>5, <3>1, LayoutIs
  <2>2. n = Len(c)
    BY <2>1
  <2>3. \A i \in 1..Len(c) : old.hdr[i].key = c[i].key
    <3> SUFFICES ASSUME NEW i \in 1..Len(c) PROVE old.hdr[i].key = c[i].key
      OBVIOUS
    <3> DEFINE e == [key |-> c[i].key, type |-> c[i].type, off |-> Len(Written(c)[i - 1])]
    <3>1. e.key = c[i].key
      OBVIOUS
    <3>2. old.hdr[i] = e
      BY <2>1
    <3> HIDE DEF e
    <3> QED BY <3>1, <3>2
  <2> HIDE DEF n
  <2> QED BY <2>1, <2>2, <2>3
<1>9. m = Len(r) /\ closed.data = Written(r)[Len(r)]
  BY <1>1, <1>2, <1>4, <1>5, LayoutIs
<1>10. /\ m <= n
       /\ Len(closed.data) = Len(old.data) =>
            \A i \in 1..n : c[i].key \in K => c[i].bytes = <<>>
  BY <1>2, <1>3, <1>8, <1>9, Shrinks
<1>11. left = [fmt |-> "num", data |-> closed.data,
               hdr |-> [i \in 1..m |-> IF i <= before THEN closed.hdr[i] ELSE old.hdr[i]]]
  <2>1. closed = [fmt |-> closed.fmt, hdr |-> closed.hdr, data |-> closed.data]
    BY <1>5 DEF Layout
  <2> HIDE DEF before
  <2> QED BY <1>7, <2>1 DEF Left, before
<1> HIDE DEF before
<1>12. /\ left.fmt = "num" /\ left.data = closed.data /\ Len(left.hdr) = m
       /\ DOMAIN left.hdr = 1..m
       /\ \A i \in 1..m : left.hdr[i] = IF i <= before THEN closed.hdr[i] ELSE old.hdr[i]
  BY <1>7, <1>11
<1>13. Size(closed) \in Nat
  BY <1>1, SizeIs
<1>14. Size(left) = Size(closed)
  BY <1>7, <1>12 DEF Size
<1>15. Bent(closed)
  BY <1>7, <1>13 DEF Bent
<1>16. Bent(left)
  <2>1. ASSUME NEW i \in 1..m PROVE left.hdr[i].key \in Keys("num") /\ left.hdr[i].off \in Nat
    <3>1. i \in 1..n
      BY <1>6, <1>7, <1>10
    <3> QED BY <1>6, <1>7, <1>12, <3>1
  <2> QED BY <1>12, <1>13, <1>14, <2>1 DEF Bent
<1>17. ASSUME Len(closed.data) = Len(old.data), ~Ahead(g, K) PROVE left = closed
  <2> DEFINE gone == {i \in 1..n : c[i].key \in K}
             kept == {i \in 1..n : c[i].key \notin K}
  <2>1. \A k \in K \cap DOMAIN g : Bytes[g[k]] = <<>>
    <3> SUFFICES ASSUME NEW k \in K \cap DOMAIN g PROVE Bytes[g[k]] = <<>>
      OBVIOUS
    <3>1. PICK i \in 1..n : old.hdr[i].key = k
      BY <1>6
    <3>2. c[i].key = k /\ c[i].bytes = <<>>
      BY <1>8, <1>10, <1>17, <3>1
    <3>3. c[i] = Column(k, g[k])
      BY <1>2, <1>8, <3>2 DEF Lists
    <3> QED BY <3>2, <3>3 DEF Column
  <2>2. \A k \in DOMAIN g : \E j \in K \cap DOMAIN g : ~(j < k)
    BY <1>17, <2>1 DEF Ahead
  <2>3. ASSUME NEW i \in kept PROVE \E j \in gone : i < j
    <3>1. i \in 1..n /\ c[i].key \in DOMAIN g /\ c[i].key \notin K
      BY <1>6, <1>8
    <3>2. PICK k \in K \cap DOMAIN g : ~(k < c[i].key)
      BY <2>2, <3>1
    <3>3. PICK j \in 1..n : old.hdr[j].key = k
      BY <1>6
    <3>4. c[j].key = k /\ j \in gone
      BY <1>8, <3>2, <3>3
    <3>5. k \in Nat /\ c[i].key \in Nat /\ k # c[i].key
      BY <1>6, <3>1, <3>2
    <3>6. ~(j < i) /\ j # i
      BY <1>6, <1>8, <3>1, <3>2, <3>4, <3>5
    <3>7. i < j
      BY <3>1, <3>6
    <3> QED BY <3>4, <3>7
  <2>4. Before(old, K) = kept
    <3>1. /\ {j \in DOMAIN old.hdr : old.hdr[j].key \in K} = gone
          /\ DOMAIN old.hdr \ gone = kept
      BY <1>6, <1>8
    <3> HIDE DEF gone, kept
    <3> QED BY <2>3, <3>1 DEF Before
  <2>5. m = Cardinality(kept)
    <3>1. kept = {i \in DOMAIN c : c[i].key \notin K}
      BY <1>4, <1>8
    <3>2. r = [j \in DOMAIN Ordered(kept) |-> c[Ordered(kept)[j]]]
      BY <1>3, <3>1 DEF Without
    <3>3. DOMAIN r = DOMAIN Ordered(kept) /\ DOMAIN Ordered(kept) = 1..Cardinality(kept)
      <4> HIDE DEF kept
      <4> QED BY <3>2 DEF Ordered
    <3>4. Cardinality(kept) \in Nat
      <4>1. IsFiniteSet(1..n) /\ kept \in SUBSET (1..n)
        BY <1>6, FS_Interval
      <4>2. IsFiniteSet(kept)
        BY <4>1, FS_Subset
      <4> QED BY <4>2, FS_CardinalityType
    <3> HIDE DEF kept
    <3> QED BY <1>4, <1>9, <3>3, <3>4
  <2>6. before = m
    BY <2>4, <2>5 DEF before
  <2>7. left.hdr = [i \in 1..m |-> closed.hdr[i]]
    BY <1>11, <2>6
  <2>8. closed.hdr = [i \in 1..m |-> closed.hdr[i]]
    <3>1. closed.hdr \in Seq(Entry)
      BY <1>1, <1>2, <1>4, <1>5, LayoutIs
    <3> QED BY <3>1
  <2>9. closed = [fmt |-> closed.fmt, hdr |-> closed.hdr, data |-> closed.data]
    BY <1>5 DEF Layout
  <2> QED BY <1>7, <1>11, <2>7, <2>8, <2>9
<1> QED BY <1>14, <1>15, <1>16, <1>17

\* A rewrite has a buffer of its own.
LEMMA RewriteKeeps ==
  ASSUME IInv, fault = NoFault, NEW d \in Objects, NEW by \in Formats, NEW g, Contents(by, g),
         NEW call \in {"update", "remove"}, Rewrite(d, by, InOrder(g), call),
         columns' = [columns EXCEPT ![d] = Named(by, g)]
  PROVE  IInv'
<1> DEFINE b == Layout(by, InOrder(g))
           m == Allocated(Size(b) + Reserve)
           col == Named(by, g)
<1>1. /\ Becomes(d, b, FALSE) /\ mem' = [mem EXCEPT ![d] = m] /\ Answer(call, "OK")
      /\ columns' = [columns EXCEPT ![d] = col]
  BY DEF Rewrite
<1>2. Holds(b, by, g)
  BY DEF Holds
<1>3. Size(b) \in Nat
  BY <1>2, SizeIs
<1>4. col # Lost
  BY KnownContents
<1>5. col \in {Lost, Named(by, g)}
  OBVIOUS
<1> HIDE DEF b, col
<1>6. Stands(b, col, FALSE)
  BY <1>2, <1>5 DEF Stands, Laid
<1> DEFINE n == Size(b) + Reserve
<1>7. n \in Nat /\ n >= Size(b)
  BY <1>3 DEF Reserve
<1> HIDE DEF n
<1>8. /\ m \in Memory /\ m.str = TRUE /\ m.room = n /\ m.cap = n /\ m.inc = 80 /\ m.own = TRUE
  <2>1. m = Allocated(n)
    BY DEF n
  <2> HIDE DEF m
  <2> QED BY <1>7, <2>1 DEF Memory, Allocated, Reserve
<1> HIDE DEF m
<1>9. Fine(b, m, col, FALSE)
  <2>1. Told(b, m, col)
    BY <1>4, <1>8 DEF Told
  <2>2. Backed(b, m)
    BY <1>7, <1>8 DEF Backed
  <2> QED BY <1>6, <2>1, <2>2 DEF Fine
<1>10. Sound
  BY DEF IInv
<1>11. Sound'
  BY <1>1, <1>9, <1>10, OneChanges
<1>12. Reported'
  BY <1>1, Answered
<1> QED BY <1>11, <1>12 DEF IInv


LEMMA UpdateKeeps ==
  ASSUME IInv, fault = NoFault, Flattened, NEW d \in Objects, NEW by \in Formats,
         NEW f \in Given(by), Update(d, by, f)
  PROVE  IInv'
<1> DEFINE way == Route(d, by, DOMAIN f, FALSE)
<1>1. \/ way = "nothing" /\ Unmoved("update", "OK")
      \/ way = "refused" /\ Unmoved("update", "DATA")
      \/ way = "create" /\ Create(d, by, f, FALSE, "update")
      \/ way \in {"null", "garbled", "skewed"} /\ Fault(way, d)
      \/ /\ way = "edit" /\ Rewrite(d, by, Merged(Converted(blob[d], by), f), "update")
         /\ columns' = [columns EXCEPT ![d] = Over(Named(by, f), columns[d])]
  BY DEF Update, Contract!Override, Contract!Store, Over
<1>2. Contents(by, f)
  BY GivenIs
<1>3. Sound
  BY DEF IInv
<1>4. way = "null" => Gone(d)
  BY DEF Route
<1> HIDE DEF way
<1>5. CASE \/ way = "nothing" /\ Unmoved("update", "OK")
           \/ way = "refused" /\ Unmoved("update", "DATA")
  BY <1>5, UnmovedKeeps
<1>6. CASE way = "create" /\ Create(d, by, f, FALSE, "update")
  BY <1>6, CreateKeeps
<1>7. CASE way \in {"null", "garbled", "skewed"} /\ Fault(way, d)
  <2>1. way \in {"null", "overrun", "divide"} => ~mem[d].own
    BY <1>3, <1>4, <1>7, GoneIsShared
  <2> QED BY <1>7, <2>1, Faulted
<1>8. CASE /\ way = "edit" /\ Rewrite(d, by, Merged(Converted(blob[d], by), f), "update")
           /\ columns' = [columns EXCEPT ![d] = Over(Named(by, f), columns[d])]
  <2>1. PICK g : /\ Contents(by, g) /\ columns[d] = Named(by, g)
                 /\ Converted(blob[d], by) = InOrder(g)
    BY <1>3, <1>8, EditIs DEF way
  <2> DEFINE h == Over(f, g)
  <2>2. Held(g) /\ Held(f) /\ Lists(InOrder(g), g)
    BY <1>2, <2>1, ContentsHeld
  <2>3. Merged(InOrder(g), f) = InOrder(h)
    BY <2>2, MergedIs
  <2>4. Contents(by, h) /\ Named(by, h) = Over(Named(by, f), Named(by, g))
    BY <1>2, <2>1, OverIs
  <2> HIDE DEF h
  <2>5. Rewrite(d, by, InOrder(h), "update") /\ columns' = [columns EXCEPT ![d] = Named(by, h)]
    BY <1>8, <2>1, <2>3, <2>4
  <2> QED BY <2>4, <2>5, RewriteKeeps
<1> QED BY <1>1, <1>5, <1>6, <1>7, <1>8

LEMMA RemoveKeeps ==
  ASSUME IInv, fault = NoFault, NEW d \in Objects, NEW by \in Formats,
         NEW K \in KeySets(by), NEW twice \in BOOLEAN, RemoveKeys(d, by, K, twice)
  PROVE  IInv'
<1> DEFINE way == Route(d, by, K, twice)
           named == {Name(by, k) : k \in K}
<1>1. \/ way \in {"nothing", "create"} /\ Unmoved("remove", "OK")
      \/ way = "refused" /\ Unmoved("remove", "DATA")
      \/ way \in {"null", "garbled", "skewed"} /\ Fault(way, d)
      \/ /\ way = "edit"
         /\ \/ by = "num" /\ MoveLeft(d, K)
            \/ Rewrite(d, by, Without(Converted(blob[d], by), K), "remove")
         /\ columns' = [columns EXCEPT ![d] = Less(columns[d], named)]
      \/ Fault("torn", d)
  <2> DEFINE present == \E i \in DOMAIN blob[d].hdr : blob[d].hdr[i].key \in K
  <2>1. \/ way \in {"nothing", "create"} /\ Unmoved("remove", "OK")
        \/ way = "refused" /\ Unmoved("remove", "DATA")
        \/ way \in {"null", "garbled", "skewed"} /\ Fault(way, d)
        \/ /\ way = "edit"
           /\ IF by = "num" /\ present THEN MoveLeft(d, K)
              ELSE Rewrite(d, by, Without(Converted(blob[d], by), K), "remove")
           /\ Contract!Delete(d, named)
        \/ Fault("torn", d)
    BY DEF RemoveKeys
  <2>2. Contract!Delete(d, named) => columns' = [columns EXCEPT ![d] = Less(columns[d], named)]
    BY DEF Contract!Delete, Contract!Store, Less
  <2> HIDE DEF way, named, present
  <2> QED BY <2>1, <2>2
<1>2. K \in SUBSET Keys(by)
  BY DEF KeySets
<1>3. Sound
  BY DEF IInv
<1>4. way = "null" => Gone(d)
  BY DEF Route
<1> HIDE DEF way
<1>5. CASE \/ way \in {"nothing", "create"} /\ Unmoved("remove", "OK")
           \/ way = "refused" /\ Unmoved("remove", "DATA")
  BY <1>5, UnmovedKeeps
<1>6. CASE way \in {"null", "garbled", "skewed"} /\ Fault(way, d)
  <2>1. way \in {"null", "overrun", "divide"} => ~mem[d].own
    BY <1>3, <1>4, <1>6, GoneIsShared
  <2> QED BY <1>6, <2>1, Faulted
<1>7. CASE Fault("torn", d)
  BY <1>7, Faulted
<1>8. CASE /\ way = "edit"
           /\ \/ by = "num" /\ MoveLeft(d, K)
              \/ Rewrite(d, by, Without(Converted(blob[d], by), K), "remove")
           /\ columns' = [columns EXCEPT ![d] = Less(columns[d], named)]
  <2>1. PICK g : /\ Contents(by, g) /\ columns[d] = Named(by, g) /\ mem[d].str
                 /\ Converted(blob[d], by) = InOrder(g)
                 /\ by = "num" => Holds(blob[d], "num", g)
    BY <1>3, <1>8, EditIs DEF way
  <2> DEFINE h == Less(g, K)
  <2>2. Lists(InOrder(g), g)
    BY <2>1, ContentsHeld
  <2>3. Without(InOrder(g), K) = InOrder(h)
    BY <2>2, WithoutIs
  <2>4. Contents(by, h) /\ Named(by, h) = Less(Named(by, g), named)
    BY <1>2, <2>1, LessIs
  <2>5. ASSUME by = "num"
        PROVE  Size(Layout("num", InOrder(h))) <= Size(Layout("num", InOrder(g)))
    BY <1>2, <2>1, <2>5, SizeShrinks
  <2> HIDE DEF h, named
  <2>6. columns' = [columns EXCEPT ![d] = Named(by, h)]
    BY <1>8, <2>1, <2>4
  <2>7. CASE Rewrite(d, by, Without(Converted(blob[d], by), K), "remove")
    <3>1. Rewrite(d, by, InOrder(h), "remove")
      BY <2>1, <2>3, <2>7
    <3> QED BY <2>4, <2>6, <3>1, RewriteKeeps
  <2>8. CASE by = "num" /\ MoveLeft(d, K)
    <3> DEFINE closed == Layout("num", InOrder(h))
               old == blob[d]
               left == Left(old, K, closed)
               b == IF Len(closed.data) = Len(old.data) THEN left ELSE closed
               col == Named("num", h)
               m == mem[d]
               spoilt == NoBytesAhead(d, K)
    <3>1. "num" \in Formats /\ Contents("num", g) /\ Contents("num", h) /\ K \in SUBSET Keys("num")
      BY <1>2, <2>1, <2>4, <2>8 DEF Formats
    <3>2. old = Layout("num", InOrder(g)) /\ Holds(old, "num", g)
      BY <2>1, <2>8 DEF Holds
    <3>3. Columns(old) = InOrder(g)
      BY <3>1, <3>2, ConvertedIs
    <3>4. /\ Becomes(d, b, spoilt) /\ mem' = mem /\ Answer("remove", "OK")
          /\ columns' = [columns EXCEPT ![d] = col]
      <4>1. closed = Layout("num", Without(Columns(old), K))
        BY <2>3, <3>3
      <4> HIDE DEF closed
      <4>2. Becomes(d, b, spoilt) /\ mem' = mem /\ Answer("remove", "OK")
        BY <2>8, <4>1 DEF MoveLeft, Left, Before
      <4>3. columns' = [columns EXCEPT ![d] = col]
        BY <2>6, <2>8
      <4> QED BY <4>2, <4>3
    <3>5. Holds(closed, "num", h)
      BY <3>1 DEF Holds
    <3>6. Size(closed) \in Nat /\ Size(old) \in Nat /\ Size(closed) <= Size(old)
      BY <2>5, <2>8, <3>1, <3>2, <3>5, SizeIs
    <3>7. spoilt <=> Ahead(g, K)
      BY <2>1, <2>8, <3>1, AheadIs
    <3>8. col # Lost /\ col \in {Lost, Named("num", h)} /\ col \in Maps
      BY <3>1, KnownContents DEF Maps
    <3>9. Backed(old, m)
      BY <1>3 DEF Sound, Fine
    <3> HIDE DEF closed, col, old, m, spoilt
    <3>10. /\ Bent(closed) /\ Bent(left) /\ Size(left) = Size(closed)
           /\ Len(closed.data) = Len(old.data) /\ ~Ahead(g, K) => left = closed
      BY <3>1, <3>2, <3>5, LeftIs DEF h
    <3> HIDE DEF left
    <3>11. Bent(b) /\ Size(b) = Size(closed) /\ (~spoilt => b = closed)
      BY <3>7, <3>10
    <3>12. m.str /\ m.room \in Nat
      BY <2>1, <3>9 DEF m, Backed, Memory
    <3> HIDE DEF b
    <3>13. b.fmt = "num"
      BY <3>11 DEF Bent
    <3>14. Backed(b, m)
      <4>1. m.room >= Size(b)
        BY <3>6, <3>9, <3>11, <3>12 DEF Backed
      <4> QED BY <3>9, <3>12, <4>1 DEF Backed
    <3>15. Stands(b, col, spoilt)
      <4>1. CASE spoilt
        BY <3>8, <3>11, <4>1 DEF Stands
      <4>2. CASE ~spoilt
        BY <3>1, <3>5, <3>8, <3>11, <4>2 DEF Stands, Laid
      <4> QED BY <4>1, <4>2
    <3>16. Fine(b, m, col, spoilt)
      BY <3>8, <3>12, <3>14, <3>15 DEF Fine, Told
    <3>17. m = mem[d] /\ spoilt \in BOOLEAN
      BY DEF m, spoilt, NoBytesAhead
    <3>18. Sound'
      BY <1>3, <3>4, <3>16, <3>17, OneChanges
    <3>19. Reported'
      BY <3>4, Answered
    <3> QED BY <3>18, <3>19 DEF IInv
  <2> QED BY <1>8, <2>7, <2>8
<1> QED BY <1>1, <1>5, <1>6, <1>7, <1>8


\* What is known of a blob that stands for contents.
LEMMA StandsIs ==
  ASSUME NEW b, NEW col, NEW spoilt, Stands(b, col, spoilt)
  PROVE  /\ Size(b) \in Nat /\ Stands(b, Lost, spoilt)
         /\ b.fmt = "none" => Empty(b) /\ b = NoBlob /\ col \in {Lost, Contract!NoColumns}
<1>1. CASE Empty(b) /\ col \in {Lost, Contract!NoColumns}
  <2>1. Size(b) \in Nat /\ (b.fmt = "none" => b = NoBlob)
    BY <1>1, EmptySize, EmptyIs
  <2> QED BY <1>1, <2>1 DEF Stands, Laid
<1>2. CASE \E fmt \in Formats : \E g : Holds(b, fmt, g) /\ col \in {Lost, Named(fmt, g)}
  <2>1. PICK fmt \in Formats : \E g : Holds(b, fmt, g) /\ col \in {Lost, Named(fmt, g)}
    BY <1>2
  <2>2. PICK g : Holds(b, fmt, g)
    BY <2>1
  <2>3. b.fmt = fmt /\ Size(b) \in Nat
    BY <2>2, HeaderOf, SizeIs
  <2>4. b.fmt # "none"
    BY <2>3 DEF Formats
  <2> QED BY <2>2, <2>3, <2>4 DEF Stands, Laid
<1>3. CASE spoilt /\ Bent(b)
  BY <1>3 DEF Stands, Bent
<1> QED BY <1>1, <1>2, <1>3 DEF Stands, Laid

\* A duplicate has room for the blob and is not the object's own.
LEMMA DuplicateIs ==
  ASSUME NEW b, Size(b) \in Nat, NEW cap \in Nat, NEW inc \in {0, Reserve},
         NEW m, m = Duplicate(b, cap, inc)
  PROVE  Backed(b, m) /\ m.str
<1> DEFINE n == Size(b)
<1>1. m = [str |-> TRUE, cap |-> cap, inc |-> inc, room |-> n, own |-> FALSE] /\ n \in Nat
  BY DEF Duplicate
<1> HIDE DEF n
<1>2. m \in Memory /\ m.str = TRUE /\ m.room = n /\ m.own = FALSE
  BY <1>1 DEF Memory
<1>3. m.room >= n
  BY <1>1, <1>2
<1> QED BY <1>2, <1>3 DEF Backed, n

LEMMA NoMemoryIs ==
  Backed(NoBlob, NoMemory) /\ NoBlob.fmt = "none"
<1>1. NoMemory \in Memory /\ NoMemory.str = FALSE /\ NoMemory.cap = 0 /\ NoMemory.room = 0
  BY DEF NoMemory, Memory
<1>2. NoBlob.fmt = "none"
  BY DEF NoBlob
<1> QED BY <1>1, <1>2 DEF Backed

LEMMA FreshIsFine ==
  \A spoilt : Fine(NoBlob, NoMemory, Contract!NoColumns, spoilt)
<1>1. Laid(NoBlob, Contract!NoColumns)
  BY DEF Laid, Empty
<1>2. Told(NoBlob, NoMemory, Contract!NoColumns)
  BY NoMemoryIs DEF Told
<1> QED BY <1>1, <1>2, NoMemoryIs DEF Fine, Stands

LEMMA DefaultKeeps ==
  ASSUME IInv, fault = NoFault, NEW d \in Objects, Default(d)
  PROVE  IInv'
<1>1. /\ Becomes(d, NoBlob, FALSE) /\ mem' = [mem EXCEPT ![d] = NoMemory]
      /\ columns' = [columns EXCEPT ![d] = Contract!NoColumns] /\ Answer("assign", "OK")
  BY DEF Default, Contract!Store
<1>2. Sound
  BY DEF IInv
<1>3. Sound'
  BY <1>1, <1>2, FreshIsFine, OneChanges
<1>4. Reported'
  BY <1>1, Answered
<1> QED BY <1>3, <1>4 DEF IInv

LEMMA CopyKeeps ==
  ASSUME IInv, fault = NoFault, NEW d \in Objects, NEW s \in Objects, Copy(d, s)
  PROVE  IInv'
<1> DEFINE none == ~mem[s].str \/ blob[s].fmt = "none"
           b == IF none THEN NoBlob ELSE blob[s]
           m == IF none THEN NoMemory ELSE Duplicate(blob[s], mem[s].cap, mem[s].inc)
           col == IF columns[s] = Lost THEN Contract!NoColumns ELSE columns[s]
           spoilt == ~none /\ s \in skewed
<1>1. /\ Becomes(d, b, spoilt) /\ mem' = [mem EXCEPT ![d] = m]
      /\ columns' = [columns EXCEPT ![d] = col] /\ Answer("assign", "OK")
  <2>1. Becomes(d, b, spoilt) /\ mem' = [mem EXCEPT ![d] = m]
    <3>1. CASE none
      BY <3>1 DEF Copy
    <3>2. CASE ~none
      BY <3>2 DEF Copy
    <3> QED BY <3>1, <3>2
  <2> QED BY <2>1 DEF Copy, Contract!CopyOf, Contract!Store
<1>2. /\ Sound /\ Stands(blob[s], columns[s], s \in skewed) /\ Told(blob[s], mem[s], columns[s])
      /\ mem[s] \in Memory
  BY DEF IInv, Sound, Fine, Backed
<1>3. CASE none
  <2>1. col = Contract!NoColumns
    BY <1>2, <1>3, StandsIs DEF Told
  <2>2. Fine(b, m, col, spoilt) /\ spoilt \in BOOLEAN
    BY <1>3, <2>1, FreshIsFine
  <2> HIDE DEF b, m, col, spoilt
  <2> QED BY <1>1, <1>2, <2>2, OneChanges, Answered DEF IInv
<1>4. CASE ~none
  <2>1. b = blob[s] /\ col = columns[s] /\ col # Lost
    BY <1>2, <1>4 DEF Told
  <2>2. Stands(b, col, spoilt) /\ Size(b) \in Nat /\ spoilt \in BOOLEAN
    BY <1>2, <1>4, <2>1, StandsIs
  <2>3. mem[s].cap \in Nat /\ mem[s].inc \in {0, Reserve}
    BY <1>2 DEF Memory
  <2>4. m = Duplicate(b, mem[s].cap, mem[s].inc)
    BY <1>4
  <2> HIDE DEF b, m, col, spoilt
  <2>5. Backed(b, m) /\ m.str
    BY <2>2, <2>3, <2>4, DuplicateIs
  <2>6. Fine(b, m, col, spoilt)
    BY <2>1, <2>2, <2>5 DEF Fine, Told
  <2> QED BY <1>1, <1>2, <2>2, <2>6, OneChanges, Answered DEF IInv
<1> QED BY <1>3, <1>4

LEMMA MoveKeeps ==
  ASSUME IInv, fault = NoFault, NEW d \in Objects, NEW s \in Objects, Move(d, s)
  PROVE  IInv'
<1>1. d # s
  BY DEF Move
<1>2. /\ Sound /\ Stands(blob[s], columns[s], s \in skewed) /\ Told(blob[s], mem[s], columns[s])
      /\ mem[s] \in Memory
  BY DEF IInv, Sound, Fine, Backed
<1>3. CASE Gone(s)
  <2>1. Fault("null", s) /\ ~mem[s].own
    BY <1>2, <1>3, GoneIsShared DEF Move
  <2> QED BY <2>1, Faulted
<1>4. CASE ~Gone(s)
  <2> DEFINE b == blob[s]
             col == columns[s]
             x == mem[s]
             m == Duplicate(b, x.cap, x.inc)
             spoilt == s \in skewed
             left == [x EXCEPT !.str = FALSE, !.room = 0, !.own = FALSE]
  <2>1. /\ blob' = [blob EXCEPT ![d] = b] /\ Answer("assign", "OK")
        /\ skewed' = IF spoilt THEN skewed \cup {d} ELSE skewed \ {d}
        /\ mem' = [mem EXCEPT ![d] = m, ![s].str = FALSE, ![s].room = 0, ![s].own = FALSE]
        /\ columns' = [columns EXCEPT ![d] = col, ![s] = Lost]
    BY <1>4 DEF Move, Contract!MovedFrom, Becomes
  <2>2. /\ DOMAIN blob = Objects /\ DOMAIN mem = Objects /\ DOMAIN columns = Objects
        /\ skewed \subseteq Objects
    BY <1>2 DEF Sound
  <2>3. /\ DOMAIN blob' = Objects /\ DOMAIN mem' = Objects /\ DOMAIN columns' = Objects
        /\ skewed' \subseteq Objects
    <3> HIDE DEF b, m, col
    <3> QED BY <2>1, <2>2
  <2>4. blob'[d] = b /\ mem'[d] = m /\ columns'[d] = col
    <3> HIDE DEF b, m, col
    <3> QED BY <1>1, <2>1, <2>2
  <2>5. blob'[s] = b /\ mem'[s] = left /\ columns'[s] = Lost
    <3>1. blob'[s] = b /\ columns'[s] = Lost
      BY <1>1, <2>1, <2>2
    <3>2. mem'[s] = left
      <4> HIDE DEF m
      <4> QED BY <1>1, <2>1, <2>2
    <3> QED BY <3>1, <3>2
  <2>6. ASSUME NEW e \in Objects \ {d, s}
        PROVE  /\ blob'[e] = blob[e] /\ mem'[e] = mem[e] /\ columns'[e] = columns[e]
               /\ (e \in skewed') = (e \in skewed)
    <3> HIDE DEF b, m, col
    <3> QED BY <2>1, <2>2
  <2>18. (d \in skewed') = spoilt /\ (s \in skewed') = spoilt
    BY <1>1, <2>1
  <2>7. /\ x.str \in BOOLEAN /\ x.cap \in Nat /\ x.inc \in {0, Reserve} /\ x.room \in Nat
        /\ x.own \in BOOLEAN /\ x \in Memory
    BY <1>2 DEF Memory
  <2>8. x.str \/ b.fmt = "none"
    BY <1>4 DEF Gone
  <2>9. Stands(b, col, spoilt) /\ Told(b, x, col)
    BY <1>2
  <2> HIDE DEF b, x, col, spoilt
  <2>10. Size(b) \in Nat /\ Stands(b, Lost, spoilt)
    BY <2>9, StandsIs
  <2>11. Backed(b, m) /\ m.str
    BY <2>7, <2>10, DuplicateIs
  <2>12. Fine(b, m, col, spoilt)
    <3> HIDE DEF m
    <3>1. Told(b, m, col)
      BY <2>8, <2>9, <2>11 DEF Told
    <3> QED BY <2>9, <2>11, <3>1 DEF Fine
  <2>13. left \in Memory /\ left.str = FALSE /\ left.own = FALSE
    BY <2>7 DEF Memory
  <2> HIDE DEF left, m
  <2>14. Fine(b, left, Lost, spoilt)
    BY <2>10, <2>13 DEF Fine, Told, Backed
  <2>15. ASSUME NEW e \in Objects PROVE Fine(blob'[e], mem'[e], columns'[e], e \in skewed')
    <3>1. CASE e = d
      BY <2>4, <2>12, <2>18, <3>1
    <3>2. CASE e = s
      BY <2>5, <2>14, <2>18, <3>2
    <3>3. CASE e \notin {d, s}
      BY <1>2, <2>6, <3>3 DEF Sound
    <3> QED BY <3>1, <3>2, <3>3
  <2>16. Sound'
    BY <2>3, <2>15 DEF Sound
  <2>17. Reported'
    BY <2>1, Answered
  <2> QED BY <2>16, <2>17 DEF IInv
<1> QED BY <1>3, <1>4


LEMMA FromFieldKeeps ==
  ASSUME IInv, fault = NoFault, Flattened, NEW d \in Objects, NEW by \in Formats,
         NEW f \in Given(by), FromField(d, by, f)
  PROVE  IInv'
<1>1. PICK b \in {Layout(by, InOrder(f))} \cup (IF DOMAIN f = {} THEN {NoBlob} ELSE {}) :
        /\ Becomes(d, b, FALSE)
        /\ mem' = [mem EXCEPT ![d] = Duplicate(b, Huge, 0)]
  BY DEF FromField
<1>2. columns' = [columns EXCEPT ![d] = Named(by, f)] /\ Answer("assign", "OK")
  BY DEF FromField, Contract!Store
<1>3. Contents(by, f) /\ Holds(Layout(by, InOrder(f)), by, f)
  BY GivenIs DEF Holds
<1>4. Sound
  BY DEF IInv
<1> DEFINE col == Named(by, f)
<1>5. col # Lost
  BY <1>3, KnownContents
<1>6. Laid(b, col)
  <2>1. CASE b = Layout(by, InOrder(f))
    <3>1. Holds(b, by, f) /\ col \in {Lost, Named(by, f)}
      BY <1>3, <2>1
    <3> HIDE DEF col
    <3> QED BY <3>1 DEF Laid
  <2>2. CASE DOMAIN f = {} /\ b = NoBlob
    <3>1. col = Contract!NoColumns
      BY <1>3, <2>2, KnownContents
    <3> HIDE DEF col
    <3> QED BY <2>2, <3>1 DEF Laid, Empty
  <2> QED BY <1>1, <2>1, <2>2
<1> DEFINE m == Duplicate(b, Huge, 0)
<1>7. Backed(b, m) /\ m.str
  <2>1. Size(b) \in Nat
    <3>1. Stands(b, col, FALSE)
      BY <1>6 DEF Stands
    <3> HIDE DEF col
    <3> QED BY <3>1, StandsIs
  <2>2. Huge \in Nat /\ 0 \in {0, Reserve}
    BY DynColAssumption
  <2> HIDE DEF m
  <2> QED BY <2>1, <2>2, DuplicateIs DEF m
<1> HIDE DEF m, col
<1>8. Fine(b, m, col, FALSE)
  BY <1>5, <1>6, <1>7 DEF Fine, Told, Stands
<1>9. mem' = [mem EXCEPT ![d] = m] /\ columns' = [columns EXCEPT ![d] = col]
  BY <1>1, <1>2 DEF m, col
<1>10. Sound'
  BY <1>1, <1>4, <1>8, <1>9, OneChanges
<1>11. Reported'
  BY <1>2, Answered
<1> QED BY <1>10, <1>11 DEF IInv

-----------------------------------------------------------------------------
(* The invariant holds in every reachable state.                           *)

LEMMA Initially ==
  ASSUME Init
  PROVE  IInv
<1>1. /\ blob = [d \in Objects |-> NoBlob] /\ mem = [d \in Objects |-> NoMemory]
      /\ columns = [d \in Objects |-> Contract!NoColumns] /\ skewed = {}
      /\ ret = [call |-> "none", code |-> "OK"] /\ fault = NoFault
  BY DEF Init, Contract!Init
<1>2. Sound
  BY <1>1, FreshIsFine DEF Sound
<1>3. Reported
  BY <1>1 DEF Reported, FaultsNeedADuplicate
<1> QED BY <1>2, <1>3 DEF IInv

LEMMA StepKeeps ==
  ASSUME IInv, Flattened, Next
  PROVE  IInv'
<1>1. fault = NoFault
  BY DEF Next
<1>2. PICK d \in Objects : Step(d)
  BY DEF Next
<1>3. ASSUME NEW by \in Formats, NEW f \in Given(by), NEW rst \in BOOLEAN, Insert(d, by, f, rst)
      PROVE  IInv'
  <2>1. Create(d, by, f, rst, "insert")
    BY <1>3 DEF Insert
  <2> QED BY <1>1, <2>1, CreateKeeps
<1>4. ASSUME NEW by \in Formats, NEW f \in Given(by), Update(d, by, f) PROVE IInv'
  BY <1>1, <1>4, UpdateKeeps
<1>5. ASSUME NEW by \in Formats, NEW f \in Given(by), FromField(d, by, f) PROVE IInv'
  BY <1>1, <1>5, FromFieldKeeps
<1>6. ASSUME NEW by \in Formats, NEW K \in KeySets(by), NEW twice \in BOOLEAN,
             RemoveKeys(d, by, K, twice)
      PROVE  IInv'
  BY <1>1, <1>6, RemoveKeeps
<1>7. ASSUME Default(d) PROVE IInv'
  BY <1>1, <1>7, DefaultKeeps
<1>8. ASSUME NEW s \in Objects, Copy(d, s) PROVE IInv'
  BY <1>1, <1>8, CopyKeeps
<1>9. ASSUME NEW s \in Objects, Move(d, s) PROVE IInv'
  BY <1>1, <1>9, MoveKeeps
<1>10. ASSUME ReadGone(d) PROVE IInv'
  <2>1. Gone(d) /\ Fault("null", d)
    BY <1>10 DEF ReadGone
  <2>2. ~mem[d].own
    BY <2>1, GoneIsShared DEF IInv
  <2> QED BY <2>1, <2>2, Faulted
<1>11. ASSUME NEW n \in Numbers, LookUpWide(d, n) PROVE IInv'
  <2>1. Fault("buffer", d)
    BY <1>11 DEF LookUpWide
  <2> QED BY <2>1, Faulted
<1> QED BY <1>2, <1>3, <1>4, <1>5, <1>6, <1>7, <1>8, <1>9, <1>10, <1>11 DEF Step

\* Whatever columns are given and whatever is called, a blob is the layout of its columns, or was
\* left bent by a removal of nothing but columns without bytes ahead of another (skewed), in a
\* buffer that holds it.
THEOREM ContentsSound ==
  ASSUME Flattened
  PROVE  Spec => []IInv
<1>1. Init => IInv
  BY Initially
<1>2. ASSUME IInv, [Next]_vars PROVE IInv'
  <2>1. CASE Next
    BY <1>2, <2>1, StepKeeps
  <2>2. CASE UNCHANGED vars
    BY <1>2, <2>2 DEF vars, IInv, Sound, Reported, FaultsNeedADuplicate
  <2> QED BY <1>2, <2>1, <2>2
<1> QED BY <1>1, <1>2, PTL DEF Spec


-----------------------------------------------------------------------------
(* What the invariant says of the properties.                              *)

\* The two ways in which the columns of an object are known, and the one in which they are not.
LEMMA KnownIs ==
  ASSUME Sound, NEW d \in Objects
  PROVE  /\ mem[d] \in Memory
         /\ \/ Empty(blob[d]) /\ columns[d] \in {Lost, Contract!NoColumns}
            \/ \E fmt \in Formats : \E g :
                 Holds(blob[d], fmt, g) /\ columns[d] \in {Lost, Named(fmt, g)}
            \/ d \in skewed /\ Bent(blob[d]) /\ columns[d] \in {Lost} \cup Maps
BY DEF Sound, Fine, Backed, Stands, Laid

LEMMA TypesOf ==
  ASSUME IInv
  PROVE  TypeOK
<1>1. ASSUME NEW d \in Objects
      PROVE  /\ blob[d].fmt \in Formats \cup {"none"}
             /\ \A i \in DOMAIN blob[d].hdr :
                  blob[d].hdr[i].key \in Keys(blob[d].fmt) /\ blob[d].hdr[i].off \in Nat
             /\ mem[d] \in Memory
             /\ columns[d] # Lost => columns[d] \in UNION {[N -> Values] : N \in SUBSET Names}
  <2> DEFINE b == blob[d]
             col == columns[d]
  <2>1. /\ mem[d] \in Memory
        /\ \/ Empty(b) /\ col \in {Lost, Contract!NoColumns}
           \/ \E fmt \in Formats : \E g : Holds(b, fmt, g) /\ col \in {Lost, Named(fmt, g)}
           \/ Bent(b) /\ col \in {Lost} \cup Maps
    BY KnownIs DEF IInv
  <2> HIDE DEF b, col
  <2> SUFFICES /\ b.fmt \in Formats \cup {"none"}
               /\ \A i \in DOMAIN b.hdr : b.hdr[i].key \in Keys(b.fmt) /\ b.hdr[i].off \in Nat
               /\ col # Lost => col \in UNION {[N -> Values] : N \in SUBSET Names}
    BY <2>1 DEF b, col
  <2>2. CASE Empty(b) /\ col \in {Lost, Contract!NoColumns}
    <3>1. b.fmt \in Formats \cup {"none"} /\ DOMAIN b.hdr = {}
      BY <2>2, EmptyIs DEF Formats
    <3>2. col # Lost => col \in UNION {[N -> Values] : N \in SUBSET Names}
      BY <2>2, NoColumnsKnown
    <3> QED BY <3>1, <3>2
  <2>3. ASSUME NEW fmt \in Formats, NEW g, Holds(b, fmt, g), col \in {Lost, Named(fmt, g)}
        PROVE  /\ b.fmt \in Formats \cup {"none"}
               /\ \A i \in DOMAIN b.hdr : b.hdr[i].key \in Keys(b.fmt) /\ b.hdr[i].off \in Nat
               /\ col # Lost => col \in UNION {[N -> Values] : N \in SUBSET Names}
    <3>1. Contents(fmt, g)
      BY <2>3 DEF Holds
    <3>2. b.fmt = fmt /\ DOMAIN b.hdr = 1..Len(b.hdr)
      BY <2>3, HeaderOf
    <3>3. ASSUME NEW i \in 1..Len(b.hdr)
          PROVE  b.hdr[i].key \in Keys(fmt) /\ b.hdr[i].off \in Nat
      BY <2>3, HeaderOf
    <3>4. col # Lost => col \in UNION {[N -> Values] : N \in SUBSET Names}
      <4>1. Named(fmt, g) \in UNION {[N -> Values] : N \in SUBSET Names}
        BY <3>1, KnownContents
      <4> QED BY <2>3, <4>1
    <3> QED BY <3>2, <3>3, <3>4
  <2>4. CASE Bent(b) /\ col \in {Lost} \cup Maps
    BY <2>4 DEF Bent, Maps, Formats
  <2> QED BY <2>1, <2>2, <2>3, <2>4
<1>2. skewed \subseteq Objects
  BY DEF IInv, Sound
<1> QED BY <1>1, <1>2 DEF TypeOK, IInv, Reported

LEMMA ContentsOf ==
  ASSUME Sound
  PROVE  ContentsKept
<1> SUFFICES ASSUME NEW d \in Objects, Known(d)
             PROVE  Unpacked(blob[d]) = [n \in DOMAIN columns[d] |-> Returned(columns[d][n])]
  BY DEF ContentsKept
<1> DEFINE b == blob[d]
           col == columns[d]
<1>1. col # Lost /\ d \notin skewed
  BY DEF Known
<1>2. \/ Empty(b) /\ col \in {Lost, Contract!NoColumns}
      \/ \E fmt \in Formats : \E g : Holds(b, fmt, g) /\ col \in {Lost, Named(fmt, g)}
  BY <1>1, KnownIs
<1> HIDE DEF b, col
<1>3. CASE Empty(b) /\ col = Contract!NoColumns
  <2>1. DOMAIN b.hdr = {} /\ DOMAIN col = {}
    BY <1>3, EmptyIs, NoColumnsKnown
  <2>2. {Name(b.fmt, b.hdr[i].key) : i \in DOMAIN b.hdr} = DOMAIN col
    BY <2>1
  <2>3. Unpacked(b) = [n \in DOMAIN col |-> Returned(col[n])]
    BY <2>1, <2>2 DEF Unpacked
  <2> QED BY <2>3 DEF b, col
<1>4. CASE \E fmt \in Formats : \E g : Holds(b, fmt, g) /\ col = Named(fmt, g)
  <2>1. Unpacked(b) = [n \in DOMAIN col |-> Returned(col[n])]
    BY <1>4, UnpackedIs
  <2> QED BY <2>1 DEF b, col
<1> QED BY <1>1, <1>2, <1>3, <1>4

LEMMA LookupsOf ==
  ASSUME Sound
  PROVE  LookupsAgree
<1> SUFFICES ASSUME NEW d \in Objects, Known(d), NEW by \in Formats, NEW k \in Keys(by)
             PROVE  LET n == Meant(blob[d], by, k)
                    IN  Get(blob[d], by, k) =
                          IF n \in DOMAIN columns[d] THEN Returned(columns[d][n]) ELSE Absent
  BY DEF LookupsAgree
<1> DEFINE b == blob[d]
           col == columns[d]
           n == Meant(b, by, k)
<1>1. col # Lost /\ d \notin skewed
  BY DEF Known
<1>2. \/ Empty(b) /\ col \in {Lost, Contract!NoColumns}
      \/ \E fmt \in Formats : \E g : Holds(b, fmt, g) /\ col \in {Lost, Named(fmt, g)}
  BY <1>1, KnownIs
<1>3. n = Meant(b, by, k)
  OBVIOUS
<1> HIDE DEF b, col, n
<1>4. CASE Empty(b) /\ col = Contract!NoColumns
  <2>1. Get(b, by, k) = Absent /\ n \notin DOMAIN col
    BY <1>4, GetNone, NoColumnsKnown
  <2> QED BY <2>1 DEF b, col, n
<1>5. CASE \E fmt \in Formats : \E g : Holds(b, fmt, g) /\ col = Named(fmt, g)
  <2>1. Get(b, by, k) = IF n \in DOMAIN col THEN Returned(col[n]) ELSE Absent
    BY <1>3, <1>5, GetIs
  <2> QED BY <2>1 DEF b, col, n
<1> QED BY <1>1, <1>2, <1>4, <1>5

LEMMA VerdictOf ==
  ASSUME Sound
  PROVE  CheckVerdict
<1> SUFFICES ASSUME NEW d \in Objects, Known(d)
             PROVE  WellFormed(blob[d]) <=>
                      \A m, n \in DOMAIN columns[d] : m < n => Bytes[columns[d][m]] # <<>>
  BY DEF CheckVerdict
<1> DEFINE b == blob[d]
           col == columns[d]
<1>1. col # Lost /\ d \notin skewed
  BY DEF Known
<1>2. \/ Empty(b) /\ col \in {Lost, Contract!NoColumns}
      \/ \E fmt \in Formats : \E g : Holds(b, fmt, g) /\ col \in {Lost, Named(fmt, g)}
  BY <1>1, KnownIs
<1> HIDE DEF b, col
<1>3. CASE Empty(b) /\ col = Contract!NoColumns
  <2>1. DOMAIN b.hdr = {} /\ Len(b.hdr) = 0 /\ DOMAIN col = {}
    BY <1>3, EmptyIs, NoColumnsKnown
  <2>2. WellFormed(b)
    <3>1. 2..Len(b.hdr) = {}
      BY <2>1
    <3> QED BY <2>1, <3>1 DEF WellFormed
  <2> QED BY <2>1, <2>2 DEF b, col
<1>4. CASE \E fmt \in Formats : \E g : Holds(b, fmt, g) /\ col = Named(fmt, g)
  <2>1. WellFormed(b) <=> \A m, n \in DOMAIN col : m < n => Bytes[col[m]] # <<>>
    BY <1>4, VerdictIs
  <2> QED BY <2>1 DEF b, col
<1> QED BY <1>1, <1>2, <1>3, <1>4

LEMMA BuffersOf ==
  ASSUME Sound
  PROVE  BuffersHold
BY DEF Sound, Fine, Backed, BuffersHold


\* A create that is refused leaves a header without columns.
LEMMA CreateRefuses ==
  ASSUME DOMAIN blob = Objects, NEW d \in Objects, NEW by \in Formats, NEW f, NEW new, NEW call,
         Create(d, by, f, new, call)
  PROVE  \/ UNCHANGED <<blob, mem, ret>>
         \/ ret' = [call |-> call, code |-> "OK"]
         \/ /\ ret' = [call |-> call, code |-> "DATA"]
            /\ \E k \in DOMAIN f : TooLarge(by, k)
            /\ \A e \in Objects : blob[e] # blob'[e] => blob'[e].hdr = <<>>
<1> DEFINE refused == \E k \in DOMAIN f : TooLarge(by, k)
           nb == IF InOrder(f) = <<>> THEN NoBlob ELSE Zeroed(by)
<1>1. DOMAIN blob = Objects
  OBVIOUS
<1>2. \/ Fault("divide", d) \/ Fault("overrun", d)
      \/ ~refused /\ Answer(call, "OK")
      \/ refused /\ blob' = [blob EXCEPT ![d] = nb] /\ Answer(call, "DATA")
  BY DEF Create, Becomes
<1>3. nb.hdr = <<>>
  <2>1. Empty(nb)
    BY DEF Empty
  <2> HIDE DEF nb
  <2> QED BY <2>1, EmptyIs
<1> HIDE DEF nb
<1>4. CASE refused /\ blob' = [blob EXCEPT ![d] = nb] /\ Answer(call, "DATA")
  <2>1. ASSUME NEW e \in Objects, blob[e] # blob'[e] PROVE blob'[e].hdr = <<>>
    BY <1>1, <1>3, <1>4, <2>1
  <2> QED BY <1>4, <2>1 DEF Answer
<1> QED BY <1>2, <1>4 DEF Fault, Answer

LEMMA StepRefuses ==
  ASSUME DOMAIN blob = Objects, Next, ret'.code = "DATA"
  PROVE  \/ UNCHANGED <<blob, mem>>
         \/ /\ ret'.call = "insert"
            /\ \A d \in Objects : blob[d] # blob'[d] => blob'[d].hdr = <<>>
<1> DEFINE Goal == \/ UNCHANGED <<blob, mem>>
                   \/ /\ ret'.call = "insert"
                      /\ \A d \in Objects : blob[d] # blob'[d] => blob'[d].hdr = <<>>
<1>1. PICK d \in Objects : Step(d)
  BY DEF Next
<1>2. ASSUME NEW call, Answer(call, "OK") PROVE FALSE
  BY <1>2 DEF Answer
<1>3. ASSUME NEW kind, NEW e, Fault(kind, e) PROVE Goal
  BY <1>3 DEF Fault
<1>4. ASSUME NEW call, NEW code, Unmoved(call, code) PROVE Goal
  BY <1>4 DEF Unmoved
<1>5. ASSUME NEW by \in Formats, NEW f \in Given(by), NEW rst \in BOOLEAN, Insert(d, by, f, rst)
      PROVE  Goal
  <2>1. Create(d, by, f, rst, "insert")
    BY <1>5 DEF Insert
  <2>2. \/ UNCHANGED <<blob, mem, ret>>
        \/ ret' = [call |-> "insert", code |-> "OK"]
        \/ /\ ret' = [call |-> "insert", code |-> "DATA"]
           /\ \A e \in Objects : blob[e] # blob'[e] => blob'[e].hdr = <<>>
    BY <2>1, CreateRefuses
  <2> QED BY <2>2
<1>6. ASSUME NEW by \in Formats, NEW f \in Given(by), Update(d, by, f) PROVE Goal
  <2> DEFINE way == Route(d, by, DOMAIN f, FALSE)
  <2>1. \/ \E code \in {"OK", "DATA"} : Unmoved("update", code)
        \/ way = "create" /\ Create(d, by, f, FALSE, "update")
        \/ Fault(way, d)
        \/ Answer("update", "OK")
    BY <1>6 DEF Update, Rewrite
  <2>2. way = "create" => ~\E k \in DOMAIN f : TooLarge(by, k)
    BY DEF Route
  <2> HIDE DEF way, Goal
  <2>3. ASSUME way = "create", Create(d, by, f, FALSE, "update") PROVE Goal
    <3>1. \/ UNCHANGED <<blob, mem, ret>>
          \/ ret' = [call |-> "update", code |-> "OK"]
      BY <2>2, <2>3, CreateRefuses
    <3> QED BY <3>1 DEF Goal
  <2> QED BY <1>2, <1>3, <1>4, <2>1, <2>3
<1>7. ASSUME NEW by \in Formats, NEW K \in KeySets(by), NEW twice \in BOOLEAN,
             RemoveKeys(d, by, K, twice)
      PROVE  Goal
  <2>1. \/ \E code \in {"OK", "DATA"} : Unmoved("remove", code)
        \/ \E kind \in {"null", "garbled", "torn", "skewed"} : Fault(kind, d)
        \/ Answer("remove", "OK")
    BY <1>7 DEF RemoveKeys, Rewrite, MoveLeft
  <2> HIDE DEF Goal
  <2> QED BY <1>2, <1>3, <1>4, <2>1
<1>8. ASSUME NEW by \in Formats, NEW f \in Given(by), FromField(d, by, f) PROVE Goal
  BY <1>2, <1>8 DEF FromField
<1>9. ASSUME Default(d) PROVE Goal
  BY <1>2, <1>9 DEF Default
<1>10. ASSUME NEW s \in Objects, Copy(d, s) PROVE Goal
  BY <1>2, <1>10 DEF Copy
<1>11. ASSUME NEW s \in Objects, Move(d, s) PROVE Goal
  <2>1. Fault("null", s) \/ Answer("assign", "OK")
    BY <1>11 DEF Move
  <2> HIDE DEF Goal
  <2> QED BY <1>2, <1>3, <2>1
<1>12. ASSUME ReadGone(d) PROVE Goal
  BY <1>3, <1>12 DEF ReadGone
<1>13. ASSUME NEW n \in Numbers, LookUpWide(d, n) PROVE Goal
  BY <1>3, <1>13 DEF LookUpWide
<1>14. Goal
  <2> HIDE DEF Goal
  <2> QED BY <1>1, <1>5, <1>6, <1>7, <1>8, <1>9, <1>10, <1>11, <1>12, <1>13 DEF Step
<1> QED BY <1>14

-----------------------------------------------------------------------------
(* The theorems.                                                           *)

\* Headers have the keys of their format, and what the caller put in is a map from names to
\* values.
THEOREM Typed ==
  ASSUME Flattened
  PROVE  Spec => []TypeOK
<1>1. IInv => TypeOK
  BY TypesOf
<1> QED BY <1>1, ContentsSound, PTL

\* unpack() gives the columns that were put in, after any sequence of calls: creates, updates
\* in place and by copying, removals, conversions from numbers to names, copies and moves; but
\* for objects whose blob NoBytesAhead has spoilt (skewed).
THEOREM ContentsAreKept ==
  ASSUME Flattened
  PROVE  Spec => []ContentsKept
<1>1. IInv => ContentsKept
  BY ContentsOf DEF IInv
<1> QED BY <1>1, ContentsSound, PTL

\* The binary searches of get() and exists() find a column exactly when unpack() shows it, in
\* every blob that NoBytesAhead has not spoilt.
THEOREM LookupsFind ==
  ASSUME Flattened
  PROVE  Spec => []LookupsAgree
<1>1. IInv => LookupsAgree
  BY LookupsOf DEF IInv
<1> QED BY <1>1, ContentsSound, PTL

\* check_format() refuses a blob of ours when a column before the last one has no bytes, and
\* for no other reason, unless NoBytesAhead has spoilt it.
THEOREM VerdictKnown ==
  ASSUME Flattened
  PROVE  Spec => []CheckVerdict
<1>1. IInv => CheckVerdict
  BY VerdictOf DEF IInv
<1> QED BY <1>1, ContentsSound, PTL

\* No blob outgrows its buffer, and what the connector allocated has the size it remembers.
THEOREM BuffersAreLargeEnough ==
  ASSUME Flattened
  PROVE  Spec => []BuffersHold
<1>1. IInv => BuffersHold
  BY BuffersOf DEF IInv
<1> QED BY <1>1, ContentsSound, PTL

\* An object that only insert() and update() filled is never written beyond its buffer, never
\* divides by its increment and is never read through NULL.
THEOREM OwnBuffersAreSafe ==
  ASSUME Flattened
  PROVE  Spec => []FaultsNeedADuplicate
<1>1. IInv => FaultsNeedADuplicate
  BY DEF IInv, Reported
<1> QED BY <1>1, ContentsSound, PTL

\* A step leaves every object a blob.
LEMMA BlobsStay ==
  ASSUME DOMAIN blob = Objects, [Next]_vars
  PROVE  DOMAIN blob' = Objects
<1>1. CASE UNCHANGED vars
  BY <1>1 DEF vars
<1>2. CASE Next
  <2>1. PICK d \in Objects : Step(d)
    BY <1>2 DEF Next
  <2>2. \/ UNCHANGED blob
        \/ \E b : blob' = [blob EXCEPT ![d] = b]
    <3>1. ASSUME NEW by \in Formats, NEW f, NEW new, NEW call, Create(d, by, f, new, call)
          PROVE  \/ UNCHANGED blob
                 \/ \E b : blob' = [blob EXCEPT ![d] = b]
      BY <3>1 DEF Create, Fault, Becomes
    <3>2. ASSUME NEW by \in Formats, NEW f, Update(d, by, f)
          PROVE  \/ UNCHANGED blob
                 \/ \E b : blob' = [blob EXCEPT ![d] = b]
      BY <3>1, <3>2 DEF Update, Unmoved, Fault, Rewrite, Becomes
    <3>3. ASSUME NEW by \in Formats, NEW K, NEW twice, RemoveKeys(d, by, K, twice)
          PROVE  \/ UNCHANGED blob
                 \/ \E b : blob' = [blob EXCEPT ![d] = b]
      BY <3>3 DEF RemoveKeys, Unmoved, Fault, Rewrite, MoveLeft, Becomes
    <3>4. ASSUME NEW s \in Objects, Copy(d, s) \/ Move(d, s)
          PROVE  \/ UNCHANGED blob
                 \/ \E b : blob' = [blob EXCEPT ![d] = b]
      BY <3>4 DEF Copy, Move, Fault, Becomes
    <3>5. ASSUME NEW by \in Formats, NEW f, FromField(d, by, f)
          PROVE  \E b : blob' = [blob EXCEPT ![d] = b]
      BY <3>5 DEF FromField, Becomes
    <3>6. ASSUME Default(d) PROVE \E b : blob' = [blob EXCEPT ![d] = b]
      BY <3>6 DEF Default, Becomes
    <3>7. ASSUME ReadGone(d) \/ \E n \in Numbers : LookUpWide(d, n) PROVE UNCHANGED blob
      BY <3>7 DEF ReadGone, LookUpWide, Fault
    <3> QED BY <2>1, <3>1, <3>2, <3>3, <3>4, <3>5, <3>6, <3>7 DEF Step, Insert
  <2> QED BY <2>2
<1> QED BY <1>1, <1>2

Everywhere == DOMAIN blob = Objects

\* A refused call changes nothing, except that a refused insert() leaves no columns.
THEOREM RefusalsChangeNothing ==
  Spec => RefusedCalls
<1>1. Init => Everywhere
  BY DEF Init, Everywhere
<1>2. ASSUME Everywhere, [Next]_vars PROVE Everywhere'
  BY <1>2, BlobsStay DEF Everywhere
<1>3. ASSUME Everywhere, [Next]_vars
      PROVE  [ret'.code = "DATA" =>
                \/ UNCHANGED <<blob, mem>>
                \/ /\ ret'.call = "insert"
                   /\ \A d \in Objects : blob[d] # blob'[d] => blob'[d].hdr = <<>>]_vars
  <2>1. CASE Next
    BY <1>3, <2>1, StepRefuses DEF Everywhere
  <2>2. CASE UNCHANGED vars
    BY <2>2
  <2> QED BY <1>3, <2>1, <2>2
<1> QED BY <1>1, <1>2, <1>3, PTL DEF Spec, RefusedCalls

=============================================================================
