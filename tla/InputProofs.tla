----------------------------- MODULE InputProofs -----------------------------
(***************************************************************************)
(* Proofs about what an agent is given.                                    *)
(*                                                                         *)
(* Selection, for any files, filters, slices, machines and jobs: which     *)
(* instances a job gets, and what it gets of them.                         *)
(*                                                                         *)
(* History, for any chain of processors, any demonstrations and any number *)
(* of steps: what the conversation that goes to the model begins with and  *)
(* where its marks are.  Composes says which chains keep that.             *)
(***************************************************************************)
EXTENDS ActionProofs, Selection, History

-----------------------------------------------------------------------------
(* Numbers *)

LEMMA Products ==
  ASSUME NEW p \in Nat \ {0}, NEW a \in Int, NEW b \in Int, a > b
  PROVE  a * p >= b * p + p
<1>1. PICK d \in Nat : a = b + 1 + d
  <2>1. a - b - 1 \in Nat /\ a = b + 1 + (a - b - 1)
    OBVIOUS
  <2> QED BY <2>1
<1>2. a * p = b * p + p + d * p
  BY <1>1
<1>3. d * p >= 0
  OBVIOUS
<1>4. d * p \in Int /\ b * p \in Int
  OBVIOUS
<1> QED BY <1>2, <1>3, <1>4

LEMMA WholePolls ==
  ASSUME NEW N \in Nat, NEW p \in Nat \ {0}
  PROVE  /\ N \div p \in Nat /\ (N \div p) * p <= N
         /\ N % p # 0 => N - 1 \in Nat /\ (N - 1) \div p = N \div p
<1>1. /\ N \div p \in Int /\ N % p \in 0 .. p - 1 /\ N = p * (N \div p) + (N % p)
  OBVIOUS
<1> DEFINE q == N \div p
           r == N % p
<1>2. q \in Int /\ r \in 0 .. p - 1 /\ N = q * p + r
  BY <1>1
<1>3. q * p \in Int /\ q * p <= N
  BY <1>2
<1>4. q \in Nat
  <2>1. ASSUME q < 0 PROVE FALSE
    <3>1. 0 * p >= q * p + p
      BY <1>2, <2>1, Products
    <3> QED BY <1>2, <1>3, <3>1
  <2> QED BY <1>2, <2>1
<1>5. ASSUME r # 0 PROVE N - 1 \in Nat /\ (N - 1) \div p = q
  <2> DEFINE M == N - 1
             u == M \div p
             v == M % p
  <2>1. M \in Nat
    BY <1>2, <1>3, <1>4, <1>5
  <2>2. u \in Int /\ v \in 0 .. p - 1 /\ M = p * u + v
    BY <2>1
  <2>3. u * p \in Int /\ M = u * p + v
    BY <2>2
  <2> HIDE DEF q, r, u, v
  <2>4. ~(u > q)
    <3>1. u > q => u * p >= q * p + p
      BY <1>2, <2>2, Products
    <3> QED BY <1>2, <1>3, <1>5, <2>2, <2>3, <3>1
  <2>5. ~(q > u)
    <3>1. q > u => q * p >= u * p + p
      BY <1>2, <2>2, Products
    <3> QED BY <1>2, <1>3, <1>5, <2>2, <2>3, <3>1
  <2>6. u = q
    BY <1>2, <2>2, <2>4, <2>5
  <2> QED BY <2>1, <2>6 DEF u
<1> QED BY <1>3, <1>4, <1>5

\* The places of the elements of a finite set, by size.
UpTo(I, x) == {y \in I : y <= x}

LEMMA RanksDiffer ==
  ASSUME NEW I \in SUBSET Int, IsFiniteSet(I)
  PROVE  /\ Cardinality(I) \in Nat
         /\ \A x \in I : Cardinality(UpTo(I, x)) \in 1 .. Cardinality(I)
         /\ \A x, y \in I : Cardinality(UpTo(I, x)) = Cardinality(UpTo(I, y)) => x = y
<1> DEFINE n == Cardinality(I)
           c(x) == Cardinality(UpTo(I, x))
<1>1. n \in Nat
  BY FS_CardinalityType
<1>2. ASSUME NEW x \in I PROVE IsFiniteSet(UpTo(I, x)) /\ c(x) \in 1 .. n
  <2>1. UpTo(I, x) \in SUBSET I /\ x \in UpTo(I, x)
    BY DEF UpTo
  <2>2. IsFiniteSet(UpTo(I, x)) /\ c(x) <= n
    BY <2>1, FS_Subset
  <2>3. c(x) \in Nat /\ c(x) # 0
    BY <2>1, <2>2, FS_CardinalityType, FS_EmptySet
  <2> HIDE DEF n, c
  <2> QED BY <1>1, <2>2, <2>3
<1>3. ASSUME NEW x \in I, NEW y \in I, x < y PROVE c(x) # c(y)
  <2>1. UpTo(I, x) \in SUBSET UpTo(I, y) /\ y \in UpTo(I, y) /\ y \notin UpTo(I, x)
    <3>1. \A z \in I : z <= x => z <= y
      BY <1>3
    <3>2. y <= y /\ ~(y <= x)
      BY <1>3
    <3> QED BY <3>1, <3>2 DEF UpTo
  <2>2. c(y) = c(x) => UpTo(I, y) = UpTo(I, x)
    BY <1>2, <2>1, FS_Subset
  <2> QED BY <2>1, <2>2
<1>4. \A x, y \in I : c(x) = c(y) => x = y
  <2>1. \A x, y \in I : x < y \/ y < x \/ x = y
    OBVIOUS
  <2> HIDE DEF c
  <2> QED BY <1>3, <2>1
<1> QED BY <1>1, <1>2, <1>4

-----------------------------------------------------------------------------
(* Selection: the order of the ids *)

\* Items have the ids I, each once.
HaveIds(s, I) ==
  /\ \A k \in 1 .. Len(s) : s[k].id \in I
  /\ \A j, k \in 1 .. Len(s) : s[j].id = s[k].id => j = k
  /\ \A x \in I : \E k \in 1 .. Len(s) : s[k].id = x
SameIds(s, t) == Len(s) = Len(t) /\ \A k \in 1 .. Len(s) : s[k].id = t[k].id

Nth(k) == CHOOSE x \in Ids : Cardinality(UpTo(Ids, x)) = k

\* As many as the ids they have.
LEMMA IdsCounted ==
  ASSUME NEW S, NEW s \in Seq(S), NEW I, HaveIds(s, I)
  PROVE  Len(s) \in Nat /\ IsFiniteSet(I) /\ Cardinality(I) = Len(s)
<1> DEFINE n == Len(s)
           f == [k \in 1 .. n |-> s[k].id]
<1>1. n \in Nat
  BY LenProperties
<1>2. IsFiniteSet(1 .. n) /\ Cardinality(1 .. n) = n
  BY <1>1, FS_Interval
<1>3. f \in Bijection(1 .. n, I)
  <2>1. f \in [1 .. n -> I]
    BY DEF HaveIds
  <2>2. \A j, k \in 1 .. n : f[j] = f[k] => j = k
    BY DEF HaveIds
  <2>3. \A x \in I : \E k \in 1 .. n : f[k] = x
    BY DEF HaveIds
  <2> HIDE DEF f, n
  <2> QED BY <2>1, <2>2, <2>3 DEF Bijection, Injection, Surjection, IsInjective
<1> HIDE DEF f, n
<1>4. IsFiniteSet(I) /\ Cardinality(I) = Cardinality(1 .. n)
  BY <1>2, <1>3, FS_Bijection DEF ExistsBijection
<1> QED BY <1>1, <1>2, <1>4 DEF n

\* An id has a place of its own, and every place has an id.
LEMMA Places ==
  /\ Cardinality(Ids) \in Nat
  /\ \A x \in Ids : Cardinality(UpTo(Ids, x)) \in 1 .. Cardinality(Ids)
  /\ \A x, y \in Ids : Cardinality(UpTo(Ids, x)) = Cardinality(UpTo(Ids, y)) => x = y
  /\ \A k \in 1 .. Cardinality(Ids) : \E x \in Ids : Cardinality(UpTo(Ids, x)) = k
<1> DEFINE n == Cardinality(Ids)
           f == [x \in Ids |-> Cardinality(UpTo(Ids, x))]
<1>1. /\ n \in Nat
      /\ \A x \in Ids : Cardinality(UpTo(Ids, x)) \in 1 .. n
      /\ \A x, y \in Ids : Cardinality(UpTo(Ids, x)) = Cardinality(UpTo(Ids, y)) => x = y
  <2>1. IsFiniteSet(Ids) /\ Ids \in SUBSET Int
    BY SelectionAssumption
  <2> QED BY <2>1, RanksDiffer
<1>2. f \in Injection(Ids, 1 .. n)
  BY <1>1 DEF Injection, IsInjective
<1>3. IsFiniteSet(1 .. n) /\ Cardinality(1 .. n) = n
  BY <1>1, FS_Interval
<1>4. f \in Surjection(Ids, 1 .. n)
  <2> HIDE DEF f
  <2> QED BY <1>2, <1>3, FS_Injection DEF n
<1>5. \A k \in 1 .. n : \E x \in Ids : f[x] = k
  <2> HIDE DEF f
  <2> QED BY <1>4 DEF Surjection
<1> QED BY <1>1, <1>5

LEMMA NthPlace ==
  ASSUME NEW k \in 1 .. Cardinality(Ids)
  PROVE  /\ Nth(k) \in Ids /\ Cardinality(UpTo(Ids, Nth(k))) = k
         /\ \A x \in Ids : Cardinality(UpTo(Ids, x)) = k => x = Nth(k)
<1>1. Nth(k) \in Ids /\ Cardinality(UpTo(Ids, Nth(k))) = k
  BY Places DEF Nth
<1> QED BY <1>1, Places

\* Items are ranked by their ids.
LEMMA Ranks ==
  ASSUME NEW S, NEW s \in Seq(S), HaveIds(s, Ids), NEW i \in 1 .. Len(s)
  PROVE  Rank(s, i) = Cardinality(UpTo(Ids, s[i].id))
<1> DEFINE n == Len(s)
           x == s[i].id
           R == {j \in 1 .. n : s[j].id <= x}
           f == [j \in R |-> s[j].id]
<1>1. n \in Nat /\ DOMAIN s = 1 .. n
  BY LenProperties
<1>2. Ids \subseteq Nat /\ x \in Ids
  BY SelectionAssumption DEF HaveIds
<1>3. /\ \A k \in 1 .. n : s[k].id \in Ids
      /\ \A j, k \in 1 .. n : s[j].id = s[k].id => j = k
      /\ \A y \in Ids : \E k \in 1 .. n : s[k].id = y
  BY DEF HaveIds
<1>0. i \in 1 .. n /\ x = s[i].id
  OBVIOUS
<1> HIDE DEF n, x
<1>4. Rank(s, i) = Cardinality(R)
  <2> DEFINE Before(j) == s[j].id < s[i].id \/ (s[j].id = s[i].id /\ j <= i)
  <2>1. ASSUME NEW j \in 1 .. n PROVE Before(j) <=> s[j].id <= x
    <3>1. s[j].id \in Nat /\ x \in Nat /\ (s[j].id = x => j = i) /\ i <= i
      <4>1. s[j].id \in Ids
        BY <1>3
      <4>2. s[j].id = x => j = i
        BY <1>0, <1>3
      <4>3. i <= i
        BY <1>0, <1>1
      <4> QED BY <1>2, <4>1, <4>2, <4>3
    <3>2. s[j].id <= x <=> s[j].id < x \/ s[j].id = x
      BY <3>1
    <3> QED BY <1>0, <3>1, <3>2
  <2>2. {j \in 1 .. n : Before(j)} = R
    <3> HIDE DEF Before
    <3> QED BY <2>1
  <2> QED BY <1>1, <2>2 DEF Rank, n, x
<1>5. IsFiniteSet(R)
  <2>1. IsFiniteSet(1 .. n) /\ R \in SUBSET (1 .. n)
    BY <1>1, FS_Interval
  <2> QED BY <2>1, FS_Subset
<1>6. f \in Bijection(R, UpTo(Ids, x))
  <2>1. f \in [R -> UpTo(Ids, x)]
    BY <1>3 DEF UpTo
  <2>2. \A j, k \in R : f[j] = f[k] => j = k
    BY <1>3
  <2>3. \A y \in UpTo(Ids, x) : \E k \in R : f[k] = y
    <3> SUFFICES ASSUME NEW y \in UpTo(Ids, x) PROVE \E k \in R : f[k] = y
      OBVIOUS
    <3>1. PICK k \in 1 .. n : s[k].id = y
      BY <1>3 DEF UpTo
    <3>2. k \in R /\ f[k] = y
      BY <3>1 DEF UpTo
    <3> QED BY <3>2
  <2> HIDE DEF f, R
  <2> QED BY <2>1, <2>2, <2>3 DEF Bijection, Injection, Surjection, IsInjective
<1> HIDE DEF f, R
<1> QED BY <1>4, <1>5, <1>6, FS_Bijection DEF ExistsBijection, x

\* Sorting puts the item with the k-th id at place k.
LEMMA OrderSorts ==
  ASSUME NEW S, NEW s \in Seq(S), HaveIds(s, Ids), NEW k \in 1 .. Len(s)
  PROVE  /\ \E i \in 1 .. Len(s) : Order(s)[k] = s[i]
         /\ Order(s)[k].id = Nth(k)
<1> DEFINE n == Len(s)
           i == CHOOSE j \in DOMAIN s : Rank(s, j) = k
<1>1. n \in Nat /\ DOMAIN s = 1 .. n /\ Cardinality(Ids) = n
  BY IdsCounted, LenProperties
<1>2. Nth(k) \in Ids /\ Cardinality(UpTo(Ids, Nth(k))) = k
  BY <1>1, NthPlace
<1>3. PICK j \in 1 .. n : s[j].id = Nth(k)
  BY <1>2 DEF HaveIds
<1>4. Rank(s, j) = k
  BY <1>2, <1>3, Ranks
<1>5. i \in 1 .. n /\ Rank(s, i) = k
  BY <1>1, <1>4
<1>6. Order(s)[k] = s[i]
  BY <1>1 DEF Order
<1> HIDE DEF i
<1>7. s[i].id \in Ids /\ Cardinality(UpTo(Ids, s[i].id)) = k
  BY <1>5, Ranks DEF HaveIds
<1>8. s[i].id = Nth(k)
  BY <1>1, <1>7, NthPlace
<1> QED BY <1>5, <1>6, <1>8

\* Shuffling keeps the items, and what comes where only depends on their ids.
LEMMA ShuffleKeeps ==
  ASSUME NEW S, NEW s \in Seq(S), HaveIds(s, Ids)
  PROVE  /\ Shuffle(s) \in Seq(S) /\ Len(Shuffle(s)) = Len(s) /\ HaveIds(Shuffle(s), Ids)
         /\ \A k \in 1 .. Len(s) : /\ \E i \in 1 .. Len(s) : Shuffle(s)[k] = s[i]
                                   /\ Shuffle(s)[k].id = Nth(Shuffled[Len(s)][k])
<1> DEFINE n == Len(s)
           g == Shuffled[n]
           t == Shuffle(s)
<1>1. n \in Nat /\ DOMAIN s = 1 .. n /\ Cardinality(Ids) = n /\ \A i \in 1 .. n : s[i] \in S
  BY IdsCounted, LenProperties, ElementOfSeq
<1>2. \A k \in 1 .. n : g[k] \in 1 .. n /\ \A j \in 1 .. n : g[j] = g[k] => j = k
  <2> SUFFICES ASSUME n >= 1 PROVE \A k \in 1 .. n : g[k] \in 1 .. n /\ \A j \in 1 .. n : g[j] = g[k] => j = k
    BY <1>1
  <2>1. n \in 1 .. Cardinality(Ids)
    BY <1>1
  <2>2. g \in [1 .. n -> 1 .. n] /\ IsInjective(g)
    BY <2>1, SelectionAssumption
  <2> HIDE DEF g, n
  <2> QED BY <2>2 DEF IsInjective
<1>3. \A x \in 1 .. n : \E k \in 1 .. n : g[k] = x
  <2> DEFINE f == [k \in 1 .. n |-> g[k]]
  <2>1. f \in Injection(1 .. n, 1 .. n)
    <3>1. f \in [1 .. n -> 1 .. n]
      BY <1>2
    <3>2. \A j, k \in 1 .. n : f[j] = f[k] => j = k
      BY <1>2
    <3> HIDE DEF f, n
    <3> QED BY <3>1, <3>2 DEF Injection, IsInjective
  <2>2. IsFiniteSet(1 .. n)
    BY <1>1, FS_Interval
  <2> HIDE DEF f
  <2>3. f \in Surjection(1 .. n, 1 .. n)
    BY <2>1, <2>2, FS_Injection
  <2>4. \A x \in 1 .. n : \E k \in 1 .. n : f[k] = x
    BY <2>3 DEF Surjection
  <2> QED BY <2>4 DEF f
<1>4. ASSUME NEW k \in 1 .. n
      PROVE  (\E i \in 1 .. n : t[k] = s[i]) /\ t[k].id = Nth(g[k])
  <2>1. t[k] = Order(s)[g[k]]
    BY <1>1 DEF Shuffle
  <2> QED BY <1>2, <2>1, OrderSorts
<1>5. t = [k \in 1 .. n |-> t[k]]
  BY <1>1 DEF Shuffle
<1> HIDE DEF t, g
<1>6. t \in Seq(S) /\ Len(t) = n
  <2>1. \A k \in 1 .. n : t[k] \in S
    BY <1>1, <1>4
  <2> HIDE DEF n
  <2> QED BY <1>1, <1>5, <2>1, IsASeq, LenProperties
<1>7. HaveIds(t, Ids)
  <2>1. ASSUME NEW k \in 1 .. n PROVE t[k].id \in Ids
    <3>1. g[k] \in 1 .. Cardinality(Ids) /\ t[k].id = Nth(g[k])
      BY <1>1, <1>2, <1>4
    <3> QED BY <3>1, NthPlace
  <2>2. ASSUME NEW j \in 1 .. n, NEW k \in 1 .. n, t[j].id = t[k].id PROVE j = k
    <3>1. Nth(g[j]) = Nth(g[k]) /\ g[j] \in 1 .. Cardinality(Ids) /\ g[k] \in 1 .. Cardinality(Ids)
      BY <1>1, <1>2, <1>4, <2>2
    <3>2. g[j] = g[k]
      BY <3>1, NthPlace
    <3> QED BY <1>2, <3>2
  <2>3. ASSUME NEW x \in Ids PROVE \E k \in 1 .. n : t[k].id = x
    <3>1. Cardinality(UpTo(Ids, x)) \in 1 .. n /\ x = Nth(Cardinality(UpTo(Ids, x)))
      BY <1>1, Places, NthPlace
    <3>2. PICK k \in 1 .. n : g[k] = Cardinality(UpTo(Ids, x))
      BY <1>3, <3>1
    <3> QED BY <1>4, <3>1, <3>2
  <2> QED BY <1>6, <2>1, <2>2, <2>3 DEF HaveIds
<1> QED BY <1>4, <1>6, <1>7 DEF t, g

-----------------------------------------------------------------------------
(* Selection: filters *)

ById(s, filter) == {x \in ToSet(s) : x.id \in filter}

\* Lists with the same ids are filtered to lists with the same ids.
LEMMA FilterAlike ==
  ASSUME NEW S, NEW s \in Seq(S), NEW t \in Seq(S), NEW filter, SameIds(s, t)
  PROVE  SameIds(Filtered(s, ById(s, filter)), Filtered(t, ById(t, filter)))
<1> DEFINE T == ById(s, filter)
           U == ById(t, filter)
           A(k) == Kept(s, T)[k]
           B(k) == Kept(t, U)[k]
           V == {k \in Nat : k <= Len(s) => /\ A(k) \in Seq(S) /\ B(k) \in Seq(S)
                                            /\ SameIds(A(k), B(k))}
<1>1. /\ Len(s) \in Nat /\ Len(t) = Len(s)
      /\ \A k \in 1 .. Len(s) : s[k] \in S /\ t[k] \in S /\ s[k].id = t[k].id
      /\ \A k \in 1 .. Len(s) : s[k] \in ToSet(s) /\ t[k] \in ToSet(t)
  BY LenProperties, ElementOfSeq DEF SameIds, ToSet
<1>2. \A k \in 1 .. Len(s) : s[k] \in T <=> t[k] \in U
  BY <1>1 DEF ById
<1> HIDE DEF T, U
<1>3. 0 \in V
  <2>1. A(0) = <<>> /\ B(0) = <<>> /\ <<>> \in Seq(S) /\ Len(<<>>) = 0
    BY KeptSteps, EmptySeq
  <2> QED BY <2>1 DEF SameIds
<1>4. ASSUME NEW k \in Nat, k \in V PROVE k + 1 \in V
  <2> SUFFICES ASSUME k + 1 <= Len(s)
               PROVE  A(k + 1) \in Seq(S) /\ B(k + 1) \in Seq(S) /\ SameIds(A(k + 1), B(k + 1))
    OBVIOUS
  <2>1. PICK i \in 1 .. Len(s) : i = k + 1 /\ i - 1 = k /\ i \in 1 .. Len(t)
    BY <1>1
  <2>2. /\ A(i) = IF s[i] \in T THEN Append(A(k), s[i]) ELSE A(k)
        /\ B(i) = IF t[i] \in U THEN Append(B(k), t[i]) ELSE B(k)
    BY <2>1, KeptSteps
  <2> DEFINE a == A(k)
             b == B(k)
  <2>3. a \in Seq(S) /\ b \in Seq(S) /\ SameIds(a, b)
    BY <1>1, <1>4, <2>1
  <2> HIDE DEF a, b
  <2>4. /\ Append(a, s[i]) \in Seq(S) /\ Append(b, t[i]) \in Seq(S)
        /\ SameIds(Append(a, s[i]), Append(b, t[i]))
    <3>1. Len(a) \in Nat /\ Len(a) = Len(b) /\ \A j \in 1 .. Len(a) : a[j].id = b[j].id
      BY <2>3, LenProperties DEF SameIds
    <3>2. s[i] \in S /\ t[i] \in S /\ s[i].id = t[i].id
      BY <1>1
    <3>3. /\ Append(a, s[i]) \in Seq(S) /\ Len(Append(a, s[i])) = Len(a) + 1
          /\ Append(a, s[i])[Len(a) + 1] = s[i]
          /\ \A j \in 1 .. Len(a) : Append(a, s[i])[j] = a[j]
      BY <2>3, <3>2, AppendProperties
    <3>4. /\ Append(b, t[i]) \in Seq(S) /\ Len(Append(b, t[i])) = Len(a) + 1
          /\ Append(b, t[i])[Len(a) + 1] = t[i]
          /\ \A j \in 1 .. Len(a) : Append(b, t[i])[j] = b[j]
      BY <2>3, <3>1, <3>2, AppendProperties
    <3>5. \A j \in 1 .. Len(a) + 1 : j \in 1 .. Len(a) \/ j = Len(a) + 1
      BY <3>1
    <3> QED BY <3>1, <3>2, <3>3, <3>4, <3>5 DEF SameIds
  <2>5. A(i) \in Seq(S) /\ B(i) \in Seq(S) /\ SameIds(A(i), B(i))
    BY <1>2, <2>2, <2>3, <2>4 DEF a, b
  <2> QED BY <2>1, <2>5
<1> HIDE DEF V
<1>5. Nat \subseteq V
  BY <1>3, <1>4, EveryNumber, Zenon
<1>6. SameIds(A(Len(s)), B(Len(s)))
  BY <1>1, <1>5 DEF V
<1> QED BY <1>1, <1>6 DEF Filtered, T, U

\* A filter leaves the items it matches.
LEMMA FilterKeeps ==
  ASSUME NEW S, NEW s \in Seq(S), NEW filter \in SUBSET Ids, HaveIds(s, Ids)
  PROVE  LET r == Filtered(s, ById(s, filter))
         IN /\ r \in Seq(S) /\ HaveIds(r, filter)
            /\ \A k \in 1 .. Len(r) : \E i \in 1 .. Len(s) : r[k] = s[i]
<1> DEFINE T == ById(s, filter)
           r == Filtered(s, T)
           n == Len(s)
<1>1. n \in Nat /\ \A i \in 1 .. n : s[i] \in S /\ (s[i] \in T <=> s[i].id \in filter)
  BY LenProperties, ElementOfSeq DEF ById, ToSet
<1>2. T \subseteq S /\ \A x \in T : x.id \in filter
  BY <1>1 DEF ById, ToSet
<1>3. PICK p : IsPlaces(p, r, s, n, T)
  BY KeptPlaces
<1> HIDE DEF T, r, n
<1>4. /\ r \in Seq(T) /\ p \in [1 .. Len(r) -> 1 .. n]
      /\ \A k \in 1 .. Len(r) : r[k] = s[p[k]]
      /\ \A k, l \in 1 .. Len(r) : k < l => p[k] < p[l]
      /\ \A i \in 1 .. n : s[i] \in T => \E k \in 1 .. Len(r) : p[k] = i
  BY <1>3 DEF IsPlaces
<1>5. Len(r) \in Nat /\ \A k \in 1 .. Len(r) : r[k] \in T
  BY <1>4, LenProperties, ElementOfSeq
<1>6. r \in Seq(S)
  BY <1>2, <1>4
<1>7. HaveIds(r, filter)
  <2>1. \A k \in 1 .. Len(r) : r[k].id \in filter
    BY <1>2, <1>5
  <2>2. ASSUME NEW j \in 1 .. Len(r), NEW k \in 1 .. Len(r), r[j].id = r[k].id PROVE j = k
    <3>1. p[j] \in 1 .. n /\ p[k] \in 1 .. n /\ r[j] = s[p[j]] /\ r[k] = s[p[k]]
      BY <1>4
    <3>2. p[j] = p[k]
      BY <2>2, <3>1 DEF HaveIds, n
    <3>3. ~(j < k) /\ ~(k < j)
      BY <1>1, <1>4, <3>1, <3>2
    <3> QED BY <1>5, <3>3
  <2>3. ASSUME NEW x \in filter PROVE \E k \in 1 .. Len(r) : r[k].id = x
    <3>1. PICK i \in 1 .. n : s[i].id = x
      BY DEF HaveIds, n
    <3>2. PICK k \in 1 .. Len(r) : p[k] = i
      BY <1>1, <1>4, <3>1
    <3> QED BY <1>4, <3>1, <3>2
  <2> QED BY <2>1, <2>2, <2>3 DEF HaveIds
<1>8. \A k \in 1 .. Len(r) : \E i \in 1 .. n : r[k] = s[i]
  BY <1>4
<1> QED BY <1>6, <1>7, <1>8 DEF r, T, n

-----------------------------------------------------------------------------
(* Selection: slices *)

Every(start, stop, d) == {i \in start + 1 .. stop : (i - 1 - start) % d = 0}

\* Every d-th place between two, for the steps that are used.
LEMMA EveryCounted ==
  ASSUME NEW start \in Nat, NEW stop \in Nat, NEW d \in {1, 2}, NEW q \in Nat,
         q = 0 \/ start + 1 + (q - 1) * d <= stop, stop < start + 1 + q * d
  PROVE  /\ Cardinality(Every(start, stop, d)) = q
         /\ \A k \in 1 .. q : start + 1 + (k - 1) * d \in start + 1 .. stop
<1> DEFINE f == [k \in 1 .. q |-> start + 1 + (k - 1) * d]
           K == Every(start, stop, d)
<1>1. \A k \in 1 .. q : f[k] \in K
  <2> SUFFICES ASSUME NEW k \in 1 .. q PROVE start + 1 + (k - 1) * d \in K
    OBVIOUS
  <2>1. CASE d = 1
    BY <2>1 DEF Every
  <2>2. CASE d = 2
    <3>1. start + 1 + (k - 1) * 2 \in start + 1 .. stop
      BY <2>2
    <3>2. (start + 1 + (k - 1) * 2 - 1 - start) % 2 = 0
      OBVIOUS
    <3> QED BY <2>2, <3>1, <3>2 DEF Every
  <2> QED BY <2>1, <2>2
<1>2. \A j, k \in 1 .. q : f[j] = f[k] => j = k
  <2>1. CASE d = 1
    BY <2>1
  <2>2. CASE d = 2
    BY <2>2
  <2> QED BY <2>1, <2>2
<1>3. ASSUME NEW i \in K PROVE \E k \in 1 .. q : f[k] = i
  <2>1. CASE d = 1
    <3>1. i \in start + 1 .. stop /\ i - start \in 1 .. q /\ start + 1 + (i - start - 1) * 1 = i
      BY <2>1 DEF Every
    <3> QED BY <2>1, <3>1
  <2>2. CASE d = 2
    <3>1. i \in start + 1 .. stop /\ (i - 1 - start) % 2 = 0
      BY <2>2 DEF Every
    <3>2. PICK k \in Int : i - 1 - start = k * 2
      <4>1. (i - 1 - start) \div 2 \in Int /\ i - 1 - start = ((i - 1 - start) \div 2) * 2
        BY <3>1
      <4> QED BY <4>1
    <3>3. k + 1 \in 1 .. q /\ start + 1 + ((k + 1) - 1) * 2 = i
      BY <2>2, <3>1, <3>2
    <3> QED BY <2>2, <3>3
  <2> QED BY <2>1, <2>2
<1>4. f \in [1 .. q -> K]
  BY <1>1
<1>5. \A k \in 1 .. q : start + 1 + (k - 1) * d \in start + 1 .. stop
  BY <1>1 DEF Every
<1> HIDE DEF f, K
<1>6. f \in Bijection(1 .. q, K)
  BY <1>2, <1>3, <1>4 DEF Bijection, Injection, Surjection, IsInjective
<1>7. IsFiniteSet(1 .. q) /\ Cardinality(1 .. q) = q
  BY FS_Interval
<1>8. Cardinality(K) = q
  BY <1>6, <1>7, FS_Bijection DEF ExistsBijection
<1> QED BY <1>5, <1>8 DEF K

StartOf(slice, n) == IF slice.start = <<>> THEN 0 ELSE Clip(slice.start[1], n)
StopOf(slice, n) == IF slice.stop = <<>> THEN n ELSE Clip(slice.stop[1], n)

\* A slice of n items takes q of them.
Takes(slice, n, start, stop, d, q) ==
  /\ d \in {1, 2} /\ slice.step = d
  /\ start \in 0 .. n /\ start = StartOf(slice, n)
  /\ stop \in 0 .. n /\ stop = StopOf(slice, n)
  /\ q \in Nat /\ (q = 0 \/ start + 1 + (q - 1) * d <= stop) /\ stop < start + 1 + q * d

LEMMA SlicedEvery ==
  ASSUME NEW S, NEW s \in Seq(S), NEW slice, NEW start, NEW stop, NEW d, NEW q,
         Takes(slice, Len(s), start, stop, d, q)
  PROVE  /\ Sliced(s, slice) \in Seq(S) /\ Len(Sliced(s, slice)) = q
         /\ \A k \in 1 .. q : /\ start + 1 + (k - 1) * d \in 1 .. Len(s)
                               /\ Sliced(s, slice)[k] = s[start + 1 + (k - 1) * d]
<1> DEFINE n == Len(s)
<1>1. n \in Nat /\ \A i \in 1 .. n : s[i] \in S
  BY LenProperties, ElementOfSeq
<1>2. /\ start \in Nat /\ stop \in Nat /\ d \in {1, 2} /\ stop <= n /\ q \in Nat
      /\ (q = 0 \/ start + 1 + (q - 1) * d <= stop) /\ stop < start + 1 + q * d
  BY <1>1 DEF Takes
<1>3. Sliced(s, slice) = [k \in 1 .. Cardinality(Every(start, stop, d)) |-> s[start + 1 + (k - 1) * d]]
  BY DEF Sliced, StartOf, StopOf, Every, Takes
<1> HIDE DEF n
<1>4. /\ Cardinality(Every(start, stop, d)) = q
      /\ \A k \in 1 .. q : start + 1 + (k - 1) * d \in start + 1 .. stop
  BY <1>2, EveryCounted
<1>5. \A k \in 1 .. q : start + 1 + (k - 1) * d \in 1 .. n
  <2> SUFFICES ASSUME NEW k \in 1 .. q PROVE start + 1 + (k - 1) * d \in 1 .. n
    OBVIOUS
  <2>1. PICK i \in start + 1 .. stop : i = start + 1 + (k - 1) * d
    BY <1>4
  <2> QED BY <1>1, <1>2, <2>1
<1> DEFINE Drawn(k) == s[start + 1 + (k - 1) * d]
<1>6. \A k \in 1 .. q : Drawn(k) \in S
  BY <1>1, <1>5
<1>7. Sliced(s, slice) = [k \in 1 .. q |-> Drawn(k)]
  BY <1>3, <1>4
<1>8. [k \in 1 .. q |-> Drawn(k)] \in Seq(S)
  <2> HIDE DEF Drawn
  <2> QED BY <1>2, <1>6, IsASeq
<1>9. Len([k \in 1 .. q |-> Drawn(k)]) = q
  <2> HIDE DEF Drawn
  <2> QED BY <1>2
<1> QED BY <1>5, <1>7, <1>8, <1>9 DEF n

\* a and b are parts of s and t, and together the ids I, each once.
Divides(a, b, s, t, I) ==
  /\ Len(a) + Len(b) = Len(s)
  /\ {a[k].id : k \in DOMAIN a} \cup {b[k].id : k \in DOMAIN b} = I
  /\ \A k \in DOMAIN a : \E i \in 1 .. Len(s) : a[k] = s[i]
  /\ \A k \in DOMAIN b : \E i \in 1 .. Len(t) : b[k] = t[i]

\* The parts of two machines, of lists with the same ids, are the whole.
LEMMA SlicesShare ==
  ASSUME NEW S, NEW s \in Seq(S), NEW t \in Seq(S), NEW I, SameIds(s, t), HaveIds(s, I),
         NEW slices \in SharedSlices
  PROVE  Divides(Sliced(s, slices[1]), Sliced(t, slices[2]), s, t, I)
<1> DEFINE a == Sliced(s, slices[1])
           b == Sliced(t, slices[2])
           n == Len(s)
<1>1. n \in Nat /\ Len(t) = n /\ \A i \in 1 .. n : t[i].id = s[i].id
  BY LenProperties DEF SameIds
<1>2. ASSUME NEW p \in Nat, NEW q \in Nat, p + q = n,
             a \in Seq(S), Len(a) = p, b \in Seq(S), Len(b) = q,
             \A k \in 1 .. p : \E i \in 1 .. n : a[k] = s[i],
             \A k \in 1 .. q : \E i \in 1 .. n : b[k] = t[i],
             \A i \in 1 .. n : (\E k \in 1 .. p : a[k] = s[i]) \/ \E k \in 1 .. q : b[k] = t[i]
      PROVE  Divides(a, b, s, t, I)
  <2>1. DOMAIN a = 1 .. p /\ DOMAIN b = 1 .. q
    BY <1>2, LenProperties
  <2> HIDE DEF a, b, n
  <2>2. \A k \in 1 .. p : a[k].id \in I
    BY <1>2 DEF HaveIds, n
  <2>3. ASSUME NEW k \in 1 .. q PROVE b[k].id \in I
    <3>1. PICK i \in 1 .. n : b[k] = t[i]
      BY <1>2
    <3>2. s[i].id \in I
      BY DEF HaveIds, n
    <3> QED BY <1>1, <3>1, <3>2
  <2>4. ASSUME NEW x \in I
        PROVE  (\E k \in 1 .. p : a[k].id = x) \/ \E k \in 1 .. q : b[k].id = x
    <3>1. PICK i \in 1 .. n : s[i].id = x
      BY DEF HaveIds, n
    <3>2. CASE \E k \in 1 .. p : a[k] = s[i]
      BY <3>1, <3>2
    <3>3. CASE \E k \in 1 .. q : b[k] = t[i]
      <4>1. PICK k \in 1 .. q : b[k] = t[i]
        BY <3>3
      <4> QED BY <1>1, <3>1, <4>1
    <3> QED BY <1>2, <3>2, <3>3
  <2>5. {a[k].id : k \in 1 .. p} \cup {b[k].id : k \in 1 .. q} = I
    BY <2>2, <2>3, <2>4
  <2> QED BY <1>1, <1>2, <2>1, <2>5 DEF Divides, n
<1>3. CASE \E k \in Cuts : slices = <<Slice(<<>>, <<k>>, 1), Slice(<<k>>, <<>>, 1)>>
  <2>1. PICK k \in Cuts : slices = <<Slice(<<>>, <<k>>, 1), Slice(<<k>>, <<>>, 1)>>
    BY <1>3
  <2> DEFINE c == Clip(k, n)
             one == Slice(<<>>, <<k>>, 1)
             two == Slice(<<k>>, <<>>, 1)
  <2>2. k \in Int /\ c \in 0 .. n /\ c \in Nat
    BY <1>1, SelectionAssumption DEF Clip
  <2>3. /\ one.step = 1 /\ StartOf(one, n) = 0 /\ StopOf(one, n) = c
        /\ two.step = 1 /\ StartOf(two, n) = c /\ StopOf(two, n) = n
        /\ slices[1] = one /\ slices[2] = two
    BY <2>1 DEF Slice, StartOf, StopOf
  <2> HIDE DEF c, one, two
  <2>4. /\ a \in Seq(S) /\ Len(a) = c
        /\ \A j \in 1 .. c : a[j] = s[0 + 1 + (j - 1) * 1]
    <3>1. Takes(one, n, 0, c, 1, c)
      BY <1>1, <2>2, <2>3 DEF Takes
    <3>2. /\ Sliced(s, one) \in Seq(S) /\ Len(Sliced(s, one)) = c
          /\ \A j \in 1 .. c : Sliced(s, one)[j] = s[0 + 1 + (j - 1) * 1]
      BY <3>1, SlicedEvery DEF n
    <3> QED BY <2>3, <3>2
  <2>5. /\ b \in Seq(S) /\ Len(b) = n - c
        /\ \A j \in 1 .. n - c : b[j] = t[c + 1 + (j - 1) * 1]
    <3>1. Takes(two, n, c, n, 1, n - c)
      BY <1>1, <2>2, <2>3 DEF Takes
    <3>2. /\ Sliced(t, two) \in Seq(S) /\ Len(Sliced(t, two)) = n - c
          /\ \A j \in 1 .. n - c : Sliced(t, two)[j] = t[c + 1 + (j - 1) * 1]
      BY <1>1, <3>1, SlicedEvery
    <3>3. Sliced(t, two) = b
      BY <2>3
    <3> QED BY <2>3, <3>2, <3>3
  <2> HIDE DEF a, b, n
  <2>6. \A j \in 1 .. c : j \in 1 .. n /\ a[j] = s[j]
    BY <1>1, <2>2, <2>4
  <2>7. \A j \in 1 .. n - c : c + j \in 1 .. n /\ b[j] = t[c + j]
    BY <1>1, <2>2, <2>5
  <2>8. \A i \in 1 .. n : i \in 1 .. c \/ (i - c \in 1 .. n - c /\ c + (i - c) = i)
    BY <1>1, <2>2
  <2>9. \A i \in 1 .. n : (\E j \in 1 .. c : a[j] = s[i]) \/ \E j \in 1 .. n - c : b[j] = t[i]
    BY <2>6, <2>7, <2>8
  <2>10. n - c \in Nat /\ c + (n - c) = n
    BY <1>1, <2>2
  <2>11. /\ \A j \in 1 .. c : \E i \in 1 .. n : a[j] = s[i]
         /\ \A j \in 1 .. n - c : \E i \in 1 .. n : b[j] = t[i]
    BY <2>6, <2>7
  <2> QED BY <1>1, <1>2, <2>2, <2>4, <2>5, <2>9, <2>10, <2>11 DEF a, b, n
<1>4. CASE slices = <<Slice(<<>>, <<>>, 2), Slice(<<1>>, <<>>, 2)>>
  <2> DEFINE c == Clip(1, n)
             p == (n + 1) \div 2
             q == n \div 2
             one == Slice(<<>>, <<>>, 2)
             two == Slice(<<1>>, <<>>, 2)
  <2>1. /\ c \in 0 .. n /\ c \in Nat /\ (n = 0 => c = 0) /\ (n > 0 => c = 1)
        /\ p \in Nat /\ q \in Nat /\ p + q = n /\ p \in {q, q + 1}
    BY <1>1 DEF Clip
  <2>2. /\ one.step = 2 /\ StartOf(one, n) = 0 /\ StopOf(one, n) = n
        /\ two.step = 2 /\ StartOf(two, n) = c /\ StopOf(two, n) = n
        /\ slices[1] = one /\ slices[2] = two
    BY <1>4 DEF Slice, StartOf, StopOf
  <2> HIDE DEF c, one, two, p, q
  <2>3. /\ a \in Seq(S) /\ Len(a) = p
        /\ \A j \in 1 .. p : a[j] = s[0 + 1 + (j - 1) * 2]
    <3>1. Takes(one, n, 0, n, 2, p)
      BY <1>1, <2>1, <2>2 DEF Takes
    <3>2. /\ Sliced(s, one) \in Seq(S) /\ Len(Sliced(s, one)) = p
          /\ \A j \in 1 .. p : Sliced(s, one)[j] = s[0 + 1 + (j - 1) * 2]
      BY <3>1, SlicedEvery DEF n
    <3>3. Sliced(s, one) = a
      BY <2>2
    <3> QED BY <2>2, <3>2, <3>3
  <2>4. /\ b \in Seq(S) /\ Len(b) = q
        /\ \A j \in 1 .. q : b[j] = t[c + 1 + (j - 1) * 2]
    <3>1. Takes(two, n, c, n, 2, q)
      BY <1>1, <2>1, <2>2 DEF Takes
    <3>2. /\ Sliced(t, two) \in Seq(S) /\ Len(Sliced(t, two)) = q
          /\ \A j \in 1 .. q : Sliced(t, two)[j] = t[c + 1 + (j - 1) * 2]
      BY <1>1, <3>1, SlicedEvery
    <3>3. Sliced(t, two) = b
      BY <2>2
    <3> QED BY <2>2, <3>2, <3>3
  <2> HIDE DEF a, b, n
  <2>5. \A j \in 1 .. p : 2 * j - 1 \in 1 .. n /\ a[j] = s[2 * j - 1]
    <3> SUFFICES ASSUME NEW j \in 1 .. p PROVE 2 * j - 1 \in 1 .. n /\ a[j] = s[2 * j - 1]
      OBVIOUS
    <3>1. 2 * j - 1 \in 1 .. n /\ 0 + 1 + (j - 1) * 2 = 2 * j - 1
      BY <1>1, <2>1
    <3> QED BY <2>3, <3>1
  <2>6. \A j \in 1 .. q : 2 * j \in 1 .. n /\ b[j] = t[2 * j]
    <3> SUFFICES ASSUME NEW j \in 1 .. q PROVE 2 * j \in 1 .. n /\ b[j] = t[2 * j]
      OBVIOUS
    <3>1. 2 * j \in 1 .. n /\ c + 1 + (j - 1) * 2 = 2 * j
      BY <1>1, <2>1
    <3> QED BY <2>4, <3>1
  <2>7. ASSUME NEW i \in 1 .. n
        PROVE  (\E j \in 1 .. p : a[j] = s[i]) \/ \E j \in 1 .. q : b[j] = t[i]
    <3>1. PICK j \in Int : i = 2 * j \/ i = 2 * j - 1
      <4>1. i = 2 * ((i + 1) \div 2) \/ i = 2 * ((i + 1) \div 2) - 1
        OBVIOUS
      <4>2. (i + 1) \div 2 \in Int
        OBVIOUS
      <4> QED BY <4>1, <4>2
    <3>2. (i = 2 * j => j \in 1 .. q) /\ (i = 2 * j - 1 => j \in 1 .. p)
      BY <1>1, <2>1, <3>1
    <3> QED BY <2>5, <2>6, <3>1, <3>2
  <2>8. /\ \A j \in 1 .. p : \E i \in 1 .. n : a[j] = s[i]
        /\ \A j \in 1 .. q : \E i \in 1 .. n : b[j] = t[i]
    BY <2>5, <2>6
  <2> QED BY <1>1, <1>2, <2>1, <2>3, <2>4, <2>7, <2>8 DEF a, b, n
<1> QED BY <1>1, <1>3, <1>4 DEF SharedSlices

-----------------------------------------------------------------------------
(* Selection: what a machine loads *)

RowSet == [id : Ids, repo : Repos, images : {<<>>, <<"a", "b">>}, image : Ids \cup {0}]
ConfigSet == [type : Deployments, image : Nat, standalone : {"none", "/root"}]
ItemSet ==
  [id : Ids, config : Nat, repo : {"preexisting", "mirror", "none", "github", "local"},
   statement : {"github", "text_file", "empty", "text", "multimodal"},
   images : {<<>>, <<"a", "b">>}]
LoadStates == [configs : Seq(ConfigSet) \ {<<>>}, items : Seq(ItemSet)]

LEMMA ImageIsOwn ==
  ASSUME NEW config \in ConfigSet, NEW row \in RowSet, NEW kind
  PROVE  /\ WithImage(config, row, kind) \in ConfigSet
         /\ config.type \notin {"local", "dummy"} \/ kind = "expert_file" =>
              WithImage(config, row, kind).image = row.image
<1>1. row.image \in Nat
  <2>1. row.image \in Ids \cup {0}
    BY DEF RowSet
  <2>2. Ids \subseteq Nat
    BY SelectionAssumption
  <2>3. 0 \in Nat
    OBVIOUS
  <2> QED BY <2>1, <2>2, <2>3, Zenon
<1>2. CASE kind = "expert_file"
  <2>1. WithImage(config, row, kind) = [type |-> "docker", image |-> row.image, standalone |-> "none"]
    BY <1>2 DEF WithImage
  <2> QED BY <1>1, <2>1 DEF ConfigSet, Deployments
<1>3. CASE kind # "expert_file"
  <2>1. WithImage(config, row, kind) =
          IF config.type \in {"local", "dummy"} THEN config
          ELSE [config EXCEPT !.image = row.image,
                              !.standalone = IF config.type = "docker" /\ @ = "none"
                                             THEN "/root" ELSE @]
    BY <1>3 DEF WithImage
  <2> QED BY <1>1, <1>3, <2>1 DEF ConfigSet
<1> QED BY <1>2, <1>3

\* An instance is added with its configuration, after n configurations and k instances.
IsAdded(later, state, n, k, row, kind) ==
  /\ later \in LoadStates
  /\ Len(later.configs) = n + 1 /\ Len(later.items) = k + 1
  /\ \A j \in 1 .. n : later.configs[j] = state.configs[j]
  /\ \A j \in 1 .. k : later.items[j] = state.items[j]
  /\ later.configs[n + 1] = WithImage(state.configs[1], row, kind)
  /\ later.items[k + 1].id = row.id /\ later.items[k + 1].config = n + 1

LEMMA ItemIsFull ==
  ASSUME NEW kind, NEW state \in LoadStates, NEW row \in RowSet
  PROVE  IsAdded(ToFullBatchInstance(kind, state, row), state, Len(state.configs),
                 Len(state.items), row, kind)
<1> DEFINE later == ToFullBatchInstance(kind, state, row)
           n == Len(state.configs)
           k == Len(state.items)
           config == WithImage(state.configs[1], row, kind)
           list == CopyConfig(state.configs, config)
           item == [id |-> row.id, config |-> ConfigOf(list), repo |-> RepoConfig(kind, row),
                    statement |-> StatementConfig(kind, row), images |-> row.images]
<1>1. state.configs \in Seq(ConfigSet) /\ state.configs # <<>> /\ state.items \in Seq(ItemSet)
  BY DEF LoadStates
<1>2. n \in Nat \ {0} /\ k \in Nat
  BY <1>1, LenProperties, EmptySeq
<1>3. config \in ConfigSet
  <2>1. state.configs[1] \in ConfigSet
    BY <1>1, <1>2, ElementOfSeq
  <2> QED BY <2>1, ImageIsOwn
<1>4. later = [configs |-> list, items |-> Append(state.items, item)]
  BY DEF ToFullBatchInstance
<1> HIDE DEF later, config, n, k
<1>5. /\ list \in Seq(ConfigSet) /\ Len(list) = n + 1 /\ list[n + 1] = config
      /\ \A j \in 1 .. n : list[j] = state.configs[j]
  BY <1>1, <1>3, AppendProperties DEF CopyConfig, n
<1>6. item \in ItemSet
  <2>1. RepoConfig(kind, row) \in {"preexisting", "mirror", "none", "github", "local"}
    BY DEF RepoConfig
  <2>2. StatementConfig(kind, row) \in {"github", "text_file", "empty", "text", "multimodal"}
    BY DEF StatementConfig
  <2>3. ConfigOf(list) = n + 1 /\ n + 1 \in Nat
    BY <1>2, <1>5 DEF ConfigOf
  <2> HIDE DEF list
  <2> QED BY <2>1, <2>2, <2>3 DEF ItemSet, RowSet
<1>7. item.id = row.id /\ item.config = n + 1
  BY <1>5 DEF ConfigOf
<1> HIDE DEF list, item
<1>8. /\ Append(state.items, item) \in Seq(ItemSet) /\ Len(Append(state.items, item)) = k + 1
      /\ Append(state.items, item)[k + 1] = item
      /\ \A j \in 1 .. k : Append(state.items, item)[j] = state.items[j]
  BY <1>1, <1>6, AppendProperties DEF k
<1>9. list # <<>>
  BY <1>2, <1>5, EmptySeq
<1>10. later \in LoadStates
  BY <1>4, <1>5, <1>8, <1>9 DEF LoadStates
<1> QED BY <1>4, <1>5, <1>7, <1>8, <1>10 DEF n, k, later, config, IsAdded

LEMMA LoadedSteps ==
  ASSUME NEW kind, NEW config \in ConfigSet, NEW file \in Seq(RowSet)
  PROVE  LET it == LoadedFirst(kind, config, file)
         IN /\ Len(file) \in Nat
            /\ it[0] = [configs |-> <<config>>, items |-> <<>>]
            /\ \A i \in 1 .. Len(file) : it[i] = ToFullBatchInstance(kind, it[i - 1], file[i])
<1> DEFINE n == Len(file)
           start == [configs |-> <<config>>, items |-> <<>>]
           Body(f) == [i \in 0 .. n |-> IF i = 0 THEN start
                                       ELSE ToFullBatchInstance(kind, f[i - 1], file[i])]
           it == CHOOSE f : f = Body(f)
<1>1. n \in Nat /\ \A i \in 1 .. n : file[i] \in RowSet
  BY LenProperties, ElementOfSeq
<1>2. LoadedFirst(kind, config, file) = it
  BY DEF LoadedFirst
<1> HIDE DEF n
<1>3. start \in LoadStates
  <2>1. <<>> \in Seq(ItemSet)
    BY EmptySeq
  <2>2. <<config>> \in Seq(ConfigSet)
    OBVIOUS
  <2>3. <<config>> # <<>>
    OBVIOUS
  <2> QED BY <2>1, <2>2, <2>3 DEF LoadStates
<1> HIDE DEF start
<1>4. PICK G \in [1 .. n -> [LoadStates -> LoadStates]] :
        \A x \in LoadStates, i \in 1 .. n : G[i][x] = ToFullBatchInstance(kind, x, file[i])
  <2> DEFINE H == [i \in 1 .. n |-> [x \in LoadStates |-> ToFullBatchInstance(kind, x, file[i])]]
  <2>1. \A i \in 1 .. n, x \in LoadStates : ToFullBatchInstance(kind, x, file[i]) \in LoadStates
    BY <1>1, ItemIsFull DEF IsAdded
  <2>2. H \in [1 .. n -> [LoadStates -> LoadStates]]
    BY <2>1
  <2>3. \A x \in LoadStates, i \in 1 .. n : H[i][x] = ToFullBatchInstance(kind, x, file[i])
    OBVIOUS
  <2> QED BY <2>2, <2>3, Zenon
<1>5. PICK f \in [0 .. n -> LoadStates] : f[0] = start /\ \A i \in 1 .. n : f[i] = G[i][f[i - 1]]
  <2>1. HasRun(n, LoadStates, start, G)
    BY <1>1, <1>3, <1>4, FunctionExists
  <2> QED BY <2>1 DEF HasRun, IsRun
<1>6. f = Body(f)
  <2>1. \A i \in 0 .. n : i # 0 => i \in 1 .. n /\ i - 1 \in 0 .. n
    BY <1>1
  <2>2. \A i \in 0 .. n : f[i] = IF i = 0 THEN start ELSE ToFullBatchInstance(kind, f[i - 1], file[i])
    BY <1>4, <1>5, <2>1
  <2> QED BY <1>5, <2>2
<1>7. it = Body(it)
  BY <1>6 DEF it
<1>8. it[0] = start
  <2>1. 0 \in 0 .. n
    BY <1>1
  <2> HIDE DEF it
  <2>2. it[0] = Body(it)[0]
    BY <1>7, Zenon
  <2> QED BY <2>1, <2>2, Zenon
<1>9. ASSUME NEW i \in 1 .. n PROVE it[i] = ToFullBatchInstance(kind, it[i - 1], file[i])
  <2>1. i \in 0 .. n /\ i # 0
    BY <1>1
  <2> QED BY <1>7, <2>1, Zenon
<1> QED BY <1>1, <1>2, <1>8, <1>9 DEF n, start

\* Every instance has a configuration of its own, with its image.
LEMMA LoadedWhole ==
  ASSUME NEW kind, NEW config \in ConfigSet, NEW file \in Seq(RowSet)
  PROVE  LET loaded == Loaded(kind, config, file)
         IN /\ loaded.configs \in Seq(ConfigSet) /\ loaded.items \in Seq(ItemSet)
            /\ Len(loaded.items) = Len(file) /\ Len(loaded.configs) = Len(file) + 1
            /\ loaded.configs[1] = config
            /\ \A i \in 1 .. Len(file) :
                 /\ loaded.items[i].id = file[i].id /\ loaded.items[i].config = i + 1
                 /\ loaded.configs[i + 1] = WithImage(config, file[i], kind)
<1> DEFINE it == LoadedFirst(kind, config, file)
           Whole(k) ==
             /\ it[k] \in LoadStates /\ Len(it[k].items) = k /\ Len(it[k].configs) = k + 1
             /\ it[k].configs[1] = config
             /\ \A i \in 1 .. k :
                  /\ it[k].items[i].id = file[i].id /\ it[k].items[i].config = i + 1
                  /\ it[k].configs[i + 1] = WithImage(config, file[i], kind)
           V == {k \in Nat : k <= Len(file) => Whole(k)}
<1>1. Len(file) \in Nat /\ \A i \in 1 .. Len(file) : file[i] \in RowSet
  BY LenProperties, ElementOfSeq
<1>2. /\ it[0] = [configs |-> <<config>>, items |-> <<>>]
      /\ \A i \in 1 .. Len(file) : it[i] = ToFullBatchInstance(kind, it[i - 1], file[i])
  BY LoadedSteps
<1> HIDE DEF it
<1>3. 0 \in V
  <2>1. <<>> \in Seq(ItemSet) /\ Len(<<>>) = 0
    BY EmptySeq
  <2>2. <<config>> \in Seq(ConfigSet) /\ <<config>> # <<>> /\ Len(<<config>>) = 0 + 1
        /\ <<config>>[1] = config
    OBVIOUS
  <2>3. it[0].configs = <<config>> /\ it[0].items = <<>> /\ it[0] \in LoadStates
    BY <1>2, <2>1, <2>2 DEF LoadStates
  <2>4. Whole(0)
    BY <2>1, <2>2, <2>3
  <2> HIDE DEF Whole
  <2> QED BY <2>4
<1>4. ASSUME NEW k \in Nat, k \in V PROVE k + 1 \in V
  <2> SUFFICES ASSUME k + 1 <= Len(file) PROVE Whole(k + 1)
    OBVIOUS
  <2>1. PICK j \in 1 .. Len(file) : j = k + 1 /\ j - 1 = k
    BY <1>1
  <2>2. Whole(k)
    BY <1>1, <1>4, <2>1
  <2> DEFINE old == it[k]
             new == it[j]
  <2>3. new = ToFullBatchInstance(kind, old, file[j]) /\ file[j] \in RowSet
    BY <1>1, <1>2, <2>1
  <2>4. /\ old \in LoadStates /\ Len(old.items) = k /\ Len(old.configs) = k + 1
        /\ old.configs[1] = config
        /\ \A i \in 1 .. k : /\ old.items[i].id = file[i].id /\ old.items[i].config = i + 1
                             /\ old.configs[i + 1] = WithImage(config, file[i], kind)
    BY <2>2
  <2> HIDE DEF old, new, V, Whole
  <2>5. /\ new \in LoadStates
        /\ Len(new.configs) = k + 1 + 1 /\ Len(new.items) = k + 1
        /\ \A i \in 1 .. k + 1 : new.configs[i] = old.configs[i]
        /\ \A i \in 1 .. k : new.items[i] = old.items[i]
        /\ new.configs[k + 1 + 1] = WithImage(old.configs[1], file[j], kind)
        /\ new.items[k + 1].id = file[j].id /\ new.items[k + 1].config = k + 1 + 1
    <3>1. IsAdded(new, old, k + 1, k, file[j], kind)
      BY <2>3, <2>4, ItemIsFull
    <3> QED BY <3>1 DEF IsAdded
  <2>6. 1 \in 1 .. k + 1 /\ \A i \in 1 .. k : i + 1 \in 1 .. k + 1
    OBVIOUS
  <2>7. \A i \in 1 .. j : i \in 1 .. k \/ i = k + 1
    BY <2>1
  <2>8. Whole(j)
    <3>1. new.configs[1] = config
      BY <2>4, <2>5, <2>6
    <3>2. ASSUME NEW i \in 1 .. j
          PROVE  /\ new.items[i].id = file[i].id /\ new.items[i].config = i + 1
                 /\ new.configs[i + 1] = WithImage(config, file[i], kind)
      BY <2>1, <2>4, <2>5, <2>6, <2>7
    <3> QED BY <2>1, <2>5, <3>1, <3>2 DEF Whole, new
  <2> QED BY <2>1, <2>8
<1> HIDE DEF V
<1>5. Nat \subseteq V
  BY <1>3, <1>4, EveryNumber, Zenon
<1>6. Whole(Len(file))
  BY <1>1, <1>5 DEF V
<1> QED BY <1>6 DEF Loaded, LoadStates, it

-----------------------------------------------------------------------------
(* Selection: the inductive invariant *)

SourceConfig == [type |-> source.type, image |-> 0, standalone |-> "none"]
LoadedBy(m) == Loaded(source.kind, SourceConfig, rows[m])
ListedBy(m) == IF source.shuffle THEN Shuffle(LoadedBy(m).items) ELSE LoadedBy(m).items
LeftTo(m) == Filtered(ListedBy(m), ById(ListedBy(m), source.filter))

HasLoaded(m) ==
  configs[m] = LoadedBy(m).configs /\ batch[m] = Sliced(LeftTo(m), source.slices[m])

FilesAgree ==
  /\ source \in [kind : Sources, type : Deployments, slices : SharedSlices, filter : Filters,
                 shuffle : BOOLEAN]
  /\ \A m \in Machines : rows[m] \in Seq(RowSet) /\ HaveIds(rows[m], Ids)
  /\ source.shuffle \/ rows[1] = rows[2]

MachinesLoad ==
  /\ DOMAIN configs = Machines /\ DOMAIN batch = Machines
  /\ \A m \in Machines : (batch[m] = <<>> /\ Len(configs[m]) \in {0, 1}) \/ HasLoaded(m)

FirstIsMultimodal == Head(batch[1]).statement = "multimodal"

\* The first attempt fills the cache, unless images are disabled; the second one
\* follows it.
AttemptsCache ==
  /\ DOMAIN answers = Askers
  /\ answers["first attempt"] # NotAsked =>
       /\ batch[1] # <<>>
       /\ FirstIsMultimodal /\ disabling = {} => answers["first attempt"] = cache
  /\ answers["second attempt"] # NotAsked =>
       /\ answers["first attempt"] # NotAsked
       /\ FirstIsMultimodal =>
            answers["second attempt"] = IF disabling = {} THEN answers["first attempt"]
                                        ELSE <<"text">>

SelectionInv == FilesAgree /\ MachinesLoad /\ AttemptsCache

LEMMA IdsAlike ==
  ASSUME NEW S, NEW T, NEW s \in Seq(S), NEW t \in Seq(T), NEW I, SameIds(s, t), HaveIds(s, I)
  PROVE  HaveIds(t, I)
  BY DEF SameIds, HaveIds

\* What a machine loads: its instances, before they are filtered and sliced.
LEMMA MachineLoads ==
  ASSUME FilesAgree, NEW m \in Machines
  PROVE  LET loaded == LoadedBy(m)
         IN /\ loaded.items \in Seq(ItemSet) /\ HaveIds(loaded.items, Ids)
            /\ Len(loaded.configs) = Len(loaded.items) + 1 /\ Len(loaded.items) \in Nat
            /\ loaded.configs[1] = SourceConfig
            /\ \A j \in 1 .. Len(loaded.items) : \A n \in DOMAIN rows[m] :
                 /\ SourceConfig.type \notin {"local", "dummy"} \/ source.kind = "expert_file"
                 /\ rows[m][n].id = loaded.items[j].id
                 => loaded.configs[loaded.items[j].config].image = rows[m][n].image
<1> DEFINE loaded == LoadedBy(m)
           file == rows[m]
<1>1. SourceConfig \in ConfigSet
  BY DEF FilesAgree, SourceConfig, ConfigSet
<1>2. file \in Seq(RowSet) /\ HaveIds(file, Ids)
  BY DEF FilesAgree
<1> HIDE DEF file
<1>3. loaded = Loaded(source.kind, SourceConfig, file)
  BY DEF LoadedBy, file
<1>4. /\ loaded.items \in Seq(ItemSet) /\ Len(loaded.items) = Len(file)
      /\ Len(loaded.configs) = Len(file) + 1 /\ loaded.configs[1] = SourceConfig
      /\ \A i \in 1 .. Len(file) :
           /\ loaded.items[i].id = file[i].id /\ loaded.items[i].config = i + 1
           /\ loaded.configs[i + 1] = WithImage(SourceConfig, file[i], source.kind)
  BY <1>1, <1>2, <1>3, LoadedWhole
<1> HIDE DEF loaded
<1>5. Len(file) \in Nat /\ \A i \in 1 .. Len(file) : file[i] \in RowSet
  BY <1>2, LenProperties, ElementOfSeq
<1>6. HaveIds(loaded.items, Ids)
  <2>1. SameIds(file, loaded.items)
    BY <1>4 DEF SameIds
  <2> QED BY <1>2, <1>4, <2>1, IdsAlike
<1>7. ASSUME NEW j \in 1 .. Len(file), NEW n \in DOMAIN file,
             SourceConfig.type \notin {"local", "dummy"} \/ source.kind = "expert_file",
             file[n].id = loaded.items[j].id
      PROVE  loaded.configs[loaded.items[j].config].image = file[n].image
  <2>1. WithImage(SourceConfig, file[j], source.kind).image = file[j].image
    BY <1>1, <1>5, <1>7, ImageIsOwn
  <2>2. n \in 1 .. Len(file)
    BY <1>2, LenProperties
  <2>3. n = j
    BY <1>2, <1>4, <1>7, <2>2 DEF HaveIds
  <2> QED BY <1>4, <2>1, <2>3
<1> QED BY <1>4, <1>5, <1>6, <1>7 DEF loaded, file

\* What two machines have before slicing has the same ids.
LEMMA MachinesAlike ==
  ASSUME FilesAgree
  PROVE  /\ \A m \in Machines :
              /\ LeftTo(m) \in Seq(ItemSet) /\ HaveIds(LeftTo(m), source.filter)
              /\ \A k \in 1 .. Len(LeftTo(m)) :
                   \E j \in 1 .. Len(LoadedBy(m).items) : LeftTo(m)[k] = LoadedBy(m).items[j]
         /\ SameIds(LeftTo(1), LeftTo(2))
<1>1. \A m \in Machines : LoadedBy(m).items \in Seq(ItemSet) /\ HaveIds(LoadedBy(m).items, Ids)
  BY MachineLoads
<1>2. ASSUME NEW m \in Machines
      PROVE  /\ ListedBy(m) \in Seq(ItemSet) /\ HaveIds(ListedBy(m), Ids)
             /\ \A k \in 1 .. Len(ListedBy(m)) :
                  \E j \in 1 .. Len(LoadedBy(m).items) : ListedBy(m)[k] = LoadedBy(m).items[j]
  <2>1. CASE source.shuffle
    <3>1. ListedBy(m) = Shuffle(LoadedBy(m).items)
      BY <2>1 DEF ListedBy
    <3>2. /\ Shuffle(LoadedBy(m).items) \in Seq(ItemSet)
          /\ Len(Shuffle(LoadedBy(m).items)) = Len(LoadedBy(m).items)
          /\ HaveIds(Shuffle(LoadedBy(m).items), Ids)
          /\ \A k \in 1 .. Len(LoadedBy(m).items) :
               \E j \in 1 .. Len(LoadedBy(m).items) :
                 Shuffle(LoadedBy(m).items)[k] = LoadedBy(m).items[j]
      BY <1>1, ShuffleKeeps
    <3> QED BY <3>1, <3>2
  <2>2. CASE ~source.shuffle
    BY <1>1, <2>2 DEF ListedBy
  <2> QED BY <2>1, <2>2
<1>3. SameIds(ListedBy(1), ListedBy(2))
  <2>1. CASE source.shuffle
    <3> DEFINE n == Cardinality(Ids)
               s == LoadedBy(1).items
               t == LoadedBy(2).items
    <3>1. /\ s \in Seq(ItemSet) /\ HaveIds(s, Ids) /\ t \in Seq(ItemSet) /\ HaveIds(t, Ids)
          /\ ListedBy(1) = Shuffle(s) /\ ListedBy(2) = Shuffle(t)
      BY <1>1, <2>1 DEF ListedBy, Machines
    <3> HIDE DEF s, t
    <3>2. Len(s) = n /\ Len(t) = n
      BY <3>1, IdsCounted
    <3>3. /\ Len(Shuffle(s)) = n /\ \A k \in 1 .. n : Shuffle(s)[k].id = Nth(Shuffled[n][k])
          /\ Len(Shuffle(t)) = n /\ \A k \in 1 .. n : Shuffle(t)[k].id = Nth(Shuffled[n][k])
      <4> HIDE DEF n
      <4>1. /\ Len(Shuffle(s)) = Len(s)
            /\ \A k \in 1 .. Len(s) : Shuffle(s)[k].id = Nth(Shuffled[Len(s)][k])
        BY <3>1, ShuffleKeeps
      <4>2. /\ Len(Shuffle(t)) = Len(t)
            /\ \A k \in 1 .. Len(t) : Shuffle(t)[k].id = Nth(Shuffled[Len(t)][k])
        BY <3>1, ShuffleKeeps
      <4> QED BY <3>2, <4>1, <4>2
    <3> QED BY <3>1, <3>3 DEF SameIds
  <2>2. CASE ~source.shuffle
    <3>1. LoadedBy(1) = LoadedBy(2)
      BY <2>2 DEF FilesAgree, LoadedBy
    <3> QED BY <2>2, <3>1 DEF ListedBy, SameIds
  <2> QED BY <2>1, <2>2
<1>4. source.filter \in SUBSET Ids
  BY SelectionAssumption DEF FilesAgree
<1>5. ASSUME NEW m \in Machines
      PROVE  /\ LeftTo(m) \in Seq(ItemSet) /\ HaveIds(LeftTo(m), source.filter)
             /\ \A k \in 1 .. Len(LeftTo(m)) :
                  \E i \in 1 .. Len(ListedBy(m)) : LeftTo(m)[k] = ListedBy(m)[i]
  <2> DEFINE s == ListedBy(m)
             r == Filtered(s, ById(s, source.filter))
  <2>1. s \in Seq(ItemSet) /\ HaveIds(s, Ids)
    BY <1>2
  <2> HIDE DEF s
  <2>2. /\ r \in Seq(ItemSet) /\ HaveIds(r, source.filter)
        /\ \A k \in 1 .. Len(r) : \E i \in 1 .. Len(s) : r[k] = s[i]
    BY <1>4, <2>1, FilterKeeps
  <2>3. LeftTo(m) = r
    BY DEF LeftTo, s
  <2> HIDE DEF r
  <2> QED BY <2>2, <2>3 DEF s
<1>6. SameIds(LeftTo(1), LeftTo(2))
  <2>1. 1 \in Machines /\ 2 \in Machines
    BY DEF Machines
  <2> QED BY <1>2, <1>3, <2>1, FilterAlike DEF LeftTo
<1>7. ASSUME NEW m \in Machines, NEW k \in 1 .. Len(LeftTo(m))
      PROVE  \E j \in 1 .. Len(LoadedBy(m).items) : LeftTo(m)[k] = LoadedBy(m).items[j]
  <2>1. PICK i \in 1 .. Len(ListedBy(m)) : LeftTo(m)[k] = ListedBy(m)[i]
    BY <1>5
  <2> QED BY <1>2, <2>1
<1> QED BY <1>5, <1>6, <1>7

\* What the machines run, of what they have left.
LEMMA MachinesTake ==
  ASSUME FilesAgree
  PROVE  /\ Divides(Sliced(LeftTo(1), source.slices[1]), Sliced(LeftTo(2), source.slices[2]),
                    LeftTo(1), LeftTo(2), source.filter)
         /\ Len(LeftTo(1)) = Cardinality(source.filter)
<1>1. /\ LeftTo(1) \in Seq(ItemSet) /\ LeftTo(2) \in Seq(ItemSet)
      /\ HaveIds(LeftTo(1), source.filter) /\ SameIds(LeftTo(1), LeftTo(2))
      /\ source.slices \in SharedSlices
  BY MachinesAlike DEF Machines, FilesAgree
<1>2. Len(LeftTo(1)) = Cardinality(source.filter)
  BY <1>1, IdsCounted
<1> QED BY <1>1, <1>2, SlicesShare

-----------------------------------------------------------------------------
(* Selection: what the invariant says *)

LEMMA SelectionInvShares == SelectionInv => MachinesShare
<1> SUFFICES ASSUME SelectionInv, \A m \in Machines : Len(configs[m]) > 1 PROVE
      /\ RunBy(1) \cup RunBy(2) = source.filter
      /\ Len(batch[1]) + Len(batch[2]) = Cardinality(source.filter)
  BY DEF MachinesShare
<1>1. batch[1] = Sliced(LeftTo(1), source.slices[1]) /\ batch[2] = Sliced(LeftTo(2), source.slices[2])
  <2>1. \A m \in Machines : ~(Len(configs[m]) \in {0, 1})
    <3>1. \A x : x > 1 => ~(x \in {0, 1})
      OBVIOUS
    <3> QED BY <3>1, Zenon
  <2>2. 1 \in Machines /\ 2 \in Machines
    BY DEF Machines
  <2> QED BY <2>1, <2>2 DEF SelectionInv, MachinesLoad, HasLoaded
<1>2. FilesAgree
  BY DEF SelectionInv
<1>3. RunBy(1) = {batch[1][i].id : i \in DOMAIN batch[1]} /\ RunBy(2) = {batch[2][i].id : i \in DOMAIN batch[2]}
  BY DEF RunBy
<1> QED BY <1>1, <1>2, <1>3, MachinesTake DEF Divides

LEMMA SelectionInvImages == SelectionInv => ImagesAreOwn
<1> SUFFICES ASSUME SelectionInv, NEW m \in Machines, NEW i \in DOMAIN batch[m],
                    NEW n \in DOMAIN rows[m],
                    configs[m][1].type \notin {"local", "dummy"} \/ source.kind = "expert_file",
                    rows[m][n].id = batch[m][i].id
             PROVE  configs[m][batch[m][i].config].image = rows[m][n].image
  BY DEF ImagesAreOwn
<1>1. FilesAgree /\ HasLoaded(m)
  BY DEF SelectionInv, MachinesLoad
<1>2. PICK k \in 1 .. Len(LeftTo(m)) : batch[m][i] = LeftTo(m)[k]
  <2>1. m = 1 \/ m = 2
    BY DEF Machines
  <2>2. batch[m] = Sliced(LeftTo(m), source.slices[m])
    BY <1>1 DEF HasLoaded
  <2> QED BY <1>1, <2>1, <2>2, MachinesTake DEF Divides
<1>3. PICK j \in 1 .. Len(LoadedBy(m).items) : batch[m][i] = LoadedBy(m).items[j]
  BY <1>1, <1>2, MachinesAlike
<1>4. configs[m] = LoadedBy(m).configs /\ configs[m][1] = SourceConfig
  BY <1>1, MachineLoads DEF HasLoaded
<1> QED BY <1>1, <1>3, <1>4, MachineLoads

LEMMA SelectionInvAlike == SelectionInv => AttemptsReadAlike
  BY DEF SelectionInv, AttemptsCache, AttemptsReadAlike, FirstIsMultimodal

-----------------------------------------------------------------------------
(* Selection: the invariant is inductive *)

LEMMA FileHasIds ==
  ASSUME NEW ids \in SetToSeqs(Ids), NEW repo \in Repos, NEW images \in {<<>>, <<"a", "b">>},
         NEW named \in BOOLEAN
  PROVE  LET file == [i \in DOMAIN ids |-> Row(ids[i], repo, images, named)]
         IN /\ file \in Seq(RowSet) /\ HaveIds(file, Ids)
            /\ Reverse(file) \in Seq(RowSet) /\ HaveIds(Reverse(file), Ids)
<1> DEFINE n == Cardinality(Ids)
           file == [i \in DOMAIN ids |-> Row(ids[i], repo, images, named)]
           back == Reverse(file)
<1>1. IsFiniteSet(Ids) /\ n \in Nat
  BY SelectionAssumption, FS_CardinalityType
<1>2. ids \in [1 .. n -> Ids] /\ IsInjective(ids)
  <2>1. ids \in [1 .. n -> Ids] /\ \A i, j \in 1 .. n : i # j => ids[i] # ids[j]
    BY DEF SetToSeqs
  <2> HIDE DEF n
  <2> QED BY <2>1 DEF IsInjective
<1> HIDE DEF n
<1>3. /\ \A i \in 1 .. n : ids[i] \in Ids /\ \A j \in 1 .. n : ids[i] = ids[j] => i = j
      /\ \A x \in Ids : \E i \in 1 .. n : ids[i] = x
  <2>1. IsFiniteSet(1 .. n) /\ Cardinality(1 .. n) = n
    BY <1>1, FS_Interval
  <2>2. ids \in Injection(1 .. n, Ids)
    BY <1>2 DEF Injection
  <2>3. ids \in Surjection(1 .. n, Ids)
    BY <1>1, <2>1, <2>2, FS_Injection DEF n
  <2> QED BY <1>2, <2>3 DEF IsInjective, Surjection
<1>4. \A i \in 1 .. n : Row(ids[i], repo, images, named) \in RowSet /\ Row(ids[i], repo, images, named).id = ids[i]
  BY <1>3 DEF Row, RowSet
<1>5. file = [i \in 1 .. n |-> Row(ids[i], repo, images, named)]
  BY <1>2
<1>6. file \in Seq(RowSet) /\ Len(file) = n /\ \A i \in 1 .. n : file[i].id = ids[i]
  <2> DEFINE F(i) == Row(ids[i], repo, images, named)
  <2>1. \A i \in 1 .. n : F(i) \in RowSet /\ F(i).id = ids[i]
    BY <1>4
  <2>2. file = [i \in 1 .. n |-> F(i)]
    BY <1>5
  <2> HIDE DEF F, file
  <2>3. file \in Seq(RowSet)
    BY <1>1, <2>1, <2>2, IsASeq
  <2>4. Len(file) = n
    BY <1>1, <2>2, LenProperties, <2>3
  <2> QED BY <2>1, <2>2, <2>3, <2>4
<1>7. HaveIds(file, Ids)
  <2> HIDE DEF file
  <2> QED BY <1>3, <1>6 DEF HaveIds
<1>8. back = [i \in 1 .. n |-> file[n - i + 1]]
  <2> HIDE DEF file
  <2> QED BY <1>6, LenProperties DEF Reverse
<1> HIDE DEF file, back
<1>9. \A i \in 1 .. n : n - i + 1 \in 1 .. n /\ n - (n - i + 1) + 1 = i
  BY <1>1
<1>10. back \in Seq(RowSet) /\ Len(back) = n /\ \A i \in 1 .. n : back[i] = file[n - i + 1]
  <2> DEFINE F(i) == file[n - i + 1]
  <2>1. \A i \in 1 .. n : F(i) \in RowSet
    BY <1>6, <1>9, ElementOfSeq
  <2>2. back = [i \in 1 .. n |-> F(i)]
    BY <1>8
  <2>3. \A i \in 1 .. n : back[i] = F(i)
    BY <2>2
  <2> HIDE DEF F
  <2>4. back \in Seq(RowSet)
    BY <1>1, <2>1, <2>2, IsASeq
  <2>5. Len(back) = n
    BY <1>1, <2>2, LenProperties, <2>4
  <2> QED BY <2>3, <2>4, <2>5 DEF F
<1>11. HaveIds(back, Ids)
  <2>1. \A k \in 1 .. n : back[k].id \in Ids
    BY <1>6, <1>7, <1>9, <1>10 DEF HaveIds
  <2>2. ASSUME NEW j \in 1 .. n, NEW k \in 1 .. n, back[j].id = back[k].id PROVE j = k
    <3>1. PICK l \in 1 .. n, h \in 1 .. n : l = n - j + 1 /\ h = n - k + 1
      BY <1>9
    <3>2. file[l].id = file[h].id
      BY <1>10, <2>2, <3>1
    <3>3. l = h
      BY <1>6, <1>7, <3>2 DEF HaveIds
    <3> QED BY <1>1, <3>1, <3>3
  <2>3. ASSUME NEW x \in Ids PROVE \E k \in 1 .. n : back[k].id = x
    <3>1. PICK i \in 1 .. n : file[i].id = x
      BY <1>6, <1>7 DEF HaveIds
    <3>2. n - i + 1 \in 1 .. n /\ back[n - i + 1] = file[i]
      BY <1>9, <1>10
    <3> QED BY <3>1, <3>2
  <2> QED BY <1>10, <2>1, <2>2, <2>3 DEF HaveIds
<1> QED BY <1>6, <1>7, <1>10, <1>11 DEF back, file

LEMMA SelectionInvInit == SelectionInit => SelectionInv
<1> SUFFICES ASSUME SelectionInit PROVE SelectionInv
  OBVIOUS
<1>1. FilesAgree
  <2>1. source \in [kind : Sources, type : Deployments, slices : SharedSlices, filter : Filters,
                    shuffle : BOOLEAN]
    BY DEF SelectionInit
  <2>2. PICK ids \in SetToSeqs(Ids), repo \in Repos, images \in {<<>>, <<"a", "b">>},
             named \in BOOLEAN :
          LET file == [i \in DOMAIN ids |-> Row(ids[i], repo, images, named)]
          IN rows = <<file, IF source.shuffle THEN Reverse(file) ELSE file>>
    <3>1. "folder" \in Repos
      BY DEF Repos
    <3> QED BY <3>1 DEF SelectionInit
  <2> DEFINE file == [i \in DOMAIN ids |-> Row(ids[i], repo, images, named)]
  <2>3. /\ file \in Seq(RowSet) /\ HaveIds(file, Ids)
        /\ Reverse(file) \in Seq(RowSet) /\ HaveIds(Reverse(file), Ids)
    BY FileHasIds
  <2>4. rows = <<file, IF source.shuffle THEN Reverse(file) ELSE file>>
    BY <2>2
  <2> HIDE DEF file
  <2>5. rows[1] = file /\ rows[2] = IF source.shuffle THEN Reverse(file) ELSE file
    BY <2>4
  <2>6. \A m \in Machines : rows[m] \in {file, Reverse(file)}
    BY <2>5 DEF Machines
  <2>7. source.shuffle \/ rows[1] = rows[2]
    BY <2>5
  <2> QED BY <2>1, <2>3, <2>6, <2>7 DEF FilesAgree
<1>2. MachinesLoad
  <2>1. configs = [m \in Machines |-> <<>>] /\ batch = [m \in Machines |-> <<>>]
    BY DEF SelectionInit
  <2>2. Len(<<>>) \in {0, 1}
    BY EmptySeq
  <2>3. \A m \in Machines : batch[m] = <<>> /\ configs[m] = <<>>
    BY <2>1
  <2>4. \A m \in Machines : batch[m] = <<>> /\ Len(configs[m]) \in {0, 1}
    BY <2>2, <2>3, Zenon
  <2> QED BY <2>1, <2>4 DEF MachinesLoad
<1>3. AttemptsCache
  BY DEF SelectionInit, AttemptsCache, Askers
<1> QED BY <1>1, <1>2, <1>3 DEF SelectionInv

LEMMA GetInstanceConfigsKeeps ==
  ASSUME SelectionInv, NEW m \in Machines, GetInstanceConfigs(m)
  PROVE  SelectionInv'
<1>1. /\ configs[m] = <<>> /\ UNCHANGED <<source, rows, cache, disabling, answers>>
      /\ DOMAIN configs = Machines /\ DOMAIN batch = Machines
  BY DEF GetInstanceConfigs, SelectionInv, MachinesLoad
<1>2. FilesAgree'
  BY <1>1 DEF SelectionInv, FilesAgree
<1>3. \A k \in Machines : /\ LoadedBy(k)' = LoadedBy(k)
                          /\ (Sliced(LeftTo(k), source.slices[k]))' = Sliced(LeftTo(k), source.slices[k])
  BY <1>1 DEF LoadedBy, LeftTo, ListedBy, SourceConfig
<1>4. batch[m] = <<>>
  <2>1. CASE HasLoaded(m)
    <3>1. FilesAgree
      BY DEF SelectionInv
    <3>2. Len(LoadedBy(m).configs) = Len(LoadedBy(m).items) + 1 /\ Len(LoadedBy(m).items) \in Nat
      BY <3>1, MachineLoads
    <3>3. LoadedBy(m).configs = <<>>
      BY <1>1, <2>1 DEF HasLoaded
    <3>4. Len(LoadedBy(m).configs) = 0
      BY <3>3, EmptySeq
    <3>5. Len(LoadedBy(m).items) + 1 # 0
      BY <3>2
    <3> QED BY <3>2, <3>4, <3>5, Zenon
  <2> QED BY <2>1 DEF SelectionInv, MachinesLoad
<1>5. \/ batch' = batch /\ configs' = [configs EXCEPT ![m] = <<SourceConfig>>]
      \/ /\ configs' = [configs EXCEPT ![m] = LoadedBy(m).configs]
         /\ batch' = [batch EXCEPT ![m] = Sliced(LeftTo(m), source.slices[m])]
  BY DEF GetInstanceConfigs, LoadedBy, LeftTo, ListedBy, SourceConfig, FilterBatchItems, ById
<1>6. MachinesLoad'
  <2>1. DOMAIN configs' = Machines /\ DOMAIN batch' = Machines
    BY <1>1, <1>5
  <2>2. ASSUME NEW k \in Machines
        PROVE  (batch'[k] = <<>> /\ Len(configs'[k]) \in {0, 1}) \/ HasLoaded(k)'
    <3>1. CASE k # m
      <4>1. batch'[k] = batch[k] /\ configs'[k] = configs[k]
        BY <1>1, <1>5, <3>1
      <4>2. (batch[k] = <<>> /\ Len(configs[k]) \in {0, 1}) \/ HasLoaded(k)
        BY DEF SelectionInv, MachinesLoad
      <4> QED BY <1>3, <4>1, <4>2 DEF HasLoaded
    <3>2. CASE k = m /\ batch' = batch /\ configs' = [configs EXCEPT ![m] = <<SourceConfig>>]
      <4>1. batch'[k] = <<>> /\ configs'[k] = <<SourceConfig>>
        BY <1>1, <1>4, <3>2
      <4>2. Len(<<SourceConfig>>) \in {0, 1}
        OBVIOUS
      <4> QED BY <4>1, <4>2, Zenon
    <3>3. CASE /\ k = m /\ configs' = [configs EXCEPT ![m] = LoadedBy(m).configs]
               /\ batch' = [batch EXCEPT ![m] = Sliced(LeftTo(m), source.slices[m])]
      <4>1. configs'[k] = LoadedBy(k).configs /\ batch'[k] = Sliced(LeftTo(k), source.slices[k])
        BY <1>1, <3>3
      <4> QED BY <1>3, <4>1 DEF HasLoaded
    <3> QED BY <1>5, <3>1, <3>2, <3>3
  <2> QED BY <2>1, <2>2 DEF MachinesLoad
<1>7. AttemptsCache'
  <2>1. CASE answers["first attempt"] = NotAsked
    BY <1>1, <2>1 DEF SelectionInv, AttemptsCache
  <2>2. CASE answers["first attempt"] # NotAsked
    <3>1. batch[1] # <<>>
      BY <2>2 DEF SelectionInv, AttemptsCache
    <3>2. m # 1
      BY <1>4, <3>1
    <3>3. batch'[1] = batch[1]
      BY <1>1, <1>5, <3>2
    <3> QED BY <1>1, <3>3 DEF SelectionInv, AttemptsCache, FirstIsMultimodal
  <2> QED BY <2>1, <2>2
<1> QED BY <1>2, <1>6, <1>7 DEF SelectionInv

LEMMA GetProblemStatementKeeps ==
  ASSUME SelectionInv, NEW who \in Askers, GetProblemStatement(who)
  PROVE  SelectionInv'
<1> DEFINE item == Head(batch[1])
<1>1. /\ batch[1] # <<>> /\ answers[who] = NotAsked /\ UNCHANGED <<source, rows, configs, batch>>
      /\ DOMAIN answers = Askers
  BY DEF GetProblemStatement, SelectionInv, AttemptsCache
<1>2. PICK text \in StatementTexts(item, who, disabling' # {}) :
        /\ answers' = [answers EXCEPT ![who] = text]
        /\ cache' = IF ReadsImages(item, who, disabling' # {}) THEN text ELSE cache
  BY DEF GetProblemStatement, Disabled
<1>3. FilesAgree'
  BY <1>1 DEF SelectionInv, FilesAgree
<1>4. MachinesLoad'
  <2>1. \A k \in Machines : HasLoaded(k)' <=> HasLoaded(k)
    BY <1>1 DEF HasLoaded, LoadedBy, LeftTo, ListedBy, SourceConfig
  <2> QED BY <1>1, <2>1 DEF SelectionInv, MachinesLoad
<1>5. AttemptsCache'
  <2>1. /\ DOMAIN answers' = Askers /\ answers'[who] = text
        /\ \A asker \in Askers : asker # who => answers'[asker] = answers[asker]
        /\ "first attempt" \in Askers /\ "second attempt" \in Askers
    BY <1>1, <1>2 DEF Askers
  <2>2. AttemptsCache
    BY DEF SelectionInv
  <2>3. CASE who = "environment"
    <3>1. disabling' = disabling /\ cache' = cache
      BY <1>2, <2>3 DEF GetProblemStatement, ReadsImages
    <3> QED BY <1>1, <2>1, <2>2, <2>3, <3>1 DEF AttemptsCache, FirstIsMultimodal
  <2>4. CASE who = "first attempt"
    <3>1. answers'["second attempt"] = NotAsked
      BY <1>1, <2>1, <2>2, <2>4 DEF AttemptsCache
    <3>2. FirstIsMultimodal /\ disabling' = {} => cache' = text
      BY <1>2, <2>4 DEF ReadsImages, FirstIsMultimodal
    <3> QED BY <1>1, <2>1, <2>4, <3>1, <3>2 DEF AttemptsCache, FirstIsMultimodal
  <2>5. CASE who = "second attempt"
    <3>1. answers["first attempt"] # NotAsked /\ answers'["first attempt"] = answers["first attempt"]
      BY <2>1, <2>5 DEF GetProblemStatement
    <3>2. ASSUME FirstIsMultimodal, disabling' = {}
          PROVE  text = answers["first attempt"] /\ cache' = text
      <4>1. disabling = {}
        BY <3>2 DEF GetProblemStatement
      <4>2. cache = answers["first attempt"]
        BY <2>2, <3>1, <3>2, <4>1 DEF AttemptsCache
      <4>3. ReadsImages(item, who, disabling' # {})
        BY <2>5, <3>2 DEF ReadsImages, FirstIsMultimodal
      <4>4. item.statement = "multimodal" /\ Cached
        BY <3>1, <3>2, <4>2 DEF FirstIsMultimodal, Cached
      <4>5. StatementTexts(item, who, disabling' # {}) = {cache}
        BY <4>3, <4>4 DEF StatementTexts
      <4> QED BY <1>2, <4>2, <4>3, <4>5
    <3>3. ASSUME FirstIsMultimodal, disabling' # {} PROVE text = <<"text">>
      <4>1. ~ReadsImages(item, who, disabling' # {}) /\ item.statement = "multimodal"
        BY <3>3 DEF ReadsImages, FirstIsMultimodal
      <4>2. StatementTexts(item, who, disabling' # {}) = {<<"text">>}
        BY <4>1 DEF StatementTexts
      <4> QED BY <4>2
    <3> QED BY <1>1, <2>1, <2>5, <3>1, <3>2, <3>3 DEF AttemptsCache, FirstIsMultimodal
  <2> QED BY <2>3, <2>4, <2>5 DEF Askers
<1> QED BY <1>3, <1>4, <1>5 DEF SelectionInv

\* A batch is what was asked for, for any ids, filters, cuts and files: two machines
\* that share a list by slices run every instance of it once, every instance in its own
\* row's image, and the attempts read the same statement, or the text alone once images
\* are disabled (get_instance_configs, _filter_batch_items, get_problem_statement).
THEOREM BatchesAreSound == SelectionSpec => []SelectionIsSound
<1>1. SelectionInit => SelectionInv
  BY SelectionInvInit
<1>2. SelectionInv /\ [SelectionNext]_selectionVars => SelectionInv'
  <2> SUFFICES ASSUME SelectionInv, [SelectionNext]_selectionVars PROVE SelectionInv'
    OBVIOUS
  <2>1. ASSUME NEW m \in Machines, GetInstanceConfigs(m) PROVE SelectionInv'
    BY <2>1, GetInstanceConfigsKeeps
  <2>2. ASSUME NEW who \in Askers, GetProblemStatement(who) PROVE SelectionInv'
    BY <2>2, GetProblemStatementKeeps
  <2>3. CASE UNCHANGED selectionVars
    <3>1. \A k \in Machines : HasLoaded(k)' <=> HasLoaded(k)
      BY <2>3 DEF selectionVars, HasLoaded, LoadedBy, LeftTo, ListedBy, SourceConfig
    <3> QED BY <2>3, <3>1 DEF selectionVars, SelectionInv, FilesAgree, MachinesLoad, AttemptsCache,
                            FirstIsMultimodal
  <2> QED BY <2>1, <2>2, <2>3 DEF SelectionNext
<1>3. SelectionInv => SelectionIsSound
  BY SelectionInvShares, SelectionInvImages, SelectionInvAlike DEF SelectionIsSound
<1> QED BY <1>1, <1>2, <1>3, PTL DEF SelectionSpec

-----------------------------------------------------------------------------
(* History: entries and what processors work on *)

Roles == {"system", "assistant", "user", "tool"}
MessageTypes == {"system_prompt", "action", "observation", "demonstration"}
FreshTexts == {"full", "no_output", "truncated"}
EntryFields ==
  [role : Roles, type : MessageTypes, demo : BOOLEAN, own : BOOLEAN, tags : SUBSET STRING,
   calls : {{}, {"edit"}}, text : FreshTexts \cup {"omitted", "outdated", "removed"},
   window : STRING \cup {"none"}, image : BOOLEAN, shape : {"text", "list", "segments"},
   mark : BOOLEAN]

\* Only actions have tags, and what is observed comes from a user or a tool.
HistoryEntries ==
  {e \in EntryFields : /\ e.type # "action" => e.tags = {}
                       /\ e.type = "observation" => e.role \in {"user", "tool"}}
ChainItems == [e : HistoryEntries, at : Nat]
Works == [items : Seq(ChainItems), stored : Seq(HistoryEntries), ok : BOOLEAN]

\* What no processor changes in the history itself.
Frame(e) == <<e.role, e.type, e.demo, e.own>>
Fixed(e) == <<Frame(e), e.text>>
SameEntries(g, h) == Len(g) = Len(h) /\ \A k \in 1 .. Len(g) : Fixed(g[k]) = Fixed(h[k])

\* An item that is no copy is what is stored.
Linked(s) ==
  \A i \in 1 .. Len(s.items) :
    s.items[i].at # 0 =>
      s.items[i].at <= Len(s.stored) /\ Fixed(s.items[i].e) = Fixed(s.stored[s.items[i].at])
LinkedWorks == {s \in Works : Linked(s)}

LEMMA WorkFields ==
  ASSUME NEW s \in Works
  PROVE  /\ s.items \in Seq(ChainItems) /\ Len(s.items) \in Nat /\ DOMAIN s.items = 1 .. Len(s.items)
         /\ s.stored \in Seq(HistoryEntries) /\ Len(s.stored) \in Nat
         /\ DOMAIN s.stored = 1 .. Len(s.stored) /\ s.ok \in BOOLEAN
         /\ \A i \in 1 .. Len(s.items) : s.items[i].e \in HistoryEntries /\ s.items[i].at \in Nat
         /\ \A k \in 1 .. Len(s.stored) : s.stored[k] \in HistoryEntries
<1>1. s.items \in Seq(ChainItems) /\ s.stored \in Seq(HistoryEntries) /\ s.ok \in BOOLEAN
  BY DEF Works
<1>2. \A i \in 1 .. Len(s.items) : s.items[i] \in ChainItems
  BY <1>1, ElementOfSeq
<1>3. \A k \in 1 .. Len(s.stored) : s.stored[k] \in HistoryEntries
  BY <1>1, ElementOfSeq
<1> QED BY <1>1, <1>2, <1>3, LenProperties DEF ChainItems

\* Changing entries in place.
IsInPlace(t, s, new) ==
  /\ t \in LinkedWorks /\ Len(t.items) = Len(s.items)
  /\ \A i \in 1 .. Len(s.items) : t.items[i].e = new[i]
  /\ SameEntries(s.stored, t.stored) /\ t.ok = s.ok

LEMMA InPlaceKeeps ==
  ASSUME NEW s \in LinkedWorks, NEW new \in [1 .. Len(s.items) -> HistoryEntries],
         \A i \in 1 .. Len(s.items) : Fixed(new[i]) = Fixed(s.items[i].e)
  PROVE  IsInPlace(InPlace(s, new), s, new)
<1> DEFINE n == Len(s.items)
           m == Len(s.stored)
           items == [i \in 1 .. n |-> Item(new[i], s.items[i].at)]
           Put(k) == IF \E i \in 1 .. n : s.items[i].at = k
                     THEN new[CHOOSE i \in 1 .. n : s.items[i].at = k] ELSE s.stored[k]
           stored == [k \in 1 .. m |-> Put(k)]
           t == InPlace(s, new)
<1>1. /\ n \in Nat /\ m \in Nat /\ s.ok \in BOOLEAN /\ DOMAIN s.items = 1 .. n /\ DOMAIN s.stored = 1 .. m
      /\ \A i \in 1 .. n : s.items[i].at \in Nat
      /\ \A k \in 1 .. m : s.stored[k] \in HistoryEntries
  BY WorkFields DEF LinkedWorks
<1>2. t = [s EXCEPT !.items = items, !.stored = stored]
  BY <1>1 DEF InPlace
<1>3. \A i \in 1 .. n : s.items[i].at # 0 =>
        s.items[i].at <= m /\ Fixed(s.items[i].e) = Fixed(s.stored[s.items[i].at])
  BY DEF LinkedWorks, Linked
<1> HIDE DEF n, m
<1>4. ASSUME NEW k \in 1 .. m PROVE Put(k) \in HistoryEntries /\ Fixed(Put(k)) = Fixed(s.stored[k])
  <2>1. CASE \E i \in 1 .. n : s.items[i].at = k
    <3> DEFINE j == CHOOSE i \in 1 .. n : s.items[i].at = k
    <3>1. j \in 1 .. n /\ s.items[j].at = k
      BY <2>1
    <3>2. Put(k) = new[j]
      BY <2>1
    <3> HIDE DEF j, Put
    <3>3. k # 0
      BY <1>1
    <3> QED BY <1>3, <3>1, <3>2, <3>3 DEF n
  <2>2. CASE ~ \E i \in 1 .. n : s.items[i].at = k
    BY <1>1, <2>2
  <2> QED BY <2>1, <2>2
<1>5. /\ items \in Seq(ChainItems) /\ Len(items) = n
      /\ \A i \in 1 .. n : items[i].e = new[i] /\ items[i].at = s.items[i].at
  <2>1. \A i \in 1 .. n : items[i].e = new[i] /\ items[i].at = s.items[i].at /\ items[i] \in ChainItems
    BY <1>1 DEF n, Item, ChainItems
  <2>2. items = [i \in 1 .. n |-> items[i]]
    OBVIOUS
  <2> HIDE DEF items
  <2> QED BY <1>1, <2>1, <2>2, FunctionIsSeq
<1>6. stored \in Seq(HistoryEntries) /\ Len(stored) = m /\ \A k \in 1 .. m : Fixed(stored[k]) = Fixed(s.stored[k])
  <2>1. \A k \in 1 .. m : stored[k] \in HistoryEntries /\ Fixed(stored[k]) = Fixed(s.stored[k])
    BY <1>4
  <2>2. stored = [k \in 1 .. m |-> stored[k]]
    OBVIOUS
  <2> HIDE DEF stored
  <2> QED BY <1>1, <2>1, <2>2, FunctionIsSeq
<1> HIDE DEF items, stored, t
<1>7. t \in Works /\ t.items = items /\ t.stored = stored /\ t.ok = s.ok
  BY <1>2, <1>5, <1>6 DEF LinkedWorks, Works
<1>8. Linked(t)
  <2> SUFFICES ASSUME NEW i \in 1 .. n, items[i].at # 0
               PROVE  items[i].at <= m /\ Fixed(items[i].e) = Fixed(stored[items[i].at])
    BY <1>5, <1>6, <1>7 DEF Linked
  <2> DEFINE k == s.items[i].at
  <2>1. k \in 1 .. m /\ Fixed(s.items[i].e) = Fixed(s.stored[k])
    BY <1>1, <1>3, <1>5
  <2>2. items[i].at = k /\ items[i].e = new[i] /\ Fixed(new[i]) = Fixed(s.items[i].e)
    BY <1>5 DEF n
  <2> HIDE DEF k
  <2> QED BY <1>1, <1>6, <2>1, <2>2
<1>9. SameEntries(s.stored, t.stored)
  BY <1>6, <1>7 DEF SameEntries, m
<1> QED BY <1>5, <1>7, <1>8, <1>9 DEF IsInPlace, LinkedWorks, n, t

\* Copying entries.
IsCopied(t, s, new) ==
  /\ t \in LinkedWorks /\ Len(t.items) = Len(s.items)
  /\ \A i \in 1 .. Len(s.items) : t.items[i].e = IF i \in DOMAIN new THEN new[i] ELSE s.items[i].e
  /\ t.stored = s.stored /\ t.ok = s.ok

LEMMA CopiedKeeps ==
  ASSUME NEW s \in LinkedWorks, NEW D \in SUBSET (1 .. Len(s.items)),
         NEW new \in [D -> HistoryEntries]
  PROVE  IsCopied(Copied(s, new), s, new)
<1> DEFINE n == Len(s.items)
           items == [i \in 1 .. n |-> IF i \in D THEN Item(new[i], 0) ELSE s.items[i]]
           t == Copied(s, new)
<1>1. /\ n \in Nat /\ s.ok \in BOOLEAN /\ DOMAIN s.items = 1 .. n
      /\ \A i \in 1 .. n : s.items[i].e \in HistoryEntries /\ s.items[i] \in ChainItems
  BY WorkFields, ElementOfSeq DEF LinkedWorks
<1>2. t = [s EXCEPT !.items = items]
  BY <1>1 DEF Copied
<1>3. \A i \in 1 .. n : s.items[i].at # 0 =>
        s.items[i].at <= Len(s.stored) /\ Fixed(s.items[i].e) = Fixed(s.stored[s.items[i].at])
  BY DEF LinkedWorks, Linked
<1>4. DOMAIN new = D
  OBVIOUS
<1> HIDE DEF n
<1>5. /\ items \in Seq(ChainItems) /\ Len(items) = n
      /\ \A i \in 1 .. n : /\ items[i].e = IF i \in D THEN new[i] ELSE s.items[i].e
                           /\ items[i].at = IF i \in D THEN 0 ELSE s.items[i].at
  <2>1. \A i \in 1 .. n : items[i].e = (IF i \in D THEN new[i] ELSE s.items[i].e)
                          /\ items[i].at = (IF i \in D THEN 0 ELSE s.items[i].at)
                          /\ items[i] \in ChainItems
    BY <1>1 DEF Item, ChainItems
  <2>2. items = [i \in 1 .. n |-> items[i]]
    OBVIOUS
  <2> HIDE DEF items
  <2> QED BY <1>1, <2>1, <2>2, FunctionIsSeq
<1> HIDE DEF items, t
<1>6. t \in Works /\ t.items = items /\ t.stored = s.stored /\ t.ok = s.ok
  BY <1>2, <1>5 DEF LinkedWorks, Works
<1>7. Linked(t)
  BY <1>3, <1>5, <1>6 DEF Linked
<1> QED BY <1>4, <1>5, <1>6, <1>7 DEF IsCopied, LinkedWorks, n, t

\* Dropping items.
LEMMA DroppingKeeps ==
  ASSUME NEW s \in LinkedWorks, NEW T
  PROVE  LET t == [s EXCEPT !.items = Filtered(@, T)]
         IN t \in LinkedWorks /\ t.stored = s.stored /\ t.ok = s.ok
<1> DEFINE r == Filtered(s.items, T)
           n == Len(s.items)
           t == [s EXCEPT !.items = r]
<1>1. s.items \in Seq(ChainItems) /\ \A i \in 1 .. n : s.items[i] \in ChainItems
  BY WorkFields, ElementOfSeq DEF LinkedWorks
<1>2. PICK q : IsPlaces(q, r, s.items, n, T)
  BY <1>1, KeptPlaces
<1>3. \A i \in 1 .. n : s.items[i].at # 0 =>
        s.items[i].at <= Len(s.stored) /\ Fixed(s.items[i].e) = Fixed(s.stored[s.items[i].at])
  BY DEF LinkedWorks, Linked
<1> HIDE DEF r, n
<1>4. r \in Seq(T) /\ \A k \in 1 .. Len(r) : \E i \in 1 .. n : r[k] = s.items[i]
  BY <1>2 DEF IsPlaces
<1>5. r \in Seq(ChainItems)
  <2>1. \A k \in 1 .. Len(r) : r[k] \in ChainItems
    BY <1>1, <1>4
  <2>2. Len(r) \in Nat /\ r = [k \in 1 .. Len(r) |-> r[k]]
    BY <1>4, LenProperties
  <2> QED BY <2>1, <2>2, FunctionIsSeq
<1>6. t \in Works /\ t.items = r /\ t.stored = s.stored /\ t.ok = s.ok
  BY <1>5 DEF LinkedWorks, Works
<1>7. Linked(t)
  <2> HIDE DEF t
  <2> QED BY <1>3, <1>4, <1>6 DEF Linked
<1> QED BY <1>6, <1>7 DEF LinkedWorks, r

LEMMA RaisedKeeps ==
  ASSUME NEW s \in LinkedWorks
  PROVE  Raised(s) \in LinkedWorks /\ Raised(s).stored = s.stored /\ ~Raised(s).ok
<1>1. /\ Raised(s) \in Works /\ Raised(s).items = s.items /\ Raised(s).stored = s.stored
      /\ ~Raised(s).ok
  BY DEF Raised, LinkedWorks, Works
<1> QED BY <1>1 DEF LinkedWorks, Linked

\* What processors make of an entry is an entry.
LEMMA EntriesKeep ==
  ASSUME NEW e \in HistoryEntries
  PROVE  /\ Omitted(e) \in HistoryEntries /\ Frame(Omitted(e)) = Frame(e) /\ Omitted(e).text = "omitted"
         /\ ClearCacheControl(e) \in HistoryEntries /\ Fixed(ClearCacheControl(e)) = Fixed(e)
         /\ ~ClearCacheControl(e).mark
         /\ SetCacheControl(e) \in HistoryEntries /\ Fixed(SetCacheControl(e)) = Fixed(e)
         /\ SetCacheControl(e).mark
         /\ ParseImages(e) \in HistoryEntries /\ Fixed(ParseImages(e)) = Fixed(e)
         /\ \A text \in {"outdated", "removed"} :
              /\ [e EXCEPT !.text = text] \in HistoryEntries /\ [e EXCEPT !.text = text].text = text
              /\ Frame([e EXCEPT !.text = text]) = Frame(e)
              /\ [e EXCEPT !.text = text].mark = e.mark
<1> USE DEF HistoryEntries, EntryFields, Frame, Fixed
<1>1. Omitted(e) \in HistoryEntries /\ Frame(Omitted(e)) = Frame(e) /\ Omitted(e).text = "omitted"
  BY DEF Omitted
<1>2. /\ ClearCacheControl(e) \in HistoryEntries /\ Fixed(ClearCacheControl(e)) = Fixed(e)
      /\ ~ClearCacheControl(e).mark
  BY DEF ClearCacheControl
<1>3. /\ SetCacheControl(e) \in HistoryEntries /\ Fixed(SetCacheControl(e)) = Fixed(e)
      /\ SetCacheControl(e).mark
  BY DEF SetCacheControl
<1>4. ParseImages(e) \in HistoryEntries /\ Fixed(ParseImages(e)) = Fixed(e)
  BY DEF ParseImages
<1>5. ASSUME NEW text \in {"outdated", "removed"}
      PROVE  /\ [e EXCEPT !.text = text] \in HistoryEntries /\ [e EXCEPT !.text = text].text = text
             /\ Frame([e EXCEPT !.text = text]) = Frame(e)
             /\ [e EXCEPT !.text = text].mark = e.mark
  OBVIOUS
<1> QED BY <1>1, <1>2, <1>3, <1>4, <1>5

LEMMA AddTagsKeeps ==
  ASSUME NEW e \in HistoryEntries, NEW p, p.tags \in SUBSET STRING
  PROVE  AddTags(e, p) \in HistoryEntries /\ Fixed(AddTags(e, p)) = Fixed(e) /\ AddTags(e, p).mark = e.mark
  BY DEF HistoryEntries, EntryFields, Frame, Fixed, AddTags

-----------------------------------------------------------------------------
(* History: processors *)

KeepsStored(s, t) == t \in LinkedWorks /\ SameEntries(s.stored, t.stored)
SameFrames(s, t) ==
  Len(t.items) = Len(s.items) /\ \A i \in 1 .. Len(s.items) : Frame(t.items[i].e) = Frame(s.items[i].e)
SameItems(s, t) ==
  Len(t.items) = Len(s.items) /\ \A i \in 1 .. Len(s.items) : Fixed(t.items[i].e) = Fixed(s.items[i].e)
SameMarks(s, t) == \A i \in 1 .. Len(s.items) : t.items[i].e.mark = s.items[i].e.mark

\* The last n messages that may have one have a mark.
Able(items, p) ==
  {i \in DOMAIN items : /\ items[i].e.role # "assistant" /\ items[i].e.role # "system"
                        /\ Len(items) - i >= p.offset}
Marked(items, p) ==
  {i \in DOMAIN items : items[i].e.mark} =
    {i \in Able(items, p) : Cardinality({j \in Able(items, p) : j > i}) < p.n}

LEMMA SameEntriesSelf == ASSUME NEW h PROVE SameEntries(h, h)
  BY DEF SameEntries

LEMMA TagProcessor ==
  ASSUME NEW s \in LinkedWorks, NEW p, p.tags \in SUBSET STRING
  PROVE  LET t == TagToolCallObservations(s, p)
         IN KeepsStored(s, t) /\ SameItems(s, t) /\ SameMarks(s, t) /\ t.ok = s.ok
<1> DEFINE new == [i \in 1 .. Len(s.items) |-> AddTags(s.items[i].e, p)]
           t == InPlace(s, new)
<1>1. DOMAIN s.items = 1 .. Len(s.items) /\ \A i \in 1 .. Len(s.items) : s.items[i].e \in HistoryEntries
  BY WorkFields DEF LinkedWorks
<1>2. \A i \in 1 .. Len(s.items) : /\ new[i] \in HistoryEntries /\ Fixed(new[i]) = Fixed(s.items[i].e)
                                   /\ new[i].mark = s.items[i].e.mark
  BY <1>1, AddTagsKeeps
<1>3. new \in [1 .. Len(s.items) -> HistoryEntries]
  BY <1>2
<1>4. TagToolCallObservations(s, p) = t
  BY <1>1 DEF TagToolCallObservations
<1> HIDE DEF new
<1>5. IsInPlace(t, s, new)
  BY <1>2, <1>3, InPlaceKeeps
<1> HIDE DEF t
<1> QED BY <1>2, <1>4, <1>5 DEF IsInPlace, KeepsStored, SameItems, SameMarks

LEMMA CacheProcessor ==
  ASSUME NEW s \in LinkedWorks, NEW p
  PROVE  LET t == CacheControl(s, p)
         IN KeepsStored(s, t) /\ SameItems(s, t) /\ Marked(t.items, p) /\ t.ok = s.ok
<1> DEFINE last == Len(s.items)
           able == {i \in 1 .. last : /\ s.items[i].e.role \in {"user", "tool"}
                                      /\ last - i >= p.offset}
           Old(i) == s.items[i].e
           Tagged(i) == i \in able /\ Cardinality({j \in able : j > i}) < p.n
           new == [i \in 1 .. last |->
                     IF Tagged(i) THEN SetCacheControl(ClearCacheControl(Old(i)))
                     ELSE ClearCacheControl(Old(i))]
           t == InPlace(s, new)
<1>1. /\ DOMAIN s.items = 1 .. last /\ \A i \in 1 .. last : Old(i) \in HistoryEntries
      /\ last \in Nat
  BY WorkFields DEF LinkedWorks
<1>2. CacheControl(s, p) = t
  BY <1>1 DEF CacheControl
<1> HIDE DEF last
<1>3. ASSUME NEW i \in 1 .. last
      PROVE  /\ new[i] \in HistoryEntries /\ Fixed(new[i]) = Fixed(s.items[i].e)
             /\ new[i].mark = Tagged(i)
  <2>1. /\ Old(i) \in HistoryEntries /\ ClearCacheControl(Old(i)) \in HistoryEntries
        /\ Fixed(ClearCacheControl(Old(i))) = Fixed(Old(i)) /\ ~ClearCacheControl(Old(i)).mark
    BY <1>1, EntriesKeep
  <2> DEFINE e == ClearCacheControl(Old(i))
  <2>2. e \in HistoryEntries /\ Fixed(e) = Fixed(Old(i)) /\ ~e.mark
    BY <2>1
  <2>3. new[i] = IF Tagged(i) THEN SetCacheControl(e) ELSE e
    OBVIOUS
  <2> HIDE DEF e, new, Tagged
  <2>4. SetCacheControl(e) \in HistoryEntries /\ Fixed(SetCacheControl(e)) = Fixed(e) /\ SetCacheControl(e).mark
    BY <2>2, EntriesKeep
  <2>5. e.mark \in BOOLEAN /\ SetCacheControl(e).mark \in BOOLEAN /\ Tagged(i) \in BOOLEAN
    BY <2>2, <2>4 DEF HistoryEntries, EntryFields, Tagged
  <2> QED BY <2>2, <2>3, <2>4, <2>5
<1>4. new \in [1 .. last -> HistoryEntries]
  BY <1>3
<1> HIDE DEF new
<1>5. IsInPlace(t, s, new)
  BY <1>3, <1>4, InPlaceKeeps DEF last
<1> HIDE DEF t
<1>6. /\ KeepsStored(s, t) /\ SameItems(s, t) /\ t.ok = s.ok
      /\ Len(t.items) = last /\ DOMAIN t.items = 1 .. last
      /\ \A i \in 1 .. last : t.items[i].e = new[i]
  <2>1. /\ t \in LinkedWorks /\ Len(t.items) = last /\ \A i \in 1 .. last : t.items[i].e = new[i]
        /\ SameEntries(s.stored, t.stored) /\ t.ok = s.ok
    BY <1>5 DEF IsInPlace, last
  <2>2. DOMAIN t.items = 1 .. last
    BY <2>1, WorkFields DEF LinkedWorks
  <2>3. \A i \in 1 .. last : Fixed(t.items[i].e) = Fixed(s.items[i].e)
    BY <1>3, <2>1
  <2>4. SameItems(s, t)
    BY <2>1, <2>3 DEF SameItems, last
  <2> QED BY <2>1, <2>2, <2>4 DEF KeepsStored
<1>7. Able(t.items, p) = able
  <2>1. ASSUME NEW i \in 1 .. last
        PROVE  (t.items[i].e.role # "assistant" /\ t.items[i].e.role # "system") <=>
                 s.items[i].e.role \in {"user", "tool"}
    <3>1. t.items[i].e.role = s.items[i].e.role
      BY <1>3, <1>6 DEF Fixed, Frame
    <3>2. s.items[i].e.role \in Roles
      BY <1>1 DEF HistoryEntries, EntryFields
    <3> QED BY <3>1, <3>2 DEF Roles
  <2> QED BY <1>6, <2>1 DEF Able
<1>8. {i \in 1 .. last : t.items[i].e.mark} = {i \in able : Cardinality({j \in able : j > i}) < p.n}
  <2>1. \A i \in 1 .. last : t.items[i].e.mark = Tagged(i)
    BY <1>3, <1>6
  <2>2. able \in SUBSET (1 .. last)
    OBVIOUS
  <2> HIDE DEF able
  <2> QED BY <2>1, <2>2
<1> QED BY <1>2, <1>6, <1>7, <1>8 DEF Marked

LEMMA RegexProcessor ==
  ASSUME NEW s \in LinkedWorks, NEW p, p.keep \in Int
  PROVE  LET t == RemoveRegex(s, p)
         IN /\ KeepsStored(s, t) /\ SameFrames(s, t) /\ SameMarks(s, t) /\ t.ok = s.ok
            /\ p.keep <= 0 => \A i \in 1 .. Len(s.items) : t.items[i].e.text = "removed"
<1> DEFINE n == Len(s.items)
           new == [i \in 1 .. n |->
                     IF n - i < p.keep THEN s.items[i].e ELSE [s.items[i].e EXCEPT !.text = "removed"]]
           t == Copied(s, new)
<1>1. n \in Nat /\ DOMAIN s.items = 1 .. n /\ \A i \in 1 .. n : s.items[i].e \in HistoryEntries
  BY WorkFields DEF LinkedWorks
<1>2. RemoveRegex(s, p) = t
  BY <1>1 DEF RemoveRegex
<1> HIDE DEF n
<1>3. ASSUME NEW i \in 1 .. n
      PROVE  /\ new[i] \in HistoryEntries /\ Frame(new[i]) = Frame(s.items[i].e)
             /\ new[i].mark = s.items[i].e.mark /\ (p.keep <= 0 => new[i].text = "removed")
  <2> DEFINE e == s.items[i].e
             cut == [e EXCEPT !.text = "removed"]
  <2>1. e \in HistoryEntries
    BY <1>1
  <2> HIDE DEF e
  <2>2. cut \in HistoryEntries /\ Frame(cut) = Frame(e) /\ cut.mark = e.mark /\ cut.text = "removed"
    BY <2>1, EntriesKeep
  <2>3. new[i] = IF n - i < p.keep THEN e ELSE cut
    BY DEF e
  <2>4. p.keep <= 0 => ~(n - i < p.keep)
    BY <1>1
  <2> HIDE DEF cut, new
  <2> QED BY <2>1, <2>2, <2>3, <2>4 DEF e
<1>4. new \in [1 .. n -> HistoryEntries]
  BY <1>3
<1> HIDE DEF new
<1>5. IsCopied(t, s, new)
  BY <1>4, CopiedKeeps DEF n
<1> HIDE DEF t
<1>6. /\ t \in LinkedWorks /\ Len(t.items) = n /\ \A i \in 1 .. n : t.items[i].e = new[i]
      /\ t.stored = s.stored /\ t.ok = s.ok
  BY <1>4, <1>5 DEF IsCopied, n
<1> QED BY <1>2, <1>3, <1>6, SameEntriesSelf DEF KeepsStored, SameFrames, SameMarks, n

LEMMA ImageProcessor ==
  ASSUME NEW s \in LinkedWorks, NEW p
  PROVE  LET t == ImageParsing(s, p)
         IN KeepsStored(s, t) /\ (t.ok => s.ok /\ SameItems(s, t))
<1> DEFINE n == Len(s.items)
           those == {i \in 1 .. n : s.items[i].e.role \in {"user", "tool"}}
           new == [i \in those |-> ParseImages(s.items[i].e)]
           t == Copied(s, new)
<1>1. n \in Nat /\ DOMAIN s.items = 1 .. n /\ \A i \in 1 .. n : s.items[i].e \in HistoryEntries
  BY WorkFields DEF LinkedWorks
<1>2. ImageParsing(s, p) = t \/ ImageParsing(s, p) = Raised(s)
  BY <1>1 DEF ImageParsing
<1>3. \A i \in those : new[i] \in HistoryEntries /\ Fixed(new[i]) = Fixed(s.items[i].e)
  BY <1>1, EntriesKeep
<1>4. new \in [those -> HistoryEntries] /\ those \in SUBSET (1 .. n)
  BY <1>3
<1> HIDE DEF new, those, n
<1>5. IsCopied(t, s, new)
  BY <1>4, CopiedKeeps DEF n
<1> HIDE DEF t
<1>6. KeepsStored(s, t) /\ t.ok = s.ok /\ SameItems(s, t)
  BY <1>3, <1>4, <1>5, SameEntriesSelf DEF IsCopied, n, KeepsStored, SameItems
<1>7. KeepsStored(s, Raised(s)) /\ ~Raised(s).ok
  BY RaisedKeeps, SameEntriesSelf DEF KeepsStored
<1> QED BY <1>2, <1>6, <1>7

LEMMA LastNProcessor ==
  ASSUME NEW s \in LinkedWorks, NEW p
  PROVE  LET t == LastNObservations(s, p)
         IN /\ KeepsStored(s, t)
            /\ t.ok => /\ s.ok /\ SameFrames(s, t)
                       /\ \A i \in 1 .. Len(s.items) :
                            t.items[i].e.text = IF i \in OmitIndices(s.items, p.n, p.polling)
                                                THEN "omitted" ELSE s.items[i].e.text
<1> DEFINE n == Len(s.items)
           O == OmitIndices(s.items, p.n, p.polling)
           omit == {i \in 1 .. n : \/ i \in O /\ "keep_output" \notin s.items[i].e.tags
                                   \/ "remove_output" \in s.items[i].e.tags}
           new == [i \in omit |-> Omitted(s.items[i].e)]
           t == Copied(s, new)
<1>1. n \in Nat /\ DOMAIN s.items = 1 .. n /\ \A i \in 1 .. n : s.items[i].e \in HistoryEntries
  BY WorkFields DEF LinkedWorks
<1>2. LastNObservations(s, p) = IF \E i \in omit : s.items[i].e.type # "observation" THEN Raised(s) ELSE t
  BY <1>1 DEF LastNObservations
<1>3. \A i \in omit : /\ new[i] \in HistoryEntries /\ Frame(new[i]) = Frame(s.items[i].e)
                      /\ new[i].text = "omitted"
  BY <1>1, EntriesKeep
<1>4. new \in [omit -> HistoryEntries] /\ omit \in SUBSET (1 .. n)
  BY <1>3
<1>5. \A i \in 1 .. n : i \in O => s.items[i].e.type = "observation"
  BY <1>1 DEF OmitIndices, ObservationIndices
<1>6. ASSUME \A i \in omit : s.items[i].e.type = "observation", NEW i \in 1 .. n PROVE i \in omit <=> i \in O
  <2>1. s.items[i].e.type # "action" => s.items[i].e.tags = {}
    BY <1>1 DEF HistoryEntries
  <2> QED BY <1>5, <1>6, <2>1
<1> HIDE DEF new, omit, n, O
<1>7. IsCopied(t, s, new)
  BY <1>4, CopiedKeeps DEF n
<1> HIDE DEF t
<1>8. /\ t \in LinkedWorks /\ Len(t.items) = n /\ t.stored = s.stored /\ t.ok = s.ok
      /\ \A i \in 1 .. n : t.items[i].e = IF i \in omit THEN new[i] ELSE s.items[i].e
  BY <1>4, <1>7 DEF IsCopied, n
<1>9. KeepsStored(s, t) /\ SameFrames(s, t)
  BY <1>3, <1>8, SameEntriesSelf DEF KeepsStored, SameFrames, n
<1>10. \A i \in 1 .. n : t.items[i].e.text = IF i \in omit THEN "omitted" ELSE s.items[i].e.text
  BY <1>3, <1>8
<1>11. KeepsStored(s, Raised(s)) /\ ~Raised(s).ok
  BY RaisedKeeps, SameEntriesSelf DEF KeepsStored
<1>12. CASE \E i \in omit : s.items[i].e.type # "observation"
  BY <1>2, <1>11, <1>12
<1>13. CASE \A i \in omit : s.items[i].e.type = "observation"
  BY <1>2, <1>6, <1>8, <1>9, <1>10, <1>13 DEF n, O
<1> QED BY <1>12, <1>13

LEMMA WindowProcessor ==
  ASSUME NEW s \in LinkedWorks, NEW p
  PROVE  LET t == ClosedWindow(s, p)
         IN KeepsStored(s, t) /\ (t.ok => s.ok)
<1> DEFINE n == Len(s.items)
           e(i) == s.items[i].e
           looked == {i \in 1 .. n : e(i).role = "user" /\ ~e(i).demo}
           later(i) == {e(j).window : j \in {k \in looked : k > i}}
           closed(i) == e(i).window \notin {"none", "lines"} /\ e(i).window \in later(i)
           new == [i \in looked |-> IF closed(i) THEN [e(i) EXCEPT !.text = "outdated"] ELSE e(i)]
           copied == Copied(s, new)
           Left(c) == {it \in ToSet(c.items) : it.e.role # "user" \/ it.e.demo \/ it.e.window # "lines"}
           t == [copied EXCEPT !.items = Filtered(@, Left(copied))]
<1>1. n \in Nat /\ DOMAIN s.items = 1 .. n /\ \A i \in 1 .. n : s.items[i].e \in HistoryEntries
  BY WorkFields DEF LinkedWorks
<1>2. ClosedWindow(s, p) = t \/ ClosedWindow(s, p) = Raised(s)
  BY <1>1 DEF ClosedWindow
<1>3. ASSUME NEW i \in looked PROVE new[i] \in HistoryEntries
  <2>1. e(i) \in HistoryEntries
    BY <1>1
  <2>2. [e(i) EXCEPT !.text = "outdated"] \in HistoryEntries
    <3> HIDE DEF e
    <3> QED BY <2>1, EntriesKeep
  <2>3. new[i] = e(i) \/ new[i] = [e(i) EXCEPT !.text = "outdated"]
    <3> HIDE DEF e, closed, looked
    <3> QED OBVIOUS
  <2> QED BY <2>1, <2>2, <2>3
<1>4. new \in [looked -> HistoryEntries] /\ looked \in SUBSET (1 .. n)
  <2>1. looked \in SUBSET (1 .. n)
    OBVIOUS
  <2> HIDE DEF e, closed, looked
  <2> QED BY <1>3, <2>1
<1> HIDE DEF new, looked, n
<1>5. IsCopied(copied, s, new)
  BY <1>4, CopiedKeeps DEF n
<1> HIDE DEF copied
<1>6. copied \in LinkedWorks /\ copied.stored = s.stored /\ copied.ok = s.ok
  BY <1>5 DEF IsCopied
<1> HIDE DEF Left
<1>7. t \in LinkedWorks /\ t.stored = copied.stored /\ t.ok = copied.ok
  BY <1>6, DroppingKeeps
<1> HIDE DEF t
<1>8. KeepsStored(s, t) /\ t.ok = s.ok
  BY <1>6, <1>7, SameEntriesSelf DEF KeepsStored
<1>9. KeepsStored(s, Raised(s)) /\ ~Raised(s).ok
  BY RaisedKeeps, SameEntriesSelf DEF KeepsStored
<1> QED BY <1>2, <1>8, <1>9

LEMMA ProcessorKeeps ==
  ASSUME NEW s \in LinkedWorks, NEW p \in Processors
  PROVE  KeepsStored(s, Process(s, p)) /\ (Process(s, p).ok => s.ok)
<1>1. KeepsStored(s, s)
  BY SameEntriesSelf DEF KeepsStored
<1>2. p.type = "tag_tool_call_observations" => p.tags \in SUBSET STRING
  BY DEF Processors
<1>3. p.type = "remove_regex" => p.keep \in Int
  BY DEF Processors
<1>4. CASE ~s.ok
  BY <1>1, <1>4 DEF Process
<1>5. CASE s.ok /\ p.type = "last_n_observations"
  BY <1>5, LastNProcessor DEF Process
<1>6. CASE s.ok /\ p.type = "tag_tool_call_observations"
  BY <1>2, <1>6, TagProcessor DEF Process
<1>7. CASE s.ok /\ p.type = "closed_window"
  BY <1>7, WindowProcessor DEF Process
<1>8. CASE s.ok /\ p.type = "cache_control"
  BY <1>8, CacheProcessor DEF Process
<1>9. CASE s.ok /\ p.type = "remove_regex"
  BY <1>3, <1>9, RegexProcessor DEF Process
<1>10. CASE s.ok /\ p.type = "image_parsing"
  BY <1>10, ImageProcessor DEF Process
<1>11. CASE s.ok /\ p.type = "default"
  BY <1>1, <1>11 DEF Process
<1> QED BY <1>4, <1>5, <1>6, <1>7, <1>8, <1>9, <1>10, <1>11 DEF Processors

\* The items of a history, and those of its own entries.
AllItems(h) == [i \in 1 .. Len(h) |-> Item(h[i], i)]
OwnItems(h) == {it \in ToSet(AllItems(h)) : it.e.own}

LEMMA AllItemsFields ==
  ASSUME NEW h \in Seq(HistoryEntries)
  PROVE  /\ Len(h) \in Nat /\ \A i \in 1 .. Len(h) : h[i] \in HistoryEntries
         /\ AllItems(h) \in Seq(ChainItems) /\ Len(AllItems(h)) = Len(h)
         /\ \A i \in 1 .. Len(h) : /\ AllItems(h)[i].e = h[i] /\ AllItems(h)[i].at = i
                                   /\ (AllItems(h)[i] \in OwnItems(h) <=> h[i].own)
<1> DEFINE n == Len(h)
           items == AllItems(h)
<1>1. n \in Nat /\ \A i \in 1 .. n : h[i] \in HistoryEntries
  BY LenProperties, ElementOfSeq
<1> HIDE DEF n
<1>2. items = [i \in 1 .. n |-> Item(h[i], i)]
  BY DEF AllItems, n
<1>3. \A i \in 1 .. n : items[i].e = h[i] /\ items[i].at = i /\ items[i] \in ChainItems
  BY <1>1, <1>2 DEF Item, ChainItems
<1> HIDE DEF items
<1>4. items \in Seq(ChainItems) /\ Len(items) = n /\ DOMAIN items = 1 .. n
  <2>1. items = [i \in 1 .. n |-> items[i]]
    BY <1>2
  <2> QED BY <1>1, <1>3, <2>1, FunctionIsSeq
<1>5. \A i \in 1 .. n : items[i] \in OwnItems(h) <=> h[i].own
  BY <1>3, <1>4 DEF OwnItems, ToSet, items
<1> QED BY <1>1, <1>3, <1>4, <1>5 DEF n, items

LEMMA OwnEntriesFields ==
  ASSUME NEW h \in Seq(HistoryEntries)
  PROVE  /\ OwnEntries(h) \in LinkedWorks /\ OwnEntries(h).ok /\ OwnEntries(h).stored = h
         /\ OwnEntries(h).items = Filtered(AllItems(h), OwnItems(h))
<1> DEFINE r == Filtered(AllItems(h), OwnItems(h))
           s == [items |-> AllItems(h), stored |-> h, ok |-> TRUE]
           t == [s EXCEPT !.items = Filtered(@, OwnItems(h))]
<1>1. DOMAIN h = 1 .. Len(h)
  BY LenProperties
<1>2. OwnEntries(h) = [items |-> r, stored |-> h, ok |-> TRUE]
  BY <1>1 DEF OwnEntries, AllItems, OwnItems
<1>3. s \in Works
  BY AllItemsFields DEF Works
<1>4. Linked(s)
  <2>1. /\ s.items = AllItems(h) /\ s.stored = h /\ Len(AllItems(h)) = Len(h) /\ Len(h) \in Nat
        /\ \A i \in 1 .. Len(h) : AllItems(h)[i].e = h[i] /\ AllItems(h)[i].at = i
    BY AllItemsFields
  <2> HIDE DEF s
  <2> QED BY <2>1 DEF Linked
<1>5. t \in LinkedWorks
  <2>1. s \in LinkedWorks
    BY <1>3, <1>4 DEF LinkedWorks
  <2> HIDE DEF s
  <2> QED BY <2>1, DroppingKeeps
<1>6. t = [items |-> r, stored |-> h, ok |-> TRUE]
  <2>1. s.items = AllItems(h)
    OBVIOUS
  <2>2. t = [s EXCEPT !.items = r]
    <3> HIDE DEF s
    <3> QED BY <2>1
  <2> HIDE DEF r, t
  <2> QED BY <2>2
<1> QED BY <1>2, <1>5, <1>6

LEMMA ProcessedSteps ==
  ASSUME NEW h \in Seq(HistoryEntries), NEW c \in Seq(Processors)
  PROVE  LET it == Processed(h, c)
         IN /\ Len(c) \in Nat /\ it[0] = OwnEntries(h)
            /\ \A k \in 1 .. Len(c) : it[k] = Process(it[k - 1], c[k])
<1> DEFINE n == Len(c)
           start == OwnEntries(h)
           Body(f) == [k \in 0 .. n |-> IF k = 0 THEN start ELSE Process(f[k - 1], c[k])]
           it == CHOOSE f : f = Body(f)
<1>1. n \in Nat /\ \A k \in 1 .. n : c[k] \in Processors
  BY LenProperties, ElementOfSeq
<1>2. Processed(h, c) = it
  BY DEF Processed
<1>3. start \in LinkedWorks
  BY OwnEntriesFields
<1> HIDE DEF n, start
<1>4. PICK G \in [1 .. n -> [LinkedWorks -> LinkedWorks]] :
        \A x \in LinkedWorks, k \in 1 .. n : G[k][x] = Process(x, c[k])
  <2> DEFINE H == [k \in 1 .. n |-> [x \in LinkedWorks |-> Process(x, c[k])]]
  <2>1. \A k \in 1 .. n, x \in LinkedWorks : Process(x, c[k]) \in LinkedWorks
    BY <1>1, ProcessorKeeps DEF KeepsStored
  <2>2. H \in [1 .. n -> [LinkedWorks -> LinkedWorks]]
    BY <2>1
  <2>3. \A x \in LinkedWorks, k \in 1 .. n : H[k][x] = Process(x, c[k])
    OBVIOUS
  <2> QED BY <2>2, <2>3, Zenon
<1>5. PICK f \in [0 .. n -> LinkedWorks] : f[0] = start /\ \A k \in 1 .. n : f[k] = G[k][f[k - 1]]
  <2>1. HasRun(n, LinkedWorks, start, G)
    BY <1>1, <1>3, <1>4, FunctionExists
  <2> QED BY <2>1 DEF HasRun, IsRun
<1>6. f = Body(f)
  <2>1. \A k \in 0 .. n : k # 0 => k \in 1 .. n /\ k - 1 \in 0 .. n
    BY <1>1
  <2>2. \A k \in 0 .. n : f[k] = IF k = 0 THEN start ELSE Process(f[k - 1], c[k])
    BY <1>4, <1>5, <2>1
  <2> QED BY <1>5, <2>2
<1>7. it = Body(it)
  BY <1>6 DEF it
<1>8. it[0] = start
  <2>1. 0 \in 0 .. n
    BY <1>1
  <2> HIDE DEF it
  <2>2. it[0] = Body(it)[0]
    BY <1>7, Zenon
  <2> QED BY <2>1, <2>2, Zenon
<1>9. ASSUME NEW k \in 1 .. n PROVE it[k] = Process(it[k - 1], c[k])
  <2>1. k \in 0 .. n /\ k # 0
    BY <1>1
  <2> QED BY <1>7, <2>1, Zenon
<1> QED BY <1>1, <1>2, <1>8, <1>9 DEF n, start

\* What holds at a stage and is kept by the later ones holds at the end.
LEMMA StageInduction ==
  ASSUME NEW n \in Nat, NEW j \in 0 .. n, NEW it, NEW R, it[j] \in R,
         \A k \in j + 1 .. n : it[k - 1] \in R => it[k] \in R
  PROVE  \A k \in j .. n : it[k] \in R
<1> DEFINE V == {k \in Nat : j <= k /\ k <= n => it[k] \in R}
<1>1. 0 \in V
  <2>1. j <= 0 => j = 0
    OBVIOUS
  <2> QED BY <2>1
<1>2. ASSUME NEW k \in Nat, k \in V PROVE k + 1 \in V
  <2> SUFFICES ASSUME j <= k + 1, k + 1 <= n PROVE it[k + 1] \in R
    OBVIOUS
  <2>1. CASE j = k + 1
    BY <2>1
  <2>2. CASE j <= k
    <3>1. PICK l \in j + 1 .. n : l = k + 1 /\ l - 1 = k
      BY <2>2
    <3>2. it[k] \in R
      BY <1>2, <2>2
    <3> QED BY <3>1, <3>2
  <2> QED BY <2>1, <2>2
<1> HIDE DEF V
<1>3. Nat \subseteq V
  BY <1>1, <1>2, EveryNumber, Zenon
<1>4. \A k \in j .. n : k \in V /\ j <= k /\ k <= n
  BY <1>3
<1> QED BY <1>4 DEF V

\* Every stage keeps what is stored, and what was raised stays raised.
LEMMA StagesKeep ==
  ASSUME NEW h \in Seq(HistoryEntries), NEW c \in Seq(Processors), NEW k \in 0 .. Len(c)
  PROVE  /\ Processed(h, c)[k] \in LinkedWorks /\ SameEntries(h, Processed(h, c)[k].stored)
         /\ Processed(h, c)[Len(c)].ok => Processed(h, c)[k].ok
<1> DEFINE it == Processed(h, c)
           n == Len(c)
           R == {s \in LinkedWorks : SameEntries(h, s.stored)}
           Q == {s \in R : s.ok => it[k].ok}
<1>1. /\ n \in Nat /\ it[0] = OwnEntries(h) /\ \A l \in 1 .. n : it[l] = Process(it[l - 1], c[l])
      /\ \A l \in 1 .. n : c[l] \in Processors
  BY ProcessedSteps, ElementOfSeq
<1> HIDE DEF it, n
<1>2. it[0] \in R
  BY <1>1, OwnEntriesFields, SameEntriesSelf
<1>3. ASSUME NEW l \in 1 .. n, it[l - 1] \in R
      PROVE  it[l] \in R /\ (it[l].ok => it[l - 1].ok)
  <2>1. KeepsStored(it[l - 1], it[l]) /\ (it[l].ok => it[l - 1].ok)
    BY <1>1, <1>3, ProcessorKeeps
  <2>2. SameEntries(h, it[l].stored)
    <3>1. SameEntries(h, it[l - 1].stored) /\ SameEntries(it[l - 1].stored, it[l].stored)
      BY <1>3, <2>1 DEF KeepsStored
    <3> QED BY <3>1 DEF SameEntries
  <2> QED BY <2>1, <2>2 DEF KeepsStored
<1>4. \A l \in 0 .. n : it[l] \in R
  <2>1. 0 \in 0 .. n /\ 0 + 1 = 1
    BY <1>1
  <2> HIDE DEF R
  <2> QED BY <1>1, <1>2, <1>3, <2>1, StageInduction
<1>5. k \in 0 .. n
  BY DEF n
<1>6. it[n] \in Q
  <2>1. it[k] \in Q
    BY <1>4, <1>5
  <2>2. ASSUME NEW l \in k + 1 .. n, it[l - 1] \in Q PROVE it[l] \in Q
    <3>1. l \in 1 .. n
      BY <1>1, <1>5
    <3> QED BY <1>3, <2>2, <3>1
  <2> HIDE DEF Q
  <2>3. \A l \in k .. n : it[l] \in Q
    BY <1>1, <1>5, <2>1, <2>2, StageInduction
  <2>4. n \in k .. n
    BY <1>1, <1>5
  <2> QED BY <2>3, <2>4
<1> QED BY <1>4, <1>5, <1>6 DEF it, n

-----------------------------------------------------------------------------
(* History: marks *)

\* Chains that keep what the properties speak of.  After the cache marks nothing may
\* copy or drop messages, which loses marks; and what elides observations is the only
\* one that changes texts, but for what removes the same from all of them.
KeepsMarks(c) ==
  \A k \in 1 .. Len(c) : c[k].type = "cache_control" =>
    \A j \in k + 1 .. Len(c) :
      c[j].type \in {"tag_tool_call_observations", "remove_regex", "default"}
KeepsTexts(c) ==
  \A k \in 1 .. Len(c) : c[k].type = "last_n_observations" =>
    \A j \in (1 .. Len(c)) \ {k} :
      \/ c[j].type \in {"tag_tool_call_observations", "cache_control", "image_parsing", "default"}
      \/ c[j].type = "remove_regex" /\ c[j].keep <= 0
Composes(c) == KeepsMarks(c) /\ KeepsTexts(c)

LEMMA FixedFrames == ASSUME NEW s, NEW t, SameItems(s, t) PROVE SameFrames(s, t)
  BY DEF SameItems, SameFrames, Fixed

LEMMA MarkedSame ==
  ASSUME NEW s \in LinkedWorks, NEW t \in LinkedWorks, SameFrames(s, t), SameMarks(s, t),
         NEW p, Marked(s.items, p)
  PROVE  Marked(t.items, p)
<1> DEFINE n == Len(s.items)
<1>1. /\ DOMAIN s.items = 1 .. n /\ DOMAIN t.items = 1 .. n /\ Len(t.items) = n
      /\ \A i \in 1 .. n : /\ t.items[i].e.role = s.items[i].e.role
                           /\ t.items[i].e.mark = s.items[i].e.mark
  BY WorkFields DEF LinkedWorks, SameFrames, SameMarks, Frame
<1> HIDE DEF n
<1>2. Able(t.items, p) = Able(s.items, p)
  BY <1>1 DEF Able, n
<1>3. {i \in DOMAIN t.items : t.items[i].e.mark} = {i \in DOMAIN s.items : s.items[i].e.mark}
  BY <1>1
<1> QED BY <1>2, <1>3 DEF Marked

\* What a chain leaves is marked as its cache processor was configured.
LEMMA ChainMarks ==
  ASSUME NEW h \in Seq(HistoryEntries), NEW c \in Seq(Processors), KeepsMarks(c),
         NEW k \in 1 .. Len(c), c[k].type = "cache_control", Processed(h, c)[Len(c)].ok
  PROVE  Marked(Processed(h, c)[Len(c)].items, c[k])
<1> DEFINE it == Processed(h, c)
           n == Len(c)
           p == c[k]
           R == {s \in LinkedWorks : Marked(s.items, p)}
<1>1. /\ n \in Nat /\ \A l \in 1 .. n : it[l] = Process(it[l - 1], c[l])
      /\ \A l \in 1 .. n : c[l] \in Processors
  BY ProcessedSteps, ElementOfSeq
<1>2. \A l \in 0 .. n : it[l] \in LinkedWorks /\ it[l].ok
  BY StagesKeep
<1>3. \A l \in k + 1 .. n : c[l].type \in {"tag_tool_call_observations", "remove_regex", "default"}
  BY DEF KeepsMarks
<1>4. k \in 1 .. n /\ k - 1 \in 0 .. n /\ k \in 0 .. n
  BY <1>1
<1> HIDE DEF it, n
<1>5. it[k] \in R
  <2>1. it[k] = CacheControl(it[k - 1], p)
    BY <1>1, <1>2, <1>4 DEF Process
  <2> QED BY <1>2, <1>4, <2>1, CacheProcessor
<1>6. ASSUME NEW l \in k + 1 .. n, it[l - 1] \in R PROVE it[l] \in R
  <2> DEFINE s == it[l - 1]
             t == it[l]
             q == c[l]
  <2>1. l \in 1 .. n /\ l - 1 \in 0 .. n /\ l \in 0 .. n
    BY <1>1, <1>4
  <2>2. /\ s \in LinkedWorks /\ t \in LinkedWorks /\ s.ok /\ t = Process(s, q) /\ q \in Processors
        /\ q.type \in {"tag_tool_call_observations", "remove_regex", "default"}
    BY <1>1, <1>2, <1>3, <2>1
  <2> HIDE DEF s, t, q
  <2>3. SameFrames(s, t) /\ SameMarks(s, t)
    <3>1. CASE q.type = "tag_tool_call_observations"
      <4>1. q.tags \in SUBSET STRING
        BY <2>2, <3>1 DEF Processors
      <4>2. t = TagToolCallObservations(s, q)
        BY <2>2, <3>1 DEF Process
      <4> QED BY <2>2, <4>1, <4>2, TagProcessor, FixedFrames
    <3>2. CASE q.type = "remove_regex"
      <4>1. q.keep \in Int
        BY <2>2, <3>2 DEF Processors
      <4>2. t = RemoveRegex(s, q)
        BY <2>2, <3>2 DEF Process
      <4> QED BY <2>2, <4>1, <4>2, RegexProcessor
    <3>3. CASE q.type = "default"
      <4>1. t = s
        BY <2>2, <3>3 DEF Process
      <4> QED BY <4>1 DEF SameFrames, SameMarks
    <3> QED BY <2>2, <3>1, <3>2, <3>3
  <2>4. Marked(s.items, p)
    BY <1>6 DEF s
  <2>5. Marked(t.items, p)
    BY <2>2, <2>3, <2>4, MarkedSame
  <2> QED BY <2>2, <2>5 DEF t
<1>7. \A l \in k .. n : it[l] \in R
  <2> HIDE DEF R
  <2> QED BY <1>1, <1>4, <1>5, <1>6, StageInduction
<1>8. n \in k .. n
  BY <1>1, <1>4
<1> QED BY <1>7, <1>8 DEF it, n

-----------------------------------------------------------------------------
(* History: what is omitted *)

LEMMA ObservationFields ==
  ASSUME NEW s \in LinkedWorks
  PROVE  LET obs == ObservationIndices(s.items)
         IN /\ obs \in SUBSET (1 .. Len(s.items)) /\ IsFiniteSet(obs) /\ Cardinality(obs) \in Nat
            /\ obs \in SUBSET Int /\ Len(s.items) \in Nat
<1>1. Len(s.items) \in Nat /\ DOMAIN s.items = 1 .. Len(s.items)
  BY WorkFields DEF LinkedWorks
<1>2. IsFiniteSet(1 .. Len(s.items))
  <2>1. 1 \in Int /\ Len(s.items) \in Int
    BY <1>1
  <2> QED BY <2>1, FS_Interval, Zenon
<1>3. ObservationIndices(s.items) \in SUBSET (1 .. Len(s.items))
  BY <1>1 DEF ObservationIndices
<1> QED BY <1>1, <1>2, <1>3, FS_Subset, FS_CardinalityType

\* At least n of them are left, and the first one.
LEMMA OmitsFew ==
  ASSUME NEW s \in LinkedWorks, NEW n \in Nat \ {0}, NEW polling \in Nat \ {0}
  PROVE  LET obs == ObservationIndices(s.items)
             N == Cardinality(obs)
             left == obs \ OmitIndices(s.items, n, polling)
         IN Cardinality(left) \in Nat /\ Cardinality(left) >= IF N <= n THEN N ELSE n + 1
<1> DEFINE obs == ObservationIndices(s.items)
           N == Cardinality(obs)
           O == OmitIndices(s.items, n, polling)
           last == (N \div polling) * polling - n
           f == [i \in O |-> Cardinality(UpTo(obs, i))]
<1>1. obs \in SUBSET Int /\ IsFiniteSet(obs) /\ N \in Nat
  BY ObservationFields
<1>2. O = {i \in obs : Cardinality(UpTo(obs, i)) \in 2 .. last}
  BY DEF OmitIndices, UpTo
<1>3. last \in Int /\ last <= N - n
  <2> HIDE DEF N
  <2>1. PICK q \in Nat : q = N \div polling /\ q * polling <= N
    BY <1>1, WholePolls
  <2>2. PICK m \in Int : m = q * polling
    OBVIOUS
  <2>3. last = m - n
    BY <2>1, <2>2
  <2> HIDE DEF last
  <2> QED BY <1>1, <2>1, <2>2, <2>3
<1>4. O \in SUBSET obs
  BY <1>2
<1>5. \A i, j \in O : f[i] = f[j] => i = j
  <2>1. \A i, j \in obs : Cardinality(UpTo(obs, i)) = Cardinality(UpTo(obs, j)) => i = j
    BY <1>1, RanksDiffer
  <2> HIDE DEF obs, O
  <2> QED BY <1>4, <2>1
<1>6. f \in [O -> 2 .. last]
  <2>1. \A i \in O : Cardinality(UpTo(obs, i)) \in 2 .. last
    BY <1>2
  <2> HIDE DEF O
  <2> QED BY <2>1
<1> HIDE DEF obs, N, O, last, f
<1>7. f \in Injection(O, 2 .. last)
  BY <1>5, <1>6 DEF Injection, IsInjective
<1>8. IsFiniteSet(2 .. last) /\ Cardinality(2 .. last) = IF 2 > last THEN 0 ELSE last - 1
  BY <1>3, FS_Interval
<1>9. IsFiniteSet(O) /\ Cardinality(O) \in Nat /\ Cardinality(O) <= IF 2 > last THEN 0 ELSE last - 1
  BY <1>7, <1>8, FS_Injection, FS_CardinalityType
<1>10. IsFiniteSet(obs \ O) /\ Cardinality(obs \ O) = N - Cardinality(O) /\ Cardinality(obs \ O) \in Nat
  <2>1. obs \cap O = O
    BY <1>4
  <2> QED BY <1>1, <2>1, FS_Difference, FS_CardinalityType DEF N
<1>11. Cardinality(obs \ O) >= IF N <= n THEN N ELSE n + 1
  BY <1>1, <1>3, <1>9, <1>10
<1> QED BY <1>10, <1>11 DEF obs, O, N

-----------------------------------------------------------------------------
(* History: texts *)

LEMMA FramesOmit ==
  ASSUME NEW s \in LinkedWorks, NEW t \in LinkedWorks, SameFrames(s, t)
  PROVE  /\ ObservationIndices(t.items) = ObservationIndices(s.items)
         /\ \A n, polling : OmitIndices(t.items, n, polling) = OmitIndices(s.items, n, polling)
<1>1. ObservationIndices(t.items) = ObservationIndices(s.items)
  <2>1. /\ DOMAIN s.items = 1 .. Len(s.items) /\ DOMAIN t.items = 1 .. Len(s.items)
        /\ \A i \in 1 .. Len(s.items) : /\ t.items[i].e.type = s.items[i].e.type
                                        /\ t.items[i].e.demo = s.items[i].e.demo
    BY WorkFields DEF LinkedWorks, SameFrames, Frame
  <2> QED BY <2>1 DEF ObservationIndices
<1> QED BY <1>1 DEF OmitIndices

AllRemoved(s) == \A i \in 1 .. Len(s.items) : s.items[i].e.text = "removed"

\* A processor beside the one that elides.
LEMMA OthersKeepTexts ==
  ASSUME NEW s \in LinkedWorks, NEW p \in Processors, Process(s, p).ok,
         \/ p.type \in {"tag_tool_call_observations", "cache_control", "image_parsing", "default"}
         \/ p.type = "remove_regex" /\ p.keep <= 0
  PROVE  LET t == Process(s, p)
         IN SameFrames(s, t) /\ (IF p.type = "remove_regex" THEN AllRemoved(t) ELSE SameItems(s, t))
<1> DEFINE t == Process(s, p)
<1>1. s.ok
  BY ProcessorKeeps
<1>2. CASE p.type = "tag_tool_call_observations"
  <2>1. p.tags \in SUBSET STRING
    BY <1>2 DEF Processors
  <2>2. t = TagToolCallObservations(s, p)
    BY <1>1, <1>2 DEF Process
  <2> QED BY <1>2, <2>1, <2>2, TagProcessor, FixedFrames
<1>3. CASE p.type = "cache_control"
  <2>1. t = CacheControl(s, p)
    BY <1>1, <1>3 DEF Process
  <2> QED BY <1>3, <2>1, CacheProcessor, FixedFrames
<1>4. CASE p.type = "image_parsing"
  <2>1. t = ImageParsing(s, p)
    BY <1>1, <1>4 DEF Process
  <2> QED BY <1>4, <2>1, ImageProcessor, FixedFrames
<1>5. CASE p.type = "default"
  <2>1. t = s
    BY <1>1, <1>5 DEF Process
  <2> QED BY <1>5, <2>1 DEF SameFrames, SameItems
<1>6. CASE p.type = "remove_regex" /\ p.keep <= 0
  <2>1. p.keep \in Int
    BY <1>6 DEF Processors
  <2>2. t = RemoveRegex(s, p)
    BY <1>1, <1>6 DEF Process
  <2>3. SameFrames(s, t) /\ \A i \in 1 .. Len(s.items) : t.items[i].e.text = "removed"
    BY <1>6, <2>1, <2>2, RegexProcessor
  <2> HIDE DEF t
  <2>4. AllRemoved(t)
    BY <2>3 DEF AllRemoved, SameFrames
  <2> QED BY <1>6, <2>3, <2>4 DEF t
<1> QED BY <1>2, <1>3, <1>4, <1>5, <1>6

\* What is appended has been seen by the agent itself, as it is.
Fresh(h) == \A i \in 1 .. Len(h) : h[i].text \in FreshTexts /\ (h[i].own \/ h[i].demo)

LEMMA OwnFresh ==
  ASSUME NEW h \in Seq(HistoryEntries), Fresh(h)
  PROVE  \A i \in 1 .. Len(OwnEntries(h).items) : OwnEntries(h).items[i].e.text # "omitted"
<1> DEFINE a == AllItems(h)
           T == OwnItems(h)
           r == Filtered(a, T)
<1>1. /\ a \in Seq(ChainItems) /\ Len(a) = Len(h) /\ \A i \in 1 .. Len(h) : a[i].e = h[i]
  BY AllItemsFields
<1>2. PICK q : IsPlaces(q, r, a, Len(a), T)
  BY <1>1, KeptPlaces
<1> HIDE DEF r, a, T
<1>3. \A k \in 1 .. Len(r) : q[k] \in 1 .. Len(h) /\ r[k] = a[q[k]]
  BY <1>1, <1>2 DEF IsPlaces
<1>4. \A k \in 1 .. Len(r) : r[k].e.text \in FreshTexts
  BY <1>1, <1>3 DEF Fresh
<1>5. OwnEntries(h).items = r
  BY OwnEntriesFields DEF r, a, T
<1> QED BY <1>4, <1>5 DEF FreshTexts

\* What a chain elides is among what its processor omits.
LEMMA ChainOmits ==
  ASSUME NEW h \in Seq(HistoryEntries), Fresh(h), NEW c \in Seq(Processors), KeepsTexts(c),
         NEW k \in 1 .. Len(c), c[k].type = "last_n_observations", Processed(h, c)[Len(c)].ok
  PROVE  LET b == OwnEntries(h)
             s == Processed(h, c)[Len(c)]
         IN /\ SameFrames(b, s)
            /\ \A i \in 1 .. Len(b.items) : s.items[i].e.text = "omitted" =>
                 i \in OmitIndices(b.items, c[k].n, c[k].polling)
<1> DEFINE it == Processed(h, c)
           n == Len(c)
           p == c[k]
           b == OwnEntries(h)
           O == OmitIndices(b.items, p.n, p.polling)
           R == {s \in LinkedWorks : SameFrames(b, s) /\ \A i \in 1 .. Len(b.items) :
                                       s.items[i].e.text = "omitted" => i \in O}
<1>1. /\ n \in Nat /\ it[0] = b /\ \A l \in 1 .. n : it[l] = Process(it[l - 1], c[l])
      /\ \A l \in 1 .. n : c[l] \in Processors
  BY ProcessedSteps, ElementOfSeq
<1>2. \A l \in 0 .. n : it[l] \in LinkedWorks /\ it[l].ok
  BY StagesKeep
<1>3. b \in LinkedWorks /\ \A i \in 1 .. Len(b.items) : b.items[i].e.text # "omitted"
  BY OwnEntriesFields, OwnFresh
<1>4. k \in 1 .. n /\ \A l \in (1 .. n) \ {k} :
        \/ c[l].type \in {"tag_tool_call_observations", "cache_control", "image_parsing", "default"}
        \/ c[l].type = "remove_regex" /\ c[l].keep <= 0
  BY DEF KeepsTexts
<1> HIDE DEF it, n, b
<1>5. it[0] \in R
  BY <1>1, <1>3 DEF SameFrames
<1>6. ASSUME NEW l \in 1 .. n, it[l - 1] \in R PROVE it[l] \in R
  <2> DEFINE s == it[l - 1]
             t == it[l]
             q == c[l]
  <2>1. l - 1 \in 0 .. n /\ l \in 0 .. n
    BY <1>1
  <2>2. s \in LinkedWorks /\ t \in LinkedWorks /\ s.ok /\ t.ok /\ t = Process(s, q) /\ q \in Processors
    BY <1>1, <1>2, <2>1
  <2>3. SameFrames(b, s) /\ \A i \in 1 .. Len(b.items) : s.items[i].e.text = "omitted" => i \in O
    BY <1>6
  <2>4. l = k => q = p
    OBVIOUS
  <2>5. l # k => \/ q.type \in {"tag_tool_call_observations", "cache_control", "image_parsing", "default"}
                 \/ q.type = "remove_regex" /\ q.keep <= 0
    BY <1>4
  <2> HIDE DEF s, t, q, O
  <2>6. SameFrames(s, t) /\ \A i \in 1 .. Len(s.items) : t.items[i].e.text = "omitted" =>
                              s.items[i].e.text = "omitted" \/ i \in O
    <3>1. CASE l = k
      <4>1. t = LastNObservations(s, q)
        BY <2>2, <2>4, <3>1 DEF Process
      <4>2. SameFrames(s, t) /\ \A i \in 1 .. Len(s.items) :
              t.items[i].e.text = IF i \in OmitIndices(s.items, q.n, q.polling)
                                  THEN "omitted" ELSE s.items[i].e.text
        BY <2>2, <4>1, LastNProcessor
      <4>3. \A m, polling : OmitIndices(s.items, m, polling) = OmitIndices(b.items, m, polling)
        BY <1>3, <2>2, <2>3, FramesOmit
      <4>4. OmitIndices(s.items, p.n, p.polling) = O
        BY <4>3, Zenon DEF O
      <4>5. OmitIndices(s.items, q.n, q.polling) = O
        BY <2>4, <3>1, <4>4
      <4> QED BY <4>2, <4>5
    <3>2. CASE l # k
      <4>1. SameFrames(s, t) /\ (IF q.type = "remove_regex" THEN AllRemoved(t) ELSE SameItems(s, t))
        BY <2>2, <2>5, <3>2, OthersKeepTexts
      <4> QED BY <4>1 DEF AllRemoved, SameItems, SameFrames, Fixed
    <3> QED BY <3>1, <3>2
  <2>7. SameFrames(b, t)
    BY <2>3, <2>6 DEF SameFrames
  <2>8. \A i \in 1 .. Len(b.items) : t.items[i].e.text = "omitted" => i \in O
    BY <2>3, <2>6 DEF SameFrames
  <2> QED BY <2>2, <2>7, <2>8 DEF t
<1>7. \A l \in 0 .. n : it[l] \in R
  <2>1. 0 \in 0 .. n /\ 0 + 1 = 1
    BY <1>1
  <2> HIDE DEF R
  <2> QED BY <1>1, <1>5, <1>6, <2>1, StageInduction
<1>8. n \in 0 .. n
  BY <1>1
<1> QED BY <1>7, <1>8 DEF it, n, b

\* A step later there are an action and an observation more.
Longer(a, b) ==
  /\ Len(b.items) = Len(a.items) + 2
  /\ \A i \in 1 .. Len(a.items) : Fixed(b.items[i].e) = Fixed(a.items[i].e)
  /\ b.items[Len(a.items) + 1].e.type = "action"
  /\ b.items[Len(a.items) + 2].e.type = "observation" /\ ~b.items[Len(a.items) + 2].e.demo

\* Between two polls the same observations are omitted.
LEMMA LongerOmits ==
  ASSUME NEW a \in LinkedWorks, NEW b \in LinkedWorks, Longer(a, b),
         NEW n, NEW polling \in Nat \ {0},
         Cardinality(ObservationIndices(b.items)) % polling # 0
  PROVE  \A i \in 1 .. Len(a.items) :
           i \in OmitIndices(a.items, n, polling) <=> i \in OmitIndices(b.items, n, polling)
<1> DEFINE L == Len(a.items)
           A == ObservationIndices(a.items)
           B == ObservationIndices(b.items)
<1>1. /\ A \in SUBSET (1 .. L) /\ IsFiniteSet(A) /\ L \in Nat /\ IsFiniteSet(B)
      /\ Cardinality(A) \in Nat /\ Cardinality(B) \in Nat
  BY ObservationFields
<1>2. /\ DOMAIN a.items = 1 .. L /\ DOMAIN b.items = 1 .. Len(b.items) /\ Len(b.items) = L + 2
      /\ \A i \in 1 .. L : /\ b.items[i].e.type = a.items[i].e.type
                           /\ b.items[i].e.demo = a.items[i].e.demo
      /\ b.items[L + 1].e.type = "action" /\ b.items[L + 2].e.type = "observation"
      /\ ~b.items[L + 2].e.demo
  BY WorkFields DEF LinkedWorks, Longer, Fixed, Frame
<1>3. B = A \cup {L + 2} /\ L + 2 \notin A
  <2> DEFINE Sees(s, i) == s.items[i].e.type = "observation" /\ ~s.items[i].e.demo
  <2>1. A = {i \in 1 .. L : Sees(a, i)} /\ B = {i \in 1 .. Len(b.items) : Sees(b, i)}
    BY <1>2 DEF ObservationIndices
  <2>2. \A i \in 1 .. L : Sees(a, i) <=> Sees(b, i)
    BY <1>2
  <2>3. ~Sees(b, L + 1) /\ Sees(b, L + 2)
    BY <1>2
  <2>4. \A i \in 1 .. Len(b.items) : i \in 1 .. L \/ i = L + 1 \/ i = L + 2
    BY <1>1, <1>2
  <2>5. /\ L + 2 \in 1 .. Len(b.items) /\ L + 2 \notin 1 .. L
        /\ \A i \in 1 .. L : i \in 1 .. Len(b.items)
    BY <1>1, <1>2
  <2> HIDE DEF A, B, L, Sees
  <2> QED BY <2>1, <2>2, <2>3, <2>4, <2>5
<1> HIDE DEF A, B, L
<1>4. Cardinality(B) = Cardinality(A) + 1
  BY <1>1, <1>3, FS_AddElement
<1>5. Cardinality(B) \div polling = Cardinality(A) \div polling
  <2>1. (Cardinality(B) - 1) \div polling = Cardinality(B) \div polling
    BY <1>1, WholePolls DEF B
  <2>2. Cardinality(B) - 1 = Cardinality(A)
    BY <1>1, <1>4
  <2> QED BY <2>1, <2>2
<1>6. ASSUME NEW i \in 1 .. L PROVE {j \in A : j <= i} = {j \in B : j <= i} /\ (i \in A <=> i \in B)
  BY <1>1, <1>3, <1>6
<1>7. \A i \in 1 .. L : i \in OmitIndices(a.items, n, polling) <=> i \in OmitIndices(b.items, n, polling)
  BY <1>5, <1>6 DEF OmitIndices, A, B
<1> QED BY <1>7 DEF L

\* What a chain leaves of a history and of it a step later begins alike.
LEMMA ChainExtends ==
  ASSUME NEW g \in Seq(HistoryEntries), NEW h \in Seq(HistoryEntries),
         NEW c \in Seq(Processors), KeepsTexts(c),
         NEW k \in 1 .. Len(c), c[k].type = "last_n_observations",
         Processed(g, c)[Len(c)].ok, Processed(h, c)[Len(c)].ok,
         Longer(OwnEntries(g), OwnEntries(h)),
         Cardinality(ObservationIndices(OwnEntries(h).items)) % c[k].polling # 0
  PROVE  LET s == Processed(g, c)[Len(c)]
             t == Processed(h, c)[Len(c)]
         IN /\ Len(s.items) <= Len(t.items)
            /\ \A i \in 1 .. Len(s.items) : Fixed(s.items[i].e) = Fixed(t.items[i].e)
<1> DEFINE ig == Processed(g, c)
           ih == Processed(h, c)
           n == Len(c)
           p == c[k]
           a == OwnEntries(g)
           b == OwnEntries(h)
           L == Len(a.items)
           it == [l \in 0 .. n |-> <<ig[l], ih[l]>>]
           R == {w \in LinkedWorks \X LinkedWorks :
                   /\ SameFrames(a, w[1]) /\ SameFrames(b, w[2])
                   /\ \A i \in 1 .. L : Fixed(w[1].items[i].e) = Fixed(w[2].items[i].e)}
<1>1. /\ n \in Nat /\ ig[0] = a /\ \A l \in 1 .. n : ig[l] = Process(ig[l - 1], c[l])
      /\ ih[0] = b /\ \A l \in 1 .. n : ih[l] = Process(ih[l - 1], c[l])
      /\ \A l \in 1 .. n : c[l] \in Processors
  BY ProcessedSteps, ElementOfSeq
<1>2. \A l \in 0 .. n : ig[l] \in LinkedWorks /\ ig[l].ok /\ ih[l] \in LinkedWorks /\ ih[l].ok
  BY StagesKeep
<1>3. a \in LinkedWorks /\ b \in LinkedWorks
  BY OwnEntriesFields
<1>4. k \in 1 .. n /\ \A l \in (1 .. n) \ {k} :
        \/ c[l].type \in {"tag_tool_call_observations", "cache_control", "image_parsing", "default"}
        \/ c[l].type = "remove_regex" /\ c[l].keep <= 0
  BY DEF KeepsTexts
<1>5. \A i \in 1 .. L : i \in OmitIndices(a.items, p.n, p.polling) <=> i \in OmitIndices(b.items, p.n, p.polling)
  <2>1. p \in Processors /\ p.type = "last_n_observations"
    BY <1>1, <1>4
  <2>2. p.polling \in Nat \ {0}
    BY <2>1 DEF Processors
  <2> HIDE DEF a, b, p
  <2> QED BY <1>3, <2>2, LongerOmits DEF a, b, p
<1>6. /\ L \in Nat /\ Len(b.items) = L + 2
      /\ \A i \in 1 .. L : Fixed(a.items[i].e) = Fixed(b.items[i].e)
  BY <1>3, WorkFields DEF LinkedWorks, Longer
<1> HIDE DEF ig, ih, n, a, b, L
<1>7. it[0] \in R
  <2>1. it[0] = <<a, b>>
    BY <1>1
  <2> HIDE DEF it
  <2> QED BY <1>3, <1>6, <2>1 DEF SameFrames
<1>8. ASSUME NEW l \in 1 .. n, it[l - 1] \in R PROVE it[l] \in R
  <2> DEFINE s == ig[l - 1]
             t == ih[l - 1]
             u == ig[l]
             v == ih[l]
             q == c[l]
  <2>1. l - 1 \in 0 .. n /\ l \in 0 .. n
    BY <1>1
  <2>2. /\ s \in LinkedWorks /\ u \in LinkedWorks /\ s.ok /\ u.ok /\ u = Process(s, q)
        /\ t \in LinkedWorks /\ v \in LinkedWorks /\ t.ok /\ v.ok /\ v = Process(t, q)
        /\ q \in Processors
    BY <1>1, <1>2, <2>1
  <2>3. it[l - 1] = <<s, t>> /\ it[l] = <<u, v>>
    BY <2>1
  <2>4. /\ SameFrames(a, s) /\ SameFrames(b, t)
        /\ \A i \in 1 .. L : Fixed(s.items[i].e) = Fixed(t.items[i].e)
    BY <1>8, <2>3
  <2>5. l = k => q = p
    OBVIOUS
  <2>6. l # k => \/ q.type \in {"tag_tool_call_observations", "cache_control", "image_parsing", "default"}
                 \/ q.type = "remove_regex" /\ q.keep <= 0
    BY <1>4
  <2>7. \A i \in 1 .. L : i \in 1 .. Len(s.items) /\ i \in 1 .. Len(t.items)
    BY <1>6, <2>4 DEF SameFrames, L
  <2> HIDE DEF s, t, u, v, q, it
  <2>8. /\ SameFrames(s, u) /\ SameFrames(t, v)
        /\ \A i \in 1 .. L : Fixed(u.items[i].e) = Fixed(v.items[i].e)
    <3>1. CASE l = k
      <4>1. u = LastNObservations(s, q) /\ v = LastNObservations(t, q)
        BY <2>2, <2>5, <3>1 DEF Process
      <4>2. /\ SameFrames(s, u)
            /\ \A i \in 1 .. Len(s.items) :
                 u.items[i].e.text = IF i \in OmitIndices(s.items, q.n, q.polling)
                                     THEN "omitted" ELSE s.items[i].e.text
        BY <2>2, <4>1, LastNProcessor
      <4>3. /\ SameFrames(t, v)
            /\ \A i \in 1 .. Len(t.items) :
                 v.items[i].e.text = IF i \in OmitIndices(t.items, q.n, q.polling)
                                     THEN "omitted" ELSE t.items[i].e.text
        BY <2>2, <4>1, LastNProcessor
      <4>4. /\ OmitIndices(s.items, q.n, q.polling) = OmitIndices(a.items, p.n, p.polling)
            /\ OmitIndices(t.items, q.n, q.polling) = OmitIndices(b.items, p.n, p.polling)
        <5>1. \A m, polling : OmitIndices(s.items, m, polling) = OmitIndices(a.items, m, polling)
          BY <1>3, <2>2, <2>4, FramesOmit
        <5>2. \A m, polling : OmitIndices(t.items, m, polling) = OmitIndices(b.items, m, polling)
          BY <1>3, <2>2, <2>4, FramesOmit
        <5>3. q = p
          BY <2>5, <3>1
        <5> QED BY <5>1, <5>2, <5>3, Zenon
      <4>5. ASSUME NEW i \in 1 .. L PROVE Fixed(u.items[i].e) = Fixed(v.items[i].e)
        <5>1. Frame(u.items[i].e) = Frame(v.items[i].e)
          BY <2>4, <2>7, <4>2, <4>3 DEF SameFrames, Fixed
        <5>2. s.items[i].e.text = t.items[i].e.text
          BY <2>4 DEF Fixed
        <5>3. u.items[i].e.text = v.items[i].e.text
          BY <1>5, <2>7, <4>2, <4>3, <4>4, <5>2
        <5> QED BY <5>1, <5>3 DEF Fixed
      <4> QED BY <4>2, <4>3, <4>5
    <3>2. CASE l # k
      <4>1. SameFrames(s, u) /\ (IF q.type = "remove_regex" THEN AllRemoved(u) ELSE SameItems(s, u))
        BY <2>2, <2>6, <3>2, OthersKeepTexts
      <4>2. SameFrames(t, v) /\ (IF q.type = "remove_regex" THEN AllRemoved(v) ELSE SameItems(t, v))
        BY <2>2, <2>6, <3>2, OthersKeepTexts
      <4>3. ASSUME NEW i \in 1 .. L PROVE Fixed(u.items[i].e) = Fixed(v.items[i].e)
        <5>1. CASE q.type = "remove_regex"
          <6>1. Frame(u.items[i].e) = Frame(v.items[i].e)
            BY <2>4, <2>7, <4>1, <4>2 DEF SameFrames, Fixed
          <6>2. u.items[i].e.text = "removed" /\ v.items[i].e.text = "removed"
            BY <2>7, <4>1, <4>2, <5>1 DEF AllRemoved, SameFrames
          <6> QED BY <6>1, <6>2 DEF Fixed
        <5>2. CASE q.type # "remove_regex"
          BY <2>4, <2>7, <4>1, <4>2, <5>2 DEF SameItems
        <5> QED BY <5>1, <5>2
      <4> QED BY <4>1, <4>2, <4>3
    <3> QED BY <3>1, <3>2
  <2>9. SameFrames(a, u) /\ SameFrames(b, v)
    BY <2>4, <2>8 DEF SameFrames
  <2> QED BY <2>2, <2>3, <2>8, <2>9
<1>9. \A l \in 0 .. n : it[l] \in R
  <2>1. 0 \in 0 .. n /\ 0 + 1 = 1
    BY <1>1
  <2> HIDE DEF R, it
  <2> QED BY <1>1, <1>7, <1>8, <2>1, StageInduction
<1>10. it[n] \in R /\ it[n] = <<ig[n], ih[n]>>
  <2>1. n \in 0 .. n
    BY <1>1
  <2> QED BY <1>9, <2>1
<1>11. /\ SameFrames(a, ig[n]) /\ SameFrames(b, ih[n])
       /\ \A i \in 1 .. L : Fixed(ig[n].items[i].e) = Fixed(ih[n].items[i].e)
  <2> HIDE DEF it
  <2> QED BY <1>10
<1>12. Len(ig[n].items) = L /\ Len(ih[n].items) = L + 2
  BY <1>6, <1>11 DEF SameFrames, L
<1> QED BY <1>6, <1>11, <1>12 DEF ig, ih, n

-----------------------------------------------------------------------------
(* History: own entries *)

\* A history and the same a step later, as the queries between have left it.
Sees(e) == e.type = "observation" /\ ~e.demo
Before(g, h) ==
  /\ Len(h) = Len(g) + 2 /\ \A i \in 1 .. Len(g) : Fixed(h[i]) = Fixed(g[i])
  /\ h[Len(g) + 1].type = "action" /\ h[Len(g) + 1].own
  /\ Sees(h[Len(g) + 2]) /\ h[Len(g) + 2].own

\* Items with the same contents.
SameContents(s, t) == Len(t) = Len(s) /\ \A i \in 1 .. Len(s) : Fixed(t[i].e) = Fixed(s[i].e)

LEMMA SameContentsAppend ==
  ASSUME NEW s \in Seq(ChainItems), NEW t \in Seq(ChainItems), NEW x \in ChainItems,
         NEW y \in ChainItems, SameContents(s, t), Fixed(y.e) = Fixed(x.e)
  PROVE  SameContents(Append(s, x), Append(t, y))
<1>1. Len(s) \in Nat /\ Len(t) = Len(s) /\ \A i \in 1 .. Len(s) : Fixed(t[i].e) = Fixed(s[i].e)
  BY LenProperties DEF SameContents
<1>2. /\ Len(Append(s, x)) = Len(s) + 1 /\ Append(s, x)[Len(s) + 1] = x
      /\ \A i \in 1 .. Len(s) : Append(s, x)[i] = s[i]
  BY AppendProperties
<1>3. /\ Len(Append(t, y)) = Len(t) + 1 /\ Append(t, y)[Len(t) + 1] = y
      /\ \A i \in 1 .. Len(t) : Append(t, y)[i] = t[i]
  BY AppendProperties
<1>4. \A i \in 1 .. Len(s) + 1 : i \in 1 .. Len(s) \/ i = Len(s) + 1
  BY <1>1
<1> DEFINE u == Append(s, x)
           v == Append(t, y)
<1> HIDE DEF u, v
<1>5. \A i \in 1 .. Len(s) + 1 : Fixed(v[i].e) = Fixed(u[i].e)
  BY <1>1, <1>2, <1>3, <1>4 DEF u, v
<1> QED BY <1>1, <1>2, <1>3, <1>5 DEF SameContents, u, v

\* The entries of a history that are an agent's own, a step later.
LEMMA OwnLonger ==
  ASSUME NEW g \in Seq(HistoryEntries), NEW h \in Seq(HistoryEntries), Before(g, h)
  PROVE  Longer(OwnEntries(g), OwnEntries(h))
<1> DEFINE a == AllItems(g)
           b == AllItems(h)
           T == OwnItems(g)
           U == OwnItems(h)
           L == Len(g)
           A(k) == Kept(a, T)[k]
           B(k) == Kept(b, U)[k]
           V == {k \in Nat : k <= L => /\ A(k) \in Seq(ChainItems) /\ B(k) \in Seq(ChainItems)
                                       /\ SameContents(A(k), B(k))}
<1>1. /\ L \in Nat /\ a \in Seq(ChainItems) /\ Len(a) = L
      /\ \A i \in 1 .. L : a[i].e = g[i] /\ (a[i] \in T <=> g[i].own)
  BY AllItemsFields
<1>2. /\ Len(h) = L + 2 /\ b \in Seq(ChainItems) /\ Len(b) = L + 2
      /\ \A i \in 1 .. L + 2 : b[i].e = h[i] /\ (b[i] \in U <=> h[i].own)
  BY AllItemsFields DEF Before
<1>3. (\A i \in 1 .. L : a[i] \in ChainItems) /\ (\A i \in 1 .. L + 2 : b[i] \in ChainItems)
  BY <1>1, <1>2, ElementOfSeq
<1> HIDE DEF a, b, T, U, L
<1>4. \A i \in 1 .. L : i \in 1 .. L + 2 /\ Fixed(b[i].e) = Fixed(a[i].e) /\ (b[i] \in U <=> a[i] \in T)
  <2>1. \A i \in 1 .. L : i \in 1 .. L + 2
    BY <1>1
  <2>2. \A i \in 1 .. L : Fixed(h[i]) = Fixed(g[i]) /\ (h[i].own <=> g[i].own)
    BY DEF Before, L, Fixed, Frame
  <2> QED BY <1>1, <1>2, <2>1, <2>2
<1>5. 0 \in V
  <2>1. A(0) = <<>> /\ B(0) = <<>> /\ <<>> \in Seq(ChainItems) /\ Len(<<>>) = 0
    BY <1>1, <1>2, KeptSteps, EmptySeq
  <2> QED BY <2>1 DEF SameContents
<1>6. ASSUME NEW k \in Nat, k \in V PROVE k + 1 \in V
  <2> SUFFICES ASSUME k + 1 <= L
               PROVE  /\ A(k + 1) \in Seq(ChainItems) /\ B(k + 1) \in Seq(ChainItems)
                      /\ SameContents(A(k + 1), B(k + 1))
    OBVIOUS
  <2>1. PICK i \in 1 .. L : i = k + 1 /\ i - 1 = k /\ i \in 1 .. Len(a) /\ i \in 1 .. Len(b)
    BY <1>1, <1>2
  <2>2. A(i) = IF a[i] \in T THEN Append(A(k), a[i]) ELSE A(k)
    BY <1>1, <2>1, KeptSteps
  <2>3. B(i) = IF b[i] \in U THEN Append(B(k), b[i]) ELSE B(k)
    BY <1>2, <2>1, KeptSteps
  <2> DEFINE s == A(k)
             t == B(k)
  <2>4. s \in Seq(ChainItems) /\ t \in Seq(ChainItems) /\ SameContents(s, t)
    BY <1>1, <1>6, <2>1
  <2> HIDE DEF s, t
  <2>5. a[i] \in ChainItems /\ b[i] \in ChainItems /\ Fixed(b[i].e) = Fixed(a[i].e) /\ (b[i] \in U <=> a[i] \in T)
    BY <1>3, <1>4
  <2>6. /\ Append(s, a[i]) \in Seq(ChainItems) /\ Append(t, b[i]) \in Seq(ChainItems)
        /\ SameContents(Append(s, a[i]), Append(t, b[i]))
    BY <2>4, <2>5, AppendProperties, SameContentsAppend
  <2> QED BY <2>1, <2>2, <2>3, <2>4, <2>5, <2>6 DEF s, t
<1> DEFINE u == A(L)
           v == B(L)
           w == Filtered(b, U)
<1>7. u \in Seq(ChainItems) /\ v \in Seq(ChainItems) /\ SameContents(u, v)
  <2> HIDE DEF V
  <2>1. Nat \subseteq V
    BY <1>5, <1>6, EveryNumber, Zenon
  <2>2. L \in V /\ L <= L
    BY <1>1, <2>1
  <2> HIDE DEF A, B
  <2> QED BY <2>2 DEF V
<1>8. Filtered(a, T) = u
  BY <1>1 DEF Filtered
<1>9. w = Append(Append(v, b[L + 1]), b[L + 2])
  <2>0. Len(b) = L + 2 /\ L \in Nat
    BY <1>1, <1>2
  <2>1. PICK i \in 1 .. Len(b) : i = L + 1 /\ i - 1 = L
    BY <2>0
  <2>2. PICK j \in 1 .. Len(b) : j = L + 2 /\ j - 1 = L + 1 /\ j = Len(b)
    BY <2>0
  <2>3. h[L + 1].own /\ h[L + 2].own
    BY DEF Before, L
  <2>4. L + 1 \in 1 .. L + 2 /\ L + 2 \in 1 .. L + 2
    BY <1>1
  <2>5. b[L + 1] \in U /\ b[L + 2] \in U
    BY <1>2, <2>3, <2>4
  <2>6. Kept(b, U)[i] = IF b[i] \in U THEN Append(Kept(b, U)[i - 1], b[i]) ELSE Kept(b, U)[i - 1]
    BY <1>2, KeptSteps
  <2>7. Kept(b, U)[j] = IF b[j] \in U THEN Append(Kept(b, U)[j - 1], b[j]) ELSE Kept(b, U)[j - 1]
    BY <1>2, KeptSteps
  <2> QED BY <2>1, <2>2, <2>5, <2>6, <2>7 DEF Filtered
<1>10. b[L + 1] \in ChainItems /\ b[L + 2] \in ChainItems /\ b[L + 1].e = h[L + 1] /\ b[L + 2].e = h[L + 2]
  <2>1. L + 1 \in 1 .. L + 2 /\ L + 2 \in 1 .. L + 2
    BY <1>1
  <2> QED BY <1>2, <1>3, <2>1
<1> HIDE DEF u, v, w
<1> DEFINE n == Len(u)
           x == Append(v, b[L + 1])
<1>11. /\ n \in Nat /\ Len(v) = n /\ \A i \in 1 .. n : Fixed(v[i].e) = Fixed(u[i].e)
  BY <1>7, LenProperties DEF SameContents
<1>12. /\ x \in Seq(ChainItems) /\ Len(x) = n + 1 /\ x[n + 1] = b[L + 1]
       /\ \A i \in 1 .. n : x[i] = v[i]
  BY <1>7, <1>10, <1>11, AppendProperties
<1> HIDE DEF n, x
<1>13. /\ Len(w) = n + 2 /\ w[n + 2] = b[L + 2] /\ \A i \in 1 .. n + 1 : w[i] = x[i]
  <2>1. w = Append(x, b[L + 2]) /\ n + 1 + 1 = n + 2
    BY <1>9, <1>11 DEF x
  <2> QED BY <1>10, <1>12, <2>1, AppendProperties
<1>14. /\ \A i \in 1 .. n : w[i] = v[i]
       /\ w[n + 1] = b[L + 1]
  <2>1. (\A i \in 1 .. n : i \in 1 .. n + 1) /\ n + 1 \in 1 .. n + 1
    BY <1>11
  <2> QED BY <1>12, <1>13, <2>1
<1>15. OwnEntries(g).items = u /\ OwnEntries(h).items = w
  BY <1>8, OwnEntriesFields DEF a, b, T, U, w
<1>16. h[L + 1].type = "action" /\ h[L + 2].type = "observation" /\ ~h[L + 2].demo
  BY DEF Before, Sees, L
<1> QED BY <1>10, <1>11, <1>13, <1>14, <1>15, <1>16 DEF Longer, n

\* An agent's own observations are those of the history.
SeenIndices(h) == {i \in 1 .. Len(h) : Sees(h[i])}

LEMMA OwnCounts ==
  ASSUME NEW h \in Seq(HistoryEntries), Fresh(h)
  PROVE  Cardinality(ObservationIndices(OwnEntries(h).items)) = Cardinality(SeenIndices(h))
<1> DEFINE a == AllItems(h)
           T == OwnItems(h)
           r == Filtered(a, T)
           O == ObservationIndices(OwnEntries(h).items)
<1>1. /\ a \in Seq(ChainItems) /\ Len(a) = Len(h)
      /\ \A i \in 1 .. Len(h) : a[i].e = h[i] /\ (a[i] \in T <=> h[i].own)
  BY AllItemsFields
<1>2. PICK q : IsPlaces(q, r, a, Len(a), T)
  BY <1>1, KeptPlaces
<1>3. /\ OwnEntries(h).items = r /\ OwnEntries(h) \in LinkedWorks
      /\ DOMAIN r = 1 .. Len(r) /\ Len(r) \in Nat
  BY OwnEntriesFields, WorkFields DEF LinkedWorks
<1> HIDE DEF r, a, T
<1>4. /\ q \in [1 .. Len(r) -> 1 .. Len(h)] /\ \A k \in 1 .. Len(r) : r[k].e = h[q[k]]
      /\ \A k, l \in 1 .. Len(r) : k < l => q[k] < q[l]
      /\ \A i \in 1 .. Len(h) : h[i].own => \E k \in 1 .. Len(r) : q[k] = i
  BY <1>1, <1>2 DEF IsPlaces
<1>5. IsFiniteSet(O)
  BY <1>3, ObservationFields
<1>6. O = {k \in 1 .. Len(r) : Sees(h[q[k]])}
  BY <1>3, <1>4 DEF ObservationIndices, Sees
<1> DEFINE f == [k \in O |-> q[k]]
           S == SeenIndices(h)
<1> HIDE DEF O
<1>7. f \in [O -> S] /\ \A k \in O : f[k] = q[k]
  BY <1>4, <1>6 DEF SeenIndices
<1>8. \A k, l \in O : f[k] = f[l] => k = l
  <2>1. \A k, l \in 1 .. Len(r) : q[k] \in Int /\ q[l] \in Int /\ (k < l \/ l < k \/ k = l)
    BY <1>4
  <2>2. \A k, l \in 1 .. Len(r) : q[k] = q[l] => k = l
    BY <1>4, <2>1
  <2> QED BY <1>6, <1>7, <2>2
<1>9. \A i \in S : \E k \in O : f[k] = i
  <2>1. ASSUME NEW i \in S PROVE \E k \in O : f[k] = i
    <3>1. i \in 1 .. Len(h) /\ Sees(h[i])
      BY DEF SeenIndices
    <3>2. h[i].own
      BY <3>1 DEF Fresh, Sees
    <3>3. PICK k \in 1 .. Len(r) : q[k] = i
      BY <1>4, <3>1, <3>2
    <3> QED BY <1>6, <1>7, <3>1, <3>3
  <2> QED BY <2>1
<1> HIDE DEF f, S
<1>10. f \in Bijection(O, S)
  BY <1>7, <1>8, <1>9 DEF Bijection, Injection, Surjection, IsInjective
<1> QED BY <1>5, <1>10, FS_Bijection DEF ExistsBijection, O, S

-----------------------------------------------------------------------------
(* History: what is added *)

FreshEntries == {e \in HistoryEntries : e.text \in FreshTexts /\ (e.own \/ e.demo)}

LEMMA FreshSeq ==
  ASSUME NEW h \in Seq(FreshEntries)
  PROVE  h \in Seq(HistoryEntries) /\ Fresh(h)
<1>1. Len(h) \in Nat /\ \A i \in 1 .. Len(h) : h[i] \in FreshEntries
  BY LenProperties, ElementOfSeq
<1>2. FreshEntries \subseteq HistoryEntries
  BY DEF FreshEntries
<1>3. h \in Seq(HistoryEntries)
  BY <1>2
<1> QED BY <1>1, <1>3 DEF Fresh, FreshEntries

LEMMA FreshIsSeq ==
  ASSUME NEW h \in Seq(HistoryEntries), Fresh(h)
  PROVE  h \in Seq(FreshEntries)
<1>1. Len(h) \in Nat /\ h = [i \in 1 .. Len(h) |-> h[i]] /\ \A i \in 1 .. Len(h) : h[i] \in HistoryEntries
  BY LenProperties, ElementOfSeq
<1>2. \A i \in 1 .. Len(h) : h[i] \in FreshEntries
  BY <1>1 DEF Fresh, FreshEntries
<1> QED BY <1>1, <1>2, FunctionIsSeq

LEMMA NewEntries ==
  ASSUME NEW role \in Roles, NEW type \in MessageTypes,
         type = "observation" => role \in {"user", "tool"}
  PROVE  /\ Entry(role, type) \in FreshEntries
         /\ \A own \in BOOLEAN :
              [Entry(role, type) EXCEPT !.demo = TRUE, !.own = own] \in FreshEntries
<1> DEFINE e == Entry(role, type)
<1>1. /\ e \in EntryFields /\ e.type = type /\ e.role = role /\ e.tags = {} /\ e.text = "full"
      /\ e.own /\ ~e.demo
  BY DEF Entry, EntryFields, FreshTexts
<1> HIDE DEF e
<1>2. e \in FreshEntries
  BY <1>1 DEF FreshEntries, HistoryEntries, FreshTexts
<1>3. ASSUME NEW own \in BOOLEAN
      PROVE  [e EXCEPT !.demo = TRUE, !.own = own] \in FreshEntries
  <2> DEFINE d == [e EXCEPT !.demo = TRUE, !.own = own]
  <2>1. d \in EntryFields /\ d.type = type /\ d.role = role /\ d.tags = {} /\ d.text = "full" /\ d.demo
    BY <1>1 DEF EntryFields
  <2> HIDE DEF d
  <2>2. d \in FreshEntries
    BY <2>1 DEF FreshEntries, HistoryEntries, FreshTexts
  <2> QED BY <2>2 DEF d
<1> QED BY <1>2, <1>3 DEF e

LEMMA ActionIsFresh ==
  ASSUME NEW f \in {{}, {"edit"}}
  PROVE  Action(f) \in FreshEntries /\ Action(f).type = "action" /\ Action(f).own
<1> DEFINE e == Entry("assistant", "action")
           a == [e EXCEPT !.calls = f]
<1>1. e \in FreshEntries /\ e.type = "action" /\ e.own
  BY NewEntries DEF Roles, MessageTypes, Entry
<1> HIDE DEF e
<1>2. a \in FreshEntries /\ a.type = "action" /\ a.own
  BY <1>1 DEF FreshEntries, HistoryEntries, EntryFields
<1> HIDE DEF a
<1> QED BY <1>2 DEF Action, e, a

LEMMA ObservationIsFresh ==
  ASSUME NEW o \in Observations
  PROVE  Observation(o) \in FreshEntries /\ Sees(Observation(o)) /\ Observation(o).own
<1> DEFINE role == IF tooled THEN "tool" ELSE "user"
           e == Entry(role, "observation")
           new == [e EXCEPT !.text = NextStepTemplate(o.length), !.window = o.window, !.image = o.image]
<1>1. o \in [length : {"empty", "long", "ok"}, window : STRING, image : BOOLEAN]
  BY HistoryAssumption
<1>2. NextStepTemplate(o.length) \in FreshTexts
  BY DEF NextStepTemplate, FreshTexts
<1>3. o.window \in STRING /\ o.image \in BOOLEAN
  BY <1>1
<1>4. role \in {"user", "tool"} /\ role \in Roles /\ "observation" \in MessageTypes
  BY DEF Roles, MessageTypes
<1> HIDE DEF role
<1>5. e \in FreshEntries /\ e.type = "observation" /\ e.own /\ ~e.demo
  BY <1>4, NewEntries DEF Entry
<1> HIDE DEF e
<1>6. new \in FreshEntries /\ new.type = "observation" /\ new.own /\ ~new.demo
  BY <1>2, <1>3, <1>5 DEF FreshEntries, HistoryEntries, EntryFields
<1> HIDE DEF new
<1> QED BY <1>6 DEF Observation, Sees, new, e, role

LEMMA DemonstrationsAreFresh ==
  ASSUME NEW demos \in Demonstrations
  PROVE  demos \in Seq(FreshEntries)
<1> DEFINE D(role, type, own) == [Entry(role, type) EXCEPT !.demo = TRUE, !.own = own]
<1>1. \A own \in BOOLEAN : /\ D("user", "demonstration", own) \in FreshEntries
                           /\ D("assistant", "action", own) \in FreshEntries
                           /\ D("user", "observation", own) \in FreshEntries
  BY NewEntries DEF Roles, MessageTypes
<1>2. \/ demos = <<>>
      \/ demos = <<D("user", "demonstration", TRUE)>>
      \/ demos = <<D("assistant", "action", TRUE), D("user", "observation", TRUE)>>
      \/ demos = <<D("assistant", "action", FALSE), D("user", "observation", FALSE)>>
  BY DEF Demonstrations
<1>3. /\ <<>> \in Seq(FreshEntries)
      /\ \A x \in FreshEntries : <<x>> \in Seq(FreshEntries)
      /\ \A x, y \in FreshEntries : <<x, y>> \in Seq(FreshEntries)
  BY EmptySeq
<1> HIDE DEF D
<1>4. TRUE \in BOOLEAN /\ FALSE \in BOOLEAN
  OBVIOUS
<1> QED BY <1>1, <1>2, <1>3, <1>4, Zenon

-----------------------------------------------------------------------------
(* History: the invariant *)

\* The messages of a query are what the chain leaves of the history,
Asked(m, h, c) ==
  \E g \in Seq(HistoryEntries) :
    /\ SameEntries(g, h) /\ Processed(g, c)[Len(c)].ok
    /\ m = HistoryToMessages(Processed(g, c)[Len(c)].items)

\* and those of the step before what it left of the history without that step.
AskedBefore(m, h, c) ==
  \E g \in Seq(HistoryEntries) :
    /\ Before(g, h) /\ Processed(g, c)[Len(c)].ok
    /\ m = HistoryToMessages(Processed(g, c)[Len(c)].items)

HistoryInv ==
  /\ chain \in Chains
  /\ history \in Seq(HistoryEntries) /\ Fresh(history)
  /\ turn = "act" => Asked(prompt, history, chain)
  /\ turn \in {"query", "act"} => previous = <<>> \/ AskedBefore(previous, history, chain)

LEMMA HistoryInvInit == HistoryInit => HistoryInv
<1> SUFFICES ASSUME HistoryInit PROVE HistoryInv
  OBVIOUS
<1>1. PICK demos \in Demonstrations : history = <<SystemMessage>> \o demos \o <<InstanceTemplate>>
  BY DEF HistoryInit
<1>2. SystemMessage \in FreshEntries /\ InstanceTemplate \in FreshEntries
  BY NewEntries DEF SystemMessage, InstanceTemplate, Roles, MessageTypes
<1>3. history \in Seq(FreshEntries)
  <2>1. <<SystemMessage>> \in Seq(FreshEntries) /\ <<InstanceTemplate>> \in Seq(FreshEntries)
    BY <1>2
  <2>2. demos \in Seq(FreshEntries)
    BY DemonstrationsAreFresh
  <2>3. <<SystemMessage>> \o demos \in Seq(FreshEntries)
    BY <2>1, <2>2, ConcatProperties
  <2> QED BY <1>1, <2>1, <2>3, ConcatProperties
<1> QED BY <1>3, FreshSeq DEF HistoryInit, HistoryInv

\* Entries that differ in no fixed field.
LEMMA SameEntriesFresh ==
  ASSUME NEW g \in Seq(HistoryEntries), NEW h \in Seq(HistoryEntries), SameEntries(g, h)
  PROVE  /\ Fresh(g) <=> Fresh(h)
         /\ \A f \in Seq(HistoryEntries) : Before(f, g) <=> Before(f, h)
<1>1. /\ Len(h) = Len(g) /\ \A k \in 1 .. Len(g) : Fixed(h[k]) = Fixed(g[k])
      /\ \A k \in 1 .. Len(g) : /\ h[k].text = g[k].text /\ h[k].own = g[k].own
                                /\ h[k].demo = g[k].demo /\ h[k].type = g[k].type
  BY DEF SameEntries, Fixed, Frame
<1>2. Fresh(g) <=> Fresh(h)
  BY <1>1 DEF Fresh
<1>3. ASSUME NEW f \in Seq(HistoryEntries) PROVE Before(f, g) <=> Before(f, h)
  <2>1. Len(f) \in Nat
    BY LenProperties
  <2>2. Len(g) = Len(f) + 2 => /\ \A i \in 1 .. Len(f) : i \in 1 .. Len(g)
                               /\ Len(f) + 1 \in 1 .. Len(g) /\ Len(f) + 2 \in 1 .. Len(g)
    BY <2>1
  <2> QED BY <1>1, <2>2 DEF Before, Sees
<1> QED BY <1>2, <1>3

LEMMA QueryKeeps ==
  ASSUME HistoryInv, NEW temporary, turn \in {"query", "act"}, QueryWith(temporary)
  PROVE  HistoryInv'
<1> DEFINE c == chain
           s == Processed(history, c)[Len(c)]
<1>1. /\ c \in Chains /\ c \in Seq(Processors) /\ history \in Seq(HistoryEntries) /\ Fresh(history)
      /\ chain' = c /\ previous' = previous
      /\ previous = <<>> \/ AskedBefore(previous, history, c)
  BY HistoryAssumption DEF HistoryInv, QueryWith
<1>2. Messages = s
  BY DEF Messages
<1>3. s \in LinkedWorks /\ SameEntries(history, s.stored)
  <2>1. Len(c) \in 0 .. Len(c)
    BY <1>1, LenProperties
  <2> HIDE DEF c
  <2> QED BY <1>1, <2>1, StagesKeep
<1>4. s.stored \in Seq(HistoryEntries)
  BY <1>3, WorkFields DEF LinkedWorks
<1> HIDE DEF s
<1>5. CASE ~s.ok
  <2>1. turn' = "raised" /\ history' = history
    BY <1>2, <1>5 DEF QueryWith
  <2> QED BY <1>1, <2>1 DEF HistoryInv
<1>6. CASE s.ok
  <2>1. history' = s.stored /\ prompt' = HistoryToMessages(s.items) /\ turn' = "act"
    BY <1>2, <1>6 DEF QueryWith
  <2>2. history' \in Seq(HistoryEntries) /\ SameEntries(history, history')
    BY <1>3, <1>4, <2>1
  <2>3. Fresh(history') /\ \A f \in Seq(HistoryEntries) : Before(f, history) <=> Before(f, history')
    BY <1>1, <2>2, SameEntriesFresh
  <2>4. Asked(prompt', history', chain')
    BY <1>1, <1>6, <2>1, <2>2 DEF Asked, s
  <2>5. AskedBefore(previous, history, c) => AskedBefore(previous', history', chain')
    BY <1>1, <2>3 DEF AskedBefore
  <2> QED BY <1>1, <2>2, <2>3, <2>4, <2>5 DEF HistoryInv
<1> QED BY <1>5, <1>6

LEMMA AddStepKeeps ==
  ASSUME HistoryInv, NEW f \in {{}, {"edit"}}, NEW o \in Observations, AddStepToHistory(f, o)
  PROVE  HistoryInv'
<1> DEFINE a == Action(f)
           b == Observation(o)
           h == history
           n == Len(history)
           new == h \o <<a, b>>
<1>1. /\ a \in FreshEntries /\ a.type = "action" /\ a.own
      /\ b \in FreshEntries /\ Sees(b) /\ b.own
  BY ActionIsFresh, ObservationIsFresh
<1>2. h \in Seq(HistoryEntries) /\ h \in Seq(FreshEntries) /\ n \in Nat
  BY FreshIsSeq, LenProperties DEF HistoryInv
<1>3. history' = new /\ turn' = "query" /\ previous' = prompt /\ chain' = chain
  BY DEF AddStepToHistory
<1>4. chain \in Chains /\ Asked(prompt, history, chain)
  BY DEF HistoryInv, AddStepToHistory
<1> HIDE DEF a, b, n
<1>5. /\ new \in Seq(FreshEntries) /\ Len(new) = n + 2
      /\ \A i \in 1 .. n : new[i] = h[i]
      /\ new[n + 1] = a /\ new[n + 2] = b
  <2>1. <<a, b>> \in Seq(FreshEntries) /\ Len(<<a, b>>) = 2 /\ <<a, b>>[1] = a /\ <<a, b>>[2] = b
    BY <1>1
  <2>2. new \in Seq(FreshEntries)
    BY <1>2, <2>1, ConcatProperties
  <2> QED BY <1>2, <2>1, <2>2 DEF n
<1> HIDE DEF new
<1>6. ASSUME NEW g \in Seq(HistoryEntries), SameEntries(g, history) PROVE Before(g, new)
  <2>1. Len(g) = n /\ \A k \in 1 .. n : Fixed(g[k]) = Fixed(history[k])
    BY <1>6 DEF SameEntries, n
  <2>2. \A k \in 1 .. n : Fixed(new[k]) = Fixed(g[k])
    BY <1>5, <2>1
  <2> QED BY <1>1, <1>5, <2>1, <2>2 DEF Before
<1>7. AskedBefore(prompt, new, chain)
  BY <1>4, <1>6 DEF Asked, AskedBefore
<1>8. new \in Seq(HistoryEntries) /\ Fresh(new)
  BY <1>5, FreshSeq
<1> QED BY <1>3, <1>4, <1>7, <1>8 DEF HistoryInv

\* What the model is sent of any chain is what the chain leaves of the history it has,
\* and before that of the history without the last step, whatever the queries between
\* have changed in it (DefaultAgent.messages, add_step_to_history).
THEOREM HistoryKeepsInv == HistorySpec => []HistoryInv
<1>1. ASSUME HistoryInv, [HistoryNext]_historyVars PROVE HistoryInv'
  <2>1. CASE QueryStep
    BY <1>1, <2>1, QueryKeeps DEF QueryStep
  <2>2. CASE QueryAgain
    BY <1>1, <2>2, QueryKeeps DEF QueryAgain
  <2>3. CASE \E f \in {{}, {"edit"}}, o \in Observations : AddStepToHistory(f, o)
    BY <1>1, <2>3, AddStepKeeps
  <2>4. CASE UNCHANGED historyVars
    BY <1>1, <2>4 DEF historyVars, HistoryInv
  <2> QED BY <1>1, <2>1, <2>2, <2>3, <2>4 DEF HistoryNext
<1> QED BY <1>1, HistoryInvInit, PTL DEF HistorySpec

-----------------------------------------------------------------------------
(* History: what the model is sent *)

LEMMA PromptFields ==
  ASSUME NEW s \in LinkedWorks
  PROVE  LET m == HistoryToMessages(s.items)
         IN /\ DOMAIN s.items = 1 .. Len(s.items) /\ Len(s.items) \in Nat
            /\ DOMAIN m = 1 .. Len(s.items) /\ Len(m) = Len(s.items)
            /\ \A i \in 1 .. Len(s.items) : /\ m[i].role = s.items[i].e.role
                                            /\ m[i].content = s.items[i].e.text
                                            /\ m[i].cache_control = s.items[i].e.mark
<1> DEFINE n == Len(s.items)
           m == HistoryToMessages(s.items)
           row(i) == [role |-> s.items[i].e.role, content |-> s.items[i].e.text,
                      shape |-> s.items[i].e.shape, tool_calls |-> s.items[i].e.calls,
                      cache_control |-> s.items[i].e.mark]
<1>1. n \in Nat /\ DOMAIN s.items = 1 .. n
  BY WorkFields DEF LinkedWorks
<1>2. m = [i \in 1 .. n |-> row(i)]
  BY <1>1 DEF HistoryToMessages
<1> HIDE DEF n, m
<1>3. DOMAIN m = 1 .. n /\ Len(m) = n /\ \A i \in 1 .. n : m[i] = row(i)
  <2>1. m \in [1 .. n -> {row(i) : i \in 1 .. n}]
    BY <1>2
  <2> HIDE DEF row
  <2>2. DOMAIN m = 1 .. n /\ Len(m) = n
    BY <1>1, <2>1, FunctionIsSeq
  <2> QED BY <1>2, <2>2
<1>4. \A i \in 1 .. n : /\ m[i].role = s.items[i].e.role /\ m[i].content = s.items[i].e.text
                         /\ m[i].cache_control = s.items[i].e.mark
  BY <1>3
<1> HIDE DEF row
<1> QED BY <1>1, <1>3, <1>4 DEF n, m

\* An asked prompt is what a stage left.
LEMMA AskedFields ==
  ASSUME NEW h \in Seq(HistoryEntries), NEW c \in Seq(Processors), Processed(h, c)[Len(c)].ok
  PROVE  Processed(h, c)[Len(c)] \in LinkedWorks
<1>1. Len(c) \in 0 .. Len(c)
  BY LenProperties
<1> QED BY <1>1, StagesKeep

LEMMA MarksHold == HistoryInv /\ KeepsMarks(chain) => MarksAreLast
<1> SUFFICES ASSUME HistoryInv, KeepsMarks(chain), turn = "act", Uses("cache_control")
             PROVE  LET p == Config("cache_control")
                        able == {i \in DOMAIN prompt :
                                   /\ prompt[i].role # "assistant" /\ prompt[i].role # "system"
                                   /\ Len(prompt) - i >= p.offset}
                    IN {i \in DOMAIN prompt : prompt[i].cache_control} =
                         {i \in able : Cardinality({j \in able : j > i}) < p.n}
  BY DEF MarksAreLast
<1> DEFINE p == Config("cache_control")
           m == prompt
           able == {i \in DOMAIN m : /\ m[i].role # "assistant" /\ m[i].role # "system"
                                     /\ Len(m) - i >= p.offset}
<1>1. chain \in Seq(Processors) /\ DOMAIN chain = 1 .. Len(chain)
  BY HistoryAssumption, LenProperties DEF HistoryInv
<1>2. PICK k \in 1 .. Len(chain) : chain[k].type = "cache_control" /\ chain[k] = p
  <2> DEFINE j == CHOOSE k \in DOMAIN chain : chain[k].type = "cache_control"
  <2>1. j \in DOMAIN chain /\ chain[j].type = "cache_control"
    BY DEF Uses
  <2>2. p = chain[j]
    BY DEF Config
  <2> HIDE DEF j
  <2> QED BY <1>1, <2>1, <2>2
<1>3. PICK h \in Seq(HistoryEntries) :
        /\ Processed(h, chain)[Len(chain)].ok
        /\ m = HistoryToMessages(Processed(h, chain)[Len(chain)].items)
  BY DEF HistoryInv, Asked
<1> DEFINE s == Processed(h, chain)[Len(chain)]
<1>4. s \in LinkedWorks
  BY <1>1, <1>3, AskedFields
<1>5. Marked(s.items, p)
  BY <1>1, <1>2, <1>3, ChainMarks
<1>6. m = HistoryToMessages(s.items)
  BY <1>3
<1> HIDE DEF s, p
<1>7. /\ DOMAIN s.items = 1 .. Len(s.items) /\ DOMAIN m = 1 .. Len(s.items) /\ Len(m) = Len(s.items)
      /\ \A i \in 1 .. Len(s.items) : /\ m[i].role = s.items[i].e.role
                                      /\ m[i].cache_control = s.items[i].e.mark
  BY <1>4, <1>6, PromptFields
<1>8. able = Able(s.items, p)
  BY <1>7 DEF Able
<1>9. {i \in DOMAIN m : m[i].cache_control} = {i \in DOMAIN s.items : s.items[i].e.mark}
  BY <1>7
<1>10. {i \in DOMAIN m : m[i].cache_control} = {i \in able : Cardinality({j \in able : j > i}) < p.n}
  <2> HIDE DEF able
  <2> QED BY <1>5, <1>8, <1>9, Zenon DEF Marked
<1> QED BY <1>10 DEF p

\* What the model is sent of one step is sent again.
Contents(m) == [i \in DOMAIN m |-> <<m[i].role, m[i].content>>]

LEMMA ContentsPrefix ==
  ASSUME NEW s \in LinkedWorks, NEW t \in LinkedWorks, Len(s.items) <= Len(t.items),
         \A i \in 1 .. Len(s.items) : Fixed(s.items[i].e) = Fixed(t.items[i].e)
  PROVE  IsPrefix(Contents(HistoryToMessages(s.items)), Contents(HistoryToMessages(t.items)))
<1> DEFINE m == Len(s.items)
           n == Len(t.items)
           A == {t.items[i].e.role : i \in 1 .. n} \X {t.items[i].e.text : i \in 1 .. n}
           a == Contents(HistoryToMessages(s.items))
           b == Contents(HistoryToMessages(t.items))
           ma == HistoryToMessages(s.items)
           mb == HistoryToMessages(t.items)
<1>1. /\ m \in Nat /\ DOMAIN ma = 1 .. m
      /\ \A i \in 1 .. m : ma[i].role = s.items[i].e.role /\ ma[i].content = s.items[i].e.text
  BY PromptFields
<1>2. /\ n \in Nat /\ DOMAIN mb = 1 .. n
      /\ \A i \in 1 .. n : mb[i].role = t.items[i].e.role /\ mb[i].content = t.items[i].e.text
  BY PromptFields
<1>3. a = [i \in 1 .. m |-> <<ma[i].role, ma[i].content>>] /\ b = [i \in 1 .. n |-> <<mb[i].role, mb[i].content>>]
  <2> HIDE DEF ma, mb, m, n
  <2> QED BY <1>1, <1>2 DEF Contents, ma, mb
<1>4. m <= n /\ \A i \in 1 .. m : i \in 1 .. n /\ s.items[i].e.role = t.items[i].e.role
                                  /\ s.items[i].e.text = t.items[i].e.text
  BY <1>1, <1>2 DEF Fixed, Frame
<1> HIDE DEF ma, mb, m, n, A, a, b
<1>5. \A i \in 1 .. n : b[i] \in A
  BY <1>2, <1>3 DEF A
<1>6. \A i \in 1 .. m : a[i] = b[i] /\ a[i] \in A
  BY <1>1, <1>2, <1>3, <1>4, <1>5
<1>7. /\ a \in Seq(A) /\ Len(a) = m /\ a = [i \in 1 .. m |-> a[i]]
      /\ b \in Seq(A) /\ Len(b) = n
  <2>1. a = [i \in 1 .. m |-> a[i]] /\ b = [i \in 1 .. n |-> b[i]]
    BY <1>3
  <2>2. a \in [1 .. m -> A] /\ b \in [1 .. n -> A]
    BY <1>5, <1>6, <2>1
  <2> QED BY <1>1, <1>2, <2>1, <2>2, FunctionIsSeq
<1>8. SubSeq(a, 1, m) = a
  <2>1. SubSeq(a, 1, m) = [i \in 1 .. m |-> a[i]]
    BY <1>1, <1>7, SubSeqProperties
  <2> QED BY <1>7, <2>1
<1>9. SubSeq(b, 1, m) = a
  <2>1. SubSeq(b, 1, m) = [i \in 1 .. m |-> b[i]]
    BY <1>1, <1>2, <1>4, <1>7, SubSeqProperties
  <2> QED BY <1>6, <1>7, <2>1
<1>10. Len(a) <= Len(b) /\ SubSeq(a, 1, Len(a)) = SubSeq(b, 1, Len(a))
  BY <1>4, <1>7, <1>8, <1>9
<1> QED BY <1>10 DEF IsPrefix, a, b

LEMMA PollingHolds == HistoryInv /\ KeepsTexts(chain) => PollingKeepsPrefix
<1> SUFFICES ASSUME HistoryInv, KeepsTexts(chain), turn = "act", Uses("last_n_observations")
             PROVE  LET p == Config("last_n_observations")
                        observed == Cardinality({i \in DOMAIN history :
                                       history[i].type = "observation" /\ ~history[i].demo})
                        whole == Cardinality({i \in DOMAIN prompt : prompt[i].role # "assistant"
                                   /\ prompt[i].role # "system" /\ prompt[i].content # "omitted"})
                    IN /\ observed % p.polling # 0 => IsPrefix(Contents(previous), Contents(prompt))
                       /\ whole >= IF observed <= p.n THEN observed ELSE p.n + 1
  BY DEF PollingKeepsPrefix, Contents
<1> DEFINE p == Config("last_n_observations")
           m == prompt
           observed == Cardinality({i \in DOMAIN history :
                                      history[i].type = "observation" /\ ~history[i].demo})
           W == {i \in DOMAIN m : m[i].role # "assistant" /\ m[i].role # "system"
                                  /\ m[i].content # "omitted"}
<1>1. /\ chain \in Seq(Processors) /\ DOMAIN chain = 1 .. Len(chain)
      /\ history \in Seq(HistoryEntries) /\ Fresh(history)
      /\ DOMAIN history = 1 .. Len(history)
      /\ \A i \in 1 .. Len(chain) : chain[i] \in Processors
  BY HistoryAssumption, LenProperties, ElementOfSeq DEF HistoryInv
<1>2. PICK k \in 1 .. Len(chain) : chain[k].type = "last_n_observations" /\ chain[k] = p
  <2> DEFINE j == CHOOSE k \in DOMAIN chain : chain[k].type = "last_n_observations"
  <2>1. j \in DOMAIN chain /\ chain[j].type = "last_n_observations"
    BY DEF Uses
  <2>2. p = chain[j]
    BY DEF Config
  <2> HIDE DEF j
  <2> QED BY <1>1, <2>1, <2>2
<1>3. p \in Processors /\ p.n \in Nat \ {0} /\ p.polling \in Nat \ {0}
  <2>1. p \in Processors /\ p.type = "last_n_observations"
    BY <1>1, <1>2
  <2> HIDE DEF p
  <2> QED BY <2>1 DEF Processors
<1> HIDE DEF p
<1>4. PICK h \in Seq(HistoryEntries) :
        /\ SameEntries(h, history) /\ Processed(h, chain)[Len(chain)].ok
        /\ m = HistoryToMessages(Processed(h, chain)[Len(chain)].items)
  BY DEF HistoryInv, Asked
<1> DEFINE s == Processed(h, chain)[Len(chain)]
           b == OwnEntries(h)
           obs == ObservationIndices(b.items)
           O == OmitIndices(b.items, p.n, p.polling)
<1>5. s \in LinkedWorks /\ b \in LinkedWorks
  BY <1>1, <1>4, AskedFields, OwnEntriesFields
<1>6. Fresh(h)
  BY <1>1, <1>4, SameEntriesFresh
<1>7. observed = Cardinality(obs)
  <2>1. Cardinality(obs) = Cardinality(SeenIndices(h))
    BY <1>6, OwnCounts
  <2>2. SeenIndices(h) = {i \in DOMAIN history : history[i].type = "observation" /\ ~history[i].demo}
    <3>1. Len(h) = Len(history) /\ \A i \in 1 .. Len(h) : /\ h[i].type = history[i].type
                                                          /\ h[i].demo = history[i].demo
      BY <1>4 DEF SameEntries, Fixed, Frame
    <3> QED BY <1>1, <3>1 DEF SeenIndices, Sees
  <2> QED BY <2>1, <2>2
<1> HIDE DEF observed
<1>8. ASSUME observed % p.polling # 0 PROVE IsPrefix(Contents(previous), Contents(m))
  <2>1. CASE previous = <<>>
    <3>1. Contents(previous) = <<>>
      BY <2>1 DEF Contents
    <3>2. Len(Contents(m)) \in Nat
      <4>1. DOMAIN m = 1 .. Len(m) /\ Len(m) \in Nat
        BY <1>4, <1>5, PromptFields
      <4>2. DOMAIN Contents(m) = 1 .. Len(m)
        BY <4>1 DEF Contents
      <4> QED BY <4>1, <4>2
    <3>3. SubSeq(Contents(m), 1, 0) = <<>> /\ SubSeq(<<>>, 1, 0) = <<>> /\ Len(<<>>) = 0
      BY EmptySeq
    <3> QED BY <3>1, <3>2, <3>3 DEF IsPrefix
  <2>2. CASE AskedBefore(previous, history, chain)
    <3>1. PICK g \in Seq(HistoryEntries) :
            /\ Before(g, history) /\ Processed(g, chain)[Len(chain)].ok
            /\ previous = HistoryToMessages(Processed(g, chain)[Len(chain)].items)
      BY <2>2 DEF AskedBefore
    <3>2. Longer(OwnEntries(g), b)
      <4>1. Before(g, h)
        BY <1>1, <1>4, <3>1, SameEntriesFresh
      <4> QED BY <4>1, OwnLonger
    <3> DEFINE r == Processed(g, chain)[Len(chain)]
    <3>3. r \in LinkedWorks
      BY <1>1, <3>1, AskedFields
    <3>4. Cardinality(obs) % p.polling # 0
      BY <1>7, <1>8
    <3>5. /\ Len(r.items) <= Len(s.items)
          /\ \A i \in 1 .. Len(r.items) : Fixed(r.items[i].e) = Fixed(s.items[i].e)
      BY <1>1, <1>2, <1>4, <3>1, <3>2, <3>4, ChainExtends
    <3>6. previous = HistoryToMessages(r.items) /\ m = HistoryToMessages(s.items)
      BY <1>4, <3>1
    <3> HIDE DEF r, s
    <3>7. IsPrefix(Contents(HistoryToMessages(r.items)), Contents(HistoryToMessages(s.items)))
      BY <1>5, <3>3, <3>5, ContentsPrefix
    <3> QED BY <3>6, <3>7
  <2>3. previous = <<>> \/ AskedBefore(previous, history, chain)
    BY DEF HistoryInv
  <2> QED BY <2>1, <2>2, <2>3
<1>9. Cardinality(W) >= IF observed <= p.n THEN observed ELSE p.n + 1
  <2>1. /\ SameFrames(b, s)
        /\ \A i \in 1 .. Len(b.items) : s.items[i].e.text = "omitted" => i \in O
    BY <1>1, <1>2, <1>4, <1>6, ChainOmits
  <2>2. /\ Cardinality(obs \ O) \in Nat
        /\ Cardinality(obs \ O) >= IF observed <= p.n THEN observed ELSE p.n + 1
    BY <1>3, <1>5, <1>7, OmitsFew
  <2>3. m = HistoryToMessages(s.items)
    BY <1>4
  <2>4. obs \in SUBSET (1 .. Len(b.items))
    BY <1>5, ObservationFields
  <2>5. \A i \in obs : b.items[i].e.role \in {"user", "tool"}
    <3>1. \A i \in obs : b.items[i].e \in HistoryEntries /\ b.items[i].e.type = "observation"
      <4>1. \A i \in 1 .. Len(b.items) : b.items[i].e \in HistoryEntries
        BY <1>5, WorkFields DEF LinkedWorks
      <4>2. \A i \in obs : b.items[i].e.type = "observation"
        BY DEF ObservationIndices
      <4> HIDE DEF obs, b
      <4> QED BY <2>4, <4>1, <4>2
    <3> HIDE DEF obs, b
    <3> QED BY <3>1 DEF HistoryEntries
  <2> HIDE DEF s, b, obs, O
  <2>6. /\ DOMAIN m = 1 .. Len(s.items) /\ Len(s.items) \in Nat
        /\ \A i \in 1 .. Len(s.items) : m[i].role = s.items[i].e.role /\ m[i].content = s.items[i].e.text
    BY <1>5, <2>3, PromptFields
  <2>7. /\ Len(s.items) = Len(b.items)
        /\ \A i \in 1 .. Len(b.items) : s.items[i].e.role = b.items[i].e.role
    BY <2>1 DEF SameFrames, Frame
  <2>8. obs \ O \in SUBSET W
    BY <2>1, <2>4, <2>5, <2>6, <2>7
  <2>9. IsFiniteSet(W)
    <3>1. IsFiniteSet(1 .. Len(s.items)) /\ W \in SUBSET (1 .. Len(s.items))
      BY <2>6, FS_Interval
    <3> QED BY <3>1, FS_Subset
  <2>10. Cardinality(obs \ O) <= Cardinality(W) /\ Cardinality(W) \in Nat
    BY <2>8, <2>9, FS_Subset, FS_CardinalityType
  <2>11. observed \in Nat
    BY <1>5, <1>7, ObservationFields DEF obs
  <2> HIDE DEF W
  <2> QED BY <1>3, <2>2, <2>10, <2>11
<1> QED BY <1>8, <1>9 DEF observed, p

\* Whatever a chain makes of the history that keeps what the properties speak of, at
\* every query: the cache marks are on the last messages that may have one and nowhere
\* else; between two polls the conversation only grows, and enough observations are
\* whole (DefaultAgent.messages, LastNObservations, CacheControlHistoryProcessor).
THEOREM ConversationsHold == HistorySpec => [](Composes(chain) => ConversationHolds)
<1>1. HistoryInv => (Composes(chain) => ConversationHolds)
  BY MarksHold, PollingHolds DEF Composes, ConversationHolds
<1> QED BY <1>1, HistoryKeepsInv, PTL
=============================================================================
