--------------------------- MODULE VectorsProofs ---------------------------
(***************************************************************************)
(* What Pick, the model of std::erase_if, does for every vector and every  *)
(* set of kept indices.  The induction is a least-element argument over    *)
(* the naturals, taken from the well-foundedness of < on Nat.              *)
(***************************************************************************)
EXTENDS Vectors, Integers, FiniteSetTheorems, WellFoundedInduction, TLAPS

\* Every nonempty set of naturals has a least element.
LEMMA LeastNatural ==
  ASSUME NEW T, T \subseteq Nat, T # {}
  PROVE  \E x \in T : \A y \in T : x <= y
<1>1. PICK x \in T : \A y \in T : ~(<<y, x>> \in OpToRel(<, Nat))
  BY NatLessThanWellFounded, WFMin
<1>2. \A y \in T : ~(y < x)
  BY <1>1 DEF OpToRel
<1> QED BY <1>2

\* Induction over the naturals, for a property given as a set.
LEMMA SetInduction ==
  ASSUME NEW T, 0 \in T, \A n \in Nat : n \in T => n + 1 \in T
  PROVE  Nat \subseteq T
<1> SUFFICES ASSUME ~(Nat \subseteq T) PROVE FALSE
  OBVIOUS
<1> DEFINE U == {n \in Nat : n \notin T}
<1>1. PICK x \in U : \A y \in U : x <= y
  <2>1. U \subseteq Nat /\ U # {}
    OBVIOUS
  <2> HIDE DEF U
  <2> QED BY <2>1, LeastNatural
<1>2. x \in Nat /\ x # 0 /\ x - 1 \in Nat
  OBVIOUS
<1>3. x - 1 \in T
  BY <1>1, <1>2
<1> QED BY <1>2, <1>3

-----------------------------------------------------------------------------
\* The number of kept indices up to i is a natural number, bounded by their
\* total number.
LEMMA RankType ==
  ASSUME NEW K, IsFiniteSet(K), NEW i
  PROVE  /\ Rank(K, i) \in Nat
         /\ IsFiniteSet({j \in K : j <= i})
         /\ Rank(K, i) <= Cardinality(K)
<1>1. {j \in K : j <= i} \subseteq K
  OBVIOUS
<1> QED BY <1>1, FS_Subset, FS_CardinalityType DEF Rank

\* Moving one index on adds one exactly when that index is kept.
LEMMA RankStep ==
  ASSUME NEW K, K \subseteq Nat, IsFiniteSet(K), NEW i \in Nat
  PROVE  Rank(K, i + 1) = IF i + 1 \in K THEN Rank(K, i) + 1 ELSE Rank(K, i)
<1> DEFINE B == {j \in K : j <= i}
           A == {j \in K : j <= i + 1}
<1>0. \A j \in K : j \in Nat
  OBVIOUS
<1>1. IsFiniteSet(B)
  BY RankType
<1>2. CASE i + 1 \in K
  <2>1. A = B \cup {i + 1} /\ i + 1 \notin B
    <3>1. \A j \in K : j <= i + 1 <=> j <= i \/ j = i + 1
      BY <1>0
    <3>2. ~(i + 1 <= i)
      OBVIOUS
    <3> QED BY <1>2, <3>1, <3>2, Zenon
  <2>2. Cardinality(B \cup {i + 1}) = Cardinality(B) + 1
    BY <1>1, <2>1, FS_AddElement
  <2> QED BY <1>2, <2>1, <2>2 DEF Rank
<1>3. CASE i + 1 \notin K
  <2>1. A = B
    <3>1. \A j \in K : j <= i + 1 <=> j <= i
      BY <1>0, <1>3
    <3> QED BY <3>1, Zenon
  <2> QED BY <1>3, <2>1 DEF Rank
<1> QED BY <1>2, <1>3

\* Every rank up to that of i is the rank of some kept index up to i.
LEMMA RankReached ==
  ASSUME NEW K, K \subseteq Nat \ {0}, IsFiniteSet(K)
  PROVE  \A i \in Nat : \A k \in 1..Rank(K, i) : \E j \in K : j <= i /\ Rank(K, j) = k
<1> DEFINE T == {i \in Nat : \A k \in 1..Rank(K, i) : \E j \in K : j <= i /\ Rank(K, j) = k}
<1>1. 0 \in T
  <2>1. \A j \in K : ~(j <= 0)
    <3>1. \A j \in K : j \in Nat \ {0}
      OBVIOUS
    <3> QED BY <3>1
  <2>2. Rank(K, 0) = 0
    BY <2>1, FS_EmptySet DEF Rank
  <2> QED BY <2>2
<1>2. ASSUME NEW n \in Nat, n \in T
      PROVE  n + 1 \in T
  <2> SUFFICES ASSUME NEW k \in 1..Rank(K, n + 1)
               PROVE  \E j \in K : j <= n + 1 /\ Rank(K, j) = k
    OBVIOUS
  <2>1. Rank(K, n) \in Nat /\ Rank(K, n + 1) \in Nat
    BY RankType
  <2>2. Rank(K, n + 1) = IF n + 1 \in K THEN Rank(K, n) + 1 ELSE Rank(K, n)
    BY RankStep
  <2>3. CASE k \in 1..Rank(K, n)
    BY <1>2, <2>3
  <2>4. CASE k \notin 1..Rank(K, n)
    <3>1. n + 1 \in K /\ k = Rank(K, n + 1)
      BY <2>1, <2>2, <2>4
    <3> QED BY <3>1
  <2> QED BY <2>3, <2>4
<1>3. Nat \subseteq T
  <2> HIDE DEF T
  <2> QED BY <1>1, <1>2, SetInduction
<1> QED BY <1>3

\* The rank of a kept index is larger than that of every smaller index.
LEMMA RankStrict ==
  ASSUME NEW K, K \subseteq Nat, IsFiniteSet(K), NEW i \in Nat, NEW j \in K, i < j
  PROVE  Rank(K, i) < Rank(K, j)
<1> DEFINE B == {m \in K : m <= i}
           A == {m \in K : m <= j}
<1>0. \A m \in K : m \in Nat
  OBVIOUS
<1>1. B \subseteq A /\ j \in A /\ j \notin B
  <2>1. \A m \in K : m <= i => m <= j
    BY <1>0
  <2>2. j <= j /\ ~(j <= i)
    BY <1>0
  <2> QED BY <2>1, <2>2, Zenon
<1>2. IsFiniteSet(A) /\ IsFiniteSet(B) /\ Cardinality(A) \in Nat /\ Cardinality(B) \in Nat
  BY RankType DEF Rank
<1>3. Cardinality(B) <= Cardinality(A) /\ (Cardinality(B) = Cardinality(A) => B = A)
  <2> HIDE DEF A, B
  <2> QED BY <1>1, <1>2, FS_Subset
<1> QED BY <1>1, <1>2, <1>3 DEF Rank

-----------------------------------------------------------------------------
\* A set of indices of a sequence of length n: finite, and all of it counted
\* by the rank of n.
LEMMA IndexSet ==
  ASSUME NEW n \in Nat, NEW K, K \subseteq 1..n
  PROVE  /\ K \subseteq Nat \ {0}
         /\ K \subseteq Nat
         /\ IsFiniteSet(K)
         /\ Cardinality(K) \in Nat
         /\ Cardinality(K) <= n
         /\ Cardinality(K) = n => K = 1..n
         /\ Rank(K, n) = Cardinality(K)
<1>1. K \subseteq Nat \ {0} /\ K \subseteq Nat
  OBVIOUS
<1>2. IsFiniteSet(1..n) /\ Cardinality(1..n) = n
  BY FS_Interval
<1>3. /\ IsFiniteSet(K)
      /\ Cardinality(K) <= n
      /\ Cardinality(K) = n => K = 1..n
  BY <1>2, FS_Subset
<1>4. {j \in K : j <= n} = K
  <2>1. \A j \in K : j <= n
    OBVIOUS
  <2> QED BY <2>1, Zenon
<1> QED BY <1>1, <1>3, <1>4, FS_CardinalityType DEF Rank

\* Nth enumerates the kept indices in increasing order, and Rank says where
\* each of them comes.
LEMMA NthProperties ==
  ASSUME NEW n \in Nat, NEW K, K \subseteq 1..n
  PROVE  /\ \A k \in 1..Cardinality(K) : Nth(K, k) \in K /\ Rank(K, Nth(K, k)) = k
         /\ \A k, l \in 1..Cardinality(K) : Nth(K, k) = Nth(K, l) => k = l
         /\ \A i \in K : Rank(K, i) \in 1..Cardinality(K) /\ Nth(K, Rank(K, i)) = i
<1>0. /\ K \subseteq Nat \ {0} /\ K \subseteq Nat /\ IsFiniteSet(K)
      /\ Cardinality(K) \in Nat /\ Rank(K, n) = Cardinality(K)
  BY IndexSet
<1>1. ASSUME NEW k \in 1..Cardinality(K)
      PROVE  Nth(K, k) \in K /\ Rank(K, Nth(K, k)) = k
  <2>1. \A i \in Nat : \A l \in 1..Rank(K, i) : \E j \in K : j <= i /\ Rank(K, j) = l
    BY <1>0, RankReached
  <2>2. \E j \in K : Rank(K, j) = k
    BY <1>0, <2>1
  <2> QED BY <2>2 DEF Nth
<1>2. ASSUME NEW i \in K
      PROVE  Rank(K, i) \in 1..Cardinality(K) /\ Nth(K, Rank(K, i)) = i
  <2>1. i \in Nat /\ 0 < i /\ 0 \in Nat
    BY <1>0
  <2>2. Rank(K, i) \in Nat /\ Rank(K, i) <= Cardinality(K) /\ Rank(K, 0) \in Nat
    BY <1>0, RankType
  <2>3. Rank(K, 0) < Rank(K, i)
    BY <1>0, <2>1, RankStrict
  <2>4. Rank(K, i) \in 1..Cardinality(K)
    BY <1>0, <2>2, <2>3
  <2> DEFINE m == Nth(K, Rank(K, i))
  <2>5. m \in K /\ Rank(K, m) = Rank(K, i)
    BY <1>1, <2>4
  <2>6. m \in Nat
    BY <1>0, <2>5
  <2> HIDE DEF m
  <2>7. ~(m < i)
    <3>1. m < i => Rank(K, m) < Rank(K, i)
      BY <1>0, <2>6, RankStrict
    <3> QED BY <2>2, <2>5, <3>1
  <2>8. ~(i < m)
    <3>1. i < m => Rank(K, i) < Rank(K, m)
      BY <1>0, <2>1, <2>5, RankStrict
    <3> QED BY <2>2, <2>5, <3>1
  <2> QED BY <2>1, <2>4, <2>6, <2>7, <2>8 DEF m
<1>3. \A k, l \in 1..Cardinality(K) : Nth(K, k) = Nth(K, l) => k = l
  BY <1>1
<1> QED BY <1>1, <1>2, <1>3

\* erase_if on a vector: the result is a vector over the same elements, it
\* holds exactly the kept ones, at different places when they were at
\* different places; it is shorter when something was dropped; and a kept
\* first element stays first.
THEOREM PickProperties ==
  ASSUME NEW S, NEW s \in Seq(S), NEW K, K \subseteq DOMAIN s
  PROVE  /\ Pick(s, K) \in Seq(S)
         /\ Len(Pick(s, K)) = Cardinality(K)
         /\ DOMAIN Pick(s, K) = 1..Cardinality(K)
         /\ \A k \in DOMAIN Pick(s, K) : Nth(K, k) \in K /\ Pick(s, K)[k] = s[Nth(K, k)]
         /\ \A k, l \in DOMAIN Pick(s, K) : Nth(K, k) = Nth(K, l) => k = l
         /\ \A i \in K : Rank(K, i) \in DOMAIN Pick(s, K) /\ Pick(s, K)[Rank(K, i)] = s[i]
         /\ Len(Pick(s, K)) <= Len(s)
         /\ Len(Pick(s, K)) = Len(s) => K = DOMAIN s
         /\ Pick(s, K) = <<>> <=> K = {}
         /\ 1 \in K => Pick(s, K)[1] = s[1]
<1> DEFINE n == Len(s)
           p == Pick(s, K)
<1>0. n \in Nat /\ DOMAIN s = 1..n /\ K \subseteq 1..n
  OBVIOUS
<1>1. /\ Cardinality(K) \in Nat /\ Cardinality(K) <= n
      /\ Cardinality(K) = n => K = 1..n
      /\ IsFiniteSet(K) /\ K \subseteq Nat
  BY <1>0, IndexSet
<1>2. /\ \A k \in 1..Cardinality(K) : Nth(K, k) \in K /\ Rank(K, Nth(K, k)) = k
      /\ \A k, l \in 1..Cardinality(K) : Nth(K, k) = Nth(K, l) => k = l
      /\ \A i \in K : Rank(K, i) \in 1..Cardinality(K) /\ Nth(K, Rank(K, i)) = i
  BY <1>0, NthProperties
<1>3. /\ DOMAIN p = 1..Cardinality(K)
      /\ \A k \in 1..Cardinality(K) : p[k] = s[Nth(K, k)]
      /\ p \in Seq(S) /\ Len(p) = Cardinality(K)
  <2>1. \A k \in 1..Cardinality(K) : s[Nth(K, k)] \in S
    BY <1>0, <1>2
  <2> QED BY <1>1, <2>1 DEF Pick
<1>4. p = <<>> <=> K = {}
  <2>1. Cardinality(K) = 0 <=> K = {}
    BY <1>1, FS_EmptySet
  <2>2. p = <<>> <=> Len(p) = 0
    BY <1>3
  <2> QED BY <1>3, <2>1, <2>2
<1>5. 1 \in K => p[1] = s[1]
  <2> SUFFICES ASSUME 1 \in K PROVE Rank(K, 1) = 1
    BY <1>2, <1>3
  <2>1. {j \in K : j <= 1} = {1}
    <3>1. \A j \in K : j <= 1 <=> j = 1
      BY <1>0
    <3> QED BY <3>1, Zenon
  <2> QED BY <2>1, FS_Singleton DEF Rank
<1> HIDE DEF n, p
<1> QED BY <1>0, <1>1, <1>2, <1>3, <1>4, <1>5 DEF n, p
============================================================================
