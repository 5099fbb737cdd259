-------------------------- MODULE SubsequenceProofs --------------------------
(***************************************************************************)
(* Lemmas on sequences.  What Only(s, S) is: ranks number the kept places    *)
(* 1, 2, ... without gaps, because they are an injection between two finite  *)
(* sets of one size.  How long a sequence without repetitions is; what two   *)
(* of them, and FlattenSeq, make when they are joined.  Least and greatest   *)
(* elements of sets of numbers stand in for induction.                       *)
(***************************************************************************)
EXTENDS Subsequence, SequencesExt, FiniteSetTheorems, TLAPS

\* A set of natural numbers that is not empty has a least element.
LEMMA NatMin ==
  ASSUME NEW T \in SUBSET Nat, T # {}
  PROVE  \E x \in T : \A y \in T : x <= y
<1> DEFINE R == OpToRel(<, Nat)
<1>1. \E x \in T : \A y \in T : ~(<<y, x>> \in R)
  BY WFMin, NatLessThanWellFounded, Zenon
<1>2. R = {ss \in Nat \X Nat : ss[1] < ss[2]}
  BY DEF OpToRel
<1> HIDE DEF R
<1>3. PICK x \in T : \A y \in T : ~(y < x)
  BY <1>1, <1>2
<1> QED
  BY <1>3

\* A set of numbers up to b that is not empty has a greatest element.
LEMMA NatMax ==
  ASSUME NEW b \in Nat, NEW T \in SUBSET (0 .. b), T # {}
  PROVE  \E x \in T : \A y \in T : y <= x
<1> DEFINE D == {d \in Nat : \E x \in T : d = b - x}
<1>1. D \in SUBSET Nat /\ D # {} /\ \A x \in T : b - x \in D
  <2>1. D \in SUBSET Nat /\ \A x \in T : b - x \in D
    OBVIOUS
  <2> HIDE DEF D
  <2> QED
    BY <2>1
<1> HIDE DEF D
<1>2. PICK d \in D : \A e \in D : d <= e
  BY <1>1, NatMin
<1>3. PICK x \in T : d = b - x
  BY <1>2 DEF D
<1>4. ASSUME NEW y \in T PROVE y <= x
  <2>1. b - x <= b - y
    BY <1>1, <1>2, <1>3
  <2> QED
    BY <2>1
<1> QED
  BY <1>4

\* Ranks grow from place to place and are at most the number of places.
LEMMA RankGrows ==
  ASSUME NEW n \in Nat, NEW K \in SUBSET (1 .. n)
  PROVE  /\ IsFiniteSet(K) /\ Cardinality(K) \in Nat
         /\ \A i \in K : Rank(K, i) \in 1 .. Cardinality(K)
         /\ \A i, j \in K : i < j => Rank(K, i) < Rank(K, j)
<1>0. IsFiniteSet(1 .. n)
  BY FS_Interval
<1>1. IsFiniteSet(K) /\ Cardinality(K) \in Nat
  BY <1>0, FS_Subset, FS_CardinalityType
<1> DEFINE Upto(i) == {j \in K : j <= i}
<1>2. \A i \in K : IsFiniteSet(Upto(i)) /\ Cardinality(Upto(i)) \in Nat
                     /\ Cardinality(Upto(i)) <= Cardinality(K)
  BY <1>1, FS_Subset, FS_CardinalityType
<1>3. \A i \in K : Cardinality(Upto(i)) # 0
  BY <1>2, FS_EmptySet
<1>4. ASSUME NEW i \in K, NEW j \in K, i < j
      PROVE  Cardinality(Upto(i)) < Cardinality(Upto(j))
  <2>1. Upto(i) \in SUBSET Upto(j) /\ j \in Upto(j) \ Upto(i)
    <3>1. \A k \in K : k \in Int
      OBVIOUS
    <3>2. \A k \in Upto(i) : k \in K /\ k <= j
      BY <1>4, <3>1
    <3>3. j \in Upto(j) /\ j \notin Upto(i)
      BY <1>4, <3>1
    <3> QED
      BY <3>2, <3>3
  <2>2. Cardinality(Upto(i)) <= Cardinality(Upto(j))
          /\ (Cardinality(Upto(j)) = Cardinality(Upto(i)) => Upto(j) = Upto(i))
    <3>1. IsFiniteSet(Upto(j))
      BY <1>2
    <3> HIDE DEF Upto
    <3> QED
      BY <2>1, <3>1, FS_Subset
  <2> HIDE DEF Upto
  <2> QED
    BY <1>2, <2>1, <2>2
<1>5. \A i \in K : Rank(K, i) = Cardinality(Upto(i))
  BY DEF Rank
<1> HIDE DEF Upto
<1> QED
  BY <1>1, <1>2, <1>3, <1>4, <1>5

\* Every number up to the number of places is the rank of exactly one place.
LEMMA KthPlace ==
  ASSUME NEW n \in Nat, NEW K \in SUBSET (1 .. n)
  PROVE  /\ \A k \in 1 .. Cardinality(K) : Kth(K, k) \in K /\ Rank(K, Kth(K, k)) = k
         /\ \A i \in K : Kth(K, Rank(K, i)) = i
<1> DEFINE c == Cardinality(K)
           rank == [i \in K |-> Rank(K, i)]
<1>1. c \in Nat /\ IsFiniteSet(1 .. c) /\ Cardinality(1 .. c) = c
  <2>1. c \in Nat
    BY RankGrows
  <2> HIDE DEF c
  <2> QED
    BY <2>1, FS_Interval
<1>2. ASSUME NEW i \in K, NEW j \in K, Rank(K, i) = Rank(K, j) PROVE i = j
  <2>1. i \in Int /\ j \in Int
    OBVIOUS
  <2>2. Cardinality(K) \in Nat /\ Rank(K, i) \in 1 .. Cardinality(K)
          /\ (i < j => Rank(K, i) < Rank(K, j))
          /\ (j < i => Rank(K, j) < Rank(K, i))
    BY RankGrows, Zenon
  <2> QED
    BY <1>2, <2>1, <2>2
<1>3. rank \in Injection(K, 1 .. c)
  BY <1>2, RankGrows DEF Injection, IsInjective
<1>4. rank \in Surjection(K, 1 .. c)
  <2>1. Cardinality(K) = Cardinality(1 .. c)
    BY <1>1
  <2> HIDE DEF rank, c
  <2> QED
    BY <1>1, <1>3, <2>1, FS_Injection
<1>5. ASSUME NEW k \in 1 .. c PROVE \E i \in K : Rank(K, i) = k
  <2>1. PICK i \in K : rank[i] = k
    BY <1>4 DEF Surjection
  <2> QED
    BY <2>1
<1> QED
  BY <1>2, <1>5, RankGrows DEF Kth

\* Only(s, S) lists the elements of s that are in S, one for each place in s
\* where there is one, in their order.
LEMMA OnlyPlaces ==
  ASSUME NEW X, NEW s \in Seq(X), NEW S
  PROVE  \E p \in [DOMAIN Only(s, S) -> KeptIn(s, S)] :
           /\ \A k \in DOMAIN Only(s, S) : Only(s, S)[k] = s[p[k]]
           /\ \A i \in KeptIn(s, S) : \E k \in DOMAIN Only(s, S) : p[k] = i
           /\ \A k, l \in DOMAIN Only(s, S) : k < l => p[k] < p[l]
<1> DEFINE K == KeptIn(s, S)
           c == Cardinality(K)
           p == [k \in 1 .. c |-> Kth(K, k)]
<1>1. Len(s) \in Nat /\ K \in SUBSET (1 .. Len(s))
  BY DEF KeptIn
<1>2. c \in Nat /\ DOMAIN Only(s, S) = 1 .. c
  BY <1>1, RankGrows DEF Only
<1>3. p \in [1 .. c -> K]
  BY <1>1, KthPlace
<1>4. \A k \in 1 .. c : Only(s, S)[k] = s[p[k]]
  BY DEF Only
<1>5. \A i \in K : \E k \in 1 .. c : p[k] = i
  BY <1>1, RankGrows, KthPlace
<1>6. ASSUME NEW k \in 1 .. c, NEW l \in 1 .. c, k < l PROVE p[k] < p[l]
  <2>1. /\ Kth(K, k) \in K /\ Rank(K, Kth(K, k)) = k
        /\ Kth(K, l) \in K /\ Rank(K, Kth(K, l)) = l
    BY <1>1, KthPlace
  <2>2. Kth(K, l) < Kth(K, k) => l < k
    BY <1>1, <2>1, RankGrows
  <2>3. Kth(K, l) \in Nat /\ Kth(K, k) \in Nat
    BY <1>1, <2>1
  <2>4. Kth(K, l) # Kth(K, k)
    BY <1>6, <2>1
  <2> QED
    BY <1>6, <2>2, <2>3, <2>4
<1> HIDE DEF K, c, p
<1>7. K = KeptIn(s, S)
  BY DEF K
<1> QED
  BY <1>2, <1>3, <1>4, <1>5, <1>6, <1>7

\* Only(s, S) is a sequence of the elements of s that are in S, and lists none
\* twice if s does not.
LEMMA OnlyKeeps ==
  ASSUME NEW X, NEW s \in Seq(X), NEW S
  PROVE  /\ Only(s, S) \in Seq(X)
         /\ ToSet(Only(s, S)) = ToSet(s) \cap S
         /\ IsInjective(s) => IsInjective(Only(s, S))
<1>1. PICK p \in [DOMAIN Only(s, S) -> KeptIn(s, S)] :
         /\ \A k \in DOMAIN Only(s, S) : Only(s, S)[k] = s[p[k]]
         /\ \A i \in KeptIn(s, S) : \E k \in DOMAIN Only(s, S) : p[k] = i
         /\ \A k, l \in DOMAIN Only(s, S) : k < l => p[k] < p[l]
  BY OnlyPlaces
<1>2. PICK c \in Nat : DOMAIN Only(s, S) = 1 .. c
  <2>1. Len(s) \in Nat /\ KeptIn(s, S) \in SUBSET (1 .. Len(s))
    BY DEF KeptIn
  <2> QED
    BY <2>1, RankGrows DEF Only
<1>3. Only(s, S) = [k \in 1 .. c |-> Only(s, S)[k]]
  BY <1>2 DEF Only
<1>4. \A i \in KeptIn(s, S) : i \in 1 .. Len(s) /\ s[i] \in X /\ s[i] \in S
  BY DEF KeptIn
<1>5. Only(s, S) \in Seq(X)
  <2> DEFINE F == Only(s, S)
  <2>1. \A k \in 1 .. c : F[k] \in X
    BY <1>1, <1>2, <1>4
  <2>2. F = [k \in 1 .. c |-> F[k]]
    BY <1>3
  <2> HIDE DEF F
  <2>3. F \in [1 .. c -> X]
    BY <2>1, <2>2
  <2>4. F \in Seq(X)
    BY <2>3
  <2> QED
    BY <2>4 DEF F
<1>6. ToSet(Only(s, S)) = ToSet(s) \cap S
  BY <1>1 DEF ToSet, KeptIn
<1>7. ASSUME IsInjective(s) PROVE IsInjective(Only(s, S))
  <2>1. ASSUME NEW k \in 1 .. c, NEW l \in 1 .. c, p[k] = p[l] PROVE k = l
    <3>1. p[k] \in Int /\ k \in Int /\ l \in Int
      BY <1>1, <1>2, <1>4
    <3>2. (k < l => p[k] < p[l]) /\ (l < k => p[l] < p[k])
      BY <1>1, <1>2
    <3> QED
      BY <2>1, <3>1, <3>2
  <2> QED
    BY <1>1, <1>2, <1>4, <1>7, <2>1 DEF IsInjective
<1> QED
  BY <1>5, <1>6, <1>7

\* A sequence that lists nothing twice is as long as it has elements.
LEMMA LengthOfInjective ==
  ASSUME NEW X, NEW s \in Seq(X), IsInjective(s)
  PROVE  IsFiniteSet(ToSet(s)) /\ Cardinality(ToSet(s)) = Len(s)
<1>1. Len(s) \in Nat /\ DOMAIN s = 1 .. Len(s)
  OBVIOUS
<1>2. s \in Bijection(1 .. Len(s), ToSet(s))
  BY <1>1 DEF Bijection, Injection, Surjection, IsInjective, ToSet
<1>3. ExistsBijection(1 .. Len(s), ToSet(s))
  BY <1>2 DEF ExistsBijection
<1> QED
  BY <1>1, <1>3, FS_CountingElements, FS_NatBijection

\* Two sequences without repetitions and without a common element make one.
LEMMA DisjointConcat ==
  ASSUME NEW X, NEW s \in Seq(X), NEW t \in Seq(X),
         IsInjective(s), IsInjective(t), ToSet(s) \cap ToSet(t) = {}
  PROVE  s \o t \in Seq(X) /\ IsInjective(s \o t) /\ ToSet(s \o t) = ToSet(s) \cup ToSet(t)
<1> DEFINE u == s \o t
           m == Len(s)
           n == Len(t)
<1>1. /\ u \in Seq(X) /\ m \in Nat /\ n \in Nat /\ DOMAIN u = 1 .. m + n
      /\ DOMAIN s = 1 .. m /\ DOMAIN t = 1 .. n
      /\ \A i \in 1 .. m : u[i] = s[i]
      /\ \A i \in 1 .. n : u[m + i] = t[i]
  OBVIOUS
<1> HIDE DEF u, m, n
<1>2. ASSUME NEW i \in 1 .. m + n, i \notin 1 .. m PROVE \E j \in 1 .. n : i = m + j
  BY <1>1, <1>2
<1>3. ToSet(u) = ToSet(s) \cup ToSet(t)
  <2>1. ASSUME NEW i \in DOMAIN u PROVE u[i] \in ToSet(s) \cup ToSet(t)
    <3>1. CASE i \in 1 .. m
      BY <1>1, <3>1 DEF ToSet
    <3>2. CASE i \notin 1 .. m
      <4>1. PICK k \in 1 .. n : i = m + k
        BY <1>1, <1>2, <3>2
      <4> QED
        BY <1>1, <4>1 DEF ToSet
    <3> QED
      BY <3>1, <3>2
  <2>2. \A i \in 1 .. n : m + i \in DOMAIN u
    BY <1>1
  <2>3. ToSet(s) \subseteq ToSet(u)
    BY <1>1 DEF ToSet
  <2>4. ToSet(t) \subseteq ToSet(u)
    BY <1>1, <2>2 DEF ToSet
  <2>5. ToSet(u) \subseteq ToSet(s) \cup ToSet(t)
    BY <2>1 DEF ToSet
  <2> QED
    BY <2>3, <2>4, <2>5
<1>4. IsInjective(u)
  <2>1. \A i \in 1 .. m, j \in 1 .. n : s[i] # t[j]
    BY <1>1 DEF ToSet
  <2>2. ASSUME NEW i \in DOMAIN u, NEW j \in DOMAIN u, u[i] = u[j] PROVE i = j
    <3>1. CASE i \in 1 .. m /\ j \in 1 .. m
      BY <1>1, <2>2, <3>1 DEF IsInjective
    <3>2. CASE i \notin 1 .. m /\ j \notin 1 .. m
      <4>1. PICK k \in 1 .. n, l \in 1 .. n : i = m + k /\ j = m + l
        BY <1>1, <1>2, <3>2
      <4>2. t[k] = t[l]
        BY <1>1, <2>2, <4>1
      <4> QED
        BY <1>1, <4>1, <4>2 DEF IsInjective
    <3>3. CASE i \in 1 .. m /\ j \notin 1 .. m
      <4>1. PICK l \in 1 .. n : j = m + l
        BY <1>1, <1>2, <3>3
      <4> QED
        BY <1>1, <2>1, <2>2, <3>3, <4>1
    <3>4. CASE i \notin 1 .. m /\ j \in 1 .. m
      <4>1. PICK k \in 1 .. n : i = m + k
        BY <1>1, <1>2, <3>4
      <4> QED
        BY <1>1, <2>1, <2>2, <3>4, <4>1
    <3> QED
      BY <3>1, <3>2, <3>3, <3>4
  <2> QED
    BY <2>2 DEF IsInjective
<1> QED
  BY <1>1, <1>3, <1>4 DEF u

\* FlattenSeq joins one sequence after the other.
LEMMA FlattenUnfolds ==
  ASSUME NEW X, NEW seqs \in Seq(Seq(X)), seqs # <<>>
  PROVE  \E fl \in [1 .. Len(seqs) -> Seq(X)] :
           /\ FlattenSeq(seqs) = fl[Len(seqs)]
           /\ fl[1] = seqs[1]
           /\ \A i \in 1 .. Len(seqs) : i # 1 => fl[i] = fl[i - 1] \o seqs[i]
<1> DEFINE L == Len(seqs)
           Joins(k, f) == f = [i \in 1 .. k |-> IF i = 1 THEN seqs[i] ELSE f[i - 1] \o seqs[i]]
           bad == {k \in 1 .. L : ~\E f \in [1 .. k -> Seq(X)] : Joins(k, f)}
<1>1. L \in Nat \ {0} /\ \A i \in 1 .. L : seqs[i] \in Seq(X)
  OBVIOUS
<1>2. bad = {}
  <2> SUFFICES ASSUME bad # {} PROVE FALSE
    OBVIOUS
  <2>1. bad \in SUBSET Nat
    <3> HIDE DEF Joins
    <3>1. \A k \in 1 .. L : k \in Nat
      BY <1>1
    <3> QED
      BY <3>1, Zenon
  <2> HIDE DEF bad, L
  <2>2. PICK k \in bad : \A y \in bad : k <= y
    BY <2>1, NatMin
  <2>3. k \in 1 .. L /\ ~\E f \in [1 .. k -> Seq(X)] : Joins(k, f)
    BY <2>2 DEF bad
  <2>4. CASE k = 1
    <3> DEFINE f == [i \in 1 .. 1 |-> seqs[i]]
    <3>1. f \in [1 .. k -> Seq(X)] /\ Joins(k, f)
      BY <1>1, <2>4
    <3> QED
      BY <2>3, <3>1
  <2>5. CASE k # 1
    <3>1. k - 1 \in 1 .. L /\ k - 1 \notin bad /\ k \in Nat
      <4>1. k - 1 \in 1 .. L /\ ~(k <= k - 1) /\ k \in Nat
        BY <1>1, <2>3, <2>5
      <4> QED
        BY <2>2, <4>1
    <3>2. PICK f \in [1 .. k - 1 -> Seq(X)] : Joins(k - 1, f)
      BY <3>1 DEF bad
    <3> DEFINE g == [i \in 1 .. k |-> IF i = k THEN f[k - 1] \o seqs[k] ELSE f[i]]
    <3>3. f[k - 1] \in Seq(X) /\ seqs[k] \in Seq(X)
      BY <1>1, <2>3, <2>5, <3>2
    <3>4. g \in [1 .. k -> Seq(X)]
      <4>1. f[k - 1] \o seqs[k] \in Seq(X)
        BY <3>3
      <4>2. \A i \in 1 .. k : i # k => i \in 1 .. k - 1
        BY <3>1
      <4> QED
        BY <3>2, <4>1, <4>2
    <3>5. \A i \in 1 .. k : g[i] = IF i = 1 THEN seqs[i] ELSE g[i - 1] \o seqs[i]
      <4>1. \A i \in 1 .. k - 1 : f[i] = IF i = 1 THEN seqs[i] ELSE f[i - 1] \o seqs[i]
        BY <3>2, Zenon
      <4>2. ASSUME NEW i \in 1 .. k PROVE g[i] = IF i = 1 THEN seqs[i] ELSE g[i - 1] \o seqs[i]
        <5>1. CASE i = k
          <6>1. k - 1 \in 1 .. k /\ k - 1 # k
            BY <2>5, <3>1
          <6>2. g[k - 1] = f[k - 1] /\ g[k] = f[k - 1] \o seqs[k]
            BY <6>1, <2>3, <5>1
          <6> HIDE DEF g
          <6> QED
            BY <2>5, <5>1, <6>2
        <5>2. CASE i # k
          <6>1. i \in 1 .. k - 1 /\ g[i] = f[i]
            BY <3>1, <5>2
          <6>2. i # 1 => i - 1 \in 1 .. k /\ i - 1 # k /\ g[i - 1] = f[i - 1]
            BY <3>1, <5>2
          <6> HIDE DEF g
          <6> QED
            BY <4>1, <6>1, <6>2
        <5> QED
          BY <5>1, <5>2
      <4> QED
        BY <4>2
    <3>6. Joins(k, g)
      <4>1. g = [i \in 1 .. k |-> g[i]]
        OBVIOUS
      <4> HIDE DEF g
      <4> QED
        BY <3>5, <4>1
    <3> QED
      BY <2>3, <3>4, <3>6
  <2> QED
    BY <2>4, <2>5
<1>3. PICK f \in [1 .. L -> Seq(X)] : Joins(L, f)
  <2>1. L \in 1 .. L
    BY <1>1
  <2> QED
    BY <1>2, <2>1
<1> DEFINE fl == CHOOSE h : Joins(L, h)
<1>4. Joins(L, fl)
  <2> HIDE DEF Joins
  <2> QED
    BY <1>3, Zenon
<1>5. FlattenSeq(seqs) = fl[L]
  BY DEF FlattenSeq
<1> HIDE DEF fl
<1>6. \A i \in 1 .. L : fl[i] = IF i = 1 THEN seqs[i] ELSE fl[i - 1] \o seqs[i]
  BY <1>4, Zenon
<1>7. \A i \in 1 .. L : fl[i] \in Seq(X)
  <2> DEFINE odd == {i \in 1 .. L : fl[i] \notin Seq(X)}
  <2> SUFFICES ASSUME odd # {} PROVE FALSE
    OBVIOUS
  <2>1. odd \in SUBSET Nat
    OBVIOUS
  <2> HIDE DEF odd, L
  <2>2. PICK k \in odd : \A y \in odd : k <= y
    BY <2>1, NatMin
  <2>3. k \in 1 .. L /\ fl[k] \notin Seq(X)
    BY <2>2 DEF odd
  <2>4. k # 1
    BY <1>1, <1>6, <2>3
  <2>5. k - 1 \in 1 .. L /\ ~(k <= k - 1)
    BY <1>1, <2>3, <2>4
  <2>6. fl[k - 1] \in Seq(X)
    BY <2>2, <2>5 DEF odd
  <2>7. fl[k - 1] \o seqs[k] \in Seq(X)
    BY <1>1, <2>3, <2>6
  <2> QED
    BY <1>6, <2>3, <2>4, <2>7
<1>8. fl \in [1 .. L -> Seq(X)]
  <2>1. fl = [i \in 1 .. L |-> fl[i]]
    BY <1>4
  <2> QED
    BY <1>7, <2>1
<1>9. 1 \in 1 .. L
  BY <1>1
<1> HIDE DEF Joins
<1> QED
  BY <1>5, <1>6, <1>8, <1>9

\* the places at which x stands in s
Places(s, x) == {k \in DOMAIN s : s[k] = x}

\* What stands in one of the sequences, and in no other, stands in all of them
\* together at the places it has there, shifted.
LEMMA FlattenBlock ==
  ASSUME NEW X, NEW seqs \in Seq(Seq(X)), NEW x, NEW j \in DOMAIN seqs,
         \A i \in DOMAIN seqs : i # j => Places(seqs[i], x) = {}
  PROVE  \E p \in Int : \A k :
           k \in Places(FlattenSeq(seqs), x) <=> \E l \in Places(seqs[j], x) : k = p + l
<1> DEFINE L == Len(seqs)
           At(s) == Places(s, x)
           From(p) == {p + k : k \in At(seqs[j])}
<1>1. L \in Nat /\ j \in 1 .. L /\ \A i \in 1 .. L : seqs[i] \in Seq(X)
  OBVIOUS
<1>2. PICK fl \in [1 .. L -> Seq(X)] :
        /\ FlattenSeq(seqs) = fl[L]
        /\ fl[1] = seqs[1]
        /\ \A i \in 1 .. L : i # 1 => fl[i] = fl[i - 1] \o seqs[i]
  <2>1. seqs # <<>>
    BY <1>1
  <2>2. \E fl \in [1 .. Len(seqs) -> Seq(X)] :
           /\ FlattenSeq(seqs) = fl[Len(seqs)]
           /\ fl[1] = seqs[1]
           /\ \A i \in 1 .. Len(seqs) : i # 1 => fl[i] = fl[i - 1] \o seqs[i]
    BY ONLY <2>1, seqs \in Seq(Seq(X)), FlattenUnfolds, Zenon
  <2> QED
    BY <2>2, Zenon
<1>3. ASSUME NEW s \in Seq(X), NEW t \in Seq(X)
      PROVE  At(s \o t) = At(s) \cup {Len(s) + k : k \in At(t)}
  <2>1. /\ Len(s) \in Nat /\ Len(t) \in Nat
        /\ DOMAIN s = 1 .. Len(s) /\ DOMAIN t = 1 .. Len(t) /\ DOMAIN (s \o t) = 1 .. Len(s) + Len(t)
        /\ \A i \in 1 .. Len(s) : (s \o t)[i] = s[i]
        /\ \A i \in 1 .. Len(t) : (s \o t)[Len(s) + i] = t[i]
    OBVIOUS
  <2>2. ASSUME NEW i \in 1 .. Len(s) + Len(t), i \notin 1 .. Len(s)
        PROVE  \E k \in 1 .. Len(t) : i = Len(s) + k
    <3>1. i - Len(s) \in 1 .. Len(t) /\ i = Len(s) + (i - Len(s))
      BY <2>1, <2>2
    <3> QED
      BY <3>1
  <2>3. At(s) \subseteq At(s \o t)
    BY <2>1 DEF Places
  <2>4. {Len(s) + k : k \in At(t)} \subseteq At(s \o t)
    BY <2>1 DEF Places
  <2>5. ASSUME NEW i \in At(s \o t) PROVE i \in At(s) \/ \E k \in At(t) : i = Len(s) + k
    <3>1. CASE i \in 1 .. Len(s)
      BY <2>1, <3>1 DEF Places
    <3>2. CASE i \notin 1 .. Len(s)
      <4>1. i \in 1 .. Len(s) + Len(t)
        BY <2>1 DEF Places
      <4>2. PICK k \in 1 .. Len(t) : i = Len(s) + k
        BY <2>2, <3>2, <4>1
      <4> QED
        BY <2>1, <4>2 DEF Places
    <3> QED
      BY <3>1, <3>2
  <2> HIDE DEF At
  <2> QED
    BY <2>3, <2>4, <2>5
<1>4. At(seqs[j]) \subseteq Int /\ \A i \in 1 .. L : i # j => At(seqs[i]) = {}
  <2>1. seqs[j] \in Seq(X)
    BY <1>1
  <2>2. At(seqs[j]) \subseteq Int
    BY <2>1 DEF Places
  <2> QED
    BY <1>1, <2>2
<1> DEFINE bad == {i \in 1 .. L : ~(IF i < j THEN At(fl[i]) = {} ELSE \E p \in Int : At(fl[i]) = From(p))}
<1>5. bad = {}
  <2> SUFFICES ASSUME bad # {} PROVE FALSE
    OBVIOUS
  <2>1. bad \in SUBSET Nat
    <3>1. \A k \in 1 .. L : k \in Nat
      BY <1>1
    <3> HIDE DEF At, L
    <3> QED
      BY <3>1, Zenon
  <2> HIDE DEF bad, L, At, From
  <2>2. PICK i \in bad : \A y \in bad : i <= y
    BY <2>1, NatMin
  <2>3. i \in 1 .. L /\ ~(IF i < j THEN At(fl[i]) = {} ELSE \E p \in Int : At(fl[i]) = From(p))
    BY <2>2 DEF bad
  <2>4. CASE i = 1
    <3>1. i < j => i # j
      BY <1>1, <2>3
    <3>2. ~(i < j) => i = j
      BY <1>1, <2>4
    <3>3. i = j => At(fl[i]) = From(0)
      <4>1. i = j => At(fl[i]) = At(seqs[j])
        BY <1>2, <2>4
      <4>2. From(0) = At(seqs[j])
        BY <1>4 DEF From
      <4> QED
        BY <4>1, <4>2
    <3>4. i # j => At(fl[i]) = {}
      BY <1>2, <1>4, <2>3, <2>4
    <3> QED
      BY <2>3, <3>1, <3>2, <3>3, <3>4
  <2>5. CASE i # 1
    <3>1. i - 1 \in 1 .. L /\ ~(i <= i - 1) /\ i \in Int /\ j \in Int
      BY <1>1, <2>3, <2>5
    <3>2. IF i - 1 < j THEN At(fl[i - 1]) = {} ELSE \E p \in Int : At(fl[i - 1]) = From(p)
      BY <2>2, <3>1 DEF bad
    <3>3. fl[i - 1] \in Seq(X) /\ seqs[i] \in Seq(X) /\ Len(fl[i - 1]) \in Int
      BY <1>1, <1>2, <2>3, <3>1
    <3>4. At(fl[i]) = At(fl[i - 1]) \cup {Len(fl[i - 1]) + k : k \in At(seqs[i])}
      BY <1>2, <1>3, <2>3, <2>5, <3>3
    <3>5. CASE i < j
      <4>0. i # j /\ i - 1 < j
        BY <3>1, <3>5
      <4>1. At(seqs[i]) = {} /\ At(fl[i - 1]) = {}
        BY <1>4, <2>3, <3>2, <4>0
      <4> QED
        BY <2>3, <3>4, <3>5, <4>1
    <3>6. CASE i = j
      <4>1. At(fl[i - 1]) = {}
        BY <3>1, <3>2, <3>6
      <4>2. At(fl[i]) = From(Len(fl[i - 1])) /\ ~(i < j)
        BY <3>1, <3>4, <3>6, <4>1 DEF From
      <4> QED
        BY <2>3, <3>3, <4>2
    <3>7. CASE i > j
      <4>0. i # j /\ ~(i - 1 < j) /\ ~(i < j)
        BY <3>1, <3>7
      <4>1. At(seqs[i]) = {}
        BY <1>4, <2>3, <4>0
      <4> QED
        BY <2>3, <3>2, <3>4, <4>0, <4>1
    <3> QED
      BY <3>1, <3>5, <3>6, <3>7
  <2> QED
    BY <2>4, <2>5
<1>6. PICK p \in Int : At(fl[L]) = From(p)
  <2>1. L \in 1 .. L /\ ~(L < j)
    BY <1>1
  <2> HIDE DEF At, L, From
  <2> QED
    BY <1>5, <2>1
<1>7. \A k : k \in At(fl[L]) <=> \E l \in At(seqs[j]) : k = p + l
  BY <1>6
<1> QED
  BY <1>2, <1>7
=============================================================================
