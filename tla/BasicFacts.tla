----------------------------- MODULE BasicFacts -----------------------------
(* Facts that the proofs about several modules need: division with a       *)
(* remainder, induction over finite sets, sequences end to end, and sums.  *)
(*                                                                         *)
(* What is computed by recursion is reached by the least natural number    *)
(* that would be an exception.                                             *)
EXTENDS Integers, Sequences, FiniteSets, SequencesExt, FiniteSetTheorems,
        SequenceTheorems, WellFoundedInduction, TLAPS
-----------------------------------------------------------------------------
(* Division with a remainder.                                              *)

(* What the provers know of \div and %. *)
LEMMA DivisionWithRemainder ==
    ASSUME NEW m \in Nat, NEW n \in Nat \ {0}
    PROVE  /\ m \div n \in Nat /\ m % n \in 0..n-1 /\ m = n * (m \div n) + (m % n)
OBVIOUS

(* Multiples of n that differ are at least n apart. *)
LEMMA MultiplesApart ==
    ASSUME NEW n \in Nat \ {0}, NEW p \in Int, NEW q \in Int, p + 1 <= q
    PROVE  n * p + n <= n * q
<1>1. PICK d \in Nat : q = p + 1 + d
  <2>. q - p - 1 \in Nat /\ q = p + 1 + (q - p - 1)
    OBVIOUS
  <2>. QED
    OBVIOUS
<1>2. n * q = n * p + n + n * d
  BY <1>1
<1>3. n * d \in Nat
  OBVIOUS
<1>. QED
  BY <1>2, <1>3

(* The remainder is unique. *)
LEMMA RemainderUnique ==
    ASSUME NEW n \in Nat \ {0}, NEW p \in Int, NEW q \in Int, NEW r \in 0..n-1, NEW s \in 0..n-1,
           n * p + r = n * q + s
    PROVE  r = s
<1>. n * p \in Int /\ n * q \in Int
  OBVIOUS
<1>1. CASE p + 1 <= q
  BY <1>1, MultiplesApart
<1>2. CASE q + 1 <= p
  BY <1>2, MultiplesApart
<1>3. CASE p = q
  BY <1>3
<1>. QED
  BY <1>1, <1>2, <1>3

(* The remainder of the next number. *)
LEMMA RemainderOfSuccessor ==
    ASSUME NEW m \in Nat, NEW n \in Nat, n > 1 
    PROVE  (m + 1) % n = IF m % n = n - 1 THEN 0 ELSE (m % n) + 1
<1>. n \in Nat \ {0} /\ m + 1 \in Nat
  OBVIOUS
<1>1. PICK q \in Int : \E r \in 0..n-1 : r = m % n /\ m = n * q + r
  <2>1. m \div n \in Int /\ m % n \in 0..n-1 /\ m = n * (m \div n) + (m % n)
    BY DivisionWithRemainder
  <2>. QED
    BY <2>1
<1>2. PICK p \in Int : \E s \in 0..n-1 : s = (m + 1) % n /\ m + 1 = n * p + s
  <2>1. (m + 1) \div n \in Int /\ (m + 1) % n \in 0..n-1 /\ m + 1 = n * ((m + 1) \div n) + ((m + 1) % n)
    BY DivisionWithRemainder
  <2>. QED
    BY <2>1
<1>3. PICK r \in 0..n-1 : r = m % n /\ m = n * q + r
  BY <1>1
<1>4. PICK s \in 0..n-1 : s = (m + 1) % n /\ m + 1 = n * p + s
  BY <1>2
<1>5. n * q \in Int /\ n * p \in Int /\ n * (q + 1) = n * q + n
  OBVIOUS
<1>6. CASE r = n - 1
  <2>1. n * p + s = n * (q + 1) + 0 /\ 0 \in 0..n-1
    BY <1>3, <1>4, <1>5, <1>6
  <2>2. s = 0
    BY <2>1, RemainderUnique
  <2>. QED
    BY <1>3, <1>4, <1>6, <2>2
<1>7. CASE r # n - 1
  <2>1. n * p + s = n * q + (r + 1) /\ r + 1 \in 0..n-1
    BY <1>3, <1>4, <1>5, <1>7
  <2>2. s = r + 1
    BY <2>1, RemainderUnique
  <2>. QED
    BY <1>3, <1>4, <1>7, <2>2
<1>. QED
  BY <1>6, <1>7

-----------------------------------------------------------------------------
(* Induction and sequences.                                                *)

(* Induction, as the existence of least elements.                          *)
LEMMA LeastNatural ==
    ASSUME NEW S \in SUBSET Nat, S # {}
    PROVE  \E m \in S : \A n \in S : m <= n
<1>1. PICK m \in S : \A n \in S : <<n, m>> \notin OpToRel(<, Nat)
  BY NatLessThanWellFounded, WFMin
<1>2. \A n \in S : ~(n < m)
  BY <1>1 DEF OpToRel
<1>3. \A n \in S : m <= n
  BY <1>2
<1> QED
  BY <1>3

LEMMA PowersOfTwo == \A n \in Nat : 2^n \in Nat
<1> SUFFICES ASSUME NEW n \in Nat PROVE 2^n \in Nat
  OBVIOUS
<1>1. IsFiniteSet(1..n) /\ Cardinality(1..n) = n
  BY FS_Interval
<1>2. IsFiniteSet(SUBSET (1..n)) /\ Cardinality(SUBSET (1..n)) = 2^n
  BY <1>1, FS_SUBSET
<1> QED
  BY <1>2, FS_CardinalityType

(* A set with zero and every successor up to N is 0..N.                    *)
LEMMA SetInduction ==
    ASSUME NEW N \in Nat, NEW S \in SUBSET (0..N), 0 \in S,
           \A n \in S : n < N => n + 1 \in S
    PROVE  S = 0..N
<1>1. ASSUME (0..N) \ S # {} PROVE FALSE
  <2>1. PICK m \in (0..N) \ S : \A n \in (0..N) \ S : m <= n
    <3>1. (0..N) \ S \in SUBSET Nat
      OBVIOUS
    <3> QED
      BY <1>1, <3>1, LeastNatural
  <2>2. m # 0 /\ m - 1 \in 0..N
    BY <2>1
  <2>3. m - 1 \in S
    BY <2>1, <2>2
  <2> QED
    BY <2>1, <2>2, <2>3
<1> QED
  BY <1>1

(* Two sequences on end have the elements of both.                         *)
LEMMA RangeOfConcat ==
    ASSUME NEW S, NEW s \in Seq(S), NEW t \in Seq(S)
    PROVE  Range(s \o t) = Range(s) \union Range(t)
<1> DEFINE u == s \o t
<1>1. /\ Len(s) \in Nat /\ Len(t) \in Nat /\ Len(u) = Len(s) + Len(t)
      /\ DOMAIN s = 1..Len(s) /\ DOMAIN t = 1..Len(t) /\ DOMAIN u = 1..Len(u)
  OBVIOUS
<1>2. /\ \A k \in 1..Len(s) : u[k] = s[k]
      /\ \A k \in 1..Len(t) : u[Len(s) + k] = t[k]
      /\ \A k \in 1..Len(u) : k > Len(s) => u[k] = t[k - Len(s)]
  OBVIOUS
<1> HIDE DEF u
<1>3. ASSUME NEW k \in 1..Len(u) PROVE u[k] \in Range(s) \union Range(t)
  <2>1. CASE k <= Len(s)
    BY <1>1, <1>2, <2>1 DEF Range
  <2>2. CASE k > Len(s)
    <3>1. k - Len(s) \in DOMAIN t
      BY <1>1, <2>2
    <3> QED
      BY <1>2, <2>2, <3>1 DEF Range
  <2> QED
    BY <1>1, <2>1, <2>2
<1>4. ASSUME NEW k \in 1..Len(s) PROVE s[k] \in Range(u)
  <2>1. k \in DOMAIN u
    BY <1>1
  <2> QED
    BY <1>2, <2>1 DEF Range
<1>5. ASSUME NEW k \in 1..Len(t) PROVE t[k] \in Range(u)
  <2>1. Len(s) + k \in DOMAIN u
    BY <1>1
  <2> QED
    BY <1>2, <2>1 DEF Range
<1> QED
  BY <1>1, <1>3, <1>4, <1>5 DEF Range, u

(* FlattenSeq appends one sequence after the other.                        *)
LEMMA FlattenedByParts ==
    ASSUME NEW S, NEW seqs \in Seq(Seq(S))
    PROVE  \E P \in [0..Len(seqs) -> Seq(S)] :
               /\ P[0] = <<>>
               /\ \A k \in 1..Len(seqs) : P[k] = P[k - 1] \o seqs[k]
               /\ P[Len(seqs)] = FlattenSeq(seqs)
<1> DEFINE n == Len(seqs)
           Flat(m, f) == f = [i \in 1..m |-> IF i = 1 THEN seqs[i]
                                             ELSE f[i - 1] \o seqs[i]]
           Has == {m \in 0..n : \E f : Flat(m, f)}
<1>1. n \in Nat /\ DOMAIN seqs = 1..n /\ \A k \in 1..n : seqs[k] \in Seq(S)
  OBVIOUS
<1> HIDE DEF n
<1>2. Has = 0..n
  <2>1. 0 \in Has
    <3>1. Flat(0, [i \in 1..0 |-> <<>>])
      OBVIOUS
    <3> HIDE DEF Flat
    <3> QED
      BY <1>1, <3>1
  <2>2. ASSUME NEW m \in Has, m < n PROVE m + 1 \in Has
    <3>1. m \in Nat /\ m + 1 \in 0..n
      BY <1>1, <2>2
    <3>2. PICK f : Flat(m, f)
      OBVIOUS
    <3> DEFINE g == [i \in 1..(m + 1) |-> IF i <= m THEN f[i]
                                          ELSE IF i = 1 THEN seqs[i]
                                          ELSE f[i - 1] \o seqs[i]]
    <3>3. ASSUME NEW i \in 1..(m + 1)
          PROVE  g[i] = IF i = 1 THEN seqs[i] ELSE g[i - 1] \o seqs[i]
      <4>1. CASE i <= m
        <5>1. i \in 1..m /\ (i # 1 => i - 1 \in 1..m)
          BY <3>1, <4>1
        <5>2. f[i] = IF i = 1 THEN seqs[i] ELSE f[i - 1] \o seqs[i]
          BY <3>2, <5>1
        <5> QED
          BY <3>1, <5>1, <5>2
      <4>2. CASE i = m + 1
        BY <3>1, <4>2
      <4> QED
        BY <3>1, <4>1, <4>2
    <3>4. Flat(m + 1, g)
      BY <3>3
    <3> HIDE DEF Flat, g
    <3> QED
      BY <3>1, <3>4
  <2> HIDE DEF Has
  <2>3. Has \in SUBSET (0..n)
    BY DEF Has
  <2> QED
    BY <1>1, <2>1, <2>2, <2>3, SetInduction
<1>3. CASE n = 0
  <2>1. seqs = <<>>
    BY <1>1, <1>3 DEF n
  <2>2. FlattenSeq(seqs) = <<>>
    BY <2>1 DEF FlattenSeq
  <2> DEFINE P == [k \in 0..0 |-> <<>>]
  <2>3. P \in [0..0 -> Seq(S)] /\ P[0] = <<>>
    OBVIOUS
  <2>4. \A k \in 1..0 : P[k] = P[k - 1] \o seqs[k]
    OBVIOUS
  <2> HIDE DEF P
  <2> QED
    BY <1>3, <2>2, <2>3, <2>4 DEF n
<1>4. CASE n # 0
  <2> DEFINE flatten == CHOOSE f : Flat(n, f)
             P == [k \in 0..n |-> IF k = 0 THEN <<>> ELSE flatten[k]]
  <2>1. Flat(n, flatten)
    <3>1. \E f : Flat(n, f)
      <4>1. n \in Has
        <5> HIDE DEF Has
        <5> QED
          BY <1>1, <1>2
      <4> HIDE DEF Flat
      <4> QED
        BY <4>1
    <3> HIDE DEF Flat
    <3> QED
      BY <3>1
  <2>2. FlattenSeq(seqs) = flatten[n]
    BY <1>4 DEF FlattenSeq, n
  <2> HIDE DEF flatten
  <2>3. \A k \in 1..n : P[k] = P[k - 1] \o seqs[k]
    <3> SUFFICES ASSUME NEW k \in 1..n PROVE P[k] = P[k - 1] \o seqs[k]
      OBVIOUS
    <3>1. flatten[k] = IF k = 1 THEN seqs[k] ELSE flatten[k - 1] \o seqs[k]
      BY <2>1
    <3>2. seqs[k] \in Seq(S)
      BY <1>1
    <3>3. <<>> \o seqs[k] = seqs[k]
      BY <3>2, ConcatEmptySeq
    <3>4. P[k] = flatten[k]
          /\ P[k - 1] = IF k = 1 THEN <<>> ELSE flatten[k - 1]
      BY <1>1
    <3> HIDE DEF P
    <3> QED
      BY <3>1, <3>3, <3>4
  <2> HIDE DEF P
  <2> DEFINE Typed == {k \in 0..n : P[k] \in Seq(S)}
  <2>4. Typed = 0..n
    <3>1. 0 \in Typed
      BY <1>1 DEF P
    <3>2. ASSUME NEW k \in Typed, k < n PROVE k + 1 \in Typed
      <4>1. k + 1 \in 1..n /\ (k + 1) - 1 = k /\ P[k] \in Seq(S)
        BY <1>1, <3>2
      <4>2. P[k + 1] = P[k] \o seqs[k + 1]
        BY <2>3, <4>1
      <4>3. seqs[k + 1] \in Seq(S)
        BY <1>1, <4>1
      <4>4. P[k + 1] \in Seq(S)
        BY <4>1, <4>2, <4>3, ConcatProperties
      <4> QED
        BY <4>1, <4>4
    <3> HIDE DEF Typed
    <3>3. Typed \in SUBSET (0..n)
      BY DEF Typed
    <3> QED
      BY <1>1, <3>1, <3>2, <3>3, SetInduction
  <2>5. P \in [0..n -> Seq(S)]
    BY <2>4 DEF P
  <2>6. P[0] = <<>> /\ P[n] = FlattenSeq(seqs)
    BY <1>1, <1>4, <2>2 DEF P
  <2> QED
    BY <2>3, <2>5, <2>6 DEF n
<1> QED
  BY <1>3, <1>4

-----------------------------------------------------------------------------
(* Sums over finite sets.                                                  *)

(* A family of subsets that has the empty set, and with a set every set    *)
(* that has one element more, has them all.                                *)
LEMMA SubsetInduction ==
    ASSUME NEW U, IsFiniteSet(U), NEW F \in SUBSET SUBSET U, {} \in F,
           \A s \in F : \A x \in U \ s : s \union {x} \in F
    PROVE  F = SUBSET U
<1> DEFINE N == Cardinality(U)
           Upto == {k \in 0..N : \A s \in SUBSET U : Cardinality(s) = k => s \in F}
<1>1. N \in Nat /\ \A s \in SUBSET U : /\ IsFiniteSet(s)
                                       /\ Cardinality(s) \in 0..N
  <2>1. N \in Nat
    BY FS_CardinalityType
  <2>2. ASSUME NEW s \in SUBSET U
        PROVE  IsFiniteSet(s) /\ Cardinality(s) \in Nat /\ Cardinality(s) <= N
    BY FS_Subset, FS_CardinalityType
  <2> QED
    BY <2>1, <2>2
<1> HIDE DEF N
<1>2. 0 \in Upto
  BY <1>1, FS_EmptySet
<1>3. ASSUME NEW k \in Upto, k < N PROVE k + 1 \in Upto
  <2>1. k \in Nat /\ k + 1 \in 0..N
    BY <1>1, <1>3
  <2>2. ASSUME NEW s \in SUBSET U, Cardinality(s) = k + 1 PROVE s \in F
    <3>1. s # {}
      BY <2>1, <2>2, FS_EmptySet
    <3>2. PICK x \in s : TRUE
      BY <3>1
    <3> DEFINE t == s \ {x}
    <3>3. Cardinality(t) = Cardinality(s) - 1
      BY <1>1, FS_RemoveElement
    <3>4. t \in SUBSET U /\ Cardinality(t) = k
      BY <2>1, <2>2, <3>3
    <3> HIDE DEF t
    <3>5. t \in F
      BY <3>4
    <3>6. x \in U \ t /\ t \union {x} = s
      BY DEF t
    <3> QED
      BY <3>5, <3>6
  <2> QED
    BY <2>1, <2>2
<1> HIDE DEF Upto
<1>4. Upto = 0..N
  <2>1. Upto \in SUBSET (0..N)
    BY DEF Upto
  <2> QED
    BY <1>1, <1>2, <1>3, <2>1, SetInduction
<1> QED
  BY <1>1, <1>4 DEF Upto

(* What the sum over a set is computed with.                               *)
IsSum(f, S, g) ==
    g = [s \in SUBSET S |-> IF s = {} THEN 0
                            ELSE LET x == CHOOSE x \in s : TRUE
                                 IN  f[x] + g[s \ {x}]]

LEMMA SumComputed ==
    ASSUME NEW f, NEW S, IsFiniteSet(S)
    PROVE  \E g : /\ IsSum(f, S, g)
                  /\ SumFunctionOnSet(f, S) = g[S]
<1> DEFINE N == Cardinality(S)
           Layer(k) == {s \in SUBSET S : Cardinality(s) <= k}
           Picked(s) == CHOOSE x \in s : TRUE
           Is(k, g) == g = [s \in Layer(k) |-> IF s = {} THEN 0
                                ELSE f[Picked(s)] + g[s \ {Picked(s)}]]
           Has == {k \in 0..N : \E g : Is(k, g)}
<1>1. N \in Nat /\ \A s \in SUBSET S : /\ IsFiniteSet(s)
                                       /\ Cardinality(s) \in 0..N
  <2>1. N \in Nat
    BY FS_CardinalityType
  <2>2. ASSUME NEW s \in SUBSET S
        PROVE  IsFiniteSet(s) /\ Cardinality(s) \in Nat /\ Cardinality(s) <= N
    BY FS_Subset, FS_CardinalityType
  <2> QED
    BY <2>1, <2>2
<1> HIDE DEF N
<1>2. \A s \in SUBSET S : s # {} =>
         /\ Picked(s) \in s /\ s \ {Picked(s)} \in SUBSET S
         /\ Cardinality(s \ {Picked(s)}) = Cardinality(s) - 1
  <2> SUFFICES ASSUME NEW s \in SUBSET S, s # {}
               PROVE  /\ Picked(s) \in s /\ s \ {Picked(s)} \in SUBSET S
                      /\ Cardinality(s \ {Picked(s)}) = Cardinality(s) - 1
    OBVIOUS
  <2>1. Picked(s) \in s
    OBVIOUS
  <2> HIDE DEF Picked
  <2> QED
    BY <1>1, <2>1, FS_RemoveElement
<1> HIDE DEF Picked
<1>3. 0 \in Has
  <2> DEFINE g == [s \in Layer(0) |-> 0]
  <2>1. \A s \in Layer(0) : s = {}
    <3> SUFFICES ASSUME NEW s \in Layer(0) PROVE s = {}
      OBVIOUS
    <3>1. IsFiniteSet(s) /\ Cardinality(s) = 0
      BY <1>1
    <3> QED
      BY <3>1, FS_EmptySet
  <2>2. Is(0, g)
    BY <2>1
  <2> HIDE DEF Is, g
  <2> QED
    BY <1>1, <2>2
<1>4. ASSUME NEW k \in Has, k < N PROVE k + 1 \in Has
  <2>1. k \in Nat /\ k + 1 \in 0..N
    BY <1>1, <1>4
  <2>2. PICK g : Is(k, g)
    OBVIOUS
  <2> DEFINE h == [s \in Layer(k + 1) |->
                     IF Cardinality(s) <= k THEN g[s]
                     ELSE f[Picked(s)] + g[s \ {Picked(s)}]]
  <2>3. ASSUME NEW s \in Layer(k + 1)
        PROVE  h[s] = IF s = {} THEN 0
                      ELSE f[Picked(s)] + h[s \ {Picked(s)}]
    <3>1. s \in SUBSET S /\ Cardinality(s) \in Nat /\ Cardinality(s) <= k + 1
      BY <1>1
    <3>2. s # {} => /\ s \ {Picked(s)} \in Layer(k + 1)
                    /\ s \ {Picked(s)} \in Layer(k)
                    /\ h[s \ {Picked(s)}] = g[s \ {Picked(s)}]
      <4> HIDE DEF Is
      <4> QED
        BY <1>1, <1>2, <2>1, <3>1
    <3>3. CASE Cardinality(s) <= k
      <4>1. g[s] = IF s = {} THEN 0 ELSE f[Picked(s)] + g[s \ {Picked(s)}]
        <5>1. s \in Layer(k)
          BY <3>1, <3>3
        <5> HIDE DEF Layer
        <5> QED
          BY <2>2, <5>1
      <4> HIDE DEF Is, Layer
      <4> QED
        BY <3>2, <3>3, <4>1
    <3>4. CASE ~(Cardinality(s) <= k)
      <4>1. s # {}
        <5>1. Cardinality({}) <= k
          BY <2>1, FS_EmptySet
        <5> HIDE DEF Layer
        <5> QED
          BY <3>4, <5>1
      <4> HIDE DEF Is, Layer
      <4> QED
        BY <3>2, <3>4, <4>1
    <3> QED
      BY <3>3, <3>4
  <2>4. Is(k + 1, h)
    <3> HIDE DEF Layer
    <3>1. h = [s \in Layer(k + 1) |-> h[s]]
      OBVIOUS
    <3> HIDE DEF h
    <3> QED
      BY <2>3, <3>1
  <2> HIDE DEF Is, h
  <2> QED
    BY <2>1, <2>4
<1>5. Has = 0..N
  <2> HIDE DEF Has
  <2>1. Has \in SUBSET (0..N)
    BY DEF Has
  <2> QED
    BY <1>1, <1>3, <1>4, <2>1, SetInduction
<1>6. PICK g : Is(N, g)
  <2>1. N \in Has
    <3> HIDE DEF Has
    <3> QED
      BY <1>1, <1>5
  <2> HIDE DEF Is
  <2> QED
    BY <2>1
<1>7. IsSum(f, S, g)
  <2>1. Layer(N) = SUBSET S
    BY <1>1
  <2> HIDE DEF Layer
  <2> QED
    BY <1>6, <2>1 DEF IsSum, Picked
<1> DEFINE iter == CHOOSE g1 : IsSum(f, S, g1)
<1>8. IsSum(f, S, iter)
  BY <1>7
<1>9. SumFunctionOnSet(f, S) = iter[S]
  BY DEF SumFunctionOnSet, FoldFunctionOnSet, MapThenFoldSet, IsSum
<1> QED
  BY <1>8, <1>9

(* What is computed for a part of a set does not depend on the set.        *)
LEMMA SumOfPart ==
    ASSUME NEW f, NEW S, IsFiniteSet(S), NEW g, IsSum(f, S, g),
           NEW T \in SUBSET S
    PROVE  SumFunctionOnSet(f, T) = g[T]
<1>1. IsFiniteSet(T)
  BY FS_Subset
<1>2. PICK h : IsSum(f, T, h) /\ SumFunctionOnSet(f, T) = h[T]
  BY <1>1, SumComputed
<1> DEFINE N == Cardinality(T)
           Same == {k \in 0..N :
                      \A s \in SUBSET T : Cardinality(s) <= k => h[s] = g[s]}
<1>3. N \in Nat /\ \A s \in SUBSET T : /\ IsFiniteSet(s)
                                       /\ Cardinality(s) \in 0..N
  <2>1. N \in Nat
    BY <1>1, FS_CardinalityType
  <2>2. ASSUME NEW s \in SUBSET T
        PROVE  IsFiniteSet(s) /\ Cardinality(s) \in Nat /\ Cardinality(s) <= N
    BY <1>1, FS_Subset, FS_CardinalityType
  <2> QED
    BY <2>1, <2>2
<1> HIDE DEF N
<1>4. h[{}] = 0 /\ g[{}] = 0
  BY <1>2 DEF IsSum
<1>5. 0 \in Same
  <2>1. \A s \in SUBSET T : Cardinality(s) <= 0 => s = {}
    <3> SUFFICES ASSUME NEW s \in SUBSET T, Cardinality(s) <= 0 PROVE s = {}
      OBVIOUS
    <3>1. IsFiniteSet(s) /\ Cardinality(s) = 0
      BY <1>3
    <3> QED
      BY <3>1, FS_EmptySet
  <2> QED
    BY <1>3, <1>4, <2>1
<1>6. ASSUME NEW k \in Same, k < N PROVE k + 1 \in Same
  <2>1. k \in Nat /\ k + 1 \in 0..N
    BY <1>3, <1>6
  <2>2. ASSUME NEW s \in SUBSET T, Cardinality(s) <= k + 1 PROVE h[s] = g[s]
    <3>1. CASE s = {}
      BY <1>4, <3>1
    <3>2. CASE s # {}
      <4> DEFINE x == CHOOSE x \in s : TRUE
                 t == s \ {x}
      <4>1. x \in s
        BY <3>2
      <4>2. h[s] = f[x] + h[t] /\ g[s] = f[x] + g[t]
        <5>1. s \in SUBSET S
          OBVIOUS
        <5>2. h[s] = f[x] + h[t]
          BY <1>2, <3>2 DEF IsSum
        <5>3. g[s] = f[x] + g[t]
          BY <3>2, <5>1 DEF IsSum
        <5> QED
          BY <5>2, <5>3
      <4> HIDE DEF x
      <4>3. t \in SUBSET T /\ Cardinality(t) <= k
        <5>1. IsFiniteSet(s) /\ Cardinality(s) \in Nat
          BY <1>3
        <5>2. Cardinality(t) = Cardinality(s) - 1
          BY <4>1, <5>1, FS_RemoveElement
        <5> QED
          BY <2>1, <2>2, <5>1, <5>2
      <4>4. h[t] = g[t]
        BY <4>3
      <4> QED
        BY <4>2, <4>4
    <3> QED
      BY <3>1, <3>2
  <2> QED
    BY <2>1, <2>2
<1>7. Same = 0..N
  <2> HIDE DEF Same
  <2>1. Same \in SUBSET (0..N)
    BY DEF Same
  <2> QED
    BY <1>3, <1>5, <1>6, <2>1, SetInduction
<1>8. N \in Same
  <2> HIDE DEF Same
  <2> QED
    BY <1>3, <1>7
<1> QED
  <2>1. Cardinality(T) <= N
    BY <1>3 DEF N
  <2> QED
    BY <1>2, <1>8, <2>1

(* The sum over no element, and over one more than others.                 *)
LEMMA SumOfNone == ASSUME NEW f PROVE SumFunctionOnSet(f, {}) = 0
<1>1. IsFiniteSet({})
  BY FS_EmptySet
<1>2. PICK g : IsSum(f, {}, g) /\ SumFunctionOnSet(f, {}) = g[{}]
  BY <1>1, SumComputed
<1> QED
  BY <1>2 DEF IsSum

LEMMA SumOfMore ==
    ASSUME NEW f, NEW S, IsFiniteSet(S), \A x \in S : f[x] \in Nat
    PROVE  /\ SumFunctionOnSet(f, S) \in Nat
           /\ \A x \in S : SumFunctionOnSet(f, S) =
                               f[x] + SumFunctionOnSet(f, S \ {x})
<1>1. PICK g : IsSum(f, S, g)
  BY SumComputed
<1>2. \A T \in SUBSET S : SumFunctionOnSet(f, T) = g[T]
  BY <1>1, SumOfPart
<1> DEFINE AnyOf(s) == CHOOSE x \in s : TRUE
<1>3. /\ g[{}] = 0
      /\ \A s \in SUBSET S : s # {} => g[s] = f[AnyOf(s)] + g[s \ {AnyOf(s)}]
  BY <1>1 DEF IsSum
<1>4. \A s \in SUBSET S : s # {} => AnyOf(s) \in s
  OBVIOUS
<1> HIDE DEF AnyOf
<1> DEFINE N == Cardinality(S)
           Sums(s) == g[s] \in Nat /\ \A x \in s : g[s] = f[x] + g[s \ {x}]
           Fine == {k \in 0..N :
                      \A s \in SUBSET S : Cardinality(s) <= k => Sums(s)}
<1>5. N \in Nat /\ \A s \in SUBSET S : /\ IsFiniteSet(s)
                                       /\ Cardinality(s) \in 0..N
  <2>1. N \in Nat
    BY FS_CardinalityType
  <2>2. ASSUME NEW s \in SUBSET S
        PROVE  IsFiniteSet(s) /\ Cardinality(s) \in Nat /\ Cardinality(s) <= N
    BY FS_Subset, FS_CardinalityType
  <2> QED
    BY <2>1, <2>2
<1> HIDE DEF N
<1>6. 0 \in Fine
  <2>1. \A s \in SUBSET S : Cardinality(s) <= 0 => s = {}
    <3> SUFFICES ASSUME NEW s \in SUBSET S, Cardinality(s) <= 0 PROVE s = {}
      OBVIOUS
    <3>1. IsFiniteSet(s) /\ Cardinality(s) = 0
      BY <1>5
    <3> QED
      BY <3>1, FS_EmptySet
  <2>2. Sums({})
    BY <1>3
  <2> HIDE DEF Sums
  <2> QED
    BY <1>5, <2>1, <2>2
<1>7. ASSUME NEW k \in Fine, k < N PROVE k + 1 \in Fine
  <2>1. k \in Nat /\ k + 1 \in 0..N
        /\ \A s \in SUBSET S : Cardinality(s) <= k => Sums(s)
    BY <1>5, <1>7
  <2>2. ASSUME NEW s \in SUBSET S, Cardinality(s) <= k + 1 PROVE Sums(s)
    <3>1. CASE s = {}
      BY <1>3, <3>1
    <3>2. CASE s # {}
      <4> DEFINE y == AnyOf(s)
                 t == s \ {y}
      <4>1. y \in s /\ f[y] \in Nat /\ g[s] = f[y] + g[t]
        BY <1>3, <1>4, <3>2
      <4> HIDE DEF y
      <4>2. \A x \in s : /\ s \ {x} \in SUBSET S
                        /\ Cardinality(s \ {x}) <= k
        <5> SUFFICES ASSUME NEW x \in s PROVE Cardinality(s \ {x}) <= k
          OBVIOUS
        <5>1. IsFiniteSet(s) /\ Cardinality(s) \in Nat
          BY <1>5
        <5>2. Cardinality(s \ {x}) = Cardinality(s) - 1
          BY <5>1, FS_RemoveElement
        <5> QED
          BY <2>1, <2>2, <5>1, <5>2
      <4>3. \A x \in s : Sums(s \ {x})
        <5> HIDE DEF Sums
        <5> QED
          BY <2>1, <4>2
      <4>4. g[s] \in Nat
        <5>1. g[t] \in Nat
          BY <4>1, <4>3
        <5> QED
          BY <4>1, <5>1
      <4>5. ASSUME NEW x \in s PROVE g[s] = f[x] + g[s \ {x}]
        <5>1. CASE x = y
          BY <4>1, <5>1
        <5>2. CASE x # y
          <6> DEFINE both == s \ {x, y}
          <6>1. t \ {x} = both /\ (s \ {x}) \ {y} = both /\ x \in t /\ y \in s \ {x}
            BY <4>1, <5>2
          <6>2. g[t] = f[x] + g[both]
            BY <4>1, <4>3, <6>1
          <6>3. g[s \ {x}] = f[y] + g[both]
            <7> DEFINE rest == s \ {x}
            <7>1. Sums(rest)
              <8> HIDE DEF Sums
              <8> QED
                BY <4>3
            <7>2. y \in rest /\ rest \ {y} = both
              BY <6>1
            <7> HIDE DEF rest, both
            <7>3. g[rest] = f[y] + g[rest \ {y}]
              BY <7>1, <7>2
            <7> QED
              BY <7>2, <7>3 DEF rest
          <6>4. f[x] \in Nat /\ f[y] \in Nat /\ g[both] \in Nat
            <7>1. g[both] \in Nat
              <8>1. Cardinality(both) <= k
                <9>1. IsFiniteSet(t) /\ Cardinality(t) <= k /\ Cardinality(t) \in Nat
                  BY <1>5, <4>1, <4>2
                <9>2. both \in SUBSET t
                  BY <6>1
                <9>3. Cardinality(both) <= Cardinality(t)
                  BY <9>1, <9>2, FS_Subset
                <9>4. Cardinality(both) \in Nat
                  BY <1>5
                <9> QED
                  BY <2>1, <9>1, <9>3, <9>4
              <8> QED
                BY <2>1, <8>1
            <7> QED
              BY <4>1, <7>1
          <6> HIDE DEF both, t
          <6> QED
            BY <4>1, <6>2, <6>3, <6>4
        <5> QED
          BY <5>1, <5>2
      <4> QED
        BY <4>4, <4>5
    <3> QED
      BY <3>1, <3>2
  <2> HIDE DEF Sums
  <2> QED
    BY <2>1, <2>2
<1>8. Fine = 0..N
  <2> HIDE DEF Fine
  <2>1. Fine \in SUBSET (0..N)
    BY DEF Fine
  <2> QED
    BY <1>5, <1>6, <1>7, <2>1, SetInduction
<1>9. Sums(S)
  <2>1. N \in Fine
    <3> HIDE DEF Fine
    <3> QED
      BY <1>5, <1>8
  <2>2. Cardinality(S) <= N
    BY <1>5 DEF N
  <2> HIDE DEF Sums
  <2> QED
    BY <2>1, <2>2
<1> QED
  BY <1>2, <1>9

(* Equal functions have equal sums, elements with zero do not count, and a *)
(* sum can be taken over other names of the elements.                      *)
LEMMA SumOfSame ==
    ASSUME NEW f, NEW g, NEW S, IsFiniteSet(S),
           \A x \in S : f[x] \in Nat /\ g[x] = f[x]
    PROVE  SumFunctionOnSet(f, S) = SumFunctionOnSet(g, S)
<1> DEFINE F == {s \in SUBSET S : SumFunctionOnSet(f, s) = SumFunctionOnSet(g, s)}
<1>1. {} \in F
  BY SumOfNone
<1>2. ASSUME NEW s \in F, NEW x \in S \ s PROVE s \union {x} \in F
  <2> DEFINE t == s \union {x}
  <2>1. t \in SUBSET S /\ x \in t /\ t \ {x} = s
    OBVIOUS
  <2> HIDE DEF t
  <2>2. IsFiniteSet(t)
    BY <2>1, FS_Subset
  <2>3. SumFunctionOnSet(f, t) = f[x] + SumFunctionOnSet(f, s)
    <3>1. \A y \in t : f[y] \in Nat
      BY <2>1
    <3> QED
      BY <2>1, <2>2, <3>1, SumOfMore
  <2>4. SumFunctionOnSet(g, t) = g[x] + SumFunctionOnSet(g, s)
    <3>1. \A y \in t : g[y] \in Nat
      BY <2>1
    <3> QED
      BY <2>1, <2>2, <3>1, SumOfMore
  <2> QED
    BY <2>1, <2>3, <2>4 DEF t
<1>3. F = SUBSET S
  <2> HIDE DEF F
  <2>1. F \in SUBSET SUBSET S
    BY DEF F
  <2> QED
    BY <1>1, <1>2, <2>1, SubsetInduction
<1> QED
  BY <1>3

LEMMA SumWithoutZeros ==
    ASSUME NEW f, NEW S, IsFiniteSet(S), \A x \in S : f[x] \in Nat,
           NEW T \in SUBSET S, \A x \in S \ T : f[x] = 0
    PROVE  SumFunctionOnSet(f, S) = SumFunctionOnSet(f, T)
<1> DEFINE F == {s \in SUBSET S :
                    SumFunctionOnSet(f, s) = SumFunctionOnSet(f, s \intersect T)}
<1>1. {} \in F
  OBVIOUS
<1>2. ASSUME NEW s \in F, NEW x \in S \ s PROVE s \union {x} \in F
  <2> DEFINE t == s \union {x}
             u == t \intersect T
  <2>1. t \in SUBSET S /\ x \in t /\ t \ {x} = s
    OBVIOUS
  <2>2. IsFiniteSet(t)
    BY <2>1, FS_Subset
  <2>3. SumFunctionOnSet(f, t) = f[x] + SumFunctionOnSet(f, s)
    <3>1. \A y \in t : f[y] \in Nat
      BY <2>1
    <3> HIDE DEF t
    <3> QED
      BY <2>1, <2>2, <3>1, SumOfMore
  <2>4. SumFunctionOnSet(f, s) \in Nat
    <3>1. IsFiniteSet(s) /\ \A y \in s : f[y] \in Nat
      BY FS_Subset
    <3> HIDE DEF F
    <3> QED
      BY <3>1, SumOfMore
  <2>5. CASE x \in T
    <3>1. u \in SUBSET S /\ x \in u /\ u \ {x} = s \intersect T
      BY <2>5
    <3> HIDE DEF u
    <3>2. IsFiniteSet(u) /\ \A y \in u : f[y] \in Nat
      BY <3>1, FS_Subset
    <3>3. SumFunctionOnSet(f, u) = f[x] + SumFunctionOnSet(f, s \intersect T)
      BY <3>1, <3>2, SumOfMore
    <3> HIDE DEF t
    <3> QED
      BY <2>1, <2>3, <3>3 DEF t, u
  <2>6. CASE x \notin T
    <3>1. u = s \intersect T /\ f[x] = 0
      BY <2>6
    <3>2. u = t \intersect T
      OBVIOUS
    <3>3. SumFunctionOnSet(f, s) = SumFunctionOnSet(f, s \intersect T)
      OBVIOUS
    <3> HIDE DEF F, t, u
    <3>4. SumFunctionOnSet(f, t) = SumFunctionOnSet(f, t \intersect T)
      <4>1. SumFunctionOnSet(f, t) = SumFunctionOnSet(f, s)
        BY <2>3, <2>4, <3>1
      <4>2. s \intersect T = t \intersect T
        BY <3>1, <3>2
      <4> QED
        BY <3>3, <4>1, <4>2
    <3> QED
      BY <2>1, <3>4 DEF F, t
  <2> QED
    BY <2>5, <2>6
<1>3. F = SUBSET S
  <2> HIDE DEF F
  <2>1. F \in SUBSET SUBSET S
    BY DEF F
  <2> QED
    BY <1>1, <1>2, <2>1, SubsetInduction
<1>4. S \in F
  BY <1>3
<1>5. S \intersect T = T
  OBVIOUS
<1> QED
  BY <1>4, <1>5

LEMMA SumRenamed ==
    ASSUME NEW f, NEW g, NEW S, IsFiniteSet(S), NEW h,
           \A x \in S : f[x] \in Nat /\ g[h[x]] = f[x],
           \A x, y \in S : h[x] = h[y] => x = y
    PROVE  SumFunctionOnSet(f, S) = SumFunctionOnSet(g, {h[x] : x \in S})
<1> DEFINE Image(s) == {h[x] : x \in s}
           F == {s \in SUBSET S :
                    /\ IsFiniteSet(Image(s))
                    /\ SumFunctionOnSet(f, s) = SumFunctionOnSet(g, Image(s))}
<1>1. {} \in F
  <2>1. Image({}) = {}
    OBVIOUS
  <2> HIDE DEF Image
  <2> QED
    BY <2>1, SumOfNone, FS_EmptySet
<1>2. ASSUME NEW s \in F, NEW x \in S \ s PROVE s \union {x} \in F
  <2> DEFINE t == s \union {x}
  <2>1. t \in SUBSET S /\ x \in t /\ t \ {x} = s
    OBVIOUS
  <2>2. IsFiniteSet(t)
    BY <2>1, FS_Subset
  <2>3. SumFunctionOnSet(f, t) = f[x] + SumFunctionOnSet(f, s)
    <3>1. \A y \in t : f[y] \in Nat
      BY <2>1
    <3> HIDE DEF t
    <3> QED
      BY <2>1, <2>2, <3>1, SumOfMore
  <2>4. /\ Image(t) = Image(s) \union {h[x]}
        /\ h[x] \in Image(t) /\ Image(t) \ {h[x]} = Image(s)
    <3>1. h[x] \notin Image(s)
      OBVIOUS
    <3> QED
      BY <3>1
  <2>5. IsFiniteSet(Image(s)) /\ s \in SUBSET S
        /\ SumFunctionOnSet(f, s) = SumFunctionOnSet(g, Image(s))
    OBVIOUS
  <2>6. IsFiniteSet(Image(t))
    <3> HIDE DEF Image, t
    <3> QED
      BY <2>4, <2>5, FS_AddElement
  <2>7. \A y \in Image(t) : g[y] \in Nat
    BY <2>1
  <2>8. SumFunctionOnSet(g, Image(t)) = g[h[x]] + SumFunctionOnSet(g, Image(s))
    <3> HIDE DEF Image, t
    <3> QED
      BY <2>4, <2>6, <2>7, SumOfMore
  <2>9. SumFunctionOnSet(f, t) = SumFunctionOnSet(g, Image(t))
    <3> HIDE DEF Image, t
    <3> QED
      BY <2>3, <2>5, <2>8
  <2> HIDE DEF Image
  <2> QED
    BY <2>1, <2>6, <2>9
<1>3. F = SUBSET S
  <2> HIDE DEF F
  <2>1. F \in SUBSET SUBSET S
    BY DEF F
  <2> QED
    BY <1>1, <1>2, <2>1, SubsetInduction
<1>4. S \in F
  BY <1>3
<1> QED
  BY <1>4
=============================================================================
