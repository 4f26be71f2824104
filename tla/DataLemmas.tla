---------------------------- MODULE DataLemmas ----------------------------
(***************************************************************************)
(* Lemmas about the data the components share: induction over the naturals *)
(* for a set (a least element exists, so no operator parameter is needed), *)
(* what the filter of SeqFilter returns, and how powers of two grow.       *)
(***************************************************************************)
EXTENDS SeqFilter, Integers, FiniteSets, SequenceTheorems, FiniteSetTheorems,
        WellFoundedInduction, TLAPS

\* A set of naturals that is not empty has a least element.
LEMMA LeastNat ==
  ASSUME NEW T \in SUBSET Nat, T # {}
  PROVE  \E x \in T : \A y \in T : x <= y
<1>1. PICK x \in T : \A y \in T : ~ (<<y, x>> \in OpToRel(<, Nat))
  BY NatLessThanWellFounded, WFMin
<1>2. \A y \in T : <<y, x>> \in OpToRel(<, Nat) <=> y < x
  BY DEF OpToRel
<1>3. \A y \in T : x <= y
  <2>. TAKE y \in T
  <2>1. ~ (y < x)
    BY <1>1, <1>2
  <2>2. x \in Nat /\ y \in Nat
    OBVIOUS
  <2>. QED BY <2>1, <2>2
<1>. QED BY <1>3

\* An image of a finite set is finite.
LEMMA FiniteImage ==
  ASSUME NEW S, IsFiniteSet(S), NEW f, DOMAIN f = S, NEW T, T \subseteq {f[x] : x \in S}
  PROVE  IsFiniteSet(T)
<1>. DEFINE g == [x \in S |-> f[x]]
            I == {f[x] : x \in S}
<1>1. g \in Surjection(S, I)
  BY DEF Surjection
<1>2. IsFiniteSet(I)
  <2>. HIDE DEF g, I
  <2>. QED BY <1>1, FS_Surjection
<1>. QED BY <1>2, FS_Subset

\* Induction, for a set: one that holds 0 and the successor of each natural it holds
\* holds them all.
LEMMA NatSetInduction ==
  ASSUME NEW T, 0 \in T, \A n \in Nat : n \in T => n + 1 \in T
  PROVE  Nat \subseteq T
<1>. SUFFICES ASSUME Nat \ T # {} PROVE FALSE
  OBVIOUS
<1>1. PICK x \in Nat \ T : \A y \in Nat \ T : x <= y
  <2>1. Nat \ T \in SUBSET Nat
    OBVIOUS
  <2>. QED BY <2>1, LeastNat
<1>2. x # 0
  OBVIOUS
<1>3. x - 1 \in Nat
  BY <1>2
<1>4. x - 1 \in T
  BY <1>1, <1>3
<1>. QED BY <1>3, <1>4

\* One round of the loop of Keep: what is kept of the first i elements.
KeptStep(s, K, f, i) ==
  IF i = 0 THEN <<>>
  ELSE IF s[i] \in K THEN Append(f[i - 1], s[i]) ELSE f[i - 1]

\* The recursive function of Keep (the list comprehensions of the breaker's window and
\* of the node's mempool) is the one its equation describes.
LEMMA KeptUpToDef ==
  ASSUME NEW S, NEW s \in Seq(S), NEW K
  PROVE  KeptUpTo(s, K) = [i \in 0..Len(s) |-> KeptStep(s, K, KeptUpTo(s, K), i)]
<1>. DEFINE T == {n \in Nat : \E f : f = [i \in 0..n |-> KeptStep(s, K, f, i)]}
<1>1. 0 \in T
  <2>. DEFINE g == [i \in 0..0 |-> <<>>]
  <2>1. g = [i \in 0..0 |-> KeptStep(s, K, g, i)]
    BY DEF KeptStep
  <2>. QED BY <2>1
<1>2. ASSUME NEW n \in Nat, n \in T PROVE n + 1 \in T
  <2>1. PICK f : f = [i \in 0..n |-> KeptStep(s, K, f, i)]
    BY <1>2
  <2>. DEFINE g == [i \in 0..(n+1) |-> IF i <= n THEN f[i] ELSE KeptStep(s, K, f, i)]
  <2>2. ASSUME NEW i \in 0..(n+1) PROVE g[i] = KeptStep(s, K, g, i)
    <3>1. CASE i = 0
      BY <3>1, <2>1 DEF KeptStep
    <3>2. CASE i # 0
      <4>1. i - 1 \in 0..n /\ g[i-1] = f[i-1]
        BY <3>2
      <4>2. KeptStep(s, K, g, i) = KeptStep(s, K, f, i)
        BY <4>1 DEF KeptStep
      <4>3. g[i] = KeptStep(s, K, f, i)
        BY <2>1
      <4>. QED BY <4>2, <4>3
    <3>. QED BY <3>1, <3>2
  <2>3. g = [i \in 0..(n+1) |-> KeptStep(s, K, g, i)]
    BY <2>2
  <2>. HIDE DEF g
  <2>. QED BY <2>3
<1>3. Len(s) \in T
  <2>. HIDE DEF T
  <2>1. Nat \subseteq T
    BY <1>1, <1>2, NatSetInduction
  <2>2. Len(s) \in Nat
    BY LenProperties
  <2>. QED BY <2>1, <2>2
<1>4. PICK f : f = [i \in 0..Len(s) |-> KeptStep(s, K, f, i)]
  BY <1>3
<1>5. KeptUpTo(s, K) = CHOOSE h : h = [i \in 0..Len(s) |-> KeptStep(s, K, h, i)]
  BY DEF KeptUpTo, KeptStep
<1>. QED BY <1>4, <1>5

\* One element at a time: what is kept of the first n is what was kept of the n - 1
\* before, and the n-th if it is in the set.
LEMMA KeptStepwise ==
  ASSUME NEW S, NEW s \in Seq(S), NEW K
  PROVE  LET f == KeptUpTo(s, K) IN
         /\ f[0] = <<>>
         /\ \A n \in 0..Len(s) : f[n] \in Seq(S \cap K) /\ Len(f[n]) <= n
         /\ \A n \in 1..Len(s) : f[n] = IF s[n] \in K THEN Append(f[n - 1], s[n]) ELSE f[n - 1]
<1>. DEFINE f == KeptUpTo(s, K)
            T == {n \in Nat : n <= Len(s) => f[n] \in Seq(S \cap K) /\ Len(f[n]) <= n}
<1>1. f = [i \in 0..Len(s) |-> KeptStep(s, K, f, i)]
  BY KeptUpToDef
<1>. HIDE DEF f
<1>2. Len(s) \in Nat /\ \A i \in 1..Len(s) : s[i] \in S
  BY LenProperties, ElementOfSeq
<1>3. f[0] = <<>>
  BY <1>1, <1>2 DEF KeptStep
<1>4. ASSUME NEW n \in 1..Len(s) PROVE f[n] = IF s[n] \in K THEN Append(f[n - 1], s[n]) ELSE f[n - 1]
  <2>1. n \in 0..Len(s) /\ n # 0
    BY <1>2
  <2>. QED BY <1>1, <2>1 DEF KeptStep
<1>5. 0 \in T
  <2>1. <<>> \in Seq(S \cap K) /\ Len(<<>>) = 0
    BY EmptySeq
  <2>2. f[0] \in Seq(S \cap K) /\ Len(f[0]) = 0
    BY <1>3, <2>1, Zenon
  <2>3. f[0] \in Seq(S \cap K) /\ Len(f[0]) <= 0
    BY <2>2
  <2>. QED BY <2>3
<1>6. ASSUME NEW n \in Nat, n \in T PROVE n + 1 \in T
  <2>. SUFFICES ASSUME n + 1 <= Len(s) PROVE f[n + 1] \in Seq(S \cap K) /\ Len(f[n + 1]) <= n + 1
    OBVIOUS
  <2>1. f[n] \in Seq(S \cap K) /\ Len(f[n]) <= n
    BY <1>6, <1>2
  <2>2. f[n + 1] = IF s[n + 1] \in K THEN Append(f[n], s[n + 1]) ELSE f[n]
    <3>1. n + 1 \in 1..Len(s) /\ (n + 1) - 1 = n
      BY <1>2
    <3>. QED BY <1>4, <3>1
  <2>3. s[n + 1] \in S
    BY <1>2
  <2>. QED BY <2>1, <2>2, <2>3
<1>7. ASSUME NEW n \in 0..Len(s) PROVE f[n] \in Seq(S \cap K) /\ Len(f[n]) <= n
  <2>1. n \in T
    <3>. HIDE DEF T
    <3>. QED BY <1>2, <1>5, <1>6, NatSetInduction
  <2>. QED BY <1>2, <2>1
<1>. QED BY <1>3, <1>4, <1>7 DEF f

\* The filter (CircuitBreaker.record_failure's window, the pool after a block) returns
\* elements of the sequence that are in the set, no more of them than there were.
LEMMA KeepType ==
  ASSUME NEW S, NEW s \in Seq(S), NEW K
  PROVE  Keep(s, K) \in Seq(S \cap K) /\ Len(Keep(s, K)) <= Len(s)
<1>1. Len(s) \in Nat
  BY LenProperties
<1>2. Len(s) \in 0..Len(s)
  BY <1>1
<1>. QED BY <1>2, KeptStepwise DEF Keep

\* Filtering a sequence without repetitions leaves none (the registry's rows, listed by
\* the time of their last write).
LEMMA KeepDistinct ==
  ASSUME NEW S, NEW s \in Seq(S), NEW K, \A i, j \in 1..Len(s) : s[i] = s[j] => i = j
  PROVE  \A i, j \in 1..Len(Keep(s, K)) : Keep(s, K)[i] = Keep(s, K)[j] => i = j
<1>. DEFINE f == KeptUpTo(s, K)
            Distinct(n) == \A i, j \in 1..Len(f[n]) : f[n][i] = f[n][j] => i = j
            Past(n) == \A i \in 1..Len(f[n]) : \E m \in 1..n : f[n][i] = s[m]
            T == {n \in Nat : n <= Len(s) => Distinct(n) /\ Past(n)}
<1>1. /\ f[0] = <<>>
      /\ \A n \in 0..Len(s) : f[n] \in Seq(S \cap K) /\ Len(f[n]) <= n
      /\ \A n \in 1..Len(s) : f[n] = IF s[n] \in K THEN Append(f[n - 1], s[n]) ELSE f[n - 1]
  BY KeptStepwise, ZenonT(60)
<1>. HIDE DEF f
<1>2. Len(s) \in Nat
  BY LenProperties
<1>3. 0 \in T
  <2>1. Len(f[0]) = 0
    BY <1>1, EmptySeq
  <2>. QED BY <2>1
<1>4. ASSUME NEW n \in Nat, n \in T, n + 1 <= Len(s) PROVE Distinct(n + 1) /\ Past(n + 1)
  <2>. DEFINE a == f[n]
              b == f[n + 1]
              x == s[n + 1]
  <2>1. n + 1 \in 1..Len(s) /\ (n + 1) - 1 = n /\ n \in 0..Len(s)
    BY <1>2, <1>4
  <2>2. b = (IF x \in K THEN Append(a, x) ELSE a) /\ a \in Seq(S \cap K) /\ Len(a) \in Nat
    BY <1>1, <2>1, LenProperties
  <2>3. /\ \A i, j \in 1..Len(a) : a[i] = a[j] => i = j
        /\ \A i \in 1..Len(a) : \E m \in 1..n : a[i] = s[m]
    BY <1>2, <1>4
  <2>4. \A i \in 1..Len(a) : a[i] # x
    <3>1. \A m \in 1..n : m \in 1..Len(s) /\ m # n + 1
      BY <1>2, <2>1
    <3>2. \A m \in 1..n : s[m] # x
      BY <2>1, <3>1
    <3>. HIDE DEF x, a
    <3>. QED BY <2>3, <3>2
  <2>5. \A m \in 1..n : m \in 1..(n + 1)
    OBVIOUS
  <2>. HIDE DEF a, b
  <2>6. CASE x \notin K
    <3>1. b = a
      BY <2>2, <2>6
    <3>2. \A i \in 1..Len(a) : \E m \in 1..(n + 1) : a[i] = s[m]
      BY <2>3, <2>5
    <3>. QED BY <2>3, <3>1, <3>2 DEF b
  <2>7. CASE x \in K
    <3>. HIDE DEF x
    <3>1. b = Append(a, x)
      BY <2>2, <2>7
    <3>2. /\ Len(b) = Len(a) + 1 /\ b[Len(a) + 1] = x
          /\ \A i \in 1..Len(a) : b[i] = a[i]
      BY <2>2, <3>1, AppendProperties
    <3>3. \A i \in 1..Len(b) : i = Len(a) + 1 \/ i \in 1..Len(a)
      BY <2>2, <3>2
    <3>4. \A i, j \in 1..Len(b) : b[i] = b[j] => i = j
      BY <2>3, <2>4, <3>2, <3>3
    <3>5. \A i \in 1..Len(b) : \E m \in 1..(n + 1) : b[i] = s[m]
      <4>1. n + 1 \in 1..(n + 1) /\ b[Len(a) + 1] = s[n + 1]
        BY <3>2 DEF x
      <4>. QED BY <2>3, <2>5, <3>2, <3>3, <4>1, SMTT(60)
    <3>. QED BY <3>4, <3>5 DEF b
  <2>. QED BY <2>6, <2>7
<1>5. Len(s) \in T
  <2>1. ASSUME NEW n \in Nat, n \in T PROVE n + 1 \in T
    <3>1. n + 1 <= Len(s) => Distinct(n + 1) /\ Past(n + 1)
      BY <1>4, <2>1
    <3>. HIDE DEF Distinct, Past
    <3>. QED BY <3>1
  <2>. HIDE DEF T
  <2>. QED BY <1>2, <1>3, <2>1, NatSetInduction
<1>6. Distinct(Len(s))
  BY <1>2, <1>5
<1>. QED BY <1>6 DEF f, Keep

\* Doubling, the backoff's step from one attempt to the next: a set with one more
\* element has twice as many subsets.
LEMMA PowerStep == ASSUME NEW n \in Nat PROVE 2^(n + 1) = 2^n + 2^n /\ 2^n \in Nat
<1>. DEFINE A == SUBSET (1..n)
            B == {X \cup {n + 1} : X \in A}
            f == [X \in A |-> X \cup {n + 1}]
            C == SUBSET (1..(n + 1))
<1>1. IsFiniteSet(1..n) /\ Cardinality(1..n) = n /\ IsFiniteSet(1..(n + 1)) /\ Cardinality(1..(n + 1)) = n + 1
  BY FS_Interval
<1>2. IsFiniteSet(A) /\ Cardinality(A) = 2^n
  BY <1>1, FS_SUBSET
<1>3. Cardinality(C) = 2^(n + 1)
  <2>. DEFINE S == 1..(n + 1)
  <2>1. IsFiniteSet(S) /\ Cardinality(S) = n + 1
    BY <1>1
  <2>. HIDE DEF S
  <2>2. Cardinality(SUBSET S) = 2^Cardinality(S)
    BY <2>1, FS_SUBSET
  <2>. QED BY <2>1, <2>2 DEF S
<1>4. f \in Bijection(A, B)
  <2>1. f \in [A -> B]
    OBVIOUS
  <2>2. ASSUME NEW X \in A, NEW Y \in A, f[X] = f[Y] PROVE X = Y
    <3>1. n + 1 \notin X /\ n + 1 \notin Y
      OBVIOUS
    <3>2. X \cup {n + 1} = Y \cup {n + 1}
      BY <2>2
    <3>. QED BY <3>1, <3>2
  <2>3. \A Z \in B : \E X \in A : f[X] = Z
    OBVIOUS
  <2>. HIDE DEF A, B, f
  <2>. QED BY <2>1, <2>2, <2>3 DEF Bijection, Injection, Surjection, IsInjective
<1>5. IsFiniteSet(B) /\ Cardinality(B) = Cardinality(A)
  <2>. HIDE DEF A, B, f
  <2>1. ExistsBijection(A, B)
    BY <1>4 DEF ExistsBijection
  <2>. QED BY <1>2, <2>1, FS_Bijection
<1>6. A \cap B = {}
  OBVIOUS
<1>7. C = A \cup B
  <2>1. ASSUME NEW X \in C PROVE X \in A \cup B
    <3>1. CASE n + 1 \notin X
      BY <3>1
    <3>2. CASE n + 1 \in X
      <4>1. X \ {n + 1} \in A /\ X = (X \ {n + 1}) \cup {n + 1}
        BY <3>2
      <4>. QED BY <4>1
    <3>. QED BY <3>1, <3>2
  <2>2. 1..n \subseteq 1..(n + 1) /\ n + 1 \in 1..(n + 1)
    OBVIOUS
  <2>3. \A X \in A : X \in C /\ X \cup {n + 1} \in C
    BY <2>2
  <2>4. A \cup B \subseteq C
    <3>. HIDE DEF A, C
    <3>. QED BY <2>3
  <2>. HIDE DEF A, B, C
  <2>. QED BY <2>1, <2>4
<1>8. Cardinality(A \cup B) = Cardinality(A) + Cardinality(B) - Cardinality(A \cap B)
  <2>. HIDE DEF A, B
  <2>. QED BY <1>2, <1>5, FS_Union
<1>9. Cardinality(A) \in Nat /\ Cardinality(A \cap B) = 0
  <2>. HIDE DEF A, B
  <2>. QED BY <1>2, <1>6, FS_CardinalityType, FS_EmptySet
<1>10. Cardinality(C) = Cardinality(A) + Cardinality(A)
  <2>. HIDE DEF A, B, C
  <2>. QED BY <1>5, <1>7, <1>8, <1>9
<1>11. 2^n \in Nat
  BY <1>2, <1>9
<1>12. 2^(n + 1) = 2^n + 2^n
  BY <1>2, <1>3, <1>10
<1>. QED BY <1>11, <1>12

\* Powers of two grow (the backoff's doubling is monotonic).
LEMMA PowerMono == ASSUME NEW m \in Nat, NEW n \in Nat, m <= n PROVE 2^m <= 2^n
<1>. DEFINE T == {k \in Nat : 2^m <= 2^(m + k)}
<1>1. 0 \in T
  <2>1. m + 0 = m /\ 2^m \in Nat
    BY PowerStep
  <2>. QED BY <2>1
<1>2. ASSUME NEW k \in Nat, k \in T PROVE k + 1 \in T
  <2>1. m + k \in Nat /\ m + (k + 1) = (m + k) + 1
    OBVIOUS
  <2>2. 2^(m + (k + 1)) = 2^(m + k) + 2^(m + k) /\ 2^(m + k) \in Nat /\ 2^m \in Nat
    BY <2>1, PowerStep
  <2>. QED BY <1>2, <2>2
<1>. HIDE DEF T
<1>3. n - m \in T
  BY <1>1, <1>2, NatSetInduction
<1>4. m + (n - m) = n
  OBVIOUS
<1>. QED BY <1>3, <1>4 DEF T

\* A power of two exceeds its exponent: the backoff's exponent ceiling exists.
LEMMA PowerAbove == ASSUME NEW n \in Nat PROVE n < 2^n
<1>. DEFINE T == {k \in Nat : k < 2^k}
<1>1. 0 \in T
  OBVIOUS
<1>2. ASSUME NEW k \in Nat, k \in T PROVE k + 1 \in T
  <2>1. 2^(k + 1) = 2^k + 2^k /\ 2^k \in Nat
    BY PowerStep
  <2>. QED BY <1>2, <2>1
<1>. HIDE DEF T
<1>3. n \in T
  BY <1>1, <1>2, NatSetInduction
<1>. QED BY <1>3 DEF T

SumStep(s, f, i) == IF i = 0 THEN 0 ELSE f[i - 1] + s[i]

\* The recursive function of SumOf is the one its equation describes.
LEMMA SumUpToDef ==
  ASSUME NEW s \in Seq(Nat)
  PROVE  SumUpTo(s) = [i \in 0..Len(s) |-> SumStep(s, SumUpTo(s), i)]
<1>. DEFINE T == {n \in Nat : \E f : f = [i \in 0..n |-> SumStep(s, f, i)]}
<1>1. 0 \in T
  <2>. DEFINE g == [i \in 0..0 |-> 0]
  <2>1. g = [i \in 0..0 |-> SumStep(s, g, i)]
    BY DEF SumStep
  <2>. QED BY <2>1
<1>2. ASSUME NEW n \in Nat, n \in T PROVE n + 1 \in T
  <2>1. PICK f : f = [i \in 0..n |-> SumStep(s, f, i)]
    BY <1>2
  <2>. DEFINE g == [i \in 0..(n+1) |-> IF i <= n THEN f[i] ELSE SumStep(s, f, i)]
  <2>2. ASSUME NEW i \in 0..(n+1) PROVE g[i] = SumStep(s, g, i)
    <3>1. CASE i = 0
      BY <3>1, <2>1 DEF SumStep
    <3>2. CASE i # 0
      <4>1. i - 1 \in 0..n /\ g[i-1] = f[i-1]
        BY <3>2
      <4>2. SumStep(s, g, i) = SumStep(s, f, i)
        BY <4>1 DEF SumStep
      <4>3. g[i] = SumStep(s, f, i)
        BY <2>1
      <4>. QED BY <4>2, <4>3
    <3>. QED BY <3>1, <3>2
  <2>3. g = [i \in 0..(n+1) |-> SumStep(s, g, i)]
    BY <2>2
  <2>. HIDE DEF g
  <2>. QED BY <2>3
<1>3. Len(s) \in T
  <2>. HIDE DEF T
  <2>. QED BY <1>1, <1>2, NatSetInduction, LenProperties
<1>4. PICK f : f = [i \in 0..Len(s) |-> SumStep(s, f, i)]
  BY <1>3
<1>5. SumUpTo(s) = CHOOSE h : h = [i \in 0..Len(s) |-> SumStep(s, h, i)]
  BY DEF SumUpTo, SumStep
<1>. QED BY <1>4, <1>5

LEMMA SumStepwise ==
  ASSUME NEW s \in Seq(Nat)
  PROVE  /\ SumUpTo(s)[0] = 0
         /\ \A n \in 0..Len(s) : SumUpTo(s)[n] \in Nat
         /\ \A n \in 1..Len(s) : SumUpTo(s)[n] = SumUpTo(s)[n - 1] + s[n]
         /\ SumOf(s) \in Nat
<1>. DEFINE f == SumUpTo(s)
            T == {n \in Nat : n <= Len(s) => f[n] \in Nat}
<1>1. f = [i \in 0..Len(s) |-> SumStep(s, f, i)]
  BY SumUpToDef
<1>. HIDE DEF f
<1>2. Len(s) \in Nat /\ \A i \in 1..Len(s) : s[i] \in Nat
  BY LenProperties, ElementOfSeq
<1>3. f[0] = 0
  BY <1>1, <1>2 DEF SumStep
<1>4. ASSUME NEW n \in 1..Len(s) PROVE f[n] = f[n - 1] + s[n]
  <2>1. n \in 0..Len(s) /\ n # 0
    BY <1>2
  <2>. QED BY <1>1, <2>1 DEF SumStep
<1>5. ASSUME NEW n \in Nat, n \in T PROVE n + 1 \in T
  <2>. SUFFICES ASSUME n + 1 <= Len(s) PROVE f[n + 1] \in Nat
    OBVIOUS
  <2>1. n + 1 \in 1..Len(s) /\ (n + 1) - 1 = n /\ n <= Len(s)
    BY <1>2
  <2>2. f[n + 1] = f[n] + s[n + 1] BY <1>4, <2>1
  <2>. QED BY <1>2, <1>5, <2>1, <2>2
<1>6. ASSUME NEW n \in 0..Len(s) PROVE f[n] \in Nat
  <2>1. n \in T
    <3>1. 0 \in T BY <1>3
    <3>. HIDE DEF T
    <3>2. Nat \subseteq T BY <3>1, <1>5, NatSetInduction
    <3>3. n \in Nat BY <1>2
    <3>. QED BY <3>2, <3>3
  <2>. QED BY <1>2, <2>1
<1>7. Len(s) \in 0..Len(s) BY <1>2
<1>. QED BY <1>3, <1>4, <1>6, <1>7 DEF f, SumOf

\* A sequence that is zero but for a stretch sums up to that stretch (the inputs of a
\* transaction that the ledger consumes, among all it lists).
LEMMA SumOfStretch ==
  ASSUME NEW s \in Seq(Nat), NEW g \in Seq(Nat), NEW b \in Nat, b + Len(g) <= Len(s),
         \A i \in 1..Len(s) : s[i] = IF b < i /\ i <= b + Len(g) THEN g[i - b] ELSE 0
  PROVE  SumOf(s) = SumOf(g)
<1>. DEFINE F == SumUpTo(s)
            G == SumUpTo(g)
            m == Len(g)
            Want(n) == IF n <= b THEN 0 ELSE IF n <= b + m THEN G[n - b] ELSE G[m]
            T == {n \in Nat : n <= Len(s) => F[n] = Want(n)}
<1>1. /\ F[0] = 0 /\ \A n \in 1..Len(s) : F[n] = F[n - 1] + s[n]
      /\ G[0] = 0 /\ \A n \in 0..m : G[n] \in Nat
      /\ \A n \in 1..m : G[n] = G[n - 1] + g[n]
  BY SumStepwise
<1>2. Len(s) \in Nat /\ m \in Nat BY LenProperties
<1>3. \A i \in 1..Len(s) : s[i] = IF b < i /\ i <= b + m THEN g[i - b] ELSE 0 OBVIOUS
<1>4. SumOf(s) = F[Len(s)] /\ SumOf(g) = G[m] BY DEF SumOf
<1>. HIDE DEF F, G, m
<1>5. 0 \in T
  <2>1. Want(0) = 0 OBVIOUS
  <2>2. F[0] = Want(0) BY <1>1, <2>1
  <2>. QED BY <2>2
<1>6. ASSUME NEW n \in Nat, n \in T PROVE n + 1 \in T
  <2>. SUFFICES ASSUME n + 1 <= Len(s) PROVE F[n + 1] = Want(n + 1)
    OBVIOUS
  <2>1. n + 1 \in 1..Len(s) /\ (n + 1) - 1 = n /\ n <= Len(s) BY <1>2
  <2>2. F[n + 1] = F[n] + s[n + 1] BY <1>1, <2>1
  <2>3. F[n] = Want(n) BY <1>6, <2>1
  <2>4. s[n + 1] = IF b < n + 1 /\ n + 1 <= b + m THEN g[(n + 1) - b] ELSE 0 BY <1>3, <2>1
  <2>5. CASE n + 1 <= b BY <2>2, <2>3, <2>4, <2>5
  <2>6. CASE b < n + 1 /\ n + 1 <= b + m
    <3>1. (n + 1) - b \in 1..m /\ ((n + 1) - b) - 1 = n - b /\ n - b \in 0..m BY <1>2, <2>6
    <3>2. G[(n + 1) - b] = G[n - b] + g[(n + 1) - b] BY <1>1, <3>1
    <3>3. F[n] = G[n - b]
      <4>1. CASE n <= b
        <5>1. n - b = 0 BY <2>6, <4>1
        <5>2. F[n] = 0 BY <2>3, <4>1
        <5>. QED BY <1>1, <5>1, <5>2
      <4>2. CASE ~(n <= b)
        <5>1. n <= b + m BY <2>6, <1>2
        <5>. QED BY <2>3, <4>2, <5>1
      <4>. QED BY <4>1, <4>2
    <3>4. Want(n + 1) = G[(n + 1) - b] BY <2>6
    <3>. QED BY <2>2, <2>4, <2>6, <3>2, <3>3, <3>4
  <2>7. CASE b + m < n + 1
    <3>1. s[n + 1] = 0 BY <2>4, <2>7, <1>2
    <3>2. Want(n + 1) = G[m] BY <2>7, <1>2
    <3>3. F[n] = G[m]
      <4>1. CASE n <= b
        <5>1. m = 0 BY <2>7, <4>1, <1>2
        <5>. QED BY <1>1, <2>3, <4>1, <5>1
      <4>2. CASE b < n /\ n <= b + m
        <5>1. n - b = m BY <2>7, <4>2, <1>2
        <5>. QED BY <2>3, <4>2, <5>1
      <4>3. CASE b + m < n
        <5>1. ~(n <= b) /\ ~(n <= b + m) BY <4>3, <1>2
        <5>. QED BY <2>3, <5>1
      <4>. QED BY <4>1, <4>2, <4>3, <1>2
    <3>4. G[m] \in Nat BY <1>1, <1>2
    <3>. QED BY <2>2, <3>1, <3>2, <3>3, <3>4
  <2>. QED BY <2>5, <2>6, <2>7, <1>2
<1>7. Len(s) \in T
  <2>. HIDE DEF T
  <2>. QED BY <1>2, <1>5, <1>6, NatSetInduction
<1>8. F[Len(s)] = Want(Len(s)) BY <1>2, <1>7
<1>9. Want(Len(s)) = G[m]
  <2>1. CASE Len(s) <= b
    <3>1. m = 0 BY <2>1, <1>2 DEF m
    <3>. QED BY <1>1, <2>1, <3>1
  <2>2. CASE b < Len(s) /\ Len(s) <= b + m
    <3>1. Len(s) - b = m BY <2>2, <1>2 DEF m
    <3>. QED BY <2>2, <3>1
  <2>3. CASE b + m < Len(s)
    <3>1. ~(Len(s) <= b) /\ ~(Len(s) <= b + m) BY <2>3, <1>2
    <3>. QED BY <3>1
  <2>. QED BY <2>1, <2>2, <2>3, <1>2
<1>. QED BY <1>4, <1>8, <1>9
=============================================================================
