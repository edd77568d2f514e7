------------------------------- MODULE Lemmas -------------------------------
(***************************************************************************)
(* Facts about sequences, numbers and their ranks that proofs of several     *)
(* components need.                                                         *)
(***************************************************************************)
EXTENDS Integers, Sequences, FiniteSets, Ranks, SequenceTheorems, FiniteSetTheorems,
        WellFoundedInduction, TLAPS

(* A stack from which n elements are popped.                                *)
LEMMA Popping ==
  ASSUME NEW S, NEW s \in Seq(S), NEW n \in 0 .. Len(s)
  PROVE  /\ SubSeq(s, 1, Len(s) - n) \in Seq(S)
         /\ Len(SubSeq(s, 1, Len(s) - n)) = Len(s) - n
         /\ \A k \in 1 .. Len(s) - n : SubSeq(s, 1, Len(s) - n)[k] = s[k]
<1>1. Len(s) \in Nat /\ \A k \in 1 .. Len(s) - n : s[k] \in S  BY LenProperties
<1>2. /\ SubSeq(s, 1, Len(s) - n) \in Seq(S)
      /\ Len(SubSeq(s, 1, Len(s) - n)) = IF 1 <= Len(s) - n THEN Len(s) - n - 1 + 1 ELSE 0
      /\ \A k \in 1 .. Len(s) - n - 1 + 1 : SubSeq(s, 1, Len(s) - n)[k] = s[1 + k - 1]
  BY <1>1, SubSeqProperties
<1>3. \A k \in 1 .. Len(s) - n : k \in 1 .. Len(s) - n - 1 + 1 /\ 1 + k - 1 = k  BY <1>1
<1>4. QED  BY <1>1, <1>2, <1>3

(* A stack onto which an element is pushed.                                 *)
LEMMA Pushing ==
  ASSUME NEW S, NEW s \in Seq(S), NEW e \in S
  PROVE  /\ Append(s, e) \in Seq(S) /\ Len(Append(s, e)) = Len(s) + 1
         /\ \A k \in 1 .. Len(s) : Append(s, e)[k] = s[k]
         /\ Append(s, e)[Len(s) + 1] = e
         /\ Len(s) \in Nat
BY AppendProperties, LenProperties

(* Two sequences one after the other.                                       *)
LEMMA Joining ==
  ASSUME NEW S, NEW s \in Seq(S), NEW t \in Seq(S)
  PROVE  /\ s \o t \in Seq(S) /\ Len(s \o t) = Len(s) + Len(t)
         /\ \A k \in 1 .. Len(s) : (s \o t)[k] = s[k]
         /\ \A k \in Len(s) + 1 .. Len(s) + Len(t) : (s \o t)[k] = t[k - Len(s)]
         /\ Len(s) \in Nat /\ Len(t) \in Nat
<1>1. Len(s) \in Nat /\ Len(t) \in Nat  BY LenProperties
<1>2. QED  BY <1>1, ConcatProperties

(* Two sequences of n equal elements are the same.                          *)
LEMMA SameElements ==
  ASSUME NEW S, NEW s \in Seq(S), NEW t \in Seq(S), NEW n, Len(s) = n, Len(t) = n,
         \A k \in 1 .. n : s[k] = t[k]
  PROVE  s = t
<1>1. Len(s) = Len(t) /\ \A k \in 1 .. Len(s) : s[k] = t[k]  OBVIOUS
<1>2. QED  BY ONLY <1>1, s \in Seq(S), t \in Seq(S), SeqEqual
-----------------------------------------------------------------------------
(* Induction, for sets instead of predicates.                               *)

Smaller == {p \in Nat \X Nat : p[1] < p[2]}

LEMMA SmallerWellFounded == IsWellFoundedOn(Smaller, Nat)
<1>1. OpToRel(<, Nat) = Smaller  BY DEF OpToRel, Smaller
<1>2. QED  BY <1>1, NatLessThanWellFounded

LEMMA Smallest ==
  ASSUME NEW T \in SUBSET Nat, T # {}
  PROVE  \E n \in T : \A m \in T : n <= m
<1>1. T \subseteq Nat  OBVIOUS
<1>2. \E n \in T : \A m \in T : <<m, n>> \notin Smaller
  BY ONLY <1>1, T # {}, SmallerWellFounded, WFMin
<1>3. PICK n \in T : \A m \in T : <<m, n>> \notin Smaller  BY <1>2
<1>4. ASSUME NEW m \in T  PROVE n <= m
  <2>1. n \in Nat /\ m \in Nat  BY <1>1
  <2>2. <<m, n>> \notin Smaller  BY <1>3
  <2>3. ~(m < n)  BY <2>1, <2>2 DEF Smaller
  <2>4. QED  BY <2>1, <2>3
<1>5. QED  BY <1>4

LEMMA NatSetInduction ==
  ASSUME NEW T \in SUBSET Nat, 0 \in T, \A n \in T : n + 1 \in T
  PROVE  T = Nat
<1>1. SUFFICES ASSUME Nat \ T # {}  PROVE FALSE  OBVIOUS
<1>2. PICK n \in Nat \ T : \A m \in Nat \ T : n <= m  BY <1>1, Smallest
<1>3. n # 0 /\ n - 1 \in Nat /\ n - 1 \in T  BY <1>2
<1>4. QED  BY <1>2, <1>3
-----------------------------------------------------------------------------
(* The members of a set of numbers in their order.                          *)

LEMMA RankIsCount ==
  ASSUME NEW n \in Nat, NEW S \in SUBSET (1 .. n)
  PROVE  /\ IsFiniteSet(S) /\ Cardinality(S) \in Nat
         /\ \A i : /\ IsFiniteSet({j \in S : j <= i}) /\ Rank(S, i) \in Nat
                   /\ Rank(S, i) <= Cardinality(S)
<1>1. IsFiniteSet(1 .. n)  BY FS_Interval
<1>2. IsFiniteSet(S)  BY <1>1, FS_Subset
<1>3. Cardinality(S) \in Nat  BY <1>2, FS_CardinalityType
<1>4. ASSUME NEW i
      PROVE  /\ IsFiniteSet({j \in S : j <= i}) /\ Rank(S, i) \in Nat
             /\ Rank(S, i) <= Cardinality(S)
  <2> DEFINE T == {j \in S : j <= i}
  <2>1. T \in SUBSET S /\ Rank(S, i) = Cardinality(T)  BY DEF Rank
  <2> HIDE DEF T
  <2>2. IsFiniteSet(T) /\ Cardinality(T) <= Cardinality(S)  BY <1>2, <2>1, FS_Subset
  <2>3. Cardinality(T) \in Nat  BY <2>2, FS_CardinalityType
  <2>4. QED  BY <1>3, <2>1, <2>2, <2>3 DEF T
<1>5. QED  BY <1>2, <1>3, <1>4

(* Neighbours have neighbouring ranks.                                      *)
LEMMA NextRank ==
  ASSUME NEW n \in Nat, NEW S \in SUBSET (1 .. n), NEW a \in Int, NEW i \in S, a < i,
         \A j \in S : ~(a < j /\ j < i)
  PROVE  Rank(S, i) = Rank(S, a) + 1
<1> DEFINE A == {j \in S : j <= a}
<1>1. {j \in S : j <= i} = A \cup {i} /\ i \notin A
  <2>1. i \in Int /\ \A j \in S : j \in Int  OBVIOUS
  <2>2. \A j \in S : j <= i <=> (j <= a \/ j = i)  BY <2>1
  <2>3. ~(i <= a)  BY <2>1
  <2>4. QED  BY <2>2, <2>3
<1>2. IsFiniteSet(A) /\ Rank(S, a) = Cardinality(A)  BY RankIsCount DEF Rank
<1> HIDE DEF A
<1>3. Cardinality(A \cup {i}) = Cardinality(A) + 1  BY <1>1, <1>2, FS_AddElement
<1>4. QED  BY <1>1, <1>2, <1>3 DEF Rank

LEMMA RankGrows ==
  ASSUME NEW n \in Nat, NEW S \in SUBSET (1 .. n), NEW i \in S, NEW j \in S, i < j
  PROVE  Rank(S, i) < Rank(S, j)
<1> DEFINE A == {k \in S : k <= i}
           B == {k \in S : k <= j}
<1>1. A \in SUBSET B /\ j \in B /\ j \notin A
  <2>1. i \in Int /\ j \in Int /\ \A k \in S : k \in Int  OBVIOUS
  <2>2. \A k \in S : k <= i => k <= j  BY <2>1
  <2>3. j <= j /\ ~(j <= i)  BY <2>1
  <2>4. QED  BY <2>2, <2>3
<1>2. IsFiniteSet(B) /\ Rank(S, j) = Cardinality(B) /\ Rank(S, i) = Cardinality(A)
  BY RankIsCount DEF Rank
<1>3. Rank(S, i) \in Nat /\ Rank(S, j) \in Nat  BY RankIsCount
<1> HIDE DEF A, B
<1>4. Cardinality(A) <= Cardinality(B) /\ (Cardinality(B) = Cardinality(A) => B = A)
  BY <1>1, <1>2, FS_Subset
<1>5. QED  BY <1>1, <1>2, <1>3, <1>4

LEMMA SameRank ==
  ASSUME NEW n \in Nat, NEW S \in SUBSET (1 .. n), NEW i \in S, NEW j \in S,
         Rank(S, i) = Rank(S, j)
  PROVE  i = j
<1>1. i \in Int /\ j \in Int  OBVIOUS
<1>2. Rank(S, i) \in Nat /\ Rank(S, j) \in Nat  BY RankIsCount
<1>3. i < j => Rank(S, i) < Rank(S, j)  BY RankGrows
<1>4. j < i => Rank(S, j) < Rank(S, i)  BY RankGrows
<1>5. QED  BY <1>1, <1>2, <1>3, <1>4

(* The last one has the rank of all.                                        *)
LEMMA LastRank ==
  ASSUME NEW S, NEW i, \A j \in S : j <= i
  PROVE  Rank(S, i) = Cardinality(S)
<1>1. {j \in S : j <= i} = S  OBVIOUS
<1>2. QED  BY <1>1 DEF Rank

LEMMA EachRank ==
  ASSUME NEW n \in Nat, NEW S \in SUBSET (1 .. n), NEW k \in 1 .. Cardinality(S)
  PROVE  \E i \in S : Rank(S, i) = k
<1> DEFINE Good(m) == \A q \in 1 .. Rank(S, m) : \E i \in S : Rank(S, i) = q
           T == {m \in Nat : Good(m)}
<1>1. \A m \in Nat : Rank(S, m) \in Nat  BY RankIsCount
<1>2. 0 \in T
  <2>1. {j \in S : j <= 0} = {}
    <3>1. \A j \in S : j \in Int /\ j >= 1  OBVIOUS
    <3>2. \A j \in S : ~(j <= 0)  BY <3>1
    <3>3. QED  BY <3>2
  <2>2. Rank(S, 0) = 0  BY <2>1, FS_EmptySet DEF Rank
  <2>3. QED  BY <2>2
<1>3. ASSUME NEW m \in T  PROVE m + 1 \in T
  <2>1. m \in Nat /\ m + 1 \in Nat /\ Good(m)  OBVIOUS
  <2>2. CASE m + 1 \in S
    <3> DEFINE i == m + 1
    <3>1. i \in S /\ m < i /\ m \in Int /\ \A j \in S : ~(m < j /\ j < i)
      <4>1. \A j \in S : j \in Int  OBVIOUS
      <4>2. QED  BY <2>1, <2>2, <4>1
    <3> HIDE DEF i
    <3>2. Rank(S, i) = Rank(S, m) + 1  BY <3>1, NextRank
    <3>3. \A q \in 1 .. Rank(S, i) : q \in 1 .. Rank(S, m) \/ q = Rank(S, i)
      BY <1>1, <2>1, <3>2
    <3>4. Good(i)  BY <2>1, <3>1, <3>3
    <3>5. QED  BY <2>1, <3>4 DEF i
  <2>3. CASE m + 1 \notin S
    <3>1. {j \in S : j <= m + 1} = {j \in S : j <= m}
      <4>1. ASSUME NEW j \in S  PROVE j <= m + 1 <=> j <= m
        <5>1. j \in Int /\ j # m + 1  BY <2>3
        <5>2. QED  BY <2>1, <5>1
      <4>2. QED  BY <4>1
    <3>2. Rank(S, m + 1) = Rank(S, m)  BY <3>1 DEF Rank
    <3>3. QED  BY <2>1, <3>2
  <2>4. QED  BY <2>2, <2>3
<1>4. T \in SUBSET Nat  OBVIOUS
<1> HIDE DEF T
<1>5. T = Nat  BY <1>2, <1>3, <1>4, NatSetInduction
<1>6. Good(n)  BY <1>5 DEF T
<1>7. Rank(S, n) = Cardinality(S)
  <2>1. \A j \in S : j <= n  OBVIOUS
  <2>2. QED  BY <2>1, LastRank
<1>8. QED  BY <1>6, <1>7

LEMMA NthOne ==
  ASSUME NEW n \in Nat, NEW S \in SUBSET (1 .. n)
  PROVE  /\ \A k \in 1 .. Cardinality(S) : Nth(S, k) \in S /\ Rank(S, Nth(S, k)) = k
         /\ \A i \in S : Nth(S, Rank(S, i)) = i
<1>1. ASSUME NEW k, \E i \in S : Rank(S, i) = k
      PROVE  Nth(S, k) \in S /\ Rank(S, Nth(S, k)) = k
  BY <1>1 DEF Nth
<1>2. ASSUME NEW i \in S  PROVE Nth(S, Rank(S, i)) = i
  <2> DEFINE j == Nth(S, Rank(S, i))
  <2>1. j \in S /\ Rank(S, j) = Rank(S, i)  BY <1>1
  <2> HIDE DEF j
  <2>2. j = i  BY <2>1, SameRank
  <2>3. QED  BY <2>2 DEF j
<1>3. QED  BY <1>1, <1>2, EachRank

(* A larger number leaves the order of the others.                          *)
LEMMA NthOfMore ==
  ASSUME NEW n \in Nat, NEW S \in SUBSET (1 .. n), NEW m \in Nat, n < m
  PROVE  /\ Cardinality(S \cup {m}) = Cardinality(S) + 1
         /\ \A k \in 1 .. Cardinality(S) : Nth(S \cup {m}, k) = Nth(S, k)
         /\ Nth(S \cup {m}, Cardinality(S) + 1) = m
<1> DEFINE T == S \cup {m}
<1>1. T \in SUBSET (1 .. m) /\ m \in T /\ \A j \in S : j \in Int /\ j < m  OBVIOUS
<1>2. Cardinality(T) = Cardinality(S) + 1
  <2>1. IsFiniteSet(S) /\ m \notin S  BY <1>1, RankIsCount
  <2>2. QED  BY <2>1, FS_AddElement
<1>3. ASSUME NEW k \in 1 .. Cardinality(S)  PROVE Nth(T, k) = Nth(S, k)
  <2> DEFINE i == Nth(S, k)
  <2>1. i \in S /\ Rank(S, i) = k  BY NthOne
  <2> HIDE DEF i
  <2>2. {j \in T : j <= i} = {j \in S : j <= i}
    <3>1. ~(m <= i)  BY <1>1, <2>1
    <3>2. QED  BY <3>1
  <2>3. Rank(T, i) = k  BY <2>1, <2>2 DEF Rank
  <2>4. i \in T  BY <2>1
  <2> HIDE DEF T
  <2>5. Nth(T, k) = i  BY <1>1, <2>3, <2>4, NthOne
  <2>6. QED  BY <2>5 DEF i
<1>4. Nth(T, Cardinality(S) + 1) = m
  <2>1. \A j \in T : j <= m  BY <1>1
  <2> HIDE DEF T
  <2>2. Rank(T, m) = Cardinality(T)  BY <2>1, LastRank
  <2>3. QED  BY <1>1, <1>2, <2>2, NthOne
<1>5. QED  BY <1>2, <1>3, <1>4

LEMMA NthLast ==
  ASSUME NEW n \in Nat, NEW S \in SUBSET (1 .. n), NEW i \in S, \A j \in S : j <= i
  PROVE  Cardinality(S) \in Nat /\ Cardinality(S) >= 1 /\ Nth(S, Cardinality(S)) = i
<1>1. Rank(S, i) = Cardinality(S)  BY LastRank
<1>2. Nth(S, Cardinality(S)) = i  BY <1>1, NthOne
<1>3. IsFiniteSet(S) /\ Cardinality(S) \in Nat  BY RankIsCount
<1>4. Cardinality(S) # 0  BY <1>3, FS_EmptySet
<1>5. QED  BY <1>2, <1>3, <1>4

(* The one before i is p, if none is between.                               *)
LEMMA NthBefore ==
  ASSUME NEW n \in Nat, NEW S \in SUBSET (1 .. n), NEW p \in S, NEW i \in S, p < i,
         \A j \in S : ~(p < j /\ j < i), NEW k, k + 1 = Rank(S, i), k \in Int
  PROVE  Nth(S, k) = p
<1>1. p \in Int  OBVIOUS
<1>2. Rank(S, i) = Rank(S, p) + 1  BY <1>1, NextRank
<1>3. Rank(S, p) \in Nat  BY RankIsCount
<1>4. Rank(S, p) = k  BY <1>2, <1>3
<1>5. QED  BY <1>4, NthOne
-----------------------------------------------------------------------------
(* A sequence whose last element is another, has one more, or is left out.   *)
LEMMA LastChanged ==
  ASSUME NEW X, NEW s \in Seq(X), NEW t \in Seq(X), NEW n \in Nat, n >= 1, Len(s) = n,
         Len(t) = n, \A k \in 1 .. n - 1 : t[k] = s[k]
  PROVE  t = Append(SubSeq(s, 1, Len(s) - 1), t[n])
<1> DEFINE q == SubSeq(s, 1, Len(s) - 1)
<1>1. q \in Seq(X) /\ Len(q) = n - 1 /\ \A k \in 1 .. n - 1 : q[k] = s[k]
  <2>1. 1 \in 0 .. Len(s)  OBVIOUS
  <2>2. QED  BY <2>1, Popping
<1>2. t[n] \in X
  <2>1. n \in 1 .. Len(t)  OBVIOUS
  <2>2. QED  BY <2>1, ElementOfSeq
<1> HIDE DEF q
<1> DEFINE a == Append(q, t[n])
<1>3. /\ a \in Seq(X) /\ Len(a) = Len(q) + 1 /\ \A k \in 1 .. Len(q) : a[k] = q[k]
      /\ a[Len(q) + 1] = t[n]
  BY <1>1, <1>2, Pushing
<1> HIDE DEF a
<1>4. Len(a) = n /\ a[n] = t[n] /\ \A k \in 1 .. n - 1 : a[k] = s[k]  BY <1>1, <1>3
<1>5. \A k \in 1 .. n : k = n \/ k \in 1 .. n - 1  OBVIOUS
<1>6. \A k \in 1 .. n : a[k] = t[k]  BY <1>4, <1>5
<1>7. a = t  BY <1>3, <1>4, <1>6, SameElements
<1>8. QED  BY <1>7 DEF a, q

LEMMA LastTwoChanged ==
  ASSUME NEW X, NEW s \in Seq(X), NEW t \in Seq(X), NEW n \in Nat, n >= 1, Len(s) = n,
         Len(t) = n + 1, \A k \in 1 .. n - 1 : t[k] = s[k]
  PROVE  t = SubSeq(s, 1, Len(s) - 1) \o <<t[n], t[n + 1]>>
<1> DEFINE q == SubSeq(s, 1, Len(s) - 1)
           e == <<t[n], t[n + 1]>>
<1>1. q \in Seq(X) /\ Len(q) = n - 1 /\ \A k \in 1 .. n - 1 : q[k] = s[k]
  <2>1. 1 \in 0 .. Len(s)  OBVIOUS
  <2>2. QED  BY <2>1, Popping
<1>2. e \in Seq(X) /\ Len(e) = 2 /\ e[1] = t[n] /\ e[2] = t[n + 1]
  <2>1. n \in 1 .. Len(t) /\ n + 1 \in 1 .. Len(t)  OBVIOUS
  <2>2. t[n] \in X /\ t[n + 1] \in X  BY <2>1, ElementOfSeq
  <2>3. QED  BY <2>2
<1> HIDE DEF q, e
<1> DEFINE a == q \o e
<1>3. /\ a \in Seq(X) /\ Len(a) = Len(q) + Len(e) /\ \A k \in 1 .. Len(q) : a[k] = q[k]
      /\ \A k \in Len(q) + 1 .. Len(q) + Len(e) : a[k] = e[k - Len(q)]
  <2>1. q \in Seq(X) /\ e \in Seq(X)  BY <1>1, <1>2
  <2>2. QED  BY ONLY <2>1, Joining
<1> HIDE DEF a
<1>4. Len(a) = n + 1 /\ \A k \in 1 .. n - 1 : a[k] = t[k]  BY <1>1, <1>2, <1>3
<1>5. a[n] = t[n] /\ a[n + 1] = t[n + 1]
  <2>1. /\ n \in Len(q) + 1 .. Len(q) + Len(e) /\ n - Len(q) = 1
        /\ n + 1 \in Len(q) + 1 .. Len(q) + Len(e) /\ n + 1 - Len(q) = 2
    BY <1>1, <1>2
  <2>2. QED  BY <1>2, <1>3, <2>1
<1>6. \A k \in 1 .. n + 1 : k = n \/ k = n + 1 \/ k \in 1 .. n - 1  OBVIOUS
<1>7. \A k \in 1 .. n + 1 : a[k] = t[k]  BY <1>4, <1>5, <1>6
<1>8. a = t  BY <1>3, <1>4, <1>7, SameElements
<1>9. QED  BY <1>8 DEF a, q, e

(* The last element is left out and the one before it may be another.       *)
OneShorter(s, t, n) ==
  /\ n \in Nat /\ n >= 1 /\ Len(s) = n + 1 /\ Len(t) = n
  /\ \A k \in 1 .. n - 1 : t[k] = s[k]

LEMMA LastLeftOut ==
  ASSUME NEW X, NEW s \in Seq(X), NEW t \in Seq(X), NEW n, OneShorter(s, t, n)
  PROVE  LET q == SubSeq(s, 1, Len(s) - 1)
         IN /\ q # <<>> /\ Len(q) = n /\ q[n] = s[n]
            /\ t = Append(SubSeq(q, 1, Len(q) - 1), t[n])
<1> USE DEF OneShorter
<1> DEFINE q == SubSeq(s, 1, Len(s) - 1)
<1>1. q \in Seq(X) /\ Len(q) = n /\ \A k \in 1 .. n : q[k] = s[k]
  <2>1. 1 \in 0 .. Len(s) /\ Len(s) - 1 = n  OBVIOUS
  <2>2. QED  BY <2>1, Popping
<1> HIDE DEF q
<1>2. \A k \in 1 .. n - 1 : t[k] = q[k]  BY <1>1
<1>3. t = Append(SubSeq(q, 1, Len(q) - 1), t[n])  BY <1>1, <1>2, LastChanged
<1>4. q # <<>> /\ q[n] = s[n]  BY <1>1
<1>5. QED  BY <1>1, <1>3, <1>4 DEF q
-----------------------------------------------------------------------------
(* Elements picked from a sequence.                                         *)
LEMMA PickedIs ==
  ASSUME NEW X, NEW s \in Seq(X), NEW S \in SUBSET (1 .. Len(s))
  PROVE  /\ Picked(s, S) \in Seq(X) /\ Cardinality(S) \in Nat
         /\ Len(Picked(s, S)) = Cardinality(S)
         /\ \A k \in 1 .. Cardinality(S) : Nth(S, k) \in S /\ Picked(s, S)[k] = s[Nth(S, k)]
<1> DEFINE n == Cardinality(S)
           p == Picked(s, S)
<1>1. Len(s) \in Nat /\ n \in Nat  BY LenProperties, RankIsCount
<1>2. \A k \in 1 .. n : Nth(S, k) \in S  BY <1>1, NthOne
<1>3. \A k \in 1 .. n : s[Nth(S, k)] \in X  BY <1>2, ElementOfSeq
<1>4. p = [k \in 1 .. n |-> s[Nth(S, k)]]  BY DEF Picked
<1> HIDE DEF n, p
<1>5. p \in [1 .. n -> X] /\ DOMAIN p = 1 .. n /\ \A k \in 1 .. n : p[k] = s[Nth(S, k)]
  BY <1>3, <1>4
<1>6. p \in Seq(X)  BY <1>1, <1>5, SeqDef
<1>7. Len(p) = n  BY <1>1, <1>5, <1>6, LenProperties
<1>8. QED  BY <1>1, <1>2, <1>5, <1>6, <1>7 DEF n, p

LEMMA PickedBefore ==
  ASSUME NEW X, NEW s \in Seq(X), NEW t \in Seq(X), NEW S \in SUBSET (1 .. Len(s))
  PROVE  Picked(s \o t, S) = Picked(s, S)
<1> DEFINE u == s \o t
<1>1. u \in Seq(X) /\ \A k \in 1 .. Len(s) : u[k] = s[k]  BY Joining
<1> HIDE DEF u
<1>2. \A k \in 1 .. Cardinality(S) : Nth(S, k) \in S  BY PickedIs
<1>3. \A k \in 1 .. Cardinality(S) : u[Nth(S, k)] = s[Nth(S, k)]  BY <1>1, <1>2
<1>4. Picked(u, S) = Picked(s, S)  BY <1>3 DEF Picked
<1>5. QED  BY <1>4 DEF u

LEMMA RanksOfMore ==
  ASSUME NEW n \in Nat, NEW m \in Nat, NEW S \in SUBSET (1 .. n)
  PROVE  LET T == S \cup (n + 1 .. n + m)
         IN  /\ T \in SUBSET (1 .. n + m) /\ Cardinality(T) = Cardinality(S) + m
             /\ \A k \in 1 .. Cardinality(S) : Nth(T, k) = Nth(S, k)
             /\ \A q \in 1 .. m : Nth(T, Cardinality(S) + q) = n + q
<1> DEFINE T == S \cup (n + 1 .. n + m)
<1>1. T \in SUBSET (1 .. n + m) /\ n + m \in Nat /\ \A j \in S : j \in Int /\ j <= n  OBVIOUS
<1>2. IsFiniteSet(S) /\ Cardinality(S) \in Nat  BY RankIsCount
<1>3. ASSUME NEW q \in 0 .. m
      PROVE  Cardinality(S \cup (n + 1 .. n + q)) = Cardinality(S) + q
  <2> DEFINE I == n + 1 .. n + q
  <2>1. IsFiniteSet(I) /\ Cardinality(I) = q
    <3>1. n + 1 \in Int /\ n + q \in Int  OBVIOUS
    <3>2. IsFiniteSet(I) /\ Cardinality(I) = IF n + 1 > n + q THEN 0 ELSE n + q - (n + 1) + 1
      BY ONLY <3>1, FS_Interval
    <3> HIDE DEF I
    <3>3. QED  BY <3>2
  <2>2. S \cap I = {}
    <3>1. \A j \in I : j \in Int /\ ~(j <= n)  OBVIOUS
    <3>2. QED  BY <1>1, <3>1
  <2> HIDE DEF I
  <2>3. Cardinality(S \cap I) = 0  BY <2>2, FS_EmptySet
  <2>4. Cardinality(S \cup I) = Cardinality(S) + Cardinality(I) - Cardinality(S \cap I)
    BY <1>2, <2>1, FS_Union
  <2>5. Cardinality(S \cup I) = Cardinality(S) + q  BY <1>2, <2>1, <2>3, <2>4
  <2>6. QED  BY <2>5 DEF I
<1>4. Cardinality(T) = Cardinality(S) + m
  <2>1. m \in 0 .. m  OBVIOUS
  <2>2. QED  BY <1>3, <2>1
<1>5. ASSUME NEW k \in 1 .. Cardinality(S)  PROVE Nth(T, k) = Nth(S, k)
  <2> DEFINE i == Nth(S, k)
  <2>1. i \in S /\ Rank(S, i) = k  BY NthOne
  <2> HIDE DEF i
  <2>2. {j \in T : j <= i} = {j \in S : j <= i}
    <3>1. i \in Int /\ i <= n  BY <1>1, <2>1
    <3>2. \A j \in n + 1 .. n + m : ~(j <= i)  BY <3>1
    <3>3. QED  BY <3>2
  <2>3. Rank(T, i) = k /\ i \in T  BY <2>1, <2>2 DEF Rank
  <2> HIDE DEF T
  <2>4. Nth(T, k) = i  BY <1>1, <2>3, NthOne
  <2>5. QED  BY <2>4 DEF i
<1>6. ASSUME NEW q \in 1 .. m  PROVE Nth(T, Cardinality(S) + q) = n + q
  <2> DEFINE i == n + q
             k == Cardinality(S) + q
  <2>1. {j \in T : j <= i} = S \cup (n + 1 .. n + q)
    <3>1. \A j \in S : j <= i  BY <1>1
    <3>2. \A j \in n + 1 .. n + m : j <= i <=> j \in n + 1 .. n + q  OBVIOUS
    <3>3. \A j \in n + 1 .. n + q : j \in n + 1 .. n + m  OBVIOUS
    <3> HIDE DEF i
    <3>4. QED  BY <3>1, <3>2, <3>3
  <2>2. q \in 0 .. m  OBVIOUS
  <2>3. Rank(T, i) = k  BY <1>3, <2>1, <2>2 DEF Rank
  <2>4. i \in T
    <3>1. i \in n + 1 .. n + m  OBVIOUS
    <3>2. QED  BY <3>1
  <2> HIDE DEF T, i, k
  <2>5. Nth(T, k) = i  BY <1>1, <2>3, <2>4, NthOne
  <2>6. QED  BY <2>5 DEF i, k
<1>7. QED  BY <1>1, <1>4, <1>5, <1>6

LEMMA PickedAll ==
  ASSUME NEW X, NEW s \in Seq(X), NEW t \in Seq(X), NEW S \in SUBSET (1 .. Len(s))
  PROVE  Picked(s \o t, S \cup (Len(s) + 1 .. Len(s) + Len(t))) = Picked(s, S) \o t
<1> DEFINE n == Len(s)
           m == Len(t)
           c == Cardinality(S)
           T == S \cup (n + 1 .. n + m)
           u == s \o t
           p == Picked(s, S)
           v == p \o t
           w == Picked(u, T)
<1>1. n \in Nat /\ m \in Nat  BY LenProperties
<1>2. /\ u \in Seq(X) /\ Len(u) = n + m /\ \A k \in 1 .. n : u[k] = s[k]
      /\ \A k \in n + 1 .. n + m : u[k] = t[k - n]
  BY Joining
<1>3. /\ p \in Seq(X) /\ c \in Nat /\ Len(p) = c
      /\ \A k \in 1 .. c : Nth(S, k) \in S /\ p[k] = s[Nth(S, k)]
  BY PickedIs
<1> HIDE DEF n, m, u, p
<1>4. /\ T \in SUBSET (1 .. n + m) /\ Cardinality(T) = c + m
      /\ \A k \in 1 .. c : Nth(T, k) = Nth(S, k)
      /\ \A q \in 1 .. m : Nth(T, c + q) = n + q
  <2>1. S \in SUBSET (1 .. n)  BY DEF n
  <2>2. QED  BY <1>1, <2>1, RanksOfMore
<1> HIDE DEF T
<1>5. /\ w \in Seq(X) /\ Len(w) = c + m /\ \A k \in 1 .. c + m : w[k] = u[Nth(T, k)]
  <2>1. T \in SUBSET (1 .. Len(u))  BY <1>2, <1>4
  <2>2. /\ w \in Seq(X) /\ Len(w) = Cardinality(T)
        /\ \A k \in 1 .. Cardinality(T) : w[k] = u[Nth(T, k)]
    BY <1>2, <2>1, PickedIs
  <2>3. QED  BY <1>4, <2>2
<1>6. /\ v \in Seq(X) /\ Len(v) = c + m /\ \A k \in 1 .. c : v[k] = p[k]
      /\ \A k \in c + 1 .. c + m : v[k] = t[k - c]
  <2>1. /\ v \in Seq(X) /\ Len(v) = Len(p) + Len(t) /\ \A k \in 1 .. Len(p) : v[k] = p[k]
        /\ \A k \in Len(p) + 1 .. Len(p) + Len(t) : v[k] = t[k - Len(p)]
    BY <1>3, Joining
  <2>2. QED  BY <1>3, <2>1 DEF m
<1> HIDE DEF v, w, c
<1>7. ASSUME NEW k \in 1 .. c + m  PROVE w[k] = v[k]
  <2>1. CASE k \in 1 .. c
    <3>1. w[k] = u[Nth(S, k)]  BY <1>4, <1>5, <2>1
    <3>2. Nth(S, k) \in 1 .. n  BY <1>3, <2>1 DEF n
    <3>3. QED  BY <1>2, <1>3, <1>6, <2>1, <3>1, <3>2
  <2>2. CASE k \in c + 1 .. c + m
    <3> DEFINE q == k - c
           r == n + q
    <3>1. q \in 1 .. m /\ c + q = k /\ r \in n + 1 .. n + m /\ r - n = q
      BY <1>1, <1>3, <2>2
    <3>2. v[k] = t[q]  BY <1>6, <2>2
    <3>3. Nth(T, c + q) = r
      <4> HIDE DEF q
      <4>1. QED  BY <1>4, <3>1
    <3> HIDE DEF q, r
    <3>4. w[k] = u[r]  BY <1>5, <3>1, <3>3
    <3>5. u[r] = t[r - n]  BY <1>2, <3>1
    <3>6. QED  BY <3>1, <3>2, <3>4, <3>5
  <2>3. QED  BY <1>1, <1>3, <2>1, <2>2
<1>8. w = v  BY <1>5, <1>6, <1>7, SameElements
<1>9. QED  BY <1>8 DEF w, v, u, p, T, n, m

(* The elements of A in a sequence, when more elements are all of A, or none.  *)
Those(s, A) == Picked(s, {k \in DOMAIN s : s[k] \in A})

LEMMA ThoseMore ==
  ASSUME NEW X, NEW A, NEW s \in Seq(X), NEW t \in Seq(X)
  PROVE  /\ Those(s, A) \in Seq(X)
         /\ (\A k \in 1 .. Len(t) : t[k] \in A) => Those(s \o t, A) = Those(s, A) \o t
         /\ (\A k \in 1 .. Len(t) : t[k] \notin A) => Those(s \o t, A) = Those(s, A)
<1> DEFINE n == Len(s)
           m == Len(t)
           u == s \o t
           S == {k \in 1 .. n : s[k] \in A}
           T == {k \in 1 .. n + m : u[k] \in A}
<1>1. /\ u \in Seq(X) /\ Len(u) = n + m /\ \A k \in 1 .. n : u[k] = s[k]
      /\ \A k \in n + 1 .. n + m : u[k] = t[k - n]
      /\ n \in Nat /\ m \in Nat
  BY Joining
<1>2. DOMAIN s = 1 .. n /\ DOMAIN u = 1 .. n + m
  <2> HIDE DEF u
  <2>1. DOMAIN s = 1 .. n  BY LenProperties
  <2>2. DOMAIN u = 1 .. Len(u)  BY <1>1, LenProperties
  <2>3. QED  BY <1>1, <2>1, <2>2
<1>3. Those(s, A) = Picked(s, S) /\ Those(u, A) = Picked(u, T)
  <2> HIDE DEF u
  <2>1. QED  BY <1>2 DEF Those
<1>4. S \in SUBSET (1 .. Len(s))  OBVIOUS
<1>5. Those(s, A) \in Seq(X)
  <2> HIDE DEF S
  <2>1. QED  BY <1>3, <1>4, PickedIs
<1>6. ASSUME \A k \in 1 .. m : t[k] \in A
      PROVE  Those(u, A) = Those(s, A) \o t
  <2>1. \A k \in n + 1 .. n + m : u[k] \in A
    <3> HIDE DEF u, n, m
    <3>1. \A k \in n + 1 .. n + m : k - n \in 1 .. m  BY <1>1
    <3>2. QED  BY <1>1, <1>6, <3>1
  <2>2. T = S \cup (n + 1 .. n + m)
    <3> HIDE DEF u, n, m
    <3>1. \A k \in 1 .. n + m : k \in 1 .. n \/ k \in n + 1 .. n + m  BY <1>1
    <3>2. \A k \in 1 .. n : k \in 1 .. n + m  BY <1>1
    <3>3. \A k \in n + 1 .. n + m : k \in 1 .. n + m  BY <1>1
    <3>4. \A k : k \in T <=> k \in S \cup (n + 1 .. n + m)  BY <1>1, <2>1, <3>1, <3>2, <3>3
    <3> HIDE DEF S, T
    <3>5. QED  BY <3>4
  <2> HIDE DEF S, T
  <2>3. Picked(u, T) = Picked(s, S) \o t  BY <1>4, <2>2, PickedAll
  <2>4. QED  BY <1>3, <2>3
<1>7. ASSUME \A k \in 1 .. m : t[k] \notin A
      PROVE  Those(u, A) = Those(s, A)
  <2>1. \A k \in n + 1 .. n + m : u[k] \notin A
    <3> HIDE DEF u, n, m
    <3>1. \A k \in n + 1 .. n + m : k - n \in 1 .. m  BY <1>1
    <3>2. QED  BY <1>1, <1>7, <3>1
  <2>2. T = S
    <3> HIDE DEF u, n, m
    <3>1. \A k \in 1 .. n + m : k \in 1 .. n \/ k \in n + 1 .. n + m  BY <1>1
    <3>2. \A k \in 1 .. n : k \in 1 .. n + m  BY <1>1
    <3>3. \A k : k \in T <=> k \in S  BY <1>1, <2>1, <3>1, <3>2
    <3> HIDE DEF S, T
    <3>4. QED  BY <3>3
  <2> HIDE DEF S, T
  <2>3. Picked(u, S) = Picked(s, S)  BY <1>4, PickedBefore
  <2>4. QED  BY <1>3, <2>2, <2>3
<1>8. QED  BY <1>5, <1>6, <1>7
=============================================================================
