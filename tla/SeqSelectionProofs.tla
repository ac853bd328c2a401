------------------------- MODULE SeqSelectionProofs --------------------------
(***************************************************************************)
(* What filter and splice return, for every sequence, and the facts about  *)
(* numbers that the proofs of the agent's services rest on.                *)
(***************************************************************************)
EXTENDS SeqSelection, FiniteSetTheorems, NaturalsInduction, SequenceTheorems, TLAPS

\* The least element of a set of natural numbers.
LEMMA LeastNat ==
  ASSUME NEW T, T \subseteq Nat, T # {}
  PROVE  \E x \in T : \A y \in T : x <= y
  <1>1. PICK x \in T : \A y \in T : ~ (<<y, x>> \in OpToRel(<, Nat))
    BY NatLessThanWellFounded, WFMin, Zenon
  <1>2. \A y \in T : ~(y < x)
    BY <1>1 DEF OpToRel
  <1> QED
    BY <1>2

\* The first place of a sequence, if there is one at all.
LEMMA FirstPlace ==
  ASSUME NEW n \in Nat, NEW T, T \subseteq 1 .. n, T # {}
  PROVE  \E i \in T : \A j \in 1 .. i - 1 : j \notin T
  <1>0. T \subseteq Nat
    OBVIOUS
  <1>1. PICK i \in T : \A y \in T : i <= y
    BY <1>0, LeastNat
  <1> QED
    BY <1>0, <1>1

\* 1 .. n has n elements.
LEMMA FirstNumbers ==
  ASSUME NEW n \in Nat
  PROVE  IsFiniteSet(1 .. n) /\ Cardinality(1 .. n) = n
  <1>1. 1 \in Int /\ n \in Int
    OBVIOUS
  <1>2. IsFiniteSet(1 .. n) /\ Cardinality(1 .. n) = IF 1 > n THEN 0 ELSE n - 1 + 1
    BY <1>1, FS_Interval, Zenon
  <1> QED
    BY <1>2

\* What ItemsAt keeps, and that it keeps the order.
InOrderAt(picked, items, places) ==
  \E at \in [1 .. Cardinality(places) -> places] :
    /\ \A k \in 1 .. Cardinality(places) : picked[k] = items[at[k]]
    /\ \A i \in places : \E k \in 1 .. Cardinality(places) : at[k] = i
    /\ \A k, l \in 1 .. Cardinality(places) : k < l => at[k] < at[l]
LEMMA ItemsAtPlaces ==
  ASSUME NEW S, NEW items \in Seq(S), NEW places, places \subseteq DOMAIN items
  PROVE  /\ ItemsAt(items, places) \in Seq(S)
         /\ Len(ItemsAt(items, places)) = Cardinality(places)
         /\ Cardinality(places) <= Len(items)
         /\ InOrderAt(ItemsAt(items, places), items, places)
  <1> DEFINE n == Cardinality(places)
             rank == [i \in places |-> Rank(i, places)]
             at == [k \in 1 .. n |-> CHOOSE i \in places : Rank(i, places) = k]
  <1>1. /\ IsFiniteSet(places) /\ n \in Nat /\ n <= Len(items)
        /\ places \subseteq Nat
    <2>a. Len(items) \in Nat /\ places \subseteq 1 .. Len(items)
      OBVIOUS
    <2>1. IsFiniteSet(1 .. Len(items)) /\ Cardinality(1 .. Len(items)) = Len(items)
      BY <2>a, FirstNumbers
    <2> QED
      BY <2>a, <2>1, FS_Subset, FS_CardinalityType
  <1>2. ASSUME NEW i \in places, NEW j \in places, i < j PROVE Rank(i, places) < Rank(j, places)
    <2> DEFINE A == {x \in places : x <= i}
               B == {x \in places : x <= j}
    <2>1. IsFiniteSet(A) /\ IsFiniteSet(B) /\ A \subseteq B /\ A # B
      BY <1>1, <1>2, FS_Subset
    <2>2. Cardinality(A) \in Nat /\ Cardinality(B) \in Nat /\ Cardinality(A) <= Cardinality(B) /\ Cardinality(A) # Cardinality(B)
      BY <2>1, FS_Subset, FS_CardinalityType
    <2> QED
      BY <2>2 DEF Rank
  <1>3. ASSUME NEW i \in places PROVE Rank(i, places) \in 1 .. n
    <2> DEFINE A == {x \in places : x <= i}
    <2>1. IsFiniteSet(A) /\ A \subseteq places /\ i \in A
      BY <1>1, FS_Subset
    <2>2. Cardinality(A) \in Nat /\ Cardinality(A) <= n /\ Cardinality(A) # 0
      BY <1>1, <2>1, FS_Subset, FS_CardinalityType, FS_EmptySet
    <2> QED
      BY <1>1, <2>2 DEF Rank
  <1>4. rank \in [places -> 1 .. n] /\ \A i, j \in places : rank[i] = rank[j] => i = j
    <2>1. \A i, j \in places : i < j \/ j < i \/ i = j
      BY <1>1
    <2> QED
      BY <1>2, <1>3, <2>1
  <1>5. rank \in Injection(places, 1 .. n)
    BY <1>4 DEF Injection, IsInjective
  <1>6. rank \in Surjection(places, 1 .. n)
    <2>1. IsFiniteSet(1 .. n) /\ Cardinality(1 .. n) = n
      BY <1>1, FirstNumbers
    <2> QED
      BY <1>5, <2>1, FS_Injection
  <1>7. \A k \in 1 .. n : \E i \in places : rank[i] = k
    BY <1>6 DEF Surjection
  <1>8. \A k \in 1 .. n : at[k] \in places /\ Rank(at[k], places) = k
    BY <1>7
  <1>9. at \in [1 .. n -> places]
    BY <1>8
  <1>10. \A i \in places : Rank(i, places) \in 1 .. n /\ at[Rank(i, places)] = i
    BY <1>3, <1>4, <1>8
  <1>11. \A k, l \in 1 .. n : k < l => at[k] < at[l]
    <2> SUFFICES ASSUME NEW k \in 1 .. n, NEW l \in 1 .. n, k < l, ~(at[k] < at[l]) PROVE FALSE
      OBVIOUS
    <2>1. at[k] \in places /\ at[l] \in places /\ at[k] \in Nat /\ at[l] \in Nat /\ Rank(at[k], places) = k /\ Rank(at[l], places) = l
      BY <1>1, <1>8
    <2>2. at[k] = at[l] \/ at[l] < at[k]
      BY <2>1
    <2>3. CASE at[k] = at[l]
      BY <2>1, <2>3
    <2>4. CASE at[l] < at[k]
      <3>1. l < k
        BY <2>1, <2>4, <1>2
      <3> QED
        BY <3>1
    <2> QED
      BY <2>2, <2>3, <2>4
  <1>12. \A k \in 1 .. n : ItemsAt(items, places)[k] = items[at[k]]
    BY DEF ItemsAt
  <1>13. ItemsAt(items, places) \in Seq(S) /\ Len(ItemsAt(items, places)) = n
    <2>1. \A k \in 1 .. n : items[at[k]] \in S
      BY <1>8
    <2>2. ItemsAt(items, places) \in [1 .. n -> S]
      BY <2>1 DEF ItemsAt
    <2> QED
      BY <1>1, <2>2
  <1>14. \A i \in places : \E k \in 1 .. n : at[k] = i
    BY <1>10
  <1> QED
    BY <1>1, <1>9, <1>11, <1>12, <1>13, <1>14 DEF InOrderAt
\* A sequence without one of its items.
LEMMA WithoutPlace ==
  ASSUME NEW S, NEW s \in Seq(S), NEW i \in DOMAIN s
  PROVE  /\ Without(s, i) \in Seq(S) /\ Len(Without(s, i)) = Len(s) - 1
         /\ \A j \in 1 .. Len(s) - 1 : Without(s, i)[j] = IF j < i THEN s[j] ELSE s[j + 1]
         /\ \A j \in DOMAIN s \ {i} : \E k \in DOMAIN Without(s, i) : Without(s, i)[k] = s[j]
         /\ \A k \in DOMAIN Without(s, i) : \E j \in DOMAIN s \ {i} : Without(s, i)[k] = s[j]
  <1> DEFINE a == SubSeq(s, 1, i - 1)
             b == SubSeq(s, i + 1, Len(s))
             r == Without(s, i)
  <1>1. Len(s) \in Nat /\ i \in Nat /\ 1 <= i /\ i <= Len(s) /\ DOMAIN s = 1 .. Len(s)
    OBVIOUS
  <1>2. a \in Seq(S) /\ Len(a) = i - 1 /\ \A j \in 1 .. i - 1 : a[j] = s[j]
    BY <1>1
  <1>3. b \in Seq(S) /\ Len(b) = Len(s) - i /\ \A j \in 1 .. Len(s) - i : b[j] = s[i + j]
    BY <1>1
  <1>a. r = a \o b
    BY DEF Without
  <1> HIDE DEF a, b, r
  <1>b. /\ r \in Seq(S) /\ Len(r) = Len(a) + Len(b)
        /\ \A j \in 1 .. Len(a) + Len(b) : r[j] = IF j <= Len(a) THEN a[j] ELSE b[j - Len(a)]
    <2>1. a \in Seq(S) /\ b \in Seq(S)
      BY <1>2, <1>3
    <2> QED
      BY <1>a, <2>1, ConcatProperties, Zenon
  <1>4. /\ r \in Seq(S) /\ Len(r) = Len(s) - 1
        /\ \A j \in 1 .. Len(s) - 1 : r[j] = IF j < i THEN s[j] ELSE s[j + 1]
    <2>a. Len(a) + Len(b) = Len(s) - 1
      BY <1>1, <1>2, <1>3
    <2>1. r \in Seq(S) /\ Len(r) = Len(s) - 1
      BY <1>b, <2>a
    <2>2. ASSUME NEW j \in 1 .. Len(s) - 1 PROVE r[j] = IF j < i THEN s[j] ELSE s[j + 1]
      <3>1. j \in 1 .. Len(a) + Len(b)
        BY <1>1, <1>2, <1>3
      <3>2. CASE j < i
        BY <1>1, <1>2, <1>b, <3>1, <3>2
      <3>3. CASE ~(j < i)
        <4>1. j - Len(a) \in 1 .. Len(s) - i /\ i + (j - Len(a)) = j + 1 /\ ~(j <= Len(a))
          BY <1>1, <1>2, <3>3
        <4> QED
          BY <1>3, <1>b, <3>1, <3>3, <4>1
      <3> QED
        BY <3>2, <3>3
    <2> QED
      BY <2>1, <2>2
  <1>5. DOMAIN r = 1 .. Len(s) - 1
    BY <1>4
  <1>6. ASSUME NEW j \in DOMAIN s \ {i} PROVE \E k \in DOMAIN r : r[k] = s[j]
    <2>1. CASE j < i
      <3>1. j \in 1 .. Len(s) - 1
        BY <1>1, <2>1
      <3> QED
        BY <1>4, <1>5, <2>1, <3>1
    <2>2. CASE j > i
      <3>1. j - 1 \in 1 .. Len(s) - 1 /\ ~(j - 1 < i) /\ j - 1 + 1 = j
        BY <1>1, <2>2
      <3>2. r[j - 1] = s[j]
        BY <1>4, <3>1
      <3> QED
        BY <1>5, <3>1, <3>2
    <2>3. j \in Nat /\ j # i
      BY <1>1
    <2>4. j < i \/ j > i
      BY <1>1, <2>3
    <2> QED
      BY <2>1, <2>2, <2>4
  <1>7. ASSUME NEW k \in DOMAIN r PROVE \E j \in DOMAIN s \ {i} : r[k] = s[j]
    <2>1. CASE k < i
      BY <1>1, <1>4, <1>5, <2>1
    <2>2. CASE ~(k < i)
      <3>1. k + 1 \in DOMAIN s \ {i}
        BY <1>1, <1>5, <2>2
      <3>2. r[k] = s[k + 1]
        BY <1>4, <1>5, <2>2
      <3> QED
        BY <3>1, <3>2
    <2> QED
      BY <2>1, <2>2
  <1> QED
    BY <1>4, <1>6, <1>7 DEF r
=============================================================================
