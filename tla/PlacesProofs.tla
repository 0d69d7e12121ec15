---------------------------- MODULE PlacesProofs ----------------------------
(***************************************************************************)
(* Lemmas about Places: ranks count up by one at each element, so each     *)
(* rank from 1 to the number of elements is that of exactly one.           *)
(***************************************************************************)
EXTENDS Places, Integers, FiniteSetTheorems, FunctionTheorems, WellFoundedInduction, TLAPS

\* A set of natural numbers has a least one.
LEMMA LeastNatural ==
  ASSUME NEW S, S \subseteq Nat, S # {}
  PROVE  \E x \in S : \A y \in S : x <= y
<1> DEFINE R == OpToRel(<, Nat)
<1>1. IsWellFoundedOn(R, Nat)
  BY NatLessThanWellFounded
<1>2. R = {ss \in Nat \X Nat : ss[1] < ss[2]}
  BY DEF OpToRel
<1>3. PICK x \in S : \A y \in S : <<y, x>> \notin R
  <2> HIDE DEF R
  <2> QED
    BY <1>1, WFMin
<1>4. ASSUME NEW y \in S
      PROVE  x <= y
  <2>1. <<y, x>> \in Nat \X Nat
    OBVIOUS
  <2>2. ~ (y < x)
    BY <1>2, <1>3, <2>1
  <2> QED
    BY <2>2
<1> QED
  BY <1>4

\* The elements up to a position are finitely many.
LEMMA RankType ==
  ASSUME NEW S \in SUBSET Nat, NEW i \in Nat
  PROVE  IsFiniteSet({p \in S : p <= i}) /\ RankIn(S, i) \in Nat
<1>1. {p \in S : p <= i} \in SUBSET Nat
  OBVIOUS
<1>2. IsFiniteSet({p \in S : p <= i})
  BY <1>1, FS_BoundedSetOfNaturals
<1> QED
  BY <1>2, FS_CardinalityType DEF RankIn

\* A rank grows by one at an element, and nowhere else.
LEMMA RankStep ==
  ASSUME NEW S \in SUBSET (Nat \ {0}), NEW i \in Nat
  PROVE  /\ RankIn(S, 0) = 0
         /\ RankIn(S, i + 1) = IF i + 1 \in S THEN RankIn(S, i) + 1 ELSE RankIn(S, i)
<1>0. \A p \in S : p \in Nat /\ p # 0
  OBVIOUS
<1>1. {p \in S : p <= 0} = {}
  <2>1. \A p \in S : ~(p <= 0)
    BY <1>0
  <2> QED
    BY <2>1
<1>2. RankIn(S, 0) = 0
  BY <1>1, FS_EmptySet DEF RankIn
<1> DEFINE Low == {p \in S : p <= i}
<1>3. IsFiniteSet(Low) /\ i + 1 \notin Low
  BY RankType
<1>4. CASE i + 1 \in S
  <2>1. {p \in S : p <= i + 1} = Low \cup {i + 1}
    <3>1. \A p \in S : p <= i + 1 <=> p <= i \/ p = i + 1
      BY <1>0
    <3> QED
      BY <1>4, <3>1
  <2> HIDE DEF Low
  <2>2. Cardinality(Low \cup {i + 1}) = Cardinality(Low) + 1
    BY <1>3, FS_AddElement
  <2> QED
    BY <1>2, <1>4, <2>1, <2>2 DEF RankIn, Low
<1>5. CASE i + 1 \notin S
  <2>1. {p \in S : p <= i + 1} = Low
    <3>1. \A p \in S : p <= i + 1 <=> p <= i
      BY <1>0, <1>5
    <3> QED
      BY <3>1
  <2> QED
    BY <1>2, <1>5, <2>1 DEF RankIn
<1> QED
  BY <1>4, <1>5

\* Ranks do not fall, and an element has a greater one than what precedes it.
LEMMA RankMonotonic ==
  ASSUME NEW S \in SUBSET (Nat \ {0}), NEW i \in Nat, NEW j \in Nat, i < j
  PROVE  /\ RankIn(S, i) <= RankIn(S, j)
         /\ j \in S => RankIn(S, i) < RankIn(S, j)
<1> DEFINE Low(n) == {p \in S : p <= n}
<1>1. Low(i) \in SUBSET Low(j) /\ IsFiniteSet(Low(j))
  <2>1. IsFiniteSet(Low(j))
    BY RankType
  <2>2. \A p \in S : p <= i => p <= j
    <3>1. \A p \in S : p \in Nat
      OBVIOUS
    <3> QED
      BY <3>1
  <2> QED
    BY <2>1, <2>2
<1>2. j \in S => j \in Low(j) /\ j \notin Low(i)
  OBVIOUS
<1>3. RankIn(S, i) \in Nat /\ RankIn(S, j) \in Nat
  BY RankType
<1> HIDE DEF Low
<1>4. /\ Cardinality(Low(i)) <= Cardinality(Low(j))
      /\ Cardinality(Low(j)) = Cardinality(Low(i)) => Low(j) = Low(i)
  BY <1>1, FS_Subset
<1>5. RankIn(S, i) = Cardinality(Low(i)) /\ RankIn(S, j) = Cardinality(Low(j))
  BY DEF RankIn, Low
<1> QED
  BY <1>2, <1>3, <1>4, <1>5

\* The rank of the last position counts the whole set.
LEMMA RankOfLast ==
  ASSUME NEW n \in Nat, NEW S \in SUBSET (1..n)
  PROVE  /\ IsFiniteSet(S) /\ Cardinality(S) \in Nat
         /\ S \in SUBSET (Nat \ {0})
         /\ RankIn(S, n) = Cardinality(S)
<1>1. \A p \in S : p \in Nat \ {0} /\ p <= n
  OBVIOUS
<1>2. S \in SUBSET Nat /\ S \in SUBSET (Nat \ {0})
  BY <1>1
<1>3. {p \in S : p <= n} = S
  BY <1>1
<1>4. IsFiniteSet(S)
  BY <1>2, <1>3, RankType
<1>5. Cardinality(S) \in Nat
  BY <1>4, FS_CardinalityType
<1> QED
  BY <1>2, <1>3, <1>4, <1>5 DEF RankIn

\* The element of a rank exists, and the rank tells it from the others.
LEMMA NthProperties ==
  ASSUME NEW n \in Nat, NEW S \in SUBSET (1..n)
  PROVE  /\ \A k \in 1..Cardinality(S) : Nth(S, k) \in S /\ RankIn(S, Nth(S, k)) = k
         /\ \A p \in S : RankIn(S, p) \in 1..Cardinality(S) /\ Nth(S, RankIn(S, p)) = p
<1>1. /\ S \in SUBSET (Nat \ {0}) /\ Cardinality(S) \in Nat
      /\ RankIn(S, n) = Cardinality(S)
  BY RankOfLast
<1>2. \A i \in Nat : RankIn(S, i) \in Nat
  BY <1>1, RankType
<1>3. ASSUME NEW k \in 1..Cardinality(S)
      PROVE  \E p \in S : RankIn(S, p) = k
  <2> DEFINE High == {i \in Nat : k <= RankIn(S, i)}
  <2>1. High \subseteq Nat /\ n \in High
    BY <1>1
  <2>2. PICK m \in High : \A i \in High : m <= i
    <3> HIDE DEF High
    <3> QED
      BY <2>1, LeastNatural
  <2>3. m # 0
    BY <1>1, <2>2, RankStep
  <2>4. m - 1 \in Nat /\ m - 1 \notin High
    BY <2>2, <2>3
  <2>5. RankIn(S, m - 1) < k /\ k <= RankIn(S, m)
    BY <1>2, <2>2, <2>4
  <2>6. RankIn(S, (m - 1) + 1) = IF (m - 1) + 1 \in S THEN RankIn(S, m - 1) + 1
                                 ELSE RankIn(S, m - 1)
    BY <1>1, <2>4, RankStep
  <2>7. (m - 1) + 1 = m
    BY <2>2
  <2>8. m \in S /\ RankIn(S, m) = k
    BY <1>2, <2>2, <2>4, <2>5, <2>6, <2>7
  <2> QED
    BY <2>8
<1>4. ASSUME NEW p \in S, NEW q \in S, RankIn(S, p) = RankIn(S, q)
      PROVE  p = q
  <2>1. p \in Nat /\ q \in Nat
    BY <1>1
  <2>2. ~(p < q) /\ ~(q < p)
    BY <1>1, <1>2, <1>4, <2>1, RankMonotonic
  <2> QED
    BY <2>1, <2>2
<1>5. ASSUME NEW p \in S
      PROVE  RankIn(S, p) \in 1..Cardinality(S)
  <2>1. p \in 1..n /\ p - 1 \in Nat /\ p \in Nat
    OBVIOUS
  <2>2. RankIn(S, p - 1) < RankIn(S, p)
    BY <1>1, <2>1, RankMonotonic
  <2>3. RankIn(S, p) <= RankIn(S, n)
    BY <1>1, <1>2, <2>1, RankMonotonic
  <2> QED
    BY <1>1, <1>2, <2>1, <2>2, <2>3
<1> QED
  BY <1>3, <1>4, <1>5 DEF Nth

\* Picking out of a sequence gives elements of it.
LEMMA PickedElements ==
  ASSUME NEW n \in Nat, NEW S \in SUBSET (1..n), NEW s
  PROVE  /\ Cardinality(S) \in Nat /\ DOMAIN Picked(s, S) = 1..Cardinality(S)
         /\ \A k \in 1..Cardinality(S) : \E p \in S : RankIn(S, p) = k /\ Picked(s, S)[k] = s[p]
         /\ \A p \in S : RankIn(S, p) \in 1..Cardinality(S) /\ Picked(s, S)[RankIn(S, p)] = s[p]
BY RankOfLast, NthProperties DEF Picked

\* A map onto a set that keeps the order has as many values as arguments.
LEMMA MonotoneCount ==
  ASSUME NEW S \in SUBSET Nat, IsFiniteSet(S), NEW T, NEW h \in [S -> T], T \in SUBSET Nat,
         \A q \in T : \E p \in S : h[p] = q,
         \A p, q \in S : p < q => h[p] < h[q]
  PROVE  Cardinality(T) = Cardinality(S)
<1>1. ASSUME NEW p \in S, NEW q \in S, h[p] = h[q]
      PROVE  p = q
  <2>1. p \in Nat /\ q \in Nat /\ h[p] \in Nat /\ h[q] \in Nat
    OBVIOUS
  <2>2. ~(p < q) /\ ~(q < p)
    BY <1>1, <2>1
  <2> QED
    BY <2>1, <2>2
<1>2. h \in Bijection(S, T)
  BY <1>1 DEF Bijection, Injection, Surjection, IsInjective
<1>3. ExistsBijection(S, T)
  BY <1>2 DEF ExistsBijection
<1> QED
  BY <1>3, FS_Bijection

\* It takes the k-th of its arguments to the k-th of its values.
LEMMA NthMapped ==
  ASSUME NEW n \in Nat, NEW S \in SUBSET (1..n), NEW m \in Nat, NEW T \in SUBSET (1..m),
         NEW h \in [S -> T],
         \A q \in T : \E p \in S : h[p] = q,
         \A p, q \in S : p < q => h[p] < h[q]
  PROVE  /\ Cardinality(T) = Cardinality(S)
         /\ \A k \in 1..Cardinality(S) : Nth(T, k) = h[Nth(S, k)]
<1>1. /\ IsFiniteSet(S) /\ S \in SUBSET Nat /\ T \in SUBSET Nat
  <2>1. S \in SUBSET (Nat \ {0}) /\ T \in SUBSET (Nat \ {0}) /\ IsFiniteSet(S)
    BY RankOfLast
  <2> QED
    BY <2>1
<1>2. Cardinality(T) = Cardinality(S)
  BY <1>1, MonotoneCount
<1>3. ASSUME NEW p \in S
      PROVE  RankIn(T, h[p]) = RankIn(S, p)
  <2> DEFINE low  == {x \in S : x <= p}
             high == {y \in T : y <= h[p]}
             g    == [x \in low |-> h[x]]
  <2>1. p \in Nat /\ h[p] \in Nat /\ \A x \in S : x \in Nat /\ h[x] \in T /\ h[x] \in Nat
    BY <1>1
  <2>2. \A x \in S : x <= p <=> h[x] <= h[p]
    <3>1. ASSUME NEW x \in S
          PROVE  x <= p <=> h[x] <= h[p]
      <4>1. (x < p => h[x] < h[p]) /\ (p < x => h[p] < h[x]) /\ (x = p => h[x] = h[p])
        OBVIOUS
      <4> QED
        BY <2>1, <4>1
    <3> QED
      BY <3>1
  <2>3. low \in SUBSET Nat /\ IsFiniteSet(low) /\ high \in SUBSET Nat
    BY <1>1, <2>1, RankType
  <2>4. g \in [low -> high]
    BY <2>2
  <2>5. \A y \in high : \E x \in low : g[x] = y
    BY <2>2
  <2>6. \A x, y \in low : x < y => g[x] < g[y]
    OBVIOUS
  <2> HIDE DEF low, high, g
  <2>7. Cardinality(high) = Cardinality(low)
    BY <2>3, <2>4, <2>5, <2>6, MonotoneCount
  <2> QED
    BY <2>7 DEF RankIn, low, high
<1>4. ASSUME NEW k \in 1..Cardinality(S)
      PROVE  Nth(T, k) = h[Nth(S, k)]
  <2>1. Nth(S, k) \in S /\ RankIn(S, Nth(S, k)) = k
    BY NthProperties
  <2>2. h[Nth(S, k)] \in T /\ RankIn(T, h[Nth(S, k)]) = k
    BY <1>3, <2>1
  <2>3. Nth(T, RankIn(T, h[Nth(S, k)])) = h[Nth(S, k)]
    BY <2>2, NthProperties
  <2> QED
    BY <2>2, <2>3
<1> QED
  BY <1>2, <1>4
=============================================================================
