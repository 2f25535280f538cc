------------------------------ MODULE DataLemmas ------------------------------
(***************************************************************************)
(* What is needed of data: what remains of a sequence when some of its     *)
(* elements are taken out, and sums over finite sets.                      *)
(***************************************************************************)
EXTENDS InOrder, Functions, FiniteSetTheorems, WellFoundedInduction, TLAPS

-------------------------------------------------------------------------------
\* What is disjoint is counted one after the other.
LEMMA CountedApart ==
    ASSUME NEW S, NEW T, IsFiniteSet(S), IsFiniteSet(T), S \cap T = {}
    PROVE  Cardinality(S \cup T) = Cardinality(S) + Cardinality(T) /\ Cardinality(S) \in Nat /\ Cardinality(T) \in Nat
<1>1. Cardinality(S) \in Nat /\ Cardinality(T) \in Nat
  BY FS_CardinalityType
<1>2. Cardinality(S \cup T) = Cardinality(S) + Cardinality(T) - Cardinality(S \cap T)
  BY FS_Union
<1>3. Cardinality(S \cap T) = 0
  BY FS_EmptySet
<1>4. QED BY <1>1, <1>2, <1>3

\* A number of a set that no other one is below.
LEMMA LeastNumber ==
    ASSUME NEW n \in Nat, NEW T \in SUBSET (0..n), T # {}
    PROVE  \E x \in T : \A y \in T : x <= y
<1> DEFINE upTo(x) == {y \in T : y <= x}
           U == {upTo(x) : x \in T}
           R == StrictSubsetOrdering(T)
<1>1. IsFiniteSet(T)
  <2>1. IsFiniteSet(0..n)
    BY FS_Interval
  <2> QED BY <2>1, FS_Subset
<1>2. IsWellFoundedOn(R, FiniteSubsetsOf(T))
  BY FS_StrictSubsetOrderingWellFounded
<1>3. FiniteSubsetsOf(T) = SUBSET T
  BY <1>1, FS_FiniteSubsetsOfFinite
<1>4. U \subseteq SUBSET T /\ U # {}
  OBVIOUS
<1> HIDE DEF R, U
<1>5. PICK least \in U : \A u \in U : <<u, least>> \notin R
  BY <1>2, <1>3, <1>4, WFMin
<1>6. PICK x \in T : least = upTo(x)
  BY <1>5 DEF U
<1>7. \A y \in T : y \in Int
  OBVIOUS
<1>8. ASSUME NEW y \in T, y < x PROVE FALSE
  <2>1. ASSUME NEW z \in upTo(y) PROVE z \in upTo(x)
    <3>1. z \in T /\ z <= y
      OBVIOUS
    <3>2. z \in Int /\ y \in Int /\ x \in Int
      BY <1>7, <3>1
    <3> QED BY <1>8, <3>1, <3>2
  <2>2. x \in upTo(x) /\ x \notin upTo(y)
    BY <1>7, <1>8
  <2>3. <<upTo(y), upTo(x)>> \in R
    BY <2>1, <2>2 DEF R, StrictSubsetOrdering
  <2> QED BY <1>5, <1>6, <2>3 DEF U
<1> QED BY <1>7, <1>8

-------------------------------------------------------------------------------
(* Counting positions *)

LEMMA Positions ==
    ASSUME NEW n \in Nat, NEW I \in SUBSET (1..n)
    PROVE  /\ IsFiniteSet(I) /\ Cardinality(I) \in Nat /\ Cardinality(I) <= n
           /\ \A i \in I : UpTo(I, i) \in 1..Cardinality(I)
           /\ \A i, j \in I : i < j => UpTo(I, i) < UpTo(I, j)
<1>1. IsFiniteSet(1..n) /\ Cardinality(1..n) = n
  BY FS_Interval
<1>2. IsFiniteSet(I) /\ Cardinality(I) <= n
  BY <1>1, FS_Subset
<1>3. Cardinality(I) \in Nat
  BY <1>2, FS_CardinalityType
<1> DEFINE Below(i) == {j \in I : j <= i}
<1>0. \A i \in I : i \in Int
  OBVIOUS
<1>4. ASSUME NEW i \in I
      PROVE  IsFiniteSet(Below(i)) /\ Cardinality(Below(i)) \in 1..Cardinality(I)
  <2>1. Below(i) \in SUBSET I /\ i \in Below(i)
    OBVIOUS
  <2> HIDE DEF Below
  <2>2. IsFiniteSet(Below(i)) /\ Cardinality(Below(i)) <= Cardinality(I)
    BY <1>2, <2>1, FS_Subset
  <2>3. Cardinality(Below(i)) \in Nat /\ Cardinality(Below(i)) # 0
    BY <2>1, <2>2, FS_CardinalityType, FS_EmptySet
  <2> QED BY <1>3, <2>2, <2>3
<1>5. ASSUME NEW i \in I, NEW j \in I, i < j
      PROVE  Cardinality(Below(i)) < Cardinality(Below(j))
  <2>1. Below(i) \in SUBSET (Below(j) \ {j}) /\ j \in Below(j)
    <3>1. i \in Int /\ j \in Int
      BY <1>0
    <3>2. \A k \in Below(i) : k \in I /\ k <= j /\ k # j
      BY <1>0, <1>5, <3>1
    <3>3. j <= j
      BY <3>1
    <3> QED BY <3>2, <3>3
  <2> HIDE DEF Below
  <2>2. /\ IsFiniteSet(Below(j) \ {j})
        /\ Cardinality(Below(j) \ {j}) = Cardinality(Below(j)) - 1
    BY <1>4, <2>1, FS_RemoveElement
  <2>3. Cardinality(Below(i)) <= Cardinality(Below(j) \ {j})
    BY <2>1, <2>2, FS_Subset
  <2> QED BY <1>3, <1>4, <2>2, <2>3
<1> QED BY <1>2, <1>3, <1>4, <1>5 DEF UpTo

\* Every place has its position, and one only.
LEMMA PlaceOfPosition ==
    ASSUME NEW n \in Nat, NEW I \in SUBSET (1..n), NEW k \in 1..Cardinality(I)
    PROVE  \E i \in I : UpTo(I, i) = k
<1> DEFINE place == [i \in I |-> UpTo(I, i)]
           C == 1..Cardinality(I)
<1>1. IsFiniteSet(I) /\ Cardinality(I) \in Nat
  BY Positions
<1>2. IsFiniteSet(C) /\ Cardinality(C) = Cardinality(I)
  BY <1>1, FS_Interval
<1>3. \A i \in I : UpTo(I, i) \in C
  BY Positions
<1>4. ASSUME NEW i \in I, NEW j \in I, UpTo(I, i) = UpTo(I, j) PROVE i = j
  <2>1. i \in Int /\ j \in Int
    OBVIOUS
  <2>2. UpTo(I, i) \in Int /\ UpTo(I, j) \in Int
    BY <1>3
  <2>3. \A x, y \in I : x < y => UpTo(I, x) < UpTo(I, y)
    BY Positions
  <2>4. ~(i < j) /\ ~(j < i)
    BY <1>4, <2>2, <2>3
  <2> QED BY <2>1, <2>4
<1>5. place \in Injection(I, C)
  <2> HIDE DEF C
  <2>1. place \in [I -> C]
    BY <1>3
  <2> QED BY <1>4, <2>1 DEF Injection, IsInjective
<1> HIDE DEF C
<1>6. place \in Surjection(I, C)
  BY <1>2, <1>5, FS_Injection
<1>7. \A c \in C : \E i \in I : place[i] = c
  BY <1>6 DEF Surjection
<1> QED BY <1>7 DEF C

\* The k-th position is the one with k positions up to it.
LEMMA PositionFacts ==
    ASSUME NEW n \in Nat, NEW I \in SUBSET (1..n)
    PROVE  /\ \A k \in 1..Cardinality(I) : Position(I, k) \in I /\ UpTo(I, Position(I, k)) = k
           /\ \A j, k \in 1..Cardinality(I) : j < k => Position(I, j) < Position(I, k)
           /\ \A i \in I : UpTo(I, i) \in 1..Cardinality(I) /\ Position(I, UpTo(I, i)) = i
<1>1. ASSUME NEW k \in 1..Cardinality(I)
      PROVE  Position(I, k) \in I /\ UpTo(I, Position(I, k)) = k
  BY PlaceOfPosition DEF Position
<1>2. /\ Cardinality(I) \in Nat
      /\ \A i \in I : UpTo(I, i) \in 1..Cardinality(I)
      /\ \A i, j \in I : i < j => UpTo(I, i) < UpTo(I, j)
  BY Positions
<1>3. \A i \in I : i \in Int
  OBVIOUS
<1>4. ASSUME NEW j \in 1..Cardinality(I), NEW k \in 1..Cardinality(I), j < k
      PROVE  Position(I, j) < Position(I, k)
  <2>1. Position(I, j) \in Int /\ Position(I, k) \in Int
    BY <1>1, <1>3
  <2>2. ~(Position(I, k) < Position(I, j)) /\ Position(I, k) # Position(I, j)
    <3>1. j \in Int /\ k \in Int
      BY <1>2
    <3>2. Position(I, k) < Position(I, j) => k < j
      BY <1>1, <1>2
    <3>3. Position(I, k) = Position(I, j) => k = j
      BY <1>1
    <3> QED BY <1>4, <3>1, <3>2, <3>3
  <2> QED BY <2>1, <2>2
<1>5. ASSUME NEW i \in I PROVE Position(I, UpTo(I, i)) = i
  <2> DEFINE p == Position(I, UpTo(I, i))
  <2>1. p \in I /\ UpTo(I, p) = UpTo(I, i)
    BY <1>1, <1>2
  <2> HIDE DEF p
  <2>2. UpTo(I, i) \in Int
    BY <1>2
  <2>3. p < i => UpTo(I, p) < UpTo(I, i)
    BY <1>2, <2>1
  <2>4. i < p => UpTo(I, i) < UpTo(I, p)
    BY <1>2, <2>1
  <2>5. ~(p < i) /\ ~(i < p)
    BY <2>1, <2>2, <2>3, <2>4
  <2>6. p \in Int /\ i \in Int
    BY <1>3, <2>1
  <2> QED BY <2>5, <2>6 DEF p
<1> QED BY <1>1, <1>2, <1>4, <1>5

-------------------------------------------------------------------------------
(* What remains of a sequence *)

\* The elements at some positions are elements of the sequence, each in its turn.
LEMMA AtPositionsFacts ==
    ASSUME NEW S, NEW s \in Seq(S), NEW I \in SUBSET (1..Len(s))
    PROVE  LET r == AtPositions(s, I) IN
           /\ r \in Seq(S) /\ Len(r) = Cardinality(I) /\ Len(r) \in Nat /\ Len(r) <= Len(s)
           /\ \A k \in 1..Len(r) : Position(I, k) \in I /\ r[k] = s[Position(I, k)]
           /\ \A j, k \in 1..Len(r) : j < k => Position(I, j) < Position(I, k)
           /\ \A i \in I : UpTo(I, i) \in 1..Len(r) /\ r[UpTo(I, i)] = s[i]
<1> DEFINE r == AtPositions(s, I)
<1>1. Len(s) \in Nat
  OBVIOUS
<1>2. Cardinality(I) \in Nat /\ Cardinality(I) <= Len(s)
  BY <1>1, Positions
<1>3. /\ \A k \in 1..Cardinality(I) : Position(I, k) \in I /\ UpTo(I, Position(I, k)) = k
      /\ \A j, k \in 1..Cardinality(I) : j < k => Position(I, j) < Position(I, k)
      /\ \A i \in I : UpTo(I, i) \in 1..Cardinality(I) /\ Position(I, UpTo(I, i)) = i
  BY <1>1, PositionFacts
<1>4. r = [k \in 1..Cardinality(I) |-> s[Position(I, k)]]
  BY DEF AtPositions, Position
<1> HIDE DEF r
<1>5. \A k \in 1..Cardinality(I) : s[Position(I, k)] \in S
  <2>1. \A i \in 1..Len(s) : s[i] \in S
    OBVIOUS
  <2> QED BY <1>3, <2>1
<1>6. r \in Seq(S) /\ Len(r) = Cardinality(I)
  BY <1>2, <1>4, <1>5
<1> QED BY <1>2, <1>3, <1>4, <1>6 DEF r

\* They are the elements that stood there, and none is repeated.
LEMMA Picked ==
    ASSUME NEW S, NEW s \in Seq(S), NEW I \in SUBSET (1..Len(s))
    PROVE  LET r == AtPositions(s, I) IN
           /\ r \in Seq(S) /\ Len(r) \in Nat /\ Len(r) <= Len(s)
           /\ {r[k] : k \in 1..Len(r)} = {s[i] : i \in I}
           /\ (\A i, j \in 1..Len(s) : s[i] = s[j] => i = j) =>
                \A i, j \in 1..Len(r) : r[i] = r[j] => i = j
           /\ I = 1..Len(s) => r = s
<1> DEFINE r == AtPositions(s, I)
<1>1. Len(s) \in Nat
  OBVIOUS
<1>2. \A x \in I : x \in Int
  OBVIOUS
<1>3. /\ r \in Seq(S) /\ Len(r) = Cardinality(I) /\ Len(r) \in Nat /\ Len(r) <= Len(s)
      /\ \A k \in 1..Len(r) : Position(I, k) \in I /\ r[k] = s[Position(I, k)]
      /\ \A j, k \in 1..Len(r) : j < k => Position(I, j) < Position(I, k)
      /\ \A i \in I : UpTo(I, i) \in 1..Len(r) /\ r[UpTo(I, i)] = s[i]
  BY AtPositionsFacts
<1> HIDE DEF r
<1>4. {r[k] : k \in 1..Len(r)} = {s[i] : i \in I}
  <2>1. ASSUME NEW k \in 1..Len(r) PROVE r[k] \in {s[i] : i \in I}
    BY <1>3
  <2>2. ASSUME NEW i \in I PROVE \E k \in 1..Len(r) : r[k] = s[i]
    BY <1>3
  <2> QED BY <2>1, <2>2
<1>5. ASSUME \A i, j \in 1..Len(s) : s[i] = s[j] => i = j,
             NEW i \in 1..Len(r), NEW j \in 1..Len(r), r[i] = r[j]
      PROVE  i = j
  <2>1. Position(I, i) = Position(I, j)
    BY <1>3, <1>5
  <2>2. i \in Int /\ j \in Int
    BY <1>3
  <2>3. Position(I, i) \in I
    BY <1>3
  <2>4. Position(I, i) \in Int
    BY <1>2, <2>3
  <2>5. ~(i < j) /\ ~(j < i)
    BY <1>3, <2>1, <2>4
  <2> QED BY <2>2, <2>5
<1>6. ASSUME I = 1..Len(s) PROVE r = s
  <2>1. Len(r) = Len(s)
    BY <1>1, <1>3, <1>6, FS_Interval
  <2>2. ASSUME NEW k \in 1..Len(r) PROVE r[k] = s[k]
    <3>1. UpTo(I, k) = Cardinality(1..k)
      <4>1. {j \in I : j <= k} = 1..k
        BY <1>1, <1>6, <2>1
      <4> QED BY <4>1 DEF UpTo
    <3>2. Cardinality(1..k) = k
      BY <1>1, <2>1, FS_Interval
    <3> QED BY <1>3, <1>6, <2>1, <3>1, <3>2
  <2> QED BY <1>3, <2>1, <2>2
<1> QED BY <1>3, <1>4, <1>5, <1>6 DEF r

\* What Without takes out is gone, and the rest stays.
LEMMA WithoutFacts ==
    ASSUME NEW S, NEW s \in Seq(S), NEW D
    PROVE  LET r == Without(s, D) IN
           /\ r \in Seq(S) /\ Len(r) \in Nat /\ Len(r) <= Len(s)
           /\ {r[k] : k \in 1..Len(r)} = {s[i] : i \in 1..Len(s)} \ D
           /\ (\A i, j \in 1..Len(s) : s[i] = s[j] => i = j) =>
                \A i, j \in 1..Len(r) : r[i] = r[j] => i = j
           /\ (\A i \in 1..Len(s) : s[i] \notin D) => r = s
<1> DEFINE I == {i \in 1..Len(s) : s[i] \notin D}
<1>1. I \in SUBSET (1..Len(s))
  OBVIOUS
<1>2. {s[i] : i \in I} = {s[i] : i \in 1..Len(s)} \ D
  OBVIOUS
<1>3. (\A i \in 1..Len(s) : s[i] \notin D) => I = 1..Len(s)
  OBVIOUS
<1> HIDE DEF I
<1> DEFINE r == AtPositions(s, I)
<1>4. /\ r \in Seq(S) /\ Len(r) \in Nat /\ Len(r) <= Len(s)
      /\ {r[k] : k \in 1..Len(r)} = {s[i] : i \in I}
      /\ (\A i, j \in 1..Len(s) : s[i] = s[j] => i = j) =>
           \A i, j \in 1..Len(r) : r[i] = r[j] => i = j
      /\ I = 1..Len(s) => r = s
  BY <1>1, Picked
<1>5. Without(s, D) = r
  <2>1. CASE \A i \in 1..Len(s) : s[i] \notin D
    BY <1>3, <1>4, <2>1 DEF Without
  <2>2. CASE ~\A i \in 1..Len(s) : s[i] \notin D
    BY ONLY <2>2 DEF Without, I, r
  <2> QED BY <2>1, <2>2
<1> HIDE DEF r
<1>6. {r[k] : k \in 1..Len(r)} = {s[i] : i \in 1..Len(s)} \ D
  BY <1>2, <1>4
<1>7. (\A i \in 1..Len(s) : s[i] \notin D) => r = s
  BY <1>3, <1>4
<1> HIDE DEF I
<1> QED BY ONLY <1>4, <1>5, <1>6, <1>7

\* What Within keeps is what was asked for.
LEMMA WithinFacts ==
    ASSUME NEW S, NEW s \in Seq(S), NEW D
    PROVE  LET r == Within(s, D) IN
           /\ r \in Seq(S) /\ Len(r) \in Nat /\ Len(r) <= Len(s)
           /\ {r[k] : k \in 1..Len(r)} = {s[i] : i \in 1..Len(s)} \cap D
           /\ (\A i, j \in 1..Len(s) : s[i] = s[j] => i = j) =>
                \A i, j \in 1..Len(r) : r[i] = r[j] => i = j
<1> DEFINE I == {i \in 1..Len(s) : s[i] \in D}
<1>1. I \in SUBSET (1..Len(s))
  OBVIOUS
<1>2. {s[i] : i \in I} = {s[i] : i \in 1..Len(s)} \cap D
  OBVIOUS
<1> HIDE DEF I
<1> DEFINE r == AtPositions(s, I)
<1>3. /\ r \in Seq(S) /\ Len(r) \in Nat /\ Len(r) <= Len(s)
      /\ {r[k] : k \in 1..Len(r)} = {s[i] : i \in I}
      /\ (\A i, j \in 1..Len(s) : s[i] = s[j] => i = j) =>
           \A i, j \in 1..Len(r) : r[i] = r[j] => i = j
      /\ I = 1..Len(s) => r = s
  BY <1>1, Picked
<1>4. Within(s, D) = r
  BY DEF Within, I
<1> HIDE DEF r
<1>5. {r[k] : k \in 1..Len(r)} = {s[i] : i \in 1..Len(s)} \cap D
  BY <1>2, <1>3
<1> QED BY ONLY <1>3, <1>4, <1>5

\* One more element at the end.
LEMMA WithinAppend ==
    ASSUME NEW S, NEW s \in Seq(S), NEW e \in S, NEW D
    PROVE  /\ e \notin D => Within(Append(s, e), D) = Within(s, D)
           /\ e \in D => Within(Append(s, e), D) = Append(Within(s, D), e)
<1> DEFINE n == Len(s)
           l == Append(s, e)
           I == {i \in 1..n : s[i] \in D}
           J == {i \in 1..Len(l) : l[i] \in D}
           c == Cardinality(I)
           r == AtPositions(s, I)
           t == AtPositions(l, J)
<1>1. n \in Nat /\ l \in Seq(S) /\ Len(l) = n + 1 /\ l[n + 1] = e /\ \A i \in 1..n : l[i] = s[i]
  OBVIOUS
<1> HIDE DEF l
<1>2. r = Within(s, D) /\ t = Within(l, D)
  BY DEF Within
<1>3. I \in SUBSET (1..n) /\ J \in SUBSET (1..Len(l))
  OBVIOUS
<1>4. J = IF e \in D THEN I \cup {n + 1} ELSE I
  BY <1>1
<1> HIDE DEF I, J
<1>5. IsFiniteSet(I) /\ c \in Nat
  BY <1>1, <1>3, Positions
<1>6. /\ r \in Seq(S) /\ Len(r) = c /\ \A k \in 1..c : Position(I, k) \in I /\ r[k] = s[Position(I, k)]
      /\ t \in Seq(S) /\ Len(t) = Cardinality(J) /\ \A k \in 1..Cardinality(J) : t[k] = l[Position(J, k)]
  BY <1>1, <1>3, AtPositionsFacts
<1> HIDE DEF r, t, c
<1>7. CASE e \notin D
  <2>1. J = I /\ Len(t) = Len(r) /\ Len(r) = c
    BY <1>4, <1>6, <1>7 DEF c
  <2>2. \A k \in 1..c : t[k] = r[k]
    BY <1>1, <1>3, <1>6, <2>1
  <2>3. t = r
    BY <1>6, <2>1, <2>2
  <2> QED BY <1>2, <1>7, <2>3 DEF l
<1>8. CASE e \in D
  <2>1. J = I \cup {n + 1} /\ n + 1 \notin I
    BY <1>1, <1>3, <1>4, <1>8
  <2>2. Cardinality(J) = c + 1
    BY <1>5, <2>1, FS_AddElement DEF c
  <2>3. \A k \in 1..c : UpTo(I, Position(I, k)) = k
    BY <1>1, <1>3, PositionFacts DEF c
  <2>4. \A i \in J : Position(J, UpTo(J, i)) = i
    <3>1. Len(l) \in Nat
      BY <1>1
    <3> QED BY <1>3, <3>1, PositionFacts, Zenon
  <2>5. ASSUME NEW k \in 1..c PROVE Position(J, k) = Position(I, k)
    <3>1. Position(I, k) \in I /\ Position(I, k) \in 1..n
      BY <1>3, <1>6
    <3>2. {j \in J : j <= Position(I, k)} = {j \in I : j <= Position(I, k)}
      BY <1>1, <1>3, <2>1, <3>1
    <3>3. UpTo(J, Position(I, k)) = k
      BY <2>3, <3>2 DEF UpTo
    <3> QED BY <2>1, <2>4, <3>1, <3>3
  <2>6. Position(J, c + 1) = n + 1
    <3>1. {j \in J : j <= n + 1} = J
      BY <1>1, <1>3, <2>1
    <3>2. UpTo(J, n + 1) = c + 1
      BY <2>2, <3>1 DEF UpTo
    <3> QED BY <2>1, <2>4, <3>2
  <2>7. ASSUME NEW k \in 1..c PROVE t[k] = r[k]
    <3>1. t[k] = l[Position(I, k)]
      BY <1>5, <1>6, <2>2, <2>5
    <3>2. Position(I, k) \in 1..n /\ r[k] = s[Position(I, k)]
      BY <1>3, <1>6
    <3> QED BY <1>1, <3>1, <3>2
  <2>8. t[c + 1] = e
    BY <1>1, <1>5, <1>6, <2>2, <2>6 DEF c
  <2>9. t = Append(r, e)
    BY <1>5, <1>6, <2>2, <2>7, <2>8 DEF c
  <2> QED BY <1>2, <1>8, <2>9 DEF l
<1> QED BY <1>7, <1>8

-------------------------------------------------------------------------------
(* Sums: SumFunctionOnSet of the module Functions, for whole numbers *)

\* What holds of a finite set as soon as it holds of what remains without any one element.
LEMMA SubsetInduction ==
    ASSUME NEW S, IsFiniteSet(S), NEW G,
           \A T \in SUBSET S : (\A x \in T : T \ {x} \in G) => T \in G
    PROVE  SUBSET S \subseteq G
<1> DEFINE D == {T \in SUBSET S : T \notin G}
           R == StrictSubsetOrdering(S)
<1> SUFFICES ASSUME D # {} PROVE FALSE
  OBVIOUS
<1>1. IsWellFoundedOn(R, FiniteSubsetsOf(S)) /\ FiniteSubsetsOf(S) = SUBSET S
  BY FS_StrictSubsetOrderingWellFounded, FS_FiniteSubsetsOfFinite
<1>2. D \subseteq SUBSET S
  OBVIOUS
<1> HIDE DEF R, D
<1>3. PICK T \in D : \A y \in D : <<y, T>> \notin R
  BY <1>1, <1>2, WFMin
<1>4. T \in SUBSET S /\ T \notin G
  BY <1>3 DEF D
<1>5. ASSUME NEW x \in T PROVE T \ {x} \in G
  <2>1. T \ {x} \in SUBSET S /\ <<T \ {x}, T>> \in R
    BY <1>4 DEF R, StrictSubsetOrdering
  <2>2. T \ {x} \notin D
    BY <1>3, <2>1
  <2> QED BY <2>1, <2>2 DEF D
<1> QED BY <1>4, <1>5

\* The recursion of the module Functions, over the subsets of S.
Pick(s) == CHOOSE x \in s : TRUE
Adds(f, S, g) == g = [s \in SUBSET S |-> IF s = {} THEN 0 ELSE f[Pick(s)] + g[s \ {Pick(s)}]]

LEMMA SumIs ==
    ASSUME NEW f, NEW S
    PROVE  SumFunctionOnSet(f, S) = (CHOOSE g : Adds(f, S, g))[S]
  BY DEF SumFunctionOnSet, FoldFunctionOnSet, MapThenFoldSet, Adds, Pick

Whole(f, S) == \A x \in S : f[x] \in Int

LEMMA AddsExists ==
    ASSUME NEW S, IsFiniteSet(S), NEW f, Whole(f, S)
    PROVE  \E g : Adds(f, S, g)
<1> DEFINE A(n) == {s \in SUBSET S : Cardinality(s) <= n}
           Fits(g, n) == \A s \in A(n) : g[s] = IF s = {} THEN 0 ELSE f[Pick(s)] + g[s \ {Pick(s)}]
           Has(n) == \E g : g = [s \in A(n) |-> g[s]] /\ Fits(g, n)
           c == Cardinality(S)
           D == {n \in 0..c : ~Has(n)}
<1>1. c \in Nat /\ \A s \in SUBSET S : IsFiniteSet(s) /\ Cardinality(s) \in Nat /\ Cardinality(s) <= c
  BY FS_CardinalityType, FS_Subset
<1>2. \A s \in SUBSET S : s # {} => Pick(s) \in s
  BY DEF Pick
<1>3. Has(0)
  <2>1. A(0) = {{}}
    BY <1>1, FS_EmptySet
  <2>2. [s \in A(0) |-> 0] = [s \in A(0) |-> [r \in A(0) |-> 0][s]] /\ Fits([s \in A(0) |-> 0], 0)
    BY <2>1
  <2> QED BY <2>2
<1>4. ASSUME NEW n \in Nat, Has(n) PROVE Has(n + 1)
  <2>1. PICK g : g = [s \in A(n) |-> g[s]] /\ Fits(g, n)
    BY <1>4
  <2> DEFINE h == [s \in A(n + 1) |-> IF s = {} THEN 0 ELSE f[Pick(s)] + g[s \ {Pick(s)}]]
  <2>2. ASSUME NEW s \in A(n + 1), s # {} PROVE s \ {Pick(s)} \in A(n) /\ s \ {Pick(s)} \in A(n + 1)
    <3>1. Cardinality(s \ {Pick(s)}) = Cardinality(s) - 1
      BY <1>1, <1>2, <2>2, FS_RemoveElement
    <3> QED BY <1>1, <3>1, <2>2
  <2>3. \A s \in A(n) : h[s] = g[s]
    <3>1. \A s \in A(n) : s \in A(n + 1)
      BY <1>1
    <3> QED BY <2>1, <3>1
  <2>4. Fits(h, n + 1)
    <3> SUFFICES ASSUME NEW s \in A(n + 1) PROVE h[s] = IF s = {} THEN 0 ELSE f[Pick(s)] + h[s \ {Pick(s)}]
      OBVIOUS
    <3>1. h[s] = IF s = {} THEN 0 ELSE f[Pick(s)] + g[s \ {Pick(s)}]
      OBVIOUS
    <3> HIDE DEF h, A
    <3> QED BY <2>2, <2>3, <3>1
  <2>5. h = [s \in A(n + 1) |-> h[s]]
    OBVIOUS
  <2> HIDE DEF h, Fits
  <2> QED BY <2>4, <2>5
<1> HIDE DEF Has
<1>5. D = {}
  <2> SUFFICES ASSUME D # {} PROVE FALSE
    OBVIOUS
  <2>1. D \in SUBSET (0..c)
    OBVIOUS
  <2> HIDE DEF D
  <2>2. PICK n \in D : \A m \in D : n <= m
    BY <1>1, <2>1, LeastNumber
  <2>3. n \in 0..c /\ ~Has(n)
    BY <2>2 DEF D
  <2>4. n # 0
    BY <1>3, <2>3
  <2>5. n - 1 \in 0..c /\ n - 1 \in Nat /\ ~(n <= n - 1)
    BY <1>1, <2>3, <2>4
  <2>6. Has(n - 1)
    BY <2>2, <2>5 DEF D
  <2>7. (n - 1) + 1 = n
    BY <2>3
  <2> QED BY <1>4, <2>3, <2>5, <2>6, <2>7
<1>6. Has(c)
  BY <1>1, <1>5
<1>7. A(c) = SUBSET S
  BY <1>1
<1>8. PICK g : g = [s \in A(c) |-> g[s]] /\ Fits(g, c)
  BY <1>6 DEF Has
<1> HIDE DEF A
<1>9. Adds(f, S, g)
  BY <1>7, <1>8 DEF Adds
<1> QED BY <1>9

LEMMA AddsWhole ==
    ASSUME NEW S, IsFiniteSet(S), NEW f, Whole(f, S), NEW g, Adds(f, S, g)
    PROVE  \A T \in SUBSET S : g[T] \in Int
<1> DEFINE G == {T \in SUBSET S : g[T] \in Int}
<1>1. ASSUME NEW T \in SUBSET S, \A x \in T : T \ {x} \in G PROVE T \in G
  <2>1. CASE T = {}
    BY <2>1 DEF Adds
  <2>2. CASE T # {}
    <3> DEFINE c == Pick(T)
    <3>1. c \in T /\ g[T] = f[c] + g[T \ {c}] /\ f[c] \in Int
      BY <2>2 DEF Adds, Pick, Whole
    <3> HIDE DEF c
    <3> QED BY <1>1, <3>1
  <2> QED BY <2>1, <2>2
<1> HIDE DEF G
<1>2. SUBSET S \subseteq G
  BY <1>1, SubsetInduction
<1> QED BY <1>2 DEF G

LEMMA AddsAny ==
    ASSUME NEW S, IsFiniteSet(S), NEW f, Whole(f, S), NEW g, Adds(f, S, g)
    PROVE  \A T \in SUBSET S : \A x \in T : g[T] = f[x] + g[T \ {x}]
<1> DEFINE G == {T \in SUBSET S : \A x \in T : g[T] = f[x] + g[T \ {x}]}
<1>1. \A T \in SUBSET S : g[T] \in Int
  BY AddsWhole
<1>2. ASSUME NEW T \in SUBSET S, \A x \in T : T \ {x} \in G, NEW x \in T
      PROVE  g[T] = f[x] + g[T \ {x}]
  <2> DEFINE c == Pick(T)
             rest == T \ {c}
             other == T \ {x}
             both == rest \ {x}
  <2>1. c \in T /\ g[T] = f[c] + g[rest]
    BY DEF Adds, Pick
  <2>2. f[c] \in Int /\ f[x] \in Int /\ g[both] \in Int /\ rest \in G /\ other \in G
    BY <1>1, <1>2, <2>1 DEF Whole
  <2>3. CASE x = c
    BY <2>1, <2>3
  <2>4. CASE x # c
    <3>1. x \in rest /\ c \in other /\ other \ {c} = both
      BY <2>1, <2>4
    <3>2. g[rest] = f[x] + g[both] /\ g[other] = f[c] + g[both]
      BY <2>2, <3>1
    <3> HIDE DEF both, rest, c, other
    <3>3. g[T] = f[x] + g[other]
      BY <2>1, <2>2, <3>2
    <3> QED BY <3>3 DEF other
  <2> QED BY <2>3, <2>4
<1>3. \A T \in SUBSET S : (\A x \in T : T \ {x} \in G) => T \in G
  BY <1>2
<1> HIDE DEF G
<1>4. SUBSET S \subseteq G
  BY <1>3, SubsetInduction
<1> QED BY <1>4 DEF G

\* Two of them agree where both are defined.
LEMMA AddsAgree ==
    ASSUME NEW S, IsFiniteSet(S), NEW T \in SUBSET S, NEW f, NEW g, NEW h, Adds(f, S, g), Adds(f, T, h)
    PROVE  g[T] = h[T]
<1> DEFINE G == {U \in SUBSET T : g[U] = h[U]}
<1>1. ASSUME NEW U \in SUBSET T, \A x \in U : U \ {x} \in G PROVE U \in G
  <2>1. CASE U = {}
    BY <2>1 DEF Adds
  <2>2. CASE U # {}
    <3> DEFINE c == Pick(U)
    <3>1. c \in U /\ g[U] = f[c] + g[U \ {c}] /\ h[U] = f[c] + h[U \ {c}]
      BY <2>2 DEF Adds, Pick
    <3>2. U \ {c} \in G
      BY <1>1, <3>1
    <3> QED BY <3>1, <3>2
  <2> QED BY <2>1, <2>2
<1>2. IsFiniteSet(T)
  BY FS_Subset
<1> HIDE DEF G
<1>3. SUBSET T \subseteq G
  BY <1>1, <1>2, SubsetInduction
<1> QED BY <1>3 DEF G

\* The sum over nothing, and over one element and the others.
LEMMA SumFacts ==
    ASSUME NEW S, IsFiniteSet(S), NEW f, Whole(f, S)
    PROVE  /\ SumFunctionOnSet(f, {}) = 0 /\ SumFunctionOnSet(f, S) \in Int
           /\ \A x \in S : /\ SumFunctionOnSet(f, S) = f[x] + SumFunctionOnSet(f, S \ {x})
                           /\ SumFunctionOnSet(f, S \ {x}) \in Int /\ f[x] \in Int
<1> DEFINE g == CHOOSE h : Adds(f, S, h)
<1>1. Adds(f, S, g) /\ SumFunctionOnSet(f, S) = g[S]
  BY AddsExists, SumIs
<1> HIDE DEF g
<1>2. ASSUME NEW T \in SUBSET S PROVE SumFunctionOnSet(f, T) = g[T]
  <2> DEFINE h == CHOOSE k : Adds(f, T, k)
  <2>1. IsFiniteSet(T) /\ Whole(f, T)
    BY FS_Subset DEF Whole
  <2>2. Adds(f, T, h) /\ SumFunctionOnSet(f, T) = h[T]
    BY <2>1, AddsExists, SumIs
  <2> HIDE DEF h
  <2> QED BY <1>1, <2>2, AddsAgree
<1>3. \A T \in SUBSET S : g[T] \in Int
  BY <1>1, AddsWhole
<1>4. \A x \in S : g[S] = f[x] + g[S \ {x}]
  BY <1>1, AddsAny
<1>5. g[{}] = 0
  BY <1>1 DEF Adds
<1> QED BY <1>2, <1>3, <1>4, <1>5 DEF Whole

\* Functions that agree have one sum.
LEMMA SumSame ==
    ASSUME NEW S, IsFiniteSet(S), NEW f, NEW h, Whole(f, S), \A x \in S : h[x] = f[x]
    PROVE  SumFunctionOnSet(h, S) = SumFunctionOnSet(f, S)
<1> DEFINE G == {T \in SUBSET S : SumFunctionOnSet(h, T) = SumFunctionOnSet(f, T)}
<1>1. ASSUME NEW T \in SUBSET S, \A x \in T : T \ {x} \in G PROVE T \in G
  <2>1. IsFiniteSet(T) /\ Whole(f, T) /\ Whole(h, T)
    BY FS_Subset DEF Whole
  <2>2. CASE T = {}
    BY <2>1, <2>2, SumFacts
  <2>3. ASSUME NEW x \in T PROVE T \in G
    <3>1. /\ SumFunctionOnSet(f, T) = f[x] + SumFunctionOnSet(f, T \ {x})
          /\ SumFunctionOnSet(h, T) = h[x] + SumFunctionOnSet(h, T \ {x})
      BY <2>1, SumFacts
    <3> QED BY <1>1, <3>1
  <2> QED BY <2>2, <2>3
<1> HIDE DEF G
<1>2. SUBSET S \subseteq G
  BY <1>1, SubsetInduction
<1> QED BY <1>2 DEF G

\* A function that differs at one place.
LEMMA SumChanged ==
    ASSUME NEW S, IsFiniteSet(S), NEW f, NEW h, Whole(f, S), NEW p \in S, NEW a \in Int,
           h[p] = f[p] + a, \A x \in S \ {p} : h[x] = f[x]
    PROVE  SumFunctionOnSet(h, S) = SumFunctionOnSet(f, S) + a
<1>1. f[p] \in Int /\ h[p] \in Int /\ Whole(h, S) /\ Whole(f, S \ {p}) /\ IsFiniteSet(S \ {p})
  BY FS_Subset DEF Whole
<1>2. SumFunctionOnSet(h, S \ {p}) = SumFunctionOnSet(f, S \ {p})
  BY <1>1, SumSame
<1>3. /\ SumFunctionOnSet(f, S) = f[p] + SumFunctionOnSet(f, S \ {p}) /\ SumFunctionOnSet(f, S \ {p}) \in Int
      /\ SumFunctionOnSet(h, S) = h[p] + SumFunctionOnSet(h, S \ {p})
  BY <1>1, SumFacts
<1> QED BY <1>1, <1>2, <1>3

LEMMA SumNatural ==
    ASSUME NEW S, IsFiniteSet(S), NEW f, \A x \in S : f[x] \in Nat
    PROVE  SumFunctionOnSet(f, S) \in Nat
<1> DEFINE G == {T \in SUBSET S : SumFunctionOnSet(f, T) \in Nat}
<1>1. ASSUME NEW T \in SUBSET S, \A x \in T : T \ {x} \in G PROVE T \in G
  <2>1. IsFiniteSet(T) /\ Whole(f, T)
    BY FS_Subset DEF Whole
  <2>2. CASE T = {}
    BY <2>1, <2>2, SumFacts
  <2>3. ASSUME NEW x \in T PROVE T \in G
    <3>1. SumFunctionOnSet(f, T) = f[x] + SumFunctionOnSet(f, T \ {x}) /\ SumFunctionOnSet(f, T \ {x}) \in Nat
      BY <1>1, <2>1, SumFacts
    <3>2. f[x] \in Nat
      OBVIOUS
    <3> QED BY <3>1, <3>2
  <2> QED BY <2>2, <2>3
<1> HIDE DEF G
<1>2. SUBSET S \subseteq G
  BY <1>1, SubsetInduction
<1> QED BY <1>2 DEF G

LEMMA SumConstant ==
    ASSUME NEW S, IsFiniteSet(S), NEW f, NEW b \in Int, \A x \in S : f[x] = b
    PROVE  SumFunctionOnSet(f, S) = b * Cardinality(S)
<1> DEFINE G == {T \in SUBSET S : SumFunctionOnSet(f, T) = b * Cardinality(T)}
<1>1. ASSUME NEW T \in SUBSET S, \A x \in T : T \ {x} \in G PROVE T \in G
  <2>1. IsFiniteSet(T) /\ Whole(f, T) /\ Cardinality(T) \in Nat
    BY FS_Subset, FS_CardinalityType DEF Whole
  <2>2. CASE T = {}
    BY <2>1, <2>2, SumFacts, FS_EmptySet
  <2>3. ASSUME NEW x \in T PROVE T \in G
    <3>1. SumFunctionOnSet(f, T) = b + SumFunctionOnSet(f, T \ {x})
      BY <2>1, SumFacts
    <3>2. Cardinality(T \ {x}) = Cardinality(T) - 1
      BY <2>1, FS_RemoveElement
    <3>3. SumFunctionOnSet(f, T \ {x}) = b * (Cardinality(T) - 1)
      BY <1>1, <3>2
    <3>4. b * (Cardinality(T) - 1) = b * Cardinality(T) - b
      BY <2>1
    <3> QED BY <2>1, <3>1, <3>3, <3>4
  <2> QED BY <2>2, <2>3
<1> HIDE DEF G
<1>2. SUBSET S \subseteq G
  BY <1>1, SubsetInduction
<1> QED BY <1>2 DEF G

LEMMA SumPlus ==
    ASSUME NEW S, IsFiniteSet(S), NEW f, Whole(f, S), NEW e, Whole(e, S), NEW h, \A x \in S : h[x] = f[x] + e[x]
    PROVE  SumFunctionOnSet(h, S) = SumFunctionOnSet(f, S) + SumFunctionOnSet(e, S)
<1> DEFINE G == {T \in SUBSET S : SumFunctionOnSet(h, T) = SumFunctionOnSet(f, T) + SumFunctionOnSet(e, T)}
<1>1. ASSUME NEW T \in SUBSET S, \A x \in T : T \ {x} \in G PROVE T \in G
  <2>1. IsFiniteSet(T) /\ Whole(f, T) /\ Whole(e, T) /\ Whole(h, T)
    BY FS_Subset DEF Whole
  <2>2. CASE T = {}
    BY <2>1, <2>2, SumFacts
  <2>3. ASSUME NEW x \in T PROVE T \in G
    <3> DEFINE U == T \ {x}
    <3>1. /\ SumFunctionOnSet(f, T) = f[x] + SumFunctionOnSet(f, U) /\ SumFunctionOnSet(f, U) \in Int
          /\ SumFunctionOnSet(e, T) = e[x] + SumFunctionOnSet(e, U) /\ SumFunctionOnSet(e, U) \in Int
          /\ SumFunctionOnSet(h, T) = h[x] + SumFunctionOnSet(h, U)
      BY <2>1, SumFacts
    <3>2. SumFunctionOnSet(h, U) = SumFunctionOnSet(f, U) + SumFunctionOnSet(e, U)
      BY <1>1
    <3>3. f[x] \in Int /\ e[x] \in Int /\ h[x] = f[x] + e[x]
      BY DEF Whole
    <3> HIDE DEF U
    <3> QED BY <3>1, <3>2, <3>3
  <2> QED BY <2>2, <2>3
<1> HIDE DEF G
<1>2. SUBSET S \subseteq G
  BY <1>1, SubsetInduction
<1> QED BY <1>2 DEF G

LEMMA SumMinus ==
    ASSUME NEW S, IsFiniteSet(S), NEW f, Whole(f, S), NEW e, Whole(e, S), NEW h, \A x \in S : h[x] = f[x] - e[x]
    PROVE  SumFunctionOnSet(h, S) = SumFunctionOnSet(f, S) - SumFunctionOnSet(e, S)
<1>1. Whole(h, S) /\ \A x \in S : f[x] = h[x] + e[x]
  BY DEF Whole
<1>2. SumFunctionOnSet(f, S) = SumFunctionOnSet(h, S) + SumFunctionOnSet(e, S)
  BY <1>1, SumPlus
<1>3. SumFunctionOnSet(e, S) \in Int /\ SumFunctionOnSet(h, S) \in Int
  BY <1>1, SumFacts
<1> QED BY <1>2, <1>3

\* Where there is nothing outside W, only W counts.
LEMMA SumWithin ==
    ASSUME NEW S, IsFiniteSet(S), NEW W \in SUBSET S, NEW f, Whole(f, S), \A x \in S \ W : f[x] = 0
    PROVE  SumFunctionOnSet(f, S) = SumFunctionOnSet(f, W)
<1> DEFINE G == {T \in SUBSET S : SumFunctionOnSet(f, T) = SumFunctionOnSet(f, T \cap W)}
<1>1. ASSUME NEW T \in SUBSET S, \A x \in T : T \ {x} \in G PROVE T \in G
  <2>1. IsFiniteSet(T) /\ Whole(f, T) /\ IsFiniteSet(T \cap W) /\ Whole(f, T \cap W)
    BY FS_Subset DEF Whole
  <2>2. CASE T = {}
    <3>1. T \cap W = T
      BY <2>2
    <3> QED BY <3>1
  <2>3. ASSUME NEW x \in T, x \in W PROVE T \in G
    <3>1. (T \ {x}) \cap W = (T \cap W) \ {x} /\ x \in T \cap W
      BY <2>3
    <3>2. /\ SumFunctionOnSet(f, T) = f[x] + SumFunctionOnSet(f, T \ {x})
          /\ SumFunctionOnSet(f, T \cap W) = f[x] + SumFunctionOnSet(f, (T \cap W) \ {x})
      BY <2>1, <3>1, SumFacts
    <3> QED BY <1>1, <3>1, <3>2
  <2>4. ASSUME NEW x \in T, x \notin W PROVE T \in G
    <3>1. (T \ {x}) \cap W = T \cap W /\ f[x] = 0
      BY <2>4
    <3>2. SumFunctionOnSet(f, T) = 0 + SumFunctionOnSet(f, T \ {x}) /\ SumFunctionOnSet(f, T \ {x}) \in Int
      BY <2>1, <3>1, SumFacts
    <3> QED BY <1>1, <3>1, <3>2
  <2> QED BY <2>2, <2>3, <2>4
<1> HIDE DEF G
<1>2. SUBSET S \subseteq G
  BY <1>1, SubsetInduction
<1>3. S \cap W = W
  OBVIOUS
<1> QED BY <1>2, <1>3 DEF G

\* The sum over the values of an injection is the sum over its places.
LEMMA SumRenamed ==
    ASSUME NEW S, IsFiniteSet(S), NEW w, \A i, j \in S : w[i] = w[j] => i = j,
           NEW e, Whole(e, S), NEW f, \A i \in S : f[w[i]] = e[i]
    PROVE  SumFunctionOnSet(f, {w[i] : i \in S}) = SumFunctionOnSet(e, S)
<1> DEFINE Image(T) == {w[i] : i \in T}
           G == {T \in SUBSET S : IsFiniteSet(Image(T)) /\ SumFunctionOnSet(f, Image(T)) = SumFunctionOnSet(e, T)}
<1>1. ASSUME NEW T \in SUBSET S, \A i \in T : T \ {i} \in G PROVE T \in G
  <2>1. IsFiniteSet(T) /\ Whole(e, T) /\ Whole(f, Image(T))
    BY FS_Subset DEF Whole
  <2>2. CASE T = {}
    <3>1. Image(T) = {}
      BY <2>2
    <3> QED BY <2>1, <2>2, <3>1, SumFacts, FS_EmptySet
  <2>3. ASSUME NEW i \in T PROVE T \in G
    <3>0. Image(T) = Image(T \ {i}) \cup {w[i]}
      OBVIOUS
    <3>1. Image(T) \ {w[i]} = Image(T \ {i}) /\ w[i] \in Image(T)
      OBVIOUS
    <3> HIDE DEF Image
    <3>2. IsFiniteSet(Image(T \ {i})) /\ SumFunctionOnSet(f, Image(T \ {i})) = SumFunctionOnSet(e, T \ {i})
      BY <1>1
    <3>3. IsFiniteSet(Image(T))
      <4>1. IsFiniteSet(Image(T \ {i}) \cup {w[i]})
        BY <3>2, FS_AddElement
      <4> QED BY <3>0, <4>1
    <3>4. /\ SumFunctionOnSet(e, T) = e[i] + SumFunctionOnSet(e, T \ {i})
          /\ SumFunctionOnSet(f, Image(T)) = f[w[i]] + SumFunctionOnSet(f, Image(T) \ {w[i]})
      BY <2>1, <3>1, <3>3, SumFacts
    <3>5. f[w[i]] = e[i]
      OBVIOUS
    <3>6. SumFunctionOnSet(f, Image(T)) = SumFunctionOnSet(e, T)
      BY <3>1, <3>2, <3>4, <3>5
    <3> QED BY <3>3, <3>6
  <2> QED BY <2>2, <2>3
<1> HIDE DEF G
<1>2. SUBSET S \subseteq G
  BY <1>1, SubsetInduction
<1> QED BY <1>2 DEF G
================================================================================
