---------------------------- MODULE KeyValProofs ----------------------------
(***************************************************************************)
(* The parser of KeyVal, whatever line and of whatever length it is given: *)
(* it stays inside what it allocates, it finds the key and the values of   *)
(* the rules, every variable keeps its range, and the values survive the   *)
(* string and the array they are kept in.                                  *)
(***************************************************************************)
EXTENDS KeyVal, TLAPS, FiniteSetTheorems, SequenceTheorems,
        WellFoundedInduction

-----------------------------------------------------------------------------
(***************************************************************************)
(* Induction over the numbers.                                             *)
(***************************************************************************)

\* Initial segments are ordered by inclusion, which is well founded.
LEMMA LeastNatural ==
  ASSUME NEW T \in SUBSET Nat, T # {}
  PROVE  \E m \in T : \A k \in T : m <= k
<1> DEFINE Segments == {1..k : k \in T}
<1>1. Segments \subseteq FiniteSubsetsOf(Nat) /\ Segments # {}
  <2>1. ASSUME NEW k \in T PROVE 1..k \in FiniteSubsetsOf(Nat)
    <3>1. IsFiniteSet(1..k)
      BY FS_Interval
    <3> QED BY <3>1 DEF FiniteSubsetsOf
  <2> QED BY <2>1
<1>2. PICK M \in Segments :
        \A K \in Segments : ~(<<K, M>> \in StrictSubsetOrdering(Nat))
  <2>1. IsWellFoundedOn(StrictSubsetOrdering(Nat), FiniteSubsetsOf(Nat))
    BY FS_StrictSubsetOrderingWellFounded
  <2> HIDE DEF Segments
  <2> QED BY <1>1, <2>1, WFMin
<1>3. PICK m \in T : M = 1..m
  OBVIOUS
<1>4. ASSUME NEW k \in T, k < m PROVE FALSE
  <2>1. m \in 1..m /\ m \notin 1..k
    BY <1>4
  <2>2. <<1..k, M>> \in StrictSubsetOrdering(Nat)
    <3>1. 1..k \subseteq 1..m /\ 1..k # 1..m /\ 1..m \subseteq Nat
      BY <1>4, <2>1
    <3> QED BY <1>3, <3>1 DEF StrictSubsetOrdering
  <2>3. 1..k \in Segments
    OBVIOUS
  <2> HIDE DEF Segments
  <2> QED BY <1>2, <2>2, <2>3
<1> QED BY <1>4

\* What holds of all smaller numbers only if it holds of the next, holds of all.
LEMMA Induction ==
  ASSUME NEW T \in SUBSET Nat,
         \A n \in Nat : (\A m \in 0..n - 1 : m \in T) => n \in T
  PROVE  \A n \in Nat : n \in T
<1> SUFFICES ASSUME Nat \ T # {} PROVE FALSE
  OBVIOUS
<1>1. PICK n \in Nat \ T : \A m \in Nat \ T : n <= m
  <2>1. Nat \ T \in SUBSET Nat
    OBVIOUS
  <2> QED BY <2>1, LeastNatural
<1>2. ASSUME NEW m \in 0..n - 1 PROVE m \in T
  <2>1. m \in Nat /\ ~(n <= m)
    OBVIOUS
  <2> QED BY <1>1, <2>1
<1> QED BY <1>1, <1>2

\* A nonempty set of integers between a and b has a least member.
LEMMA Least ==
  ASSUME NEW a \in Int, NEW b \in Int, NEW S \in SUBSET (a..b), S # {}
  PROVE  Min(S) \in S /\ \A y \in S : Min(S) <= y
<1> DEFINE T == {n \in Nat : n + a \in S}
<1>1. PICK n \in T : \A m \in T : n <= m
  <2>1. PICK s \in S : TRUE
    OBVIOUS
  <2>2. s - a \in T
    BY <2>1
  <2> HIDE DEF T
  <2>3. T \in SUBSET Nat
    BY DEF T
  <2> QED BY <2>2, <2>3, LeastNatural
<1>2. \A y \in S : y - a \in T
  OBVIOUS
<1>3. n + a \in S /\ \A y \in S : n + a <= y
  BY <1>1, <1>2
<1> QED BY <1>3 DEF Min

\* ... and a greatest.
LEMMA Greatest ==
  ASSUME NEW a \in Int, NEW b \in Int, NEW S \in SUBSET (a..b), S # {}
  PROVE  Max(S) \in S /\ \A y \in S : Max(S) >= y
<1> DEFINE T == {n \in Nat : b - n \in S}
<1>1. PICK n \in T : \A m \in T : n <= m
  <2>1. PICK s \in S : TRUE
    OBVIOUS
  <2>2. b - s \in T
    BY <2>1
  <2> HIDE DEF T
  <2>3. T \in SUBSET Nat
    BY DEF T
  <2> QED BY <2>2, <2>3, LeastNatural
<1>2. \A y \in S : b - y \in T
  OBVIOUS
<1>3. b - n \in S /\ \A y \in S : b - n >= y
  <2>1. S \subseteq Int /\ b - n \in S
    BY <1>1
  <2>2. ASSUME NEW y \in S PROVE b - n >= y
    <3>1. b - y \in T /\ y \in Int /\ n \in Int
      BY <1>2, <2>1
    <3> HIDE DEF T
    <3>2. n <= b - y
      BY <1>1, <3>1
    <3> QED BY <3>1, <3>2
  <2> QED BY <2>1, <2>2
<1> QED BY <1>3 DEF Max

-----------------------------------------------------------------------------
(***************************************************************************)
(* Members of a finite set of numbers, in their order.                     *)
(***************************************************************************)

\* How many members of S are not beyond x; Nth() inverts it.
Rank(S, x) == Cardinality({y \in S : y <= x})

\* Ranks are at most the size of the set, and 0 is that of what lies below it.
LEMMA RankBounds ==
  ASSUME NEW n \in Nat, NEW S \in SUBSET (0..n), NEW x \in Int
  PROVE  /\ IsFiniteSet(S) /\ Cardinality(S) \in Nat
         /\ Rank(S, x) \in Nat /\ Rank(S, x) <= Cardinality(S)
         /\ x < 0 => Rank(S, x) = 0
         /\ n <= x => Rank(S, x) = Cardinality(S)
<1>0. \A y \in S : y \in Int /\ 0 <= y /\ y <= n
  OBVIOUS
<1>1. IsFiniteSet(S) /\ Cardinality(S) \in Nat
  <2>1. IsFiniteSet(0..n)
    BY FS_Interval
  <2>2. IsFiniteSet(S)
    BY <2>1, FS_Subset
  <2> QED BY <2>2, FS_CardinalityType
<1> DEFINE L == {y \in S : y <= x}
<1>2. L \in SUBSET S
  OBVIOUS
<1>3. Rank(S, x) = Cardinality(L)
  BY DEF Rank
<1>4. x < 0 => L = {}
  <2>1. x < 0 => \A y \in S : ~(y <= x)
    BY <1>0
  <2> QED BY <2>1
<1>5. n <= x => L = S
  <2>1. n <= x => \A y \in S : y <= x
    BY <1>0
  <2> QED BY <2>1
<1> HIDE DEF L
<1>6. IsFiniteSet(L) /\ Cardinality(L) <= Cardinality(S)
  BY <1>1, <1>2, FS_Subset
<1>7. Cardinality(L) \in Nat
  BY <1>6, FS_CardinalityType
<1>8. Cardinality({}) = 0
  BY FS_EmptySet
<1> QED BY <1>1, <1>3, <1>4, <1>5, <1>6, <1>7, <1>8

\* A set of places is finite.
LEMMA FiniteCount ==
  ASSUME NEW n \in Nat, NEW S \in SUBSET (0..n)
  PROVE  IsFiniteSet(S) /\ Cardinality(S) \in Nat
<1>1. 0 \in Int
  OBVIOUS
<1> QED BY <1>1, RankBounds

\* From one number to the next the rank grows by one in the set.
LEMMA RankStep ==
  ASSUME NEW n \in Nat, NEW S \in SUBSET (0..n), NEW x \in Int
  PROVE  /\ Rank(S, x) \in Nat /\ Rank(S, x - 1) \in Nat
         /\ x \in S => Rank(S, x) = Rank(S, x - 1) + 1
         /\ x \notin S => Rank(S, x) = Rank(S, x - 1)
<1> DEFINE L == {y \in S : y <= x - 1}
<1>0. \A y \in S : y \in Int
  OBVIOUS
<1>1. Rank(S, x - 1) = Cardinality(L) /\ IsFiniteSet(L)
  <2>1. IsFiniteSet(S) /\ L \in SUBSET S
    BY RankBounds
  <2>2. IsFiniteSet(L)
    BY <2>1, FS_Subset
  <2> QED BY <2>2 DEF Rank
<1>2. CASE x \in S
  <2>1. \A y \in S : y <= x <=> (y <= x - 1 \/ y = x)
    BY <1>0
  <2>2. {y \in S : y <= x} = L \cup {x}
    BY <1>2, <2>1
  <2>4. x \notin L
    <3>1. ~(x <= x - 1)
      OBVIOUS
    <3> QED BY <3>1
  <2> HIDE DEF L
  <2>3. Cardinality(L \cup {x}) = Cardinality(L) + 1
    BY <1>1, <2>4, FS_AddElement
  <2> QED BY <1>1, <1>2, <2>2, <2>3, RankBounds DEF Rank
<1>3. CASE x \notin S
  <2>1. \A y \in S : y <= x <=> y <= x - 1
    BY <1>0, <1>3
  <2>2. {y \in S : y <= x} = L
    BY <2>1
  <2> HIDE DEF L
  <2> QED BY <1>1, <1>3, <2>2, RankBounds DEF Rank
<1> QED BY <1>2, <1>3

\* The rank never falls.
LEMMA RankMonotonic ==
  ASSUME NEW n \in Nat, NEW S \in SUBSET (0..n), NEW x \in Int, NEW y \in Int
  PROVE  /\ x <= y => Rank(S, x) <= Rank(S, y)
         /\ x < y /\ y \in S => Rank(S, x) < Rank(S, y)
<1>0. \A z \in S : z \in Int
  OBVIOUS
<1>1. ASSUME NEW u \in Int, NEW v \in Int, u <= v PROVE Rank(S, u) <= Rank(S, v)
  <2> DEFINE L == {z \in S : z <= u}
             M == {z \in S : z <= v}
  <2>1. \A z \in S : z <= u => z <= v
    BY <1>0, <1>1
  <2>2. L \in SUBSET M /\ M \in SUBSET S
    BY <2>1
  <2>3. Rank(S, u) = Cardinality(L) /\ Rank(S, v) = Cardinality(M)
    BY DEF Rank
  <2> HIDE DEF L, M
  <2>4. IsFiniteSet(S)
    BY RankBounds
  <2>5. IsFiniteSet(M)
    BY <2>2, <2>4, FS_Subset
  <2>6. Cardinality(L) <= Cardinality(M)
    BY <2>2, <2>5, FS_Subset
  <2> QED BY <2>3, <2>6
<1>2. ASSUME x < y, y \in S PROVE Rank(S, x) < Rank(S, y)
  <2>0. y - 1 \in Int /\ x <= y - 1
    BY <1>2
  <2>1. Rank(S, x) <= Rank(S, y - 1)
    BY <1>1, <2>0
  <2>2. Rank(S, y) = Rank(S, y - 1) + 1
    BY <1>2, RankStep
  <2>3. Rank(S, x) \in Nat /\ Rank(S, y - 1) \in Nat
    BY <2>0, RankBounds
  <2> QED BY <2>1, <2>2, <2>3
<1> QED BY <1>1, <1>2

\* Every number up to the size is the rank of a member.
LEMMA RankOnto ==
  ASSUME NEW n \in Nat, NEW S \in SUBSET (0..n), NEW k \in 1..Cardinality(S)
  PROVE  \E x \in S : Rank(S, x) = k
<1> DEFINE T == {m \in Nat : Rank(S, m) >= k}
<1>0. k \in Nat /\ k >= 1 /\ k <= Cardinality(S) /\ Cardinality(S) \in Nat
  <2>1. Cardinality(S) \in Nat
    BY RankBounds
  <2> QED BY <2>1
<1>1. n \in T
  <2>1. Rank(S, n) = Cardinality(S)
    BY RankBounds
  <2> QED BY <1>0, <2>1
<1>2. PICK x \in T : \A m \in T : x <= m
  <2>1. T \in SUBSET Nat
    OBVIOUS
  <2> HIDE DEF T
  <2> QED BY <1>1, <2>1, LeastNatural
<1>3. x \in Nat /\ Rank(S, x) >= k
  OBVIOUS
<1>4. x - 1 \in Int /\ ~(Rank(S, x - 1) >= k)
  <2>1. CASE x = 0
    <3>1. x - 1 < 0 /\ x - 1 \in Int
      BY <2>1
    <3>2. Rank(S, x - 1) = 0
      BY <3>1, RankBounds
    <3> QED BY <1>0, <3>1, <3>2
  <2>2. CASE x # 0
    <3>1. x - 1 \in Nat /\ ~(x <= x - 1)
      BY <1>3, <2>2
    <3>2. x - 1 \notin T
      BY <1>2, <3>1
    <3> QED BY <3>1, <3>2
  <2> QED BY <2>1, <2>2
<1> HIDE DEF T
<1>5. Rank(S, x) \in Nat /\ Rank(S, x - 1) \in Nat
  BY <1>3, <1>4, RankBounds
<1>6. x \in Int
  BY <1>3
<1>7. x \in S
  <2>1. x \notin S => Rank(S, x) = Rank(S, x - 1)
    BY <1>6, RankStep
  <2> QED BY <1>3, <1>4, <2>1
<1>8. Rank(S, x) = Rank(S, x - 1) + 1
  BY <1>6, <1>7, RankStep
<1> QED BY <1>0, <1>3, <1>4, <1>5, <1>7, <1>8

\* The k-th member is the one of rank k.
LEMMA NthIs ==
  ASSUME NEW n \in Nat, NEW S \in SUBSET (0..n), NEW x \in S
  PROVE  Rank(S, x) \in 1..Cardinality(S) /\ Nth(S, Rank(S, x)) = x
<1>0. \A y \in S : y \in Int
  OBVIOUS
<1>1. ASSUME NEW y \in S, Rank(S, y) = Rank(S, x) PROVE y = x
  <2>1. x \in Int /\ y \in Int /\ Rank(S, x) \in Nat
    BY <1>0, RankBounds
  <2>2. ~(x < y)
    <3>1. x < y => Rank(S, x) < Rank(S, y)
      BY <2>1, RankMonotonic
    <3> QED BY <1>1, <2>1, <3>1
  <2>3. ~(y < x)
    <3>1. y < x => Rank(S, y) < Rank(S, x)
      BY <2>1, RankMonotonic
    <3> QED BY <1>1, <2>1, <3>1
  <2> QED BY <2>1, <2>2, <2>3
<1>2. Rank(S, x) \in 1..Cardinality(S)
  <2>1. x \in Int
    BY <1>0
  <2>2. Rank(S, x) = Rank(S, x - 1) + 1 /\ Rank(S, x - 1) \in Nat
    BY <2>1, RankStep
  <2>3. Rank(S, x) <= Cardinality(S) /\ Cardinality(S) \in Nat
    BY <2>1, RankBounds
  <2> QED BY <2>2, <2>3
<1>3. Nth(S, Rank(S, x)) = CHOOSE y \in S : Rank(S, y) = Rank(S, x)
  BY DEF Nth, Rank
<1> QED BY <1>1, <1>2, <1>3

\* A member is the one its rank counts.
LEMMA NthOf ==
  ASSUME NEW n \in Nat, NEW S \in SUBSET (0..n), NEW k \in 1..Cardinality(S)
  PROVE  /\ Nth(S, k) \in S /\ Nth(S, k) \in 0..n
         /\ Rank(S, Nth(S, k)) = k /\ Rank(S, Nth(S, k) - 1) = k - 1
<1>1. PICK x \in S : Rank(S, x) = k
  BY RankOnto
<1>2. Nth(S, k) = x
  BY <1>1, NthIs
<1>3. x \in Int
  OBVIOUS
<1>4. Rank(S, x) = Rank(S, x - 1) + 1 /\ Rank(S, x - 1) \in Nat
  BY <1>3, RankStep
<1> QED BY <1>1, <1>2, <1>4

\* The next member of the set is the least one behind.
LEMMA NthNext ==
  ASSUME NEW n \in Nat, NEW S \in SUBSET (0..n), NEW k \in 1..Cardinality(S) - 1
  PROVE  /\ Nth(S, k) < Nth(S, k + 1)
         /\ \A y \in S : y > Nth(S, k) => y >= Nth(S, k + 1)
<1>1. k \in 1..Cardinality(S) /\ k + 1 \in 1..Cardinality(S) /\ k \in Nat
  <2>1. Cardinality(S) \in Nat
    BY RankBounds
  <2> QED BY <2>1
<1>2. PICK x \in 0..n : x = Nth(S, k) /\ x \in S /\ Rank(S, x) = k
  BY <1>1, NthOf
<1>3. PICK z \in 0..n : z = Nth(S, k + 1) /\ z \in S /\ Rank(S, z) = k + 1
  BY <1>1, NthOf
<1> x \in Int /\ z \in Int
  OBVIOUS
<1>4. x < z
  <2>1. z <= x => Rank(S, z) <= Rank(S, x)
    BY RankMonotonic
  <2> QED BY <1>1, <1>2, <1>3, <2>1
<1>5. ASSUME NEW y \in S, y > x, y < z PROVE FALSE
  <2>1. y \in Int
    OBVIOUS
  <2>2. Rank(S, y) \in Nat
    BY <2>1, RankBounds
  <2>3. Rank(S, x) < Rank(S, y)
    BY <1>5, <2>1, RankMonotonic
  <2>4. Rank(S, y) < Rank(S, z)
    BY <1>3, <1>5, <2>1, RankMonotonic
  <2> QED BY <1>1, <1>2, <1>3, <2>2, <2>3, <2>4
<1>6. \A y \in S : y \in Int
  OBVIOUS
<1> QED BY <1>2, <1>3, <1>4, <1>5, <1>6

\* A set that looks on 1..len as S does behind p counts alike there.
LEMMA RankShift ==
  ASSUME NEW n \in Nat, NEW S \in SUBSET (0..n), NEW p \in Nat, NEW len \in Nat,
         NEW T \in SUBSET (1..len), \A x \in 1..len : x \in T <=> p + x \in S
  PROVE  /\ \A x \in 0..len : Rank(T, x) = Rank(S, p + x) - Rank(S, p)
         /\ Cardinality(T) = Rank(S, p + len) - Rank(S, p)
         /\ \A k \in 1..Cardinality(T) : p + Nth(T, k) = Nth(S, Rank(S, p) + k)
<1>0. T \in SUBSET (0..len) /\ T \subseteq 1..len
  OBVIOUS
<1>1. ASSUME NEW x \in Nat
      PROVE  /\ Rank(T, x) \in Nat /\ Rank(S, p + x) \in Nat /\ Rank(S, p) \in Nat
             /\ p + x \in Int /\ x \in Int
  <2>1. x \in Int /\ p + x \in Int /\ p \in Int
    OBVIOUS
  <2> QED BY <1>0, <2>1, RankBounds
<1> DEFINE Right == {x \in Nat : x <= len =>
                       Rank(T, x) = Rank(S, p + x) - Rank(S, p)}
<1>2. ASSUME NEW x \in Nat, \A m \in 0..x - 1 : m \in Right PROVE x \in Right
  <2>1. CASE x = 0
    <3>2. 0 \notin T /\ 0 - 1 < 0 /\ 0 - 1 \in Int /\ 0 \in Int
      BY <1>0
    <3>1. Rank(T, 0 - 1) = 0
      BY <1>0, <3>2, RankBounds
    <3>3. Rank(T, 0) = Rank(T, 0 - 1)
      BY <1>0, <3>2, RankStep
    <3>4. p + 0 = p
      OBVIOUS
    <3> QED BY <1>1, <2>1, <3>1, <3>2, <3>3, <3>4
  <2>2. CASE x # 0 /\ x <= len
    <3>1. x - 1 \in Nat /\ x - 1 \in 0..x - 1 /\ x - 1 <= len /\ x \in 1..len
      BY <2>2
    <3>2. Rank(T, x - 1) = Rank(S, p + (x - 1)) - Rank(S, p)
      BY <1>2, <3>1
    <3>3. p + x - 1 = p + (x - 1) /\ p + x \in Int /\ x \in Int
      OBVIOUS
    <3>4. x \in T <=> p + x \in S
      BY <3>1
    <3>5. /\ x \in T => Rank(T, x) = Rank(T, x - 1) + 1
          /\ x \notin T => Rank(T, x) = Rank(T, x - 1)
      BY <1>0, <3>3, RankStep
    <3>6. /\ p + x \in S => Rank(S, p + x) = Rank(S, p + x - 1) + 1
          /\ p + x \notin S => Rank(S, p + x) = Rank(S, p + x - 1)
      <4>1. PICK y \in Int : y = p + x
        BY <3>3
      <4>2. /\ y \in S => Rank(S, y) = Rank(S, y - 1) + 1
            /\ y \notin S => Rank(S, y) = Rank(S, y - 1)
        BY RankStep
      <4> QED BY <4>1, <4>2
    <3>7. Rank(T, x) = Rank(S, p + x) - Rank(S, p)
      <4>1. /\ Rank(T, x - 1) \in Nat /\ Rank(S, p + (x - 1)) \in Nat
            /\ Rank(S, p) \in Nat
        BY <1>1, <3>1
      <4>2. CASE x \in T
        BY <3>2, <3>3, <3>4, <3>5, <3>6, <4>1, <4>2
      <4>3. CASE x \notin T
        BY <3>2, <3>3, <3>4, <3>5, <3>6, <4>1, <4>3
      <4> QED BY <4>2, <4>3
    <3> QED BY <3>7
  <2>3. CASE x # 0 /\ ~(x <= len)
    BY <2>3
  <2> QED BY <2>1, <2>2, <2>3
<1>3. \A x \in Nat : x \in Right
  <2>1. Right \in SUBSET Nat
    OBVIOUS
  <2> HIDE DEF Right
  <2> QED BY <1>2, <2>1, Induction
<1>4. \A x \in 0..len : Rank(T, x) = Rank(S, p + x) - Rank(S, p)
  BY <1>3
<1>5. Cardinality(T) = Rank(S, p + len) - Rank(S, p)
  <2>1. Rank(T, len) = Cardinality(T)
    <3>1. len \in Int /\ len <= len
      OBVIOUS
    <3> QED BY <1>0, <3>1, RankBounds
  <2>2. len \in 0..len
    OBVIOUS
  <2> QED BY <1>4, <2>1, <2>2
<1>6. ASSUME NEW k \in 1..Cardinality(T) PROVE p + Nth(T, k) = Nth(S, Rank(S, p) + k)
  <2>1. PICK x \in T : x = Nth(T, k) /\ Rank(T, x) = k
    BY <1>0, NthOf
  <2>2. x \in 0..len /\ x \in 1..len /\ x \in Nat
    BY <1>0
  <2>3. p + x \in S
    BY <2>2
  <2>4. k = Rank(S, p + x) - Rank(S, p)
    BY <1>4, <2>1, <2>2
  <2>5. Rank(S, p + x) = Rank(S, p) + k
    BY <1>1, <2>2, <2>4
  <2>6. Nth(S, Rank(S, p + x)) = p + x
    BY <2>3, NthIs
  <2> QED BY <2>1, <2>5, <2>6
<1> QED BY <1>4, <1>5, <1>6

\* Numbering the members of K one by one keeps the order of those in B.
Ranks(K, B) == {Rank(K, x) : x \in B}

\* The ranks of a subset count as the subset does.
LEMMA RankImage ==
  ASSUME NEW n \in Nat, NEW K \in SUBSET (0..n), NEW B \in SUBSET K
  PROVE  /\ Ranks(K, B) \in SUBSET (1..Cardinality(K))
         /\ Cardinality(Ranks(K, B)) = Cardinality(B)
         /\ \A k \in 1..Cardinality(B) : Nth(Ranks(K, B), k) = Rank(K, Nth(B, k))
<1> DEFINE C == Ranks(K, B)
<1> USE DEF Ranks
<1>0. B \in SUBSET (0..n) /\ \A x \in K : x \in Int
  OBVIOUS
<1>1. \A x \in K : Rank(K, x) \in 1..Cardinality(K)
  BY NthIs
<1>2. C \in SUBSET (1..Cardinality(K))
  BY <1>1
<1>3. Cardinality(K) \in Nat /\ IsFiniteSet(K) /\ IsFiniteSet(B)
  BY <1>0, RankBounds
<1>4. \A x, y \in K : Rank(K, x) = Rank(K, y) => x = y
  BY NthIs
<1>5. \A x, y \in K : Rank(K, x) <= Rank(K, y) <=> x <= y
  <2>1. ASSUME NEW x \in K, NEW y \in K PROVE Rank(K, x) <= Rank(K, y) <=> x <= y
    <3>1. x \in Int /\ y \in Int
      BY <1>0
    <3>2. Rank(K, x) \in Nat /\ Rank(K, y) \in Nat
      BY <3>1, RankBounds
    <3>3. x <= y => Rank(K, x) <= Rank(K, y)
      BY <3>1, RankMonotonic
    <3>4. y < x => Rank(K, y) < Rank(K, x)
      BY <3>1, RankMonotonic
    <3> QED BY <3>1, <3>2, <3>3, <3>4
  <2> QED BY <2>1
<1>6. ASSUME NEW L \in SUBSET B
      PROVE  Cardinality({Rank(K, x) : x \in L}) = Cardinality(L)
  <2> DEFINE M == {Rank(K, x) : x \in L}
             f == [x \in L |-> Rank(K, x)]
  <2>1. f \in [L -> M]
    OBVIOUS
  <2>2. \A x, y \in L : f[x] = f[y] => x = y
    BY <1>4
  <2>3. \A y \in M : \E x \in L : f[x] = y
    OBVIOUS
  <2>4. f \in Bijection(L, M)
    <3> HIDE DEF f, M
    <3> QED BY <2>1, <2>2, <2>3 DEF Bijection, Injection, Surjection, IsInjective
  <2>5. ExistsBijection(L, M)
    BY <2>4 DEF ExistsBijection
  <2>6. IsFiniteSet(L)
    BY <1>3, FS_Subset
  <2> HIDE DEF M
  <2>7. Cardinality(M) = Cardinality(L)
    BY <2>5, <2>6, FS_Bijection
  <2> QED BY <2>7 DEF M
<1>7. Cardinality(C) = Cardinality(B)
  <2>1. B \in SUBSET B
    OBVIOUS
  <2> QED BY <1>6, <2>1
<1>8. ASSUME NEW x \in B PROVE Rank(C, Rank(K, x)) = Rank(B, x)
  <2> DEFINE L == {y \in B : y <= x}
  <2>1. {z \in C : z <= Rank(K, x)} = {Rank(K, y) : y \in L}
    BY <1>5
  <2>2. L \in SUBSET B
    OBVIOUS
  <2>3. Cardinality({Rank(K, y) : y \in L}) = Cardinality(L)
    <3> HIDE DEF L
    <3> QED BY <1>6, <2>2
  <2> QED BY <2>1, <2>3 DEF Rank
<1>9. ASSUME NEW k \in 1..Cardinality(B) PROVE Nth(C, k) = Rank(K, Nth(B, k))
  <2>1. PICK x \in B : x = Nth(B, k) /\ Rank(B, x) = k
    BY <1>0, NthOf
  <2>2. Rank(C, Rank(K, x)) = k
    BY <1>8, <2>1
  <2>3. Rank(K, x) \in C
    OBVIOUS
  <2>4. PICK c \in Nat : c = Cardinality(K)
    BY <1>3
  <2>5. C \in SUBSET (0..c)
    BY <1>2, <2>4
  <2>6. Nth(C, Rank(C, Rank(K, x))) = Rank(K, x)
    BY <2>3, <2>5, NthIs
  <2> QED BY <2>1, <2>2, <2>6
<1> QED BY <1>2, <1>7, <1>9

-----------------------------------------------------------------------------
(***************************************************************************)
(* Strings.                                                                *)
(***************************************************************************)

\* A function on 1..n is a sequence.
LEMMA SeqIs ==
  ASSUME NEW R, NEW n \in Nat, NEW s \in [1..n -> R]
  PROVE  s \in Seq(R) /\ Len(s) = n
<1>1. s = [i \in 1..n |-> s[i]] /\ \A i \in 1..n : s[i] \in R
  OBVIOUS
<1> QED BY <1>1

\* The length and the members of a sequence.
LEMMA SeqHas ==
  ASSUME NEW R, NEW s \in Seq(R)
  PROVE  /\ Len(s) \in Nat /\ DOMAIN s = 1..Len(s)
         /\ \A i \in 1..Len(s) : s[i] \in R
BY ElementOfSeq, LenProperties

\* A part of a sequence.
LEMMA Part ==
  ASSUME NEW R, NEW s \in Seq(R), NEW a \in Int, NEW b \in Int, 1 <= a, b <= Len(s)
  PROVE  /\ SubSeq(s, a, b) \in Seq(R)
         /\ Len(SubSeq(s, a, b)) = IF a <= b THEN b - a + 1 ELSE 0
         /\ \A i \in 1..b - a + 1 : SubSeq(s, a, b)[i] = s[a - 1 + i]
<1>1. \A i \in a..b : s[i] \in R
  <2>1. \A i \in a..b : i \in 1..Len(s)
    BY SeqHas
  <2> QED BY <2>1, SeqHas
<1>2. /\ SubSeq(s, a, b) \in Seq(R)
      /\ Len(SubSeq(s, a, b)) = IF a <= b THEN b - a + 1 ELSE 0
      /\ \A i \in 1..b - a + 1 : SubSeq(s, a, b)[i] = s[a + i - 1]
  BY <1>1, SubSeqProperties
<1>3. \A i \in 1..b - a + 1 : a + i - 1 = a - 1 + i
  OBVIOUS
<1> QED BY <1>2, <1>3
\* A string without the blanks around it is not longer than before.
LEMMA TrimmedFits ==
  ASSUME NEW s \in Seq(Char), NEW from \in Nat, NEW to \in Int,
         1 <= from, from - 1 <= to, to <= Len(s)
  PROVE  Len(Trimmed(s, from, to)) \in 0..to - from + 1
<1> DEFINE text == {i \in from..to : s[i] # " "}
<1>1. CASE text = {}
  <2>1. Trimmed(s, from, to) = <<>>
    BY <1>1 DEF Trimmed
  <2>2. 0 \in 0..to - from + 1 /\ Len(<<>>) = 0
    OBVIOUS
  <2> QED BY <2>1, <2>2
<1>2. CASE text # {}
  <2>1. from \in Int /\ to \in Int
    OBVIOUS
  <2>0. text \in SUBSET (from..to)
    OBVIOUS
  <2>2. PICK m \in from..to : m = Min(text)
    <3> HIDE DEF text
    <3> QED BY <1>2, <2>0, <2>1, Least
  <2>3. PICK n \in from..to : n = Max(text)
    <3> HIDE DEF text
    <3> QED BY <1>2, <2>0, <2>1, Greatest
  <2>4. Trimmed(s, from, to) = SubSeq(s, m, n)
    BY <1>2, <2>2, <2>3 DEF Trimmed
  <2>5. \A i \in m..n : s[i] \in Char
    BY ElementOfSeq
  <2>6. Len(SubSeq(s, m, n)) = IF m <= n THEN n - m + 1 ELSE 0
    BY <2>5, SubSeqProperties
  <2> HIDE DEF text
  <2> QED BY <2>2, <2>3, <2>4, <2>6
<1> QED BY <1>1, <1>2

\* Whatever the flags are, a meaning is at a place of the line.
LEMMA ActiveInLine ==
  ASSUME NEW s \in Seq(Char), NEW c
  PROVE  /\ Active(s, c) \in SUBSET (1..Len(s))
         /\ IsFiniteSet(Active(s, c))
         /\ Cardinality(Active(s, c)) \in Nat
<1>1. Active(s, c) \in SUBSET (1..Len(s))
  BY DEF Active
<1>2. IsFiniteSet(1..Len(s))
  BY FS_Interval
<1>3. IsFiniteSet(Active(s, c))
  BY <1>1, <1>2, FS_Subset
<1> QED BY <1>1, <1>3, FS_CardinalityType

\* What is left of a line is a line, and no longer.
LEMMA UncommentedIsLine ==
  ASSUME NEW s \in Seq(Char)
  PROVE  Uncommented(s) \in Seq(Char)
<1>1. CASE Active(s, "#") = {}
  BY <1>1 DEF Uncommented
<1>2. CASE Active(s, "#") # {}
  <2>1. PICK hash \in SUBSET (1..Len(s)) : hash = Active(s, "#")
    BY ActiveInLine
  <2>2. PICK m \in 1..Len(s) : m = Min(hash)
    <3>1. Len(s) \in Int /\ 1 \in Int
      OBVIOUS
    <3> QED BY <1>2, <2>1, <3>1, Least
  <2>3. \A i \in 1..m - 1 : s[i] \in Char
    BY ElementOfSeq
  <2>4. SubSeq(s, 1, m - 1) \in Seq(Char)
    BY <2>3, SubSeqProperties
  <2> QED BY <1>2, <2>1, <2>2, <2>4 DEF Uncommented
<1> QED BY <1>1, <1>2

-----------------------------------------------------------------------------
(***************************************************************************)
(* The flag of escapes, and what __sanitize_values() keeps of a string.    *)
(***************************************************************************)

\* The flag of escapes is what its recursion says.
LEMMA Flags ==
  ASSUME NEW s \in Seq(Char)
  PROVE  /\ f_escape(s) \in [0..Len(s) -> BOOLEAN]
         /\ ~f_escape(s)[0]
         /\ \A i \in 1..Len(s) : f_escape(s)[i] <=> s[i] = "\\" /\ ~f_escape(s)[i - 1]
<1> DEFINE Upto(m) == {g \in [0..m -> BOOLEAN] :
                         /\ ~g[0]
                         /\ \A i \in 1..m : g[i] <=> s[i] = "\\" /\ ~g[i - 1]}
           Some == {m \in Nat : Upto(m) # {}}
<1>1. \A m \in Nat : m \in Some
  <2>1. ASSUME NEW m \in Nat, \A k \in 0..m - 1 : k \in Some PROVE m \in Some
    <3>1. CASE m = 0
      <4> DEFINE g == [i \in 0..0 |-> FALSE]
      <4>1. g \in [0..0 -> BOOLEAN] /\ ~g[0] /\ 1..0 = {}
        OBVIOUS
      <4>2. g \in Upto(0)
        BY <4>1
      <4> QED BY <3>1, <4>2
    <3>2. CASE m # 0
      <4>1. m - 1 \in Nat /\ m - 1 \in 0..m - 1 /\ 0..m = 0..m - 1 \cup {m}
        BY <3>2
      <4>2. PICK h \in Upto(m - 1) : TRUE
        BY <2>1, <4>1
      <4> DEFINE last == s[m] = "\\" /\ ~h[m - 1]
                 g == [i \in 0..m |-> IF i = m THEN last ELSE h[i]]
      <4>3. last \in BOOLEAN
        OBVIOUS
      <4>4. h \in [0..m - 1 -> BOOLEAN]
        OBVIOUS
      <4>5. g \in [0..m -> BOOLEAN]
        <5> HIDE DEF last
        <5>1. ASSUME NEW i \in 0..m
              PROVE  (IF i = m THEN last ELSE h[i]) \in BOOLEAN
          <6>1. i = m \/ i \in 0..m - 1
            BY <4>1
          <6> QED BY <4>3, <4>4, <6>1
        <5> QED BY <5>1, Zenon
      <4>6. g[m] = last
        <5> HIDE DEF last
        <5>1. m \in 0..m
          OBVIOUS
        <5> QED BY <5>1
      <4>7. \A i \in 0..m - 1 : g[i] = h[i]
        OBVIOUS
      <4>8. ~g[0]
        BY <3>2
      <4>9. ASSUME NEW i \in 1..m PROVE g[i] <=> s[i] = "\\" /\ ~g[i - 1]
        <5>1. i - 1 \in 0..m - 1
          OBVIOUS
        <5>2. CASE i = m
          BY <4>6, <4>7, <5>1, <5>2
        <5>3. CASE i # m
          <6>1. i \in 1..m - 1 /\ i \in 0..m - 1
            BY <5>3
          <6>2. h[i] <=> s[i] = "\\" /\ ~h[i - 1]
            BY <4>2, <6>1
          <6> HIDE DEF g
          <6> QED BY <4>7, <5>1, <6>1, <6>2
        <5> QED BY <5>2, <5>3
      <4> HIDE DEF g
      <4>10. g \in Upto(m)
        BY <4>5, <4>8, <4>9
      <4> QED BY <4>10
    <3> QED BY <3>1, <3>2
  <2>2. Some \in SUBSET Nat
    OBVIOUS
  <2> HIDE DEF Some
  <2> QED BY <2>1, <2>2, Induction
<1>2. PICK n \in Nat : n = Len(s)
  OBVIOUS
<1>3. PICK g \in Upto(n) : TRUE
  BY <1>1
<1>4. g = [i \in 0..n |-> i > 0 /\ s[i] = "\\" /\ ~g[i - 1]]
  <2>1. g \in [0..n -> BOOLEAN]
    OBVIOUS
  <2>2. ASSUME NEW i \in 0..n PROVE g[i] = (i > 0 /\ s[i] = "\\" /\ ~g[i - 1])
    <3>1. g[i] \in BOOLEAN
      OBVIOUS
    <3>2. g[i] <=> (i > 0 /\ s[i] = "\\" /\ ~g[i - 1])
      <4>1. i = 0 \/ i \in 1..n
        OBVIOUS
      <4> QED BY <4>1
    <3> QED BY <3>1, <3>2
  <2> QED BY <2>1, <2>2
<1> DEFINE Rec(h) == [i \in 0..n |-> i > 0 /\ s[i] = "\\" /\ ~h[i - 1]]
<1>5. f_escape(s) = CHOOSE flag : flag = Rec(flag)
  BY <1>2 DEF f_escape
<1>6. PICK f : f = f_escape(s)
  OBVIOUS
<1>7. f = Rec(f)
  <2>1. \E h : h = Rec(h)
    BY <1>4
  <2> HIDE DEF Rec
  <2> QED BY <1>5, <1>6, <2>1
<1>8. ASSUME NEW i \in 0..n
      PROVE  f[i] = (i > 0 /\ s[i] = "\\" /\ ~f[i - 1])
  BY <1>7
<1>9. f \in [0..n -> BOOLEAN]
  <2>1. \A i \in 0..n : f[i] \in BOOLEAN
    BY <1>8
  <2> QED BY <1>7, <2>1
<1>10. ~f[0]
  <2>1. 0 \in 0..n /\ ~(0 > 0)
    OBVIOUS
  <2> QED BY <1>8, <2>1
<1>11. \A i \in 1..n : f[i] <=> s[i] = "\\" /\ ~f[i - 1]
  <2>1. \A i \in 1..n : i \in 0..n /\ i > 0
    OBVIOUS
  <2> QED BY <1>8, <2>1
<1> QED BY <1>2, <1>6, <1>9, <1>10, <1>11

\* What is kept of a string: all but the escapes that escape something.
LEMMA KeptIs ==
  ASSUME NEW s \in Seq(Char)
  PROVE  /\ Kept(s) \in SUBSET (1..Len(s))
         /\ \A i \in 1..Len(s) :
              /\ i \in Kept(s) <=> ~f_escape(s)[i]
              /\ f_escape(s)[i - 1] => i \in Kept(s) /\ ~f_escape(s)[i]
              /\ s[i] # "\\" => i \in Kept(s) /\ ~f_escape(s)[i]
              /\ s[i] = "\\" /\ ~f_escape(s)[i - 1] =>
                   i \notin Kept(s) /\ f_escape(s)[i]
<1>1. PICK n \in Nat : n = Len(s) /\ DOMAIN s = 1..n
  BY SeqHas
<1>2. PICK f : f = f_escape(s)
  OBVIOUS
<1>3. Kept(s) = {i \in 1..n : s[i] # "\\" \/ f[i - 1]}
  BY <1>1, <1>2 DEF Kept
<1>4. \A i \in 1..n : f[i] <=> s[i] = "\\" /\ ~f[i - 1]
  BY <1>1, <1>2, Flags
<1>5. \A i \in 1..n : i \in Kept(s) <=> s[i] # "\\" \/ f[i - 1]
  BY <1>3
<1>6. Kept(s) \in SUBSET (1..n)
  BY <1>3
<1> QED BY <1>1, <1>2, <1>4, <1>5, <1>6

\* v is what stands in s behind its first a characters.
Behind(v, s, a) ==
  /\ a + Len(v) <= Len(s)
  /\ \A i \in 1..Len(v) : v[i] = s[a + i]

\* A part of a string lies behind its first character.
LEMMA PartBehind ==
  ASSUME NEW R, NEW s \in Seq(R), NEW p \in Nat, NEW q \in Int,
         1 <= p, p - 1 <= q, q <= Len(s)
  PROVE  /\ SubSeq(s, p, q) \in Seq(R) /\ Len(SubSeq(s, p, q)) = q - (p - 1)
         /\ Behind(SubSeq(s, p, q), s, p - 1)
<1>1. PICK v : v = SubSeq(s, p, q)
  OBVIOUS
<1>2. /\ v \in Seq(R) /\ Len(v) = IF p <= q THEN q - p + 1 ELSE 0
      /\ \A i \in 1..q - p + 1 : v[i] = s[p - 1 + i]
  BY <1>1, Part
<1>3. /\ (IF p <= q THEN q - p + 1 ELSE 0) = q - (p - 1)
      /\ q - p + 1 = q - (p - 1)
  OBVIOUS
<1>4. Len(v) = q - (p - 1)
  BY <1>2, <1>3
<1>5. p - 1 + (q - (p - 1)) = q
  OBVIOUS
<1>6. Behind(v, s, p - 1)
  BY <1>2, <1>3, <1>4, <1>5 DEF Behind
<1> QED BY <1>1, <1>2, <1>4, <1>6

\* What begins where nothing is escaped keeps what the whole does.
LEMMA FlagsBehind ==
  ASSUME NEW s \in Seq(Char), NEW v \in Seq(Char), NEW a \in Nat, Behind(v, s, a),
         a = 0 \/ a \in Kept(s)
  PROVE  \A i \in 1..Len(v) : i \in Kept(v) <=> a + i \in Kept(s)
<1>1. PICK n \in Nat : n = Len(s)
  OBVIOUS
<1>2. PICK len \in Nat : len = Len(v)
  OBVIOUS
<1>3. a + len <= n /\ \A i \in 1..len : v[i] = s[a + i]
  BY <1>1, <1>2 DEF Behind
<1>4. PICK f, g : f = f_escape(s) /\ g = f_escape(v)
  OBVIOUS
<1>5. ~f[a]
  <2>1. CASE a = 0
    BY <1>4, <2>1, Flags
  <2>2. CASE a \in Kept(s)
    <3>1. Kept(s) \in SUBSET (1..Len(s))
      BY KeptIs
    <3>2. a \in 1..Len(s)
      BY <2>2, <3>1
    <3>3. a \in Kept(s) <=> ~f_escape(s)[a]
      BY <3>2, KeptIs
    <3> QED BY <1>4, <2>2, <3>3
  <2> QED BY <2>1, <2>2
<1>6. ~g[0] /\ \A i \in 1..len : g[i] <=> v[i] = "\\" /\ ~g[i - 1]
  BY <1>2, <1>4, Flags
<1>7. \A i \in 1..n : f[i] <=> s[i] = "\\" /\ ~f[i - 1]
  BY <1>1, <1>4, Flags
<1> DEFINE Right == {i \in Nat : i <= len => (g[i] <=> f[a + i])}
<1>8. ASSUME NEW i \in Nat, \A m \in 0..i - 1 : m \in Right PROVE i \in Right
  <2>1. CASE i = 0
    <3>1. a + 0 = a
      OBVIOUS
    <3> QED BY <1>5, <1>6, <2>1, <3>1
  <2>2. CASE i # 0 /\ i <= len
    <3>1. /\ i - 1 \in 0..i - 1 /\ i - 1 <= len /\ i \in 1..len
          /\ a + (i - 1) = a + i - 1 /\ a + i \in 1..n
      BY <1>3, <2>2
    <3>2. g[i - 1] <=> f[a + i - 1]
      BY <1>8, <3>1
    <3>3. v[i] = s[a + i]
      BY <1>3, <3>1
    <3>4. g[i] <=> v[i] = "\\" /\ ~g[i - 1]
      BY <1>6, <3>1
    <3>5. f[a + i] <=> s[a + i] = "\\" /\ ~f[a + i - 1]
      BY <1>7, <3>1
    <3>6. g[i] <=> f[a + i]
      BY <3>2, <3>3, <3>4, <3>5
    <3> QED BY <3>6
  <2>3. CASE ~(i <= len)
    BY <2>3
  <2> QED BY <2>1, <2>2, <2>3
<1>9. \A i \in Nat : i \in Right
  <2>1. Right \in SUBSET Nat
    OBVIOUS
  <2> HIDE DEF Right
  <2> QED BY <1>8, <2>1, Induction
<1>10. \A i \in 0..len : g[i] <=> f[a + i]
  BY <1>9
<1>11. ASSUME NEW i \in 1..len PROVE i \in Kept(v) <=> a + i \in Kept(s)
  <2>1. i \in 1..Len(v) /\ i \in 0..len /\ a + i \in 1..Len(s)
    BY <1>1, <1>2, <1>3
  <2>2. i \in Kept(v) <=> ~g[i]
    BY <1>4, <2>1, KeptIs
  <2>3. a + i \in Kept(s) <=> ~f[a + i]
    BY <1>4, <2>1, KeptIs
  <2> QED BY <1>10, <2>1, <2>2, <2>3
<1> QED BY <1>2, <1>11

\* Both count it alike from there on.
LEMMA KeptBehind ==
  ASSUME NEW s \in Seq(Char), NEW v \in Seq(Char), NEW a \in Nat, Behind(v, s, a),
         a = 0 \/ a \in Kept(s)
  PROVE  /\ Cardinality(Kept(v)) = Rank(Kept(s), a + Len(v)) - Rank(Kept(s), a)
         /\ \A k \in 1..Cardinality(Kept(v)) :
              /\ a + Nth(Kept(v), k) = Nth(Kept(s), Rank(Kept(s), a) + k)
              /\ Nth(Kept(v), k) \in Kept(v)
<1>1. PICK n \in Nat : n = Len(s)
  OBVIOUS
<1>2. PICK len \in Nat : len = Len(v)
  OBVIOUS
<1>3. PICK K \in SUBSET (1..n) : K = Kept(s)
  BY <1>1, KeptIs
<1>4. PICK L \in SUBSET (1..len) : L = Kept(v)
  BY <1>2, KeptIs
<1>5. \A i \in 1..len : i \in L <=> a + i \in K
  BY <1>2, <1>3, <1>4, FlagsBehind
<1>6. K \in SUBSET (0..n) /\ L \in SUBSET (0..len)
  OBVIOUS
<1>7. /\ Cardinality(L) = Rank(K, a + len) - Rank(K, a)
      /\ \A k \in 1..Cardinality(L) : a + Nth(L, k) = Nth(K, Rank(K, a) + k)
  <2>1. /\ \A x \in 0..len : Rank(L, x) = Rank(K, a + x) - Rank(K, a)
        /\ Cardinality(L) = Rank(K, a + len) - Rank(K, a)
        /\ \A k \in 1..Cardinality(L) : a + Nth(L, k) = Nth(K, Rank(K, a) + k)
    BY <1>5, <1>6, RankShift
  <2> QED BY <2>1
<1>8. \A k \in 1..Cardinality(L) : Nth(L, k) \in L
  BY <1>6, NthOf
<1> QED BY <1>2, <1>3, <1>4, <1>7, <1>8

\* A sanitized string holds the characters that are kept.
LEMMA SanitizedIs ==
  ASSUME NEW s \in Seq(Char)
  PROVE  /\ Sanitized(s) \in Seq(Char)
         /\ Cardinality(Kept(s)) \in Nat
         /\ Len(Sanitized(s)) = Cardinality(Kept(s))
         /\ DOMAIN Sanitized(s) = 1..Cardinality(Kept(s))
         /\ \A k \in 1..Cardinality(Kept(s)) : Sanitized(s)[k] = s[Nth(Kept(s), k)]
<1>1. PICK n \in Nat : n = Len(s)
  OBVIOUS
<1>2. PICK K \in SUBSET (1..n) : K = Kept(s)
  BY <1>1, KeptIs
<1>3. K \in SUBSET (0..n)
  OBVIOUS
<1>4. PICK c \in Nat : c = Cardinality(K)
  BY <1>3, FiniteCount
<1>5. \A k \in 1..c : Nth(K, k) \in K
  BY <1>3, <1>4, NthOf
<1>6. \A k \in 1..c : s[Nth(K, k)] \in Char
  BY <1>1, <1>5, SeqHas
<1>7. Sanitized(s) = [k \in 1..c |-> s[Nth(K, k)]]
  BY <1>2, <1>4 DEF Sanitized
<1>8. Sanitized(s) \in [1..c -> Char]
  BY <1>6, <1>7
<1>9. Sanitized(s) \in Seq(Char) /\ Len(Sanitized(s)) = c
  BY <1>8, SeqIs
<1> QED BY <1>2, <1>4, <1>7, <1>9

-----------------------------------------------------------------------------
(***************************************************************************)
(* The tokens of the rules are the characters that are kept.               *)
(***************************************************************************)

\* The tokens of the rules, found by what __sanitize_values() keeps.
AllTokens == [char : Char, escaped : BOOLEAN]
\* A character is escaped when the one in front of it is left out.
Escaped(s, i) == i # 1 /\ i - 1 \notin Kept(s)
KeptTokens(s) ==
  [k \in 1..Cardinality(Kept(s)) |->
     Token(s[Nth(Kept(s), k)], Escaped(s, Nth(Kept(s), k)))]

\* The parts of a token.
LEMMA TokenIs ==
  ASSUME NEW c \in Char, NEW q \in BOOLEAN
  PROVE  Token(c, q) \in AllTokens
BY DEF AllTokens, Token

\* Tokens are told apart by their parts.
LEMMA TokensDiffer ==
  ASSUME NEW c, NEW q, NEW d, NEW r
  PROVE  Token(c, q) = Token(d, r) <=> c = d /\ q = r
BY DEF Token

\* The tokens that are kept are a sequence of tokens.
LEMMA KeptTokensIs ==
  ASSUME NEW s \in Seq(Char)
  PROVE  /\ KeptTokens(s) \in Seq(AllTokens)
         /\ Cardinality(Kept(s)) \in Nat
         /\ Len(KeptTokens(s)) = Cardinality(Kept(s))
         /\ DOMAIN KeptTokens(s) = 1..Cardinality(Kept(s))
         /\ \A k \in 1..Cardinality(Kept(s)) :
              /\ Nth(Kept(s), k) \in Kept(s) /\ Nth(Kept(s), k) \in 1..Len(s)
              /\ Rank(Kept(s), Nth(Kept(s), k)) = k
              /\ KeptTokens(s)[k] =
                   Token(s[Nth(Kept(s), k)], Escaped(s, Nth(Kept(s), k)))
<1>1. PICK n \in Nat : n = Len(s)
  OBVIOUS
<1>2. PICK K \in SUBSET (1..n) : K = Kept(s)
  BY <1>1, KeptIs
<1>3. K \in SUBSET (0..n)
  OBVIOUS
<1>4. PICK c \in Nat : c = Cardinality(K)
  BY <1>3, FiniteCount
<1>5. \A k \in 1..c : Nth(K, k) \in K /\ Rank(K, Nth(K, k)) = k
  <2>1. \A k \in 1..Cardinality(K) :
          /\ Nth(K, k) \in K /\ Nth(K, k) \in 0..n
          /\ Rank(K, Nth(K, k)) = k /\ Rank(K, Nth(K, k) - 1) = k - 1
    BY <1>3, NthOf
  <2> QED BY <1>4, <2>1
<1>6. \A k \in 1..c : s[Nth(K, k)] \in Char
  BY <1>1, <1>5, SeqHas
<1>7. KeptTokens(s) = [k \in 1..c |-> Token(s[Nth(K, k)], Escaped(s, Nth(K, k)))]
  BY <1>2, <1>4 DEF KeptTokens
<1>8. \A k \in 1..c : Token(s[Nth(K, k)], Escaped(s, Nth(K, k))) \in AllTokens
  <2>1. \A i : Escaped(s, i) \in BOOLEAN
    BY DEF Escaped
  <2> QED BY <1>6, <2>1, TokenIs
<1>9. KeptTokens(s) \in [1..c -> AllTokens]
  BY <1>7, <1>8
<1>10. KeptTokens(s) \in Seq(AllTokens) /\ Len(KeptTokens(s)) = c
  BY <1>9, SeqIs
<1> QED BY <1>1, <1>2, <1>4, <1>5, <1>7, <1>10

\* The tokens of a part that begins where nothing is escaped are tokens of the whole.
LEMMA TokensBehind ==
  ASSUME NEW s \in Seq(Char), NEW v \in Seq(Char), NEW a \in Nat, Behind(v, s, a),
         a = 0 \/ a \in Kept(s)
  PROVE  /\ Cardinality(Kept(v)) = Rank(Kept(s), a + Len(v)) - Rank(Kept(s), a)
         /\ \A k \in 1..Cardinality(Kept(v)) :
              KeptTokens(v)[k] = KeptTokens(s)[Rank(Kept(s), a) + k]
<1>1. PICK n \in Nat : n = Len(s)
  OBVIOUS
<1>2. PICK K \in SUBSET (1..n) : K = Kept(s)
  BY <1>1, KeptIs
<1>3. K \in SUBSET (0..n)
  OBVIOUS
<1>4. PICK L : L = Kept(v)
  OBVIOUS
<1>5. /\ Cardinality(L) = Rank(K, a + Len(v)) - Rank(K, a)
      /\ \A k \in 1..Cardinality(L) :
           /\ a + Nth(L, k) = Nth(K, Rank(K, a) + k) /\ Nth(L, k) \in L
  BY <1>2, <1>4, KeptBehind
<1>6. \A i \in 1..Len(v) : i \in L <=> a + i \in K
  BY <1>2, <1>4, FlagsBehind
<1>7. ASSUME NEW k \in 1..Cardinality(L)
      PROVE  KeptTokens(v)[k] = KeptTokens(s)[Rank(K, a) + k]
  <2>1. PICK i : i = Nth(L, k)
    OBVIOUS
  <2>2. a + i = Nth(K, Rank(K, a) + k) /\ i \in L
    BY <1>5, <2>1
  <2>3. i \in 1..Len(v) /\ i \in Nat
    BY <1>4, <2>2, KeptIs
  <2>4. v[i] = s[a + i] /\ a + i \in K
    BY <1>6, <2>2, <2>3 DEF Behind
  <2>5. Escaped(s, a + i) = Escaped(v, i)
    <3>1. a + i - 1 = a + (i - 1)
      BY <2>3
    <3>2. CASE i = 1
      <4>1. a + i - 1 = a /\ (a + i # 1 <=> a # 0)
        BY <3>2
      <4>2. ~Escaped(s, a + i)
        BY <1>2, <3>1, <3>2, <4>1 DEF Escaped
      <4>3. ~Escaped(v, i)
        BY <3>2 DEF Escaped
      <4>4. Escaped(s, a + i) \in BOOLEAN /\ Escaped(v, i) \in BOOLEAN
        BY DEF Escaped
      <4> QED BY <4>2, <4>3, <4>4
    <3>3. CASE i # 1
      <4>1. i - 1 \in 1..Len(v) /\ a + i # 1
        BY <2>3, <3>3
      <4>2. i - 1 \in L <=> a + (i - 1) \in K
        BY <1>6, <4>1
      <4>3. Escaped(s, a + i) = (a + (i - 1) \notin K)
        BY <1>2, <2>3, <3>1, <4>1 DEF Escaped
      <4>4. Escaped(v, i) = (i - 1 \notin L)
        BY <1>4, <3>3 DEF Escaped
      <4> QED BY <4>2, <4>3, <4>4
    <3> QED BY <3>2, <3>3
  <2>6. KeptTokens(v)[k] = Token(v[i], Escaped(v, i))
    BY <1>4, <2>1, KeptTokensIs
  <2>7. PICK r : r = Rank(K, a) + k
    OBVIOUS
  <2>8. r \in 1..Cardinality(K)
    <3>1. Rank(K, a + i) \in 1..Cardinality(K)
      BY <1>3, <2>4, NthIs
    <3>2. Rank(K, a) \in Nat /\ Rank(K, a + Len(v)) \in Nat
      <4>1. a \in Int /\ a + Len(v) \in Int
        OBVIOUS
      <4> QED BY <1>3, <4>1, RankBounds
    <3>3. Rank(K, a + Len(v)) <= Cardinality(K)
      <4>1. a + Len(v) \in Int
        OBVIOUS
      <4> QED BY <1>3, <4>1, RankBounds
    <3>4. Cardinality(K) \in Nat
      BY <1>3, FiniteCount
    <3> QED BY <1>5, <2>7, <3>2, <3>3, <3>4
  <2>9. KeptTokens(s)[r] = Token(s[a + i], Escaped(s, a + i))
    BY <1>2, <2>2, <2>7, <2>8, KeptTokensIs
  <2> QED BY <2>4, <2>5, <2>6, <2>7, <2>9
<1> QED BY <1>2, <1>4, <1>5, <1>7

\* The first character that is kept.
LEMMA FirstToken ==
  ASSUME NEW s \in Seq(Char), NEW a \in {1, 2}, a <= Len(s), a \in Kept(s),
         a = 2 => 1 \notin Kept(s),
         NEW v \in Seq(Char), Behind(v, s, a), a + Len(v) = Len(s),
         NEW q \in BOOLEAN, q <=> a = 2
  PROVE  KeptTokens(s) = <<Token(s[a], q)>> \o KeptTokens(v)
<1>1. PICK n \in Nat : n = Len(s)
  OBVIOUS
<1>2. PICK K \in SUBSET (1..n) : K = Kept(s)
  BY <1>1, KeptIs
<1>3. PICK c \in Nat : c = Cardinality(K)
  <2>1. K \in SUBSET (0..n)
    OBVIOUS
  <2> QED BY <2>1, FiniteCount
<1>4. PICK L : L = Kept(v)
  OBVIOUS
<1>5. a \in Nat /\ a \in Int
  OBVIOUS
<1>6. K \in SUBSET (0..n)
  OBVIOUS
<1>7. Rank(K, a) = 1 /\ Nth(K, 1) = a
  <2>1. Rank(K, 0) = 0
    <3>1. 0 \in Int /\ 0 - 1 \in Int /\ 0 - 1 < 0 /\ 0 \notin K
      OBVIOUS
    <3>2. Rank(K, 0 - 1) = 0
      BY <1>6, <3>1, RankBounds
    <3>3. Rank(K, 0) = Rank(K, 0 - 1)
      BY <1>6, <3>1, RankStep
    <3> QED BY <3>2, <3>3
  <2>2. Rank(K, a) = 1
    <3>1. CASE a = 1
      <4>1. 1 \in Int /\ 1 - 1 = 0 /\ 1 \in K
        BY <1>2, <3>1
      <4>2. Rank(K, 1) = Rank(K, 1 - 1) + 1
        BY <1>6, <4>1, RankStep
      <4> QED BY <2>1, <3>1, <4>1, <4>2
    <3>2. CASE a = 2
      <4>1. 1 \in Int /\ 2 \in Int /\ 1 - 1 = 0 /\ 2 - 1 = 1 /\ 1 \notin K /\ 2 \in K
        BY <1>2, <3>2
      <4>2. Rank(K, 1) = Rank(K, 1 - 1)
        BY <1>6, <4>1, RankStep
      <4>3. Rank(K, 2) = Rank(K, 2 - 1) + 1
        BY <1>6, <4>1, RankStep
      <4> QED BY <2>1, <3>2, <4>1, <4>2, <4>3
    <3> QED BY <3>1, <3>2
  <2>3. Nth(K, Rank(K, a)) = a
    BY <1>2, <1>6, NthIs
  <2> QED BY <2>2, <2>3
<1>8. Cardinality(L) = Rank(K, a + Len(v)) - Rank(K, a)
  BY <1>2, <1>4, <1>5, KeptBehind
<1>10. Cardinality(L) = c - 1 /\ c - 1 \in Nat
  <2>1. Rank(K, n) = c
    <3>1. n \in Int /\ n <= n
      OBVIOUS
    <3> QED BY <1>3, <1>6, <3>1, RankBounds
  <2>2. Cardinality(L) \in Nat
    BY <1>4, KeptTokensIs
  <2> QED BY <1>1, <1>3, <1>7, <1>8, <2>1, <2>2
<1> DEFINE first == Token(s[a], q)
           rest == KeptTokens(v)
<1>11. first \in AllTokens
  <2>1. s[a] \in Char
    BY SeqHas
  <2> QED BY <2>1, TokenIs
<1>12. rest \in Seq(AllTokens) /\ Len(rest) = c - 1
  BY <1>4, <1>10, KeptTokensIs
<1>13. /\ KeptTokens(s) \in Seq(AllTokens) /\ Len(KeptTokens(s)) = c
       /\ \A k \in 1..c : KeptTokens(s)[k] = Token(s[Nth(K, k)], Escaped(s, Nth(K, k)))
  BY <1>2, <1>3, KeptTokensIs
<1>14. Escaped(s, a) = q
  <2>1. Escaped(s, a) <=> a = 2
    BY <1>2 DEF Escaped
  <2>2. Escaped(s, a) \in BOOLEAN
    BY DEF Escaped
  <2> QED BY <2>1, <2>2
<1>15. \A k \in 1..c - 1 : rest[k] = KeptTokens(s)[1 + k]
  BY <1>2, <1>4, <1>5, <1>7, <1>10, TokensBehind
<1>16. PICK one : /\ one = <<first>> /\ one \in Seq(AllTokens)
                  /\ Len(one) = 1 /\ one[1] = first
  <2> HIDE DEF first
  <2>1. <<first>> \in Seq(AllTokens) /\ Len(<<first>>) = 1 /\ <<first>>[1] = first
    BY <1>11
  <2> DEFINE u == <<first>>
  <2> HIDE DEF u
  <2>2. u = <<first>> /\ u \in Seq(AllTokens) /\ Len(u) = 1 /\ u[1] = first
    BY <2>1 DEF u
  <2> QED BY <2>2
<1> DEFINE both == one \o rest
<1> HIDE DEF first, rest
<1>17. /\ both \in Seq(AllTokens) /\ Len(both) = 1 + (c - 1)
       /\ \A k \in 1..1 + (c - 1) :
            both[k] = IF k <= 1 THEN one[k] ELSE rest[k - 1]
  <2>1. /\ both \in Seq(AllTokens) /\ Len(both) = Len(one) + Len(rest)
        /\ \A k \in 1..Len(one) + Len(rest) :
             both[k] = IF k <= Len(one) THEN one[k] ELSE rest[k - Len(one)]
    BY <1>12, <1>16, ConcatProperties
  <2> QED BY <1>12, <1>16, <2>1
<1> HIDE DEF both
<1>18. ASSUME NEW k \in 1..c PROVE KeptTokens(s)[k] = both[k]
  <2>1. CASE k = 1
    <3>1. both[1] = first /\ KeptTokens(s)[1] = Token(s[a], Escaped(s, a))
      <4>1. 1 \in 1..1 + (c - 1) /\ 1 <= 1 /\ 1 \in 1..c
        BY <1>10
      <4>2. both[1] = one[1]
        BY <1>17, <4>1
      <4>3. KeptTokens(s)[1] = Token(s[Nth(K, 1)], Escaped(s, Nth(K, 1)))
        BY <1>13, <4>1
      <4> QED BY <1>7, <1>16, <4>2, <4>3
    <3> QED BY <1>14, <2>1, <3>1 DEF first
  <2>2. CASE k # 1
    <3>1. k - 1 \in 1..c - 1 /\ 1 + (k - 1) = k /\ ~(k <= 1) /\ k \in 1..1 + (c - 1)
      BY <2>2
    <3>2. both[k] = rest[k - 1]
      BY <1>17, <3>1
    <3>3. rest[k - 1] = KeptTokens(s)[1 + (k - 1)]
      BY <1>15, <3>1
    <3> QED BY <3>1, <3>2, <3>3
  <2> QED BY <2>1, <2>2
<1>19. Len(KeptTokens(s)) = Len(both)
  BY <1>10, <1>13, <1>17
<1>20. KeptTokens(s) = both
  BY <1>13, <1>17, <1>18, <1>19, SeqEqual
<1> QED BY <1>16, <1>20 DEF both, first, rest

\* What the recursion of Tokens() still has to read.
Rest(s, i) == SubSeq(s, i, Len(s))

\* A rest is a string.
LEMMA RestIs ==
  ASSUME NEW s \in Seq(Char), NEW i \in 1..Len(s) + 1
  PROVE  /\ Rest(s, i) \in Seq(Char) /\ Len(Rest(s, i)) = Len(s) - (i - 1)
         /\ \A j \in 1..Len(s) - (i - 1) : Rest(s, i)[j] = s[i - 1 + j]
<1>1. PICK n \in Nat : n = Len(s)
  OBVIOUS
<1>2. i \in Nat /\ 1 <= i /\ i - 1 <= n /\ n <= n /\ n \in Int
  BY <1>1
<1>3. /\ SubSeq(s, i, n) \in Seq(Char) /\ Len(SubSeq(s, i, n)) = n - (i - 1)
      /\ Behind(SubSeq(s, i, n), s, i - 1)
  BY <1>1, <1>2, PartBehind
<1> QED BY <1>1, <1>3 DEF Rest, Behind

\* The empty string has no token.
LEMMA NoTokens ==
  ASSUME NEW s \in Seq(Char), Kept(s) = {}
  PROVE  KeptTokens(s) = <<>>
<1>1. Cardinality(Kept(s)) = 0
  BY FS_EmptySet
<1>2. KeptTokens(s) \in Seq(AllTokens) /\ Len(KeptTokens(s)) = 0
  BY <1>1, KeptTokensIs
<1> QED BY <1>2, EmptySeq

\* The rest of a line has the tokens that the rules give it.
RestTokens(s) == [i \in 1..Len(s) + 2 |-> KeptTokens(Rest(s, i))]
\* The recursion of Tokens().
Rules(s, g) ==
  [i \in 1..Len(s) + 2 |->
     IF i > Len(s) THEN <<>>
     ELSE IF s[i] # "\\" THEN <<Token(s[i], FALSE)>> \o g[i + 1]
     ELSE IF i = Len(s) THEN <<>>
     ELSE <<Token(s[i + 1], TRUE)>> \o g[i + 2]]

\* The tokens kept in the rests obey that recursion.
LEMMA RestTokensFollow ==
  ASSUME NEW s \in Seq(Char)
  PROVE  RestTokens(s) = Rules(s, RestTokens(s))
<1>1. PICK n \in Nat : n = Len(s)
  OBVIOUS
<1> DEFINE g == RestTokens(s)
<1>2. \A i \in 1..n + 2 : g[i] = KeptTokens(Rest(s, i))
  BY <1>1 DEF RestTokens
<1>3. g = [i \in 1..n + 2 |-> g[i]]
  BY <1>1 DEF RestTokens
<1> HIDE DEF g
<1>4. ASSUME NEW i \in 1..n + 2, i > n PROVE g[i] = <<>>
  <2>1. Rest(s, i) = <<>>
    <3>1. i \in Int /\ n \in Int /\ n < i
      BY <1>4
    <3>2. SubSeq(s, i, n) = <<>>
      BY <3>1, SubSeqEmpty
    <3> QED BY <1>1, <3>2 DEF Rest
  <2>2. PICK e \in Seq(Char) : e = <<>> /\ Len(e) = 0
    BY EmptySeq
  <2>3. Kept(e) \in SUBSET (1..0)
    BY <2>2, KeptIs
  <2>4. Kept(e) = {}
    BY <2>3
  <2>5. KeptTokens(e) = <<>>
    BY <2>4, NoTokens
  <2> QED BY <1>2, <2>1, <2>2, <2>5
<1>5. ASSUME NEW i \in 1..n
      PROVE  g[i] = IF s[i] # "\\" THEN <<Token(s[i], FALSE)>> \o g[i + 1]
                    ELSE IF i = n THEN <<>>
                    ELSE <<Token(s[i + 1], TRUE)>> \o g[i + 2]
  <2>1. PICK w \in Seq(Char) :
          /\ w = Rest(s, i) /\ Len(w) = n - (i - 1)
          /\ \A j \in 1..n - (i - 1) : w[j] = s[i - 1 + j]
    <3>1. i \in 1..Len(s) + 1
      BY <1>1
    <3>2. /\ Rest(s, i) \in Seq(Char) /\ Len(Rest(s, i)) = Len(s) - (i - 1)
          /\ \A j \in 1..Len(s) - (i - 1) : Rest(s, i)[j] = s[i - 1 + j]
      BY <3>1, RestIs
    <3> QED BY <1>1, <3>2
  <2>2. n - (i - 1) \in Nat /\ 1 \in 1..n - (i - 1) /\ i - 1 + 1 = i /\ 1 - 1 = 0
    OBVIOUS
  <2>3. w[1] = s[i]
    BY <2>1, <2>2
  <2>4. g[i] = KeptTokens(w)
    BY <1>2, <2>1
  <2>5. ~f_escape(w)[1 - 1]
    BY <2>2, Flags
  <2>6. CASE s[i] # "\\"
    <3>1. PICK v \in Seq(Char) :
            /\ v = Rest(s, i + 1) /\ Len(v) = n - i
            /\ \A j \in 1..n - i : v[j] = s[i + j]
      <4> DEFINE m == i + 1
      <4>1. m \in 1..Len(s) + 1 /\ m - 1 = i
        BY <1>1
      <4> HIDE DEF m
      <4>2. /\ Rest(s, m) \in Seq(Char) /\ Len(Rest(s, m)) = Len(s) - (m - 1)
            /\ \A j \in 1..Len(s) - (m - 1) : Rest(s, m)[j] = s[m - 1 + j]
        BY <4>1, RestIs
      <4>3. /\ Rest(s, m) \in Seq(Char) /\ Len(Rest(s, m)) = n - i
            /\ \A j \in 1..n - i : Rest(s, m)[j] = s[i + j]
        BY <1>1, <4>1, <4>2
      <4> QED BY <4>3 DEF m
    <3>2. 1 \in Kept(w)
      BY <2>1, <2>2, <2>3, <2>6, KeptIs
    <3>3. /\ 1 + Len(v) = Len(w) /\ 1 + Len(v) <= Len(w) /\ 1 <= Len(w)
          /\ n - i \in Nat /\ Len(v) = n - i
      BY <2>1, <3>1
    <3>4. ASSUME NEW j \in 1..n - i PROVE v[j] = w[1 + j]
      <4>1. 1 + j \in 1..n - (i - 1) /\ i - 1 + (1 + j) = i + j
        OBVIOUS
      <4> QED BY <2>1, <3>1, <3>3, <4>1
    <3>5. Behind(v, w, 1)
      BY <3>3, <3>4 DEF Behind
    <3>6. KeptTokens(w) = <<Token(w[1], FALSE)>> \o KeptTokens(v)
      <4>1. 1 \in {1, 2} /\ ~(1 = 2) /\ FALSE \in BOOLEAN /\ (FALSE <=> 1 = 2)
        OBVIOUS
      <4> QED BY <3>2, <3>3, <3>5, <4>1, FirstToken
    <3>7. g[i + 1] = KeptTokens(v)
      BY <1>2, <3>1
    <3> QED BY <2>3, <2>4, <2>6, <3>6, <3>7
  <2>7. CASE s[i] = "\\"
    <3>1. 1 \notin Kept(w) /\ f_escape(w)[1]
      BY <2>1, <2>2, <2>3, <2>5, <2>7, KeptIs
    <3>2. CASE i = n
      <4>1. Kept(w) \in SUBSET (1..1)
        <5>1. n - (i - 1) = 1
          BY <3>2
        <5> QED BY <2>1, <5>1, KeptIs
      <4>2. Kept(w) = {}
        BY <3>1, <4>1
      <4>3. KeptTokens(w) = <<>>
        BY <4>2, NoTokens
      <4> QED BY <2>4, <2>7, <3>2, <4>3
    <3>3. CASE i # n
      <4>0. i + 2 \in 1..n + 1 /\ 2 \in 1..n - (i - 1) /\ i - 1 + 2 = i + 1 /\ 2 - 1 = 1
        BY <3>3
      <4>1. PICK v \in Seq(Char) :
              /\ v = Rest(s, i + 2) /\ Len(v) = n - (i + 2 - 1)
              /\ \A j \in 1..n - (i + 2 - 1) : v[j] = s[i + 2 - 1 + j]
        <5>1. PICK m \in 1..Len(s) + 1 : m = i + 2
          BY <1>1, <4>0
        <5>2. /\ Rest(s, m) \in Seq(Char) /\ Len(Rest(s, m)) = Len(s) - (m - 1)
               /\ \A j \in 1..Len(s) - (m - 1) : Rest(s, m)[j] = s[m - 1 + j]
          BY RestIs
        <5>3. PICK v \in Seq(Char) : v = Rest(s, m)
          BY <5>2
        <5>4. Len(v) = n - (m - 1) /\ \A j \in 1..n - (m - 1) : v[j] = s[m - 1 + j]
          BY <1>1, <5>2, <5>3
        <5> QED BY <5>1, <5>3, <5>4
      <4>2. 2 \in Kept(w) /\ w[2] = s[i + 1]
        BY <2>1, <3>1, <4>0, KeptIs
      <4>3. /\ 2 + Len(v) = Len(w) /\ 2 + Len(v) <= Len(w) /\ 2 <= Len(w)
            /\ n - (i + 2 - 1) = n - i - 1 /\ n - i - 1 \in Nat /\ Len(v) = n - i - 1
        <5>1. Len(v) = n - (i + 2 - 1) /\ Len(w) = n - (i - 1)
          BY <2>1, <4>1
        <5> QED BY <3>3, <5>1
      <4>4. ASSUME NEW j \in 1..n - i - 1 PROVE v[j] = w[2 + j]
        <5>1. 2 + j \in 1..n - (i - 1) /\ i - 1 + (2 + j) = i + 2 - 1 + j
          OBVIOUS
        <5> QED BY <2>1, <4>1, <4>3, <5>1
      <4>5. Behind(v, w, 2)
        BY <4>3, <4>4 DEF Behind
      <4>6. KeptTokens(w) = <<Token(w[2], TRUE)>> \o KeptTokens(v)
        BY <3>1, <4>2, <4>3, <4>5, FirstToken
      <4>7. g[i + 2] = KeptTokens(v)
        BY <1>2, <4>0, <4>1
      <4> QED BY <2>4, <2>7, <3>3, <4>2, <4>6, <4>7
    <3> QED BY <3>2, <3>3
  <2> QED BY <2>6, <2>7
<1>6. ASSUME NEW i \in 1..n + 2 PROVE g[i] = Rules(s, g)[i]
  <2>1. CASE i > n
    BY <1>1, <1>4, <2>1 DEF Rules
  <2>2. CASE ~(i > n)
    <3>1. i \in 1..n
      BY <2>2
    <3> QED BY <1>1, <1>5, <2>2, <3>1 DEF Rules
  <2> QED BY <2>1, <2>2
<1>7. Rules(s, g) = [i \in 1..n + 2 |-> Rules(s, g)[i]]
  BY <1>1 DEF Rules
<1>8. g = Rules(s, g)
  BY <1>3, <1>6, <1>7
<1> QED BY <1>8 DEF g

\* The rules of keyval.c keep the same characters as __sanitize_values().
LEMMA TokensAre ==
  ASSUME NEW s \in Seq(Char)
  PROVE  Tokens(s) = KeptTokens(s)
<1>1. PICK n \in Nat : n = Len(s)
  OBVIOUS
<1>2. PICK h : h = CHOOSE g : g = Rules(s, g)
  OBVIOUS
<1>3. Tokens(s) = h[1]
  BY <1>2 DEF Tokens, Rules
<1>4. h = Rules(s, h)
  BY <1>2, RestTokensFollow
<1> DEFINE g == RestTokens(s)
<1>5. g = Rules(s, g)
  BY RestTokensFollow
<1> HIDE DEF g
<1> DEFINE Alike == {d \in Nat : d <= n + 1 => h[n + 2 - d] = g[n + 2 - d]}
<1>6. ASSUME NEW d \in Nat, \A m \in 0..d - 1 : m \in Alike PROVE d \in Alike
  <2>1. CASE d <= n + 1
    <3>1. PICK i \in 1..n + 2 : i = n + 2 - d
      BY <2>1
    <3>2. ASSUME NEW j \in {1, 2}, i + j <= n + 2 PROVE h[i + j] = g[i + j]
      <4>1. d - j \in 0..d - 1 /\ d - j <= n + 1 /\ n + 2 - (d - j) = i + j
        BY <2>1, <3>1, <3>2
      <4>2. d - j \in Alike
        BY <1>6, <4>1
      <4> QED BY <4>1, <4>2
    <3>3. Rules(s, h)[i] = Rules(s, g)[i]
      <4>1. CASE i > n
        BY <1>1, <4>1 DEF Rules
      <4>2. CASE ~(i > n)
        <5>1. i + 1 <= n + 2 /\ i + 2 <= n + 2
          BY <4>2
        <5>2. h[i + 1] = g[i + 1] /\ h[i + 2] = g[i + 2]
          BY <3>2, <5>1
        <5> QED BY <1>1, <4>2, <5>2 DEF Rules
      <4> QED BY <4>1, <4>2
    <3> QED BY <1>4, <1>5, <3>1, <3>3
  <2>2. CASE ~(d <= n + 1)
    BY <2>2
  <2> QED BY <2>1, <2>2
<1>7. \A d \in Nat : d \in Alike
  <2>1. Alike \in SUBSET Nat
    OBVIOUS
  <2> HIDE DEF Alike
  <2> QED BY <1>6, <2>1, Induction
<1>8. h[1] = g[1]
  <2>1. n + 1 \in Nat /\ n + 1 <= n + 1 /\ n + 2 - (n + 1) = 1
    OBVIOUS
  <2> QED BY <1>7, <2>1
<1>9. g[1] = KeptTokens(s)
  <2>1. SubSeq(s, 1, Len(s)) = s
    BY SubSeqFull
  <2>2. 1 \in 1..Len(s) + 2
    BY <1>1
  <2> QED BY <2>1, <2>2 DEF g, RestTokens, Rest
<1> QED BY <1>3, <1>8, <1>9

\* Escaped by the flag and by what is left out is the same.
LEMMA EscapedIs ==
  ASSUME NEW s \in Seq(Char), NEW i \in 1..Len(s)
  PROVE  Escaped(s, i) <=> f_escape(s)[i - 1]
<1>1. CASE i = 1
  <2>1. i - 1 = 0 /\ ~f_escape(s)[0]
    BY <1>1, Flags
  <2> QED BY <1>1, <2>1 DEF Escaped
<1>2. CASE i # 1
  <2>1. i - 1 \in 1..Len(s)
    BY <1>2
  <2>2. i - 1 \in Kept(s) <=> ~f_escape(s)[i - 1]
    BY <2>1, KeptIs
  <2> QED BY <1>2, <2>2 DEF Escaped
<1> QED BY <1>1, <1>2

\* Where a character has its meaning, the rules see it.
LEMMA WhereIs ==
  ASSUME NEW s \in Seq(Char), NEW c, c # "\\"
  PROVE  /\ Active(s, c) \in SUBSET Kept(s)
         /\ Where(KeptTokens(s), c) = Ranks(Kept(s), Active(s, c))
<1>1. PICK n \in Nat : n = Len(s)
  OBVIOUS
<1>2. PICK K \in SUBSET (1..n) : K = Kept(s)
  BY <1>1, KeptIs
<1>3. K \in SUBSET (0..n)
  OBVIOUS
<1>4. PICK t : t = KeptTokens(s)
  OBVIOUS
<1>5. /\ DOMAIN t = 1..Cardinality(K)
      /\ \A k \in 1..Cardinality(K) :
           /\ Nth(K, k) \in K /\ Rank(K, Nth(K, k)) = k
           /\ t[k] = Token(s[Nth(K, k)], Escaped(s, Nth(K, k)))
  BY <1>2, <1>4, KeptTokensIs
<1>6. \A i \in 1..n : i \in Active(s, c) <=> s[i] = c /\ ~Escaped(s, i)
  <2>1. DOMAIN s = 1..n
    BY <1>1, SeqHas
  <2> QED BY <1>1, <2>1, EscapedIs DEF Active
<1>7. Active(s, c) \in SUBSET (1..n)
  BY <1>1, ActiveInLine
<1>8. Active(s, c) \in SUBSET K
  <2>1. ASSUME NEW i \in Active(s, c) PROVE i \in K
    <3>1. i \in 1..n /\ s[i] # "\\"
      BY <1>6, <1>7
    <3> QED BY <1>1, <1>2, <3>1, KeptIs
  <2> QED BY <2>1
<1>9. ASSUME NEW i \in K
      PROVE  /\ Rank(K, i) \in DOMAIN t
             /\ t[Rank(K, i)] = Token(c, FALSE) <=> i \in Active(s, c)
  <2>1. Rank(K, i) \in 1..Cardinality(K) /\ Nth(K, Rank(K, i)) = i
    BY <1>3, NthIs
  <2>2. t[Rank(K, i)] = Token(s[i], Escaped(s, i))
    BY <1>5, <2>1
  <2> DEFINE e == Escaped(s, i)
             d == s[i]
             f == FALSE
  <2>5. Token(d, e) = Token(c, f) <=> d = c /\ e = f
    <3> HIDE DEF e, d, f
    <3> QED BY TokensDiffer
  <2>3. t[Rank(K, i)] = Token(c, FALSE) <=> s[i] = c /\ Escaped(s, i) = FALSE
    <3>1. t[Rank(K, i)] = Token(d, e)
      BY <2>2
    <3> HIDE DEF e, d
    <3>2. t[Rank(K, i)] = Token(c, FALSE) <=> d = c /\ e = FALSE
      BY <2>5, <3>1
    <3> QED BY <3>2 DEF d, e
  <2>4. Escaped(s, i) \in BOOLEAN
    BY DEF Escaped
  <2> QED BY <1>5, <1>6, <2>1, <2>3, <2>4
<1>10. \A k \in Where(t, c) : \E i \in Active(s, c) : k = Rank(K, i)
  <2>1. ASSUME NEW k \in Where(t, c) PROVE \E i \in Active(s, c) : k = Rank(K, i)
    <3>1. k \in 1..Cardinality(K) /\ t[k] = Token(c, FALSE)
      BY <1>5 DEF Where
    <3>2. Nth(K, k) \in K /\ Rank(K, Nth(K, k)) = k
      BY <1>5, <3>1
    <3>3. Nth(K, k) \in Active(s, c)
      BY <1>9, <3>1, <3>2
    <3> QED BY <3>2, <3>3
  <2> QED BY <2>1
<1>11. \A i \in Active(s, c) : Rank(K, i) \in Where(t, c)
  BY <1>8, <1>9 DEF Where
<1>12. Where(t, c) = Ranks(K, Active(s, c))
  BY <1>10, <1>11 DEF Ranks
<1> QED BY <1>2, <1>4, <1>8, <1>12

\* The least member, when one is known to be it.
LEMMA MinIs ==
  ASSUME NEW S \in SUBSET Int, NEW x \in S, \A y \in S : x <= y
  PROVE  Min(S) = x
<1>1. \A z \in S : (\A y \in S : z <= y) => z = x
  <2>1. ASSUME NEW z \in S, \A y \in S : z <= y PROVE z = x
    <3>1. z \in Int /\ x \in Int /\ z <= x /\ x <= z
      BY <2>1
    <3> QED BY <3>1
  <2> QED BY <2>1
<1> QED BY <1>1 DEF Min

\* The greatest member, when one is known to be it.
LEMMA MaxIs ==
  ASSUME NEW S \in SUBSET Int, NEW x \in S, \A y \in S : x >= y
  PROVE  Max(S) = x
<1>1. \A z \in S : (\A y \in S : z >= y) => z = x
  <2>1. ASSUME NEW z \in S, \A y \in S : z >= y PROVE z = x
    <3>1. z \in Int /\ x \in Int /\ z >= x /\ x >= z
      BY <2>1
    <3> QED BY <3>1
  <2> QED BY <2>1
<1> QED BY <1>1 DEF Max

\* A part of the line between places where nothing is escaped has a part of its tokens.
LEMMA TokensOfPart ==
  ASSUME NEW s \in Seq(Char), NEW p \in Nat, NEW q \in Int,
         1 <= p, p - 1 <= q, q <= Len(s), p = 1 \/ p - 1 \in Kept(s)
  PROVE  KeptTokens(SubSeq(s, p, q)) =
           SubSeq(KeptTokens(s), Rank(Kept(s), p - 1) + 1, Rank(Kept(s), q))
<1>1. PICK v \in Seq(Char) :
        /\ v = SubSeq(s, p, q) /\ Len(v) = q - (p - 1) /\ Behind(v, s, p - 1)
  BY PartBehind
<1> DEFINE a == p - 1
<1>2. a \in Nat /\ a + (q - a) = q /\ (a = 0 \/ a \in Kept(s)) /\ a \in Int /\ a <= q
  OBVIOUS
<1>3. Behind(v, s, a) /\ Len(v) = q - a
  BY <1>1
<1> HIDE DEF a
<1>4. PICK n \in Nat : n = Len(s)
  OBVIOUS
<1>5. PICK K \in SUBSET (1..n) : K = Kept(s)
  BY <1>4, KeptIs
<1>6. K \in SUBSET (0..n)
  OBVIOUS
<1>7. PICK c : c = Cardinality(Kept(v))
  OBVIOUS
<1>8. /\ c = Rank(K, a + Len(v)) - Rank(K, a)
      /\ \A k \in 1..c : KeptTokens(v)[k] = KeptTokens(s)[Rank(K, a) + k]
  BY <1>2, <1>3, <1>5, <1>7, TokensBehind
<1>9. PICK x, y \in Nat : x = Rank(K, a) /\ y = Rank(K, q)
  BY <1>2, <1>6, RankBounds
<1>10. x <= y /\ y <= Cardinality(K) /\ c = y - x
  <2>1. x <= y
    BY <1>2, <1>6, <1>9, RankMonotonic
  <2>2. y <= Cardinality(K)
    BY <1>2, <1>6, <1>9, RankBounds
  <2> QED BY <1>2, <1>3, <1>8, <1>9, <2>1, <2>2
<1>11. KeptTokens(v) \in Seq(AllTokens) /\ Len(KeptTokens(v)) = c
  BY <1>7, KeptTokensIs
<1>12. KeptTokens(s) \in Seq(AllTokens) /\ Len(KeptTokens(s)) = Cardinality(K)
  BY <1>5, KeptTokensIs
<1> DEFINE w == SubSeq(KeptTokens(s), x + 1, y)
<1>13. /\ w \in Seq(AllTokens) /\ Len(w) = y - x
       /\ \A k \in 1..y - x : w[k] = KeptTokens(s)[x + k]
  <2>1. x + 1 \in Int /\ y \in Int /\ 1 <= x + 1 /\ y <= Len(KeptTokens(s))
    BY <1>10, <1>12
  <2>2. /\ w \in Seq(AllTokens)
        /\ Len(w) = IF x + 1 <= y THEN y - (x + 1) + 1 ELSE 0
        /\ \A k \in 1..y - (x + 1) + 1 : w[k] = KeptTokens(s)[x + 1 - 1 + k]
    BY <1>12, <2>1, Part
  <2>3. /\ (IF x + 1 <= y THEN y - (x + 1) + 1 ELSE 0) = y - x
        /\ y - (x + 1) + 1 = y - x /\ x + 1 - 1 = x
    BY <1>10
  <2> QED BY <2>2, <2>3
<1> HIDE DEF w
<1>14. KeptTokens(v) = w
  <2>1. \A k \in 1..c : KeptTokens(v)[k] = w[k]
    BY <1>8, <1>9, <1>10, <1>13
  <2>2. Len(KeptTokens(v)) = Len(w)
    BY <1>10, <1>11, <1>13
  <2> QED BY <1>11, <1>13, <2>1, <2>2, SeqEqual
<1> QED BY <1>1, <1>5, <1>9, <1>14 DEF w, a

\* Nothing lies in front of the first place.
LEMMA RankZero ==
  ASSUME NEW n \in Nat, NEW S \in SUBSET (1..n)
  PROVE  Rank(S, 0) = 0
<1>1. S \in SUBSET (0..n) /\ 0 \in Int /\ 0 - 1 \in Int /\ 0 - 1 < 0 /\ 0 \notin S
  OBVIOUS
<1>2. Rank(S, 0 - 1) = 0
  BY <1>1, RankBounds
<1>3. Rank(S, 0) = Rank(S, 0 - 1)
  BY <1>1, RankStep
<1> QED BY <1>2, <1>3

\* Both drop the same comment.
LEMMA UncommentedTokens ==
  ASSUME NEW s \in Seq(Char)
  PROVE  Rule2(KeptTokens(s)) = KeptTokens(Uncommented(s))
<1>1. PICK n \in Nat : n = Len(s)
  OBVIOUS
<1>2. PICK K \in SUBSET (1..n) : K = Kept(s)
  BY <1>1, KeptIs
<1>3. K \in SUBSET (0..n)
  OBVIOUS
<1>4. PICK t \in Seq(AllTokens) : t = KeptTokens(s)
  BY KeptTokensIs
<1>5. PICK c \in Nat : c = Cardinality(K) /\ c = Len(t)
  BY <1>2, <1>4, KeptTokensIs
<1>6. PICK hash \in SUBSET (1..n) : hash = Active(s, "#")
  BY <1>1, ActiveInLine
<1>7. hash \in SUBSET K /\ Where(t, "#") = Ranks(K, hash)
  <2>1. "#" # "\\"
    OBVIOUS
  <2> QED BY <1>2, <1>4, <1>6, <2>1, WhereIs
<1>8. CASE hash = {}
  <2>1. PICK d \in Int : d = Len(t) + 1
    BY <1>5
  <2>2. Where(t, "#") \cup {d} = {d}
    BY <1>7, <1>8 DEF Ranks
  <2>3. Min({d}) = d
    <3>1. {d} \in SUBSET Int /\ d \in {d} /\ \A y \in {d} : d <= y
      OBVIOUS
    <3> QED BY <3>1, MinIs
  <2>6. Rule2(t) = SubSeq(t, 1, d - 1)
    BY <2>1, <2>2, <2>3 DEF Rule2
  <2>4. Rule2(t) = t
    <3>1. d - 1 = Len(t)
      BY <1>5, <2>1
    <3> QED BY <2>6, <3>1, SubSeqFull
  <2>5. Uncommented(s) = s
    BY <1>6, <1>8 DEF Uncommented
  <2> QED BY <1>4, <2>4, <2>5
<1>9. CASE hash # {}
  <2>1. PICK h \in hash : h = Min(hash) /\ \A i \in hash : h <= i
    <3>1. 1 \in Int /\ n \in Int
      OBVIOUS
    <3> QED BY <1>9, <3>1, Least
  <2>2. h \in K /\ h \in 1..n /\ h \in Int
    BY <1>7
  <2>3. PICK r \in 1..c : r = Rank(K, h)
    BY <1>3, <1>5, <2>2, NthIs
  <2>4. Min(Where(t, "#") \cup {c + 1}) = r
    <3>1. r \in Where(t, "#") \cup {c + 1}
      BY <1>7, <2>3 DEF Ranks
    <3>2. ASSUME NEW i \in hash PROVE Rank(K, i) \in Int /\ r <= Rank(K, i)
      <4>1. i \in Int /\ h <= i
        BY <2>1
      <4>2. Rank(K, h) <= Rank(K, i)
        BY <1>3, <2>2, <4>1, RankMonotonic
      <4>3. Rank(K, i) \in Nat
        BY <1>3, <4>1, RankBounds
      <4> QED BY <2>3, <4>2, <4>3
    <3>3. r <= c + 1 /\ c + 1 \in Int
      OBVIOUS
    <3>4. /\ Where(t, "#") \cup {c + 1} \in SUBSET Int
          /\ \A y \in Where(t, "#") \cup {c + 1} : r <= y
      BY <1>7, <3>2, <3>3 DEF Ranks
    <3> QED BY <3>1, <3>4, MinIs
  <2>5. Rule2(t) = SubSeq(t, 1, r - 1)
    BY <1>5, <2>4 DEF Rule2
  <2>6. Uncommented(s) = SubSeq(s, 1, h - 1)
    BY <1>6, <1>9, <2>1 DEF Uncommented
  <2>7. KeptTokens(SubSeq(s, 1, h - 1)) = SubSeq(t, Rank(K, 1 - 1) + 1, Rank(K, h - 1))
    <3>1. PICK q \in Int : q = h - 1
      BY <2>2
    <3>2. 1 \in Nat /\ 1 <= 1 /\ 1 - 1 <= q /\ q <= Len(s)
      BY <1>1, <2>2, <3>1
    <3>3. KeptTokens(SubSeq(s, 1, q)) =
            SubSeq(KeptTokens(s), Rank(Kept(s), 1 - 1) + 1, Rank(Kept(s), q))
      BY <3>2, TokensOfPart
    <3> QED BY <1>2, <1>4, <3>1, <3>3
  <2>8. Rank(K, 1 - 1) + 1 = 1
    <3>1. Rank(K, 0) = 0
      BY RankZero
    <3> QED BY <3>1
  <2>9. Rank(K, h - 1) = r - 1
    <3>1. Rank(K, h) = Rank(K, h - 1) + 1 /\ Rank(K, h - 1) \in Nat
      BY <1>3, <2>2, RankStep
    <3> QED BY <2>3, <3>1
  <2> QED BY <1>4, <2>5, <2>6, <2>7, <2>8, <2>9
<1> QED BY <1>8, <1>9

\* Sets whose members have the same ranks have the same size.
LEMMA SameCount ==
  ASSUME NEW s \in Seq(Char), NEW c, c # "\\"
  PROVE  Cardinality(Where(KeptTokens(s), c)) = Cardinality(Active(s, c))
<1>1. PICK n \in Nat : n = Len(s)
  BY SeqHas
<1>2. PICK K \in SUBSET (0..n) : K = Kept(s)
  <2>1. Kept(s) \in SUBSET (1..n) /\ 1..n \subseteq 0..n
    BY <1>1, KeptIs
  <2>2. Kept(s) \in SUBSET (0..n)
    BY <2>1
  <2> QED BY <2>2
<1>3. PICK B \in SUBSET K : B = Active(s, c)
  BY <1>2, WhereIs
<1>4. Where(KeptTokens(s), c) = Ranks(K, B)
  BY <1>2, <1>3, WhereIs
<1>5. Cardinality(Ranks(K, B)) = Cardinality(B)
  BY RankImage
<1> QED BY <1>3, <1>4, <1>5

\* Sanitizing a string gives the characters of its tokens.
LEMMA SanitizedChars ==
  ASSUME NEW s \in Seq(Char)
  PROVE  Sanitized(s) = Chars(KeptTokens(s))
<1>1. PICK c \in Nat : c = Cardinality(Kept(s))
  BY SanitizedIs
<1>2. Sanitized(s) = [k \in 1..c |-> s[Nth(Kept(s), k)]]
  BY <1>1 DEF Sanitized
<1>3. Chars(KeptTokens(s)) = [k \in 1..c |-> KeptTokens(s)[k].char]
  BY <1>1, KeptTokensIs DEF Chars
<1>4. \A k \in 1..c : KeptTokens(s)[k].char = s[Nth(Kept(s), k)]
  <2>1. \A x, y : Token(x, y).char = x
    BY DEF Token
  <2> QED BY <1>1, <2>1, KeptTokensIs
<1> QED BY <1>2, <1>3, <1>4

\* A character that is kept, and its token.
LEMMA TokenAt ==
  ASSUME NEW s \in Seq(Char), NEW i \in Kept(s)
  PROVE  /\ Rank(Kept(s), i) \in 1..Cardinality(Kept(s))
         /\ KeptTokens(s)[Rank(Kept(s), i)] = Token(s[i], Escaped(s, i))
         /\ KeptTokens(s)[Rank(Kept(s), i)] = Token(" ", FALSE) <=>
              s[i] = " " /\ ~Escaped(s, i)
         /\ KeptTokens(s)[Rank(Kept(s), i)] = Token(" ", TRUE) <=>
              s[i] = " " /\ Escaped(s, i)
<1>1. PICK n \in Nat : n = Len(s)
  BY SeqHas
<1>2. PICK K \in SUBSET (1..n) : K = Kept(s)
  BY <1>1, KeptIs
<1>3. K \in SUBSET (0..n)
  OBVIOUS
<1>4. PICK k : k = Rank(K, i)
  OBVIOUS
<1>5. k \in 1..Cardinality(K) /\ Nth(K, k) = i
  BY <1>2, <1>3, <1>4, NthIs
<1>6. KeptTokens(s)[k] = Token(s[i], Escaped(s, i))
  BY <1>2, <1>5, KeptTokensIs
<1>7. Escaped(s, i) \in BOOLEAN
  BY DEF Escaped
<1> DEFINE e == Escaped(s, i)
           d == s[i]
<1>8. ASSUME NEW q \in BOOLEAN PROVE Token(d, e) = Token(" ", q) <=> d = " " /\ (e <=> q)
  <2>1. e \in BOOLEAN
    BY <1>7
  <2> HIDE DEF e, d
  <2>2. \A b : Token(d, e) = Token(b, q) <=> d = b /\ e = q
    BY TokensDiffer
  <2> QED BY <2>1, <2>2
<1>9. Token(d, e) = Token(" ", FALSE) <=> d = " " /\ ~e
  BY <1>8
<1>10. Token(d, e) = Token(" ", TRUE) <=> d = " " /\ e
  BY <1>8
<1> QED BY <1>2, <1>4, <1>5, <1>6, <1>9, <1>10

\* Between two places where nothing is escaped the rules find the same text.
LEMMA SegmentRules ==
  ASSUME NEW s \in Seq(Char), NEW a \in Nat, NEW d \in Nat, a <= d, d <= Len(s),
         a = 0 \/ a \in Kept(s), d = 0 \/ d \in Kept(s),
         NEW r, r = Rule6(KeptTokens(s), Rank(Kept(s), a) + 1, Rank(Kept(s), d)),
         ~EndsInBlank(r)
  PROVE  Sanitized(Trimmed(s, a + 1, d)) = Chars(r)
<1>1. PICK n \in Nat : n = Len(s)
  BY SeqHas
<1>2. PICK K \in SUBSET (1..n) : K = Kept(s)
  BY <1>1, KeptIs
<1>3. K \in SUBSET (0..n) /\ \A i \in K : i \in Int
  OBVIOUS
<1>4. PICK t : t = KeptTokens(s)
  OBVIOUS
<1>5. PICK c \in Nat : c = Cardinality(K)
  BY <1>3, FiniteCount
<1>6. PICK ra, rd \in Nat : ra = Rank(K, a) /\ rd = Rank(K, d)
  <2>1. a \in Int /\ d \in Int
    OBVIOUS
  <2> QED BY <1>3, <2>1, RankBounds
<1>7. rd <= c
  <2>1. d \in Int
    OBVIOUS
  <2> QED BY <1>3, <1>5, <1>6, <2>1, RankBounds
<1> DEFINE Y == {i \in a + 1..d : s[i] # " "}
           X == {k \in ra + 1..rd : t[k] # Token(" ", FALSE)}
<1>8. Trimmed(s, a + 1, d) = IF Y = {} THEN <<>> ELSE SubSeq(s, Min(Y), Max(Y))
  BY DEF Trimmed
<1>9. r = IF X = {} THEN <<>> ELSE SubSeq(t, Min(X), Max(X))
  BY <1>2, <1>4, <1>6 DEF Rule6
<1>10. ASSUME NEW i \in K
       PROVE  /\ Rank(K, i) \in 1..c
              /\ t[Rank(K, i)] = Token(" ", FALSE) <=> s[i] = " " /\ ~Escaped(s, i)
              /\ t[Rank(K, i)] = Token(" ", TRUE) <=> s[i] = " " /\ Escaped(s, i)
  BY <1>2, <1>4, <1>5, TokenAt
<1>11. ASSUME NEW k \in 1..c PROVE \E i \in K : Rank(K, i) = k
  BY <1>3, <1>5, RankOnto
<1>12. \A i, j \in Int : i <= j => Rank(K, i) <= Rank(K, j)
  BY <1>3, RankMonotonic
<1>13. \A i, j \in Int : i < j /\ j \in K => Rank(K, i) < Rank(K, j)
  BY <1>3, RankMonotonic
<1>14. \A i \in Int : Rank(K, i) \in Nat
  BY <1>3, RankBounds
\* A token of the segment is that of a character of the segment.
<1>15. ASSUME NEW k \in ra + 1..rd
       PROVE  \E i \in K : Rank(K, i) = k /\ i \in a + 1..d
  <2>1. k \in 1..c
    BY <1>6, <1>7
  <2>2. PICK i \in K : Rank(K, i) = k
    BY <1>11, <2>1
  <2>3. i \in Int /\ a \in Int /\ d \in Int
    BY <1>3
  <2>4. ~(i <= a)
    <3>1. i <= a => Rank(K, i) <= Rank(K, a)
      BY <1>12, <2>3
    <3> QED BY <1>6, <2>2, <3>1
  <2>5. ~(d < i)
    <3>1. d < i => Rank(K, d) < Rank(K, i)
      BY <1>13, <2>3
    <3> QED BY <1>6, <2>2, <3>1
  <2> QED BY <2>2, <2>3, <2>4, <2>5
<1>16. ASSUME NEW i \in K, i \in a + 1..d PROVE Rank(K, i) \in ra + 1..rd
  <2>1. i \in Int /\ a \in Int /\ d \in Int /\ a < i /\ i <= d
    BY <1>16
  <2>2. Rank(K, a) < Rank(K, i) /\ Rank(K, i) <= Rank(K, d)
    BY <1>12, <1>13, <2>1
  <2>3. Rank(K, i) \in Nat
    BY <1>14, <2>1
  <2> QED BY <1>6, <2>2, <2>3
\* What is not escaped is either kept or escapes something.
<1>17. ASSUME NEW i \in 1..n, i = 1 \/ i - 1 \in K
       PROVE  /\ ~Escaped(s, i)
              /\ s[i] # "\\" => i \in K
              /\ s[i] = "\\" => i \notin K
  <2>1. ~Escaped(s, i)
    BY <1>2, <1>17 DEF Escaped
  <2>2. ~f_escape(s)[i - 1]
    BY <1>1, <2>1, EscapedIs
  <2> QED BY <1>1, <1>2, <2>1, <2>2, KeptIs
<1>18. ASSUME NEW i \in 1..n, i \notin K
       PROVE  /\ s[i] = "\\"
              /\ i + 1 <= n => i + 1 \in K /\ Escaped(s, i + 1)
  <2>1. s[i] = "\\"
    BY <1>1, <1>2, <1>18, KeptIs
  <2>2. ASSUME i + 1 <= n PROVE i + 1 \in K /\ Escaped(s, i + 1)
    <3>1. i + 1 \in 1..n /\ i + 1 - 1 = i /\ i + 1 # 1
      BY <2>2
    <3>2. Escaped(s, i + 1)
      BY <1>2, <1>18, <3>1 DEF Escaped
    <3>3. f_escape(s)[i]
      BY <1>1, <1>2, <1>18, KeptIs
    <3>4. PICK j \in 1..Len(s) : j = i + 1
      BY <1>1, <3>1
    <3>5. f_escape(s)[j - 1]
      BY <3>1, <3>3, <3>4
    <3>6. j \in Kept(s)
      BY <3>5, KeptIs
    <3> QED BY <1>2, <3>2, <3>4, <3>6
  <2> QED BY <2>1, <2>2
<1> HIDE DEF X, Y
<1>19. Y \in SUBSET (a + 1..d) /\ \A i \in a + 1..d : i \in Y <=> s[i] # " "
  BY DEF Y
<1>20. X \in SUBSET (ra + 1..rd) /\
       \A k \in ra + 1..rd : k \in X <=> t[k] # Token(" ", FALSE)
  BY DEF X
\* Blanks up to some place of the segment.
<1>21. ASSUME NEW p \in a + 1..d + 1, \A i \in a + 1..p - 1 : s[i] = " "
       PROVE  /\ p = 1 \/ p - 1 \in K
              /\ \A k \in X : k > Rank(K, p - 1)
  <2>1. ASSUME NEW i \in a + 1..p, i <= n PROVE i = 1 \/ i - 1 \in K
    <3> DEFINE Before == {m \in Nat : a + m <= p - 1 => a + m = 0 \/ a + m \in K}
    <3>1. ASSUME NEW m \in Nat, \A l \in 0..m - 1 : l \in Before PROVE m \in Before
      <4>1. CASE m = 0
        BY <1>2, <4>1
      <4>2. CASE m # 0 /\ a + m <= p - 1
        <5>1. m - 1 \in 0..m - 1 /\ a + (m - 1) <= p - 1 /\ a + (m - 1) = a + m - 1
          BY <4>2
        <5>2. a + m - 1 = 0 \/ a + m - 1 \in K
          BY <3>1, <5>1
        <5>3. a + m \in 1..n /\ a + m \in a + 1..p - 1 /\ (a + m - 1 = 0 <=> a + m = 1)
          BY <1>1, <4>2
        <5>4. s[a + m] = " "
          BY <1>21, <5>3
        <5>5. PICK j \in 1..n : j = a + m
          BY <5>3
        <5>6. j = 1 \/ j - 1 \in K
          BY <5>2, <5>3, <5>5
        <5>7. s[j] # "\\"
          BY <5>4, <5>5
        <5>8. j \in K
          BY <1>17, <5>6, <5>7
        <5> QED BY <5>5, <5>8
      <4>3. CASE ~(a + m <= p - 1)
        BY <4>3
      <4> QED BY <4>1, <4>2, <4>3
    <3>2. \A m \in Nat : m \in Before
      <4>1. Before \in SUBSET Nat
        OBVIOUS
      <4> HIDE DEF Before
      <4> QED BY <3>1, <4>1, Induction
    <3>3. i - 1 - a \in Nat /\ a + (i - 1 - a) = i - 1 /\ i - 1 <= p - 1
      OBVIOUS
    <3>4. i - 1 = 0 \/ i - 1 \in K
      BY <3>2, <3>3
    <3> QED BY <3>4
  <2>2. p = 1 \/ p - 1 \in K
    <3>1. CASE p <= n
      <4>1. p \in a + 1..p
        OBVIOUS
      <4> QED BY <2>1, <3>1, <4>1
    <3>2. CASE ~(p <= n)
      <4>1. p = d + 1 /\ p - 1 = d
        BY <1>1, <3>2
      <4> QED BY <1>2, <4>1
    <3> QED BY <3>1, <3>2
  <2>3. ASSUME NEW k \in X, ~(k > Rank(K, p - 1)) PROVE FALSE
    <3>1. k \in ra + 1..rd /\ t[k] # Token(" ", FALSE)
      BY <1>20
    <3>2. PICK i \in K : Rank(K, i) = k /\ i \in a + 1..d
      BY <1>15, <3>1
    <3>3. i \in Int /\ p - 1 \in Int
      OBVIOUS
    <3>4. ~(p - 1 < i)
      <4>1. p - 1 < i => Rank(K, p - 1) < Rank(K, i)
        BY <1>13, <3>3
      <4>2. Rank(K, p - 1) \in Nat
        BY <1>14, <3>3
      <4> QED BY <2>3, <3>1, <3>2, <4>1, <4>2
    <3>5. i \in a + 1..p - 1 /\ i \in a + 1..p /\ i \in 1..n /\ i <= n
      BY <3>2, <3>3, <3>4
    <3>6. s[i] = " "
      BY <1>21, <3>5
    <3>7. ~Escaped(s, i)
      BY <1>17, <2>1, <3>5
    <3> QED BY <1>10, <3>1, <3>2, <3>6, <3>7
  <2> QED BY <2>2, <2>3
<1>22. CASE Y = {}
  <2>1. \A i \in a + 1..d : s[i] = " "
    BY <1>19, <1>22
  <2>2. PICK p \in a + 1..d + 1 : p = d + 1 /\ p - 1 = d
    OBVIOUS
  <2>3. \A k \in X : k > Rank(K, d)
    <3>1. \A i \in a + 1..p - 1 : s[i] = " "
      BY <2>1, <2>2
    <3>2. \A k \in X : k > Rank(K, p - 1)
      BY <1>21, <3>1
    <3> QED BY <2>2, <3>2
  <2>4. X = {}
    <3>1. ASSUME NEW k \in X PROVE FALSE
      <4>1. k \in ra + 1..rd
        BY <1>20
      <4> QED BY <1>6, <2>3, <4>1
    <3> QED BY <3>1
  <2>5. r = <<>>
    BY <1>9, <2>4
  <2>6. PICK e \in Seq(Char) : e = <<>> /\ Len(e) = 0
    BY EmptySeq
  <2>7. Kept(e) = {}
    <3>1. Kept(e) \in SUBSET (1..0)
      BY <2>6, KeptIs
    <3> QED BY <3>1
  <2>8. Sanitized(e) = Chars(<<>>)
    BY <2>7, NoTokens, SanitizedChars
  <2> QED BY <1>8, <1>22, <2>5, <2>6, <2>8
<1>23. CASE Y # {}
  <2>1. PICK p \in a + 1..d : p \in Y /\ p = Min(Y) /\ \A i \in Y : p <= i
    <3>1. a + 1 \in Int /\ d \in Int
      OBVIOUS
    <3>2. \E p \in Y : p = Min(Y) /\ \A i \in Y : p <= i
      BY <1>19, <1>23, <3>1, Least
    <3> QED BY <1>19, <3>2
  <2>2. PICK q \in a + 1..d : q \in Y /\ q = Max(Y) /\ \A i \in Y : q >= i
    <3>1. a + 1 \in Int /\ d \in Int
      OBVIOUS
    <3>2. \E q \in Y : q = Max(Y) /\ \A i \in Y : q >= i
      BY <1>19, <1>23, <3>1, Greatest
    <3> QED BY <1>19, <3>2
  <2>3. p \in 1..n /\ q \in 1..n /\ p \in Nat /\ q \in Nat /\ p <= q
    <3>1. p <= q
      BY <2>1, <2>2
    <3>2. p \in 1..n /\ q \in 1..n /\ p \in Nat /\ q \in Nat
      BY <1>1
    <3> QED BY <3>1, <3>2
  <2>23. s[p] # " " /\ s[q] # " "
    BY <1>19, <2>1, <2>2
  <2>4. ASSUME NEW i \in a + 1..d, i < p \/ q < i PROVE s[i] = " "
    <3>1. i \notin Y
      BY <2>1, <2>2, <2>3, <2>4
    <3> QED BY <1>19, <3>1
  <2>5. (p = 1 \/ p - 1 \in K) /\ \A k \in X : k > Rank(K, p - 1)
    <3>1. p \in a + 1..d + 1 /\ \A i \in a + 1..p - 1 : i \in a + 1..d /\ i < p
      BY <2>3
    <3> QED BY <1>21, <2>4, <3>1
  <2>6. PICK m \in Nat : m = Rank(K, p - 1) + 1
    <3>1. p - 1 \in Int
      BY <2>3
    <3> QED BY <1>14, <3>1
  <2>7. m \in X
    <3>1. ra + 1 <= m
      <4>1. a <= p - 1 /\ a \in Int /\ p - 1 \in Int
        BY <2>3
      <4>2. Rank(K, a) <= Rank(K, p - 1)
        BY <1>12, <4>1
      <4>3. Rank(K, p - 1) \in Nat
        BY <1>14, <4>1
      <4> QED BY <1>6, <2>6, <4>2, <4>3
    <3>2. CASE s[p] # "\\"
      <4>1. p \in K /\ ~Escaped(s, p)
        BY <1>17, <2>3, <2>5, <3>2
      <4>2. Rank(K, p) = m
        <5>1. p \in Int
          BY <2>3
        <5> QED BY <1>3, <2>6, <4>1, <5>1, RankStep
      <4>3. m \in ra + 1..rd
        BY <1>16, <2>3, <4>1, <4>2
      <4>4. t[m] # Token(" ", FALSE)
        BY <1>10, <2>23, <4>1, <4>2
      <4> QED BY <1>20, <4>3, <4>4
    <3>3. CASE s[p] = "\\"
      <4>1. p \notin K
        BY <1>17, <2>3, <2>5, <3>3
      <4>2. p # d
        BY <1>2, <2>3, <4>1
      <4>3. p + 1 \in a + 1..d /\ p + 1 <= n /\ p + 1 \in Int /\ p + 1 - 1 = p /\ p \in Int
        BY <1>1, <2>3, <4>2
      <4>4. p + 1 \in K /\ Escaped(s, p + 1)
        BY <1>18, <2>3, <4>1, <4>3
      <4>5. Rank(K, p + 1) = m
        <5>1. Rank(K, p) = Rank(K, p - 1)
          BY <1>3, <4>1, <4>3, RankStep
        <5>2. PICK j \in Int : j = p + 1
          BY <4>3
        <5>3. Rank(K, j) = Rank(K, j - 1) + 1
          BY <1>3, <4>4, <5>2, RankStep
        <5> QED BY <2>6, <4>3, <5>1, <5>2, <5>3
      <4>6. m \in ra + 1..rd
        BY <1>16, <4>3, <4>4, <4>5
      <4>7. t[m] # Token(" ", FALSE)
        BY <1>10, <4>4, <4>5
      <4> QED BY <1>20, <4>6, <4>7
    <3> QED BY <3>2, <3>3
  <2>8. Min(X) = m
    <3>1. X \in SUBSET Int
      <4>1. X \in SUBSET (ra + 1..rd)
        BY <1>20
      <4> QED BY <4>1
    <3>2. \A k \in X : m <= k
      <4>1. ASSUME NEW k \in X PROVE m <= k
        <5>1. k \in Int /\ k > Rank(K, p - 1)
          BY <2>5, <3>1
        <5>2. Rank(K, p - 1) \in Nat
          <6>1. p - 1 \in Int
            BY <2>3
          <6> QED BY <1>14, <6>1
        <5> QED BY <2>6, <5>1, <5>2
      <4> QED BY <4>1
    <3> QED BY <2>7, <3>1, <3>2, MinIs
  <2>9. PICK x \in ra + 1..rd : x \in X /\ x = Max(X) /\ \A k \in X : x >= k
    <3>1. ra + 1 \in Int /\ rd \in Int /\ X # {}
      BY <2>7
    <3>2. \E x \in X : x = Max(X) /\ \A k \in X : x >= k
      BY <1>20, <3>1, Greatest
    <3> QED BY <1>20, <3>2
  <2>10. r = SubSeq(t, m, x)
    BY <1>9, <2>7, <2>8, <2>9
  <2>24. t[x] # Token(" ", FALSE)
    BY <1>20, <2>9
  <2>11. m <= x /\ x \in Nat /\ 1 <= m
    <3>1. m \in ra + 1..rd
      BY <1>20, <2>7
    <3>2. m <= x
      BY <2>7, <2>9
    <3> QED BY <3>1, <3>2
  <2>12. t[x] # Token(" ", TRUE)
    <3>1. t \in Seq(AllTokens) /\ Len(t) = c
      BY <1>2, <1>4, <1>5, KeptTokensIs
    <3>2. m \in Int /\ x \in Int /\ x <= Len(t)
      BY <1>7, <2>11, <3>1
    <3>3. /\ SubSeq(t, m, x) \in Seq(AllTokens)
          /\ Len(SubSeq(t, m, x)) = IF m <= x THEN x - m + 1 ELSE 0
          /\ \A i \in 1..x - m + 1 : SubSeq(t, m, x)[i] = t[m - 1 + i]
      BY <2>11, <3>1, <3>2, Part
    <3>4. PICK l \in Nat : l = x - m + 1
      BY <2>11
    <3>7. Len(r) = l /\ \A i \in 1..l : r[i] = t[m - 1 + i]
      BY <2>10, <2>11, <3>3, <3>4
    <3>8. l \in 1..l /\ m - 1 + l = x /\ l > 0
      BY <2>11, <3>4
    <3>5. r[Len(r)] = t[x]
      BY <3>7, <3>8
    <3>6. r # <<>>
      BY <3>7, <3>8
    <3> QED BY <3>5, <3>6 DEF EndsInBlank
  <2>13. PICK z \in K : Rank(K, z) = x /\ z \in a + 1..d
    BY <1>15, <2>11
  <2>14. s[z] # " "
    <3>1. Escaped(s, z) \in BOOLEAN
      BY DEF Escaped
    <3> QED BY <1>10, <2>24, <2>12, <2>13, <3>1
  <2>15. z \in Int /\ z <= q
    <3>1. z \in Y
      BY <1>19, <2>13, <2>14
    <3> QED BY <2>2, <2>13, <3>1
  <2>16. ~(z < q)
    <3>1. CASE q \in K
      <4>1. Rank(K, q) \in X
        <5>1. Rank(K, q) \in ra + 1..rd
          BY <1>16, <2>3, <3>1
        <5>2. t[Rank(K, q)] # Token(" ", FALSE)
          BY <1>10, <2>23, <3>1
        <5> QED BY <1>20, <5>1, <5>2
      <4>2. x >= Rank(K, q)
        BY <2>9, <4>1
      <4>3. z < q => Rank(K, z) < Rank(K, q)
        BY <1>13, <2>3, <2>15, <3>1
      <4>4. Rank(K, q) \in Nat
        <5>1. q \in Int
          BY <2>3
        <5> QED BY <1>14, <5>1
      <4> QED BY <2>11, <2>13, <4>2, <4>3, <4>4
    <3>2. CASE q \notin K
      <4>1. q # d
        BY <1>2, <2>3, <3>2
      <4>2. q + 1 \in a + 1..d /\ q + 1 <= n /\ q + 1 \in Int
        BY <1>1, <2>3, <4>1
      <4>3. q + 1 \in K /\ Escaped(s, q + 1)
        BY <1>18, <2>3, <3>2, <4>2
      <4>4. Rank(K, q + 1) \in X
        <5>1. Rank(K, q + 1) \in ra + 1..rd
          BY <1>16, <4>2, <4>3
        <5>2. t[Rank(K, q + 1)] # Token(" ", FALSE)
          BY <1>10, <4>3
        <5> QED BY <1>20, <5>1, <5>2
      <4>5. x >= Rank(K, q + 1)
        BY <2>9, <4>4
      <4>6. z < q + 1 => Rank(K, z) < Rank(K, q + 1)
        BY <1>13, <2>15, <4>2, <4>3
      <4>7. Rank(K, q + 1) \in Nat
        BY <1>14, <4>2
      <4> QED BY <2>3, <2>11, <2>13, <2>15, <4>5, <4>6, <4>7
    <3> QED BY <3>1, <3>2
  <2>17. q = z
    BY <2>3, <2>15, <2>16
  <2>18. Trimmed(s, a + 1, d) = SubSeq(s, p, q)
    BY <1>8, <1>23, <2>1, <2>2
  <2>19. KeptTokens(SubSeq(s, p, q)) = SubSeq(t, m, x)
    <3>1. p \in Nat /\ q \in Int /\ 1 <= p /\ p - 1 <= q /\ q <= Len(s)
      BY <1>1, <2>3
    <3>2. p = 1 \/ p - 1 \in Kept(s)
      BY <1>2, <2>5
    <3>3. KeptTokens(SubSeq(s, p, q)) =
            SubSeq(KeptTokens(s), Rank(Kept(s), p - 1) + 1, Rank(Kept(s), q))
      BY <3>1, <3>2, TokensOfPart
    <3> QED BY <1>2, <1>4, <2>6, <2>13, <2>17, <3>3
  <2>20. SubSeq(s, p, q) \in Seq(Char)
    <3>1. p \in Int /\ q \in Int /\ 1 <= p /\ q <= Len(s)
      BY <1>1, <2>3
    <3> QED BY <3>1, Part
  <2>21. Sanitized(SubSeq(s, p, q)) = Chars(KeptTokens(SubSeq(s, p, q)))
    BY <2>20, SanitizedChars
  <2> QED BY <2>10, <2>18, <2>19, <2>21
<1> QED BY <1>22, <1>23

-----------------------------------------------------------------------------
(***************************************************************************)
(* Key and values: by the code, in places of the line, and by the rules,   *)
(* in places of the tokens.                                                *)
(***************************************************************************)

\* The equal sign, the delimiters behind it and the end of the line.
FieldEnds(s, e) == {e} \cup {i \in Active(s, ",") \cup {Len(s) + 1} : i > e}
\* Key and values between them.
Field(s, e, i) ==
  IF i = 0 THEN Trimmed(s, 1, e - 1)
  ELSE Trimmed(s, Nth(FieldEnds(s, e), i) + 1, Nth(FieldEnds(s, e), i + 1) - 1)

\* The ends of the fields are places, the first of them the equal sign.
LEMMA FieldEndsIs ==
  ASSUME NEW s \in Seq(Char), NEW e, Active(s, "=") = {e}
  PROVE  /\ e \in 1..Len(s)
         /\ FieldEnds(s, e) \in SUBSET (1..Len(s) + 1)
         /\ Cardinality(FieldEnds(s, e)) \in Nat
         /\ Cardinality(FieldEnds(s, e)) > 1
         /\ Cardinality(FieldEnds(s, e)) <= Cardinality(Active(s, ",")) + 2
         /\ Nth(FieldEnds(s, e), 1) = e
         /\ Nth(FieldEnds(s, e), Cardinality(FieldEnds(s, e))) = Len(s) + 1
<1>1. PICK n \in Nat : n = Len(s)
  BY SeqHas
<1>2. PICK C \in SUBSET (1..n) : C = Active(s, ",")
  BY <1>1, ActiveInLine
<1>13. PICK k \in Nat : k = Cardinality(C) /\ IsFiniteSet(C)
  BY <1>2, ActiveInLine
<1>3. e \in 1..n
  BY <1>1, ActiveInLine
<1>4. PICK B : B = FieldEnds(s, e)
  OBVIOUS
<1>5. B = {e} \cup {i \in C \cup {n + 1} : i > e}
  BY <1>1, <1>2, <1>4 DEF FieldEnds
<1>6. PICK m \in Nat : m = n + 1
  OBVIOUS
<1>7. B \in SUBSET (1..m) /\ B \in SUBSET (0..m) /\ e \in B /\ m \in B /\ e # m
      /\ \A i \in B : e <= i
  <2>1. m > e /\ m \in 1..m
    BY <1>3, <1>6
  <2>2. e \in B /\ m \in B /\ e # m
    BY <1>5, <1>6, <2>1
  <2>3. ASSUME NEW i \in B PROVE i \in 1..m /\ e <= i
    <3>1. i = e \/ i \in C \/ i = m
      BY <1>5, <1>6
    <3>2. i # e => i > e
      BY <1>5
    <3>4. i \in C => i \in 1..n
      OBVIOUS
    <3>3. i \in 1..m
      BY <1>3, <1>6, <3>1, <3>4
    <3> QED BY <1>3, <3>2, <3>3
  <2>4. B \in SUBSET (1..m)
    BY <2>3
  <2>5. B \in SUBSET (0..m)
    BY <2>4
  <2> QED BY <2>2, <2>3, <2>4, <2>5
<1>8. PICK c \in Nat : c = Cardinality(B)
  BY <1>7, FiniteCount
<1>9. Rank(B, e) = 1 /\ Nth(B, 1) = e
  <2>1. e \in Int
    BY <1>3
  <2>2. Rank(B, e) = Rank(B, e - 1) + 1
    BY <1>7, <2>1, RankStep
  <2>3. {y \in B : y <= e - 1} = {}
    <3>1. ASSUME NEW y \in B PROVE ~(y <= e - 1)
      <4>1. y \in Int /\ e <= y
        BY <1>7
      <4> QED BY <2>1, <4>1
    <3> QED BY <3>1
  <2>4. Rank(B, e - 1) = 0
    BY <2>3, FS_EmptySet DEF Rank
  <2>5. Rank(B, e) = 1
    BY <2>2, <2>4
  <2> QED BY <1>7, <2>5, NthIs
<1>10. Rank(B, m) = c /\ Nth(B, c) = m
  <2>1. m \in Int /\ m <= m
    OBVIOUS
  <2>2. Rank(B, m) = Cardinality(B)
    BY <1>7, <2>1, RankBounds
  <2> QED BY <1>7, <1>8, <2>2, NthIs
<1>11. c > 1
  <2>1. e < m /\ e \in Int /\ m \in Int
    BY <1>3, <1>6
  <2>2. Rank(B, e) < Rank(B, m)
    BY <1>7, <2>1, RankMonotonic
  <2> QED BY <1>9, <1>10, <2>2
<1>12. c <= k + 2
  <2>1. m \notin C
    BY <1>6
  <2>2. PICK D : D = C \cup {m}
    OBVIOUS
  <2>3. IsFiniteSet(D) /\ Cardinality(D) = k + 1
    BY <1>13, <2>1, <2>2, FS_AddElement
  <2>4. PICK F : F = D \cup {e}
    OBVIOUS
  <2>5. IsFiniteSet(F) /\ (Cardinality(F) = k + 1 \/ Cardinality(F) = k + 2)
    <3>1. CASE e \in D
      <4>1. F = D
        BY <2>4, <3>1
      <4> QED BY <2>3, <4>1
    <3>2. CASE e \notin D
      <4>1. IsFiniteSet(F) /\ Cardinality(F) = Cardinality(D) + 1
        BY <2>3, <2>4, <3>2, FS_AddElement
      <4> QED BY <2>3, <4>1
    <3> QED BY <3>1, <3>2
  <2>6. B \subseteq F
    BY <1>5, <1>6, <2>2, <2>4
  <2>7. Cardinality(B) <= Cardinality(F)
    BY <2>5, <2>6, FS_Subset
  <2> QED BY <1>8, <2>5, <2>7
<1> QED BY <1>1, <1>2, <1>3, <1>4, <1>6, <1>7, <1>8, <1>9, <1>10, <1>11, <1>12, <1>13

\* The characters that are kept and the end of the line, which is no token.
Marks(s) == Kept(s) \cup {Len(s) + 1}

\* What is kept and the end of the line are places.
LEMMA MarksIs ==
  ASSUME NEW s \in Seq(Char)
  PROVE  /\ Marks(s) \in SUBSET (0..Len(s) + 1) /\ Len(s) + 1 \in Nat
         /\ \A x \in 0..Len(s) : Rank(Marks(s), x) = Rank(Kept(s), x)
         /\ Rank(Marks(s), Len(s) + 1) = Cardinality(Kept(s)) + 1
         /\ \A x \in Marks(s) : Rank(Marks(s), x) = Rank(Kept(s), x - 1) + 1
<1>1. PICK n \in Nat : n = Len(s)
  BY SeqHas
<1>2. PICK K \in SUBSET (1..n) : K = Kept(s)
  BY <1>1, KeptIs
<1>3. PICK m \in Nat : m = n + 1
  OBVIOUS
<1>4. PICK M \in SUBSET (0..m) : M = Marks(s) /\ M = K \cup {m}
  <2>1. K \cup {m} \in SUBSET (0..m)
    <3>1. \A x \in K : x \in 0..m
      BY <1>3
    <3>2. m \in 0..m
      OBVIOUS
    <3> QED BY <3>1, <3>2
  <2>2. Marks(s) = K \cup {m}
    BY <1>1, <1>2, <1>3 DEF Marks
  <2> QED BY <2>1, <2>2
<1>5. ASSUME NEW x \in 0..n PROVE Rank(M, x) = Rank(K, x)
  <2>1. {y \in M : y <= x} = {y \in K : y <= x}
    BY <1>3, <1>4
  <2> QED BY <2>1 DEF Rank
<1>6. ASSUME NEW x \in M PROVE Rank(M, x) = Rank(K, x - 1) + 1
  <2>1. PICK y \in Int : y = x
    BY <1>4
  <2>2. Rank(M, y) = Rank(M, y - 1) + 1
    BY <1>4, <2>1, RankStep
  <2>3. y - 1 \in 0..n
    BY <1>2, <1>3, <1>4, <2>1
  <2>4. PICK z \in 0..n : z = y - 1
    BY <2>3
  <2>5. Rank(M, z) = Rank(K, z)
    BY <1>5
  <2> QED BY <2>1, <2>2, <2>4, <2>5
<1>7. Rank(M, m) = Cardinality(K) + 1
  <2>1. m - 1 = n
    BY <1>3
  <2>2. Rank(M, m) = Rank(K, n) + 1
    BY <1>4, <1>6, <2>1
  <2>3. n \in Int /\ n <= n /\ K \in SUBSET (0..n)
    OBVIOUS
  <2>4. Rank(K, n) = Cardinality(K)
    BY <2>3, RankBounds
  <2> QED BY <2>2, <2>4
<1> QED BY <1>1, <1>2, <1>3, <1>4, <1>5, <1>6, <1>7

\* An end of a field has its meaning, so that nothing is escaped around it.
LEMMA FieldEndsKept ==
  ASSUME NEW s \in Seq(Char), NEW e, Active(s, "=") = {e},
         NEW x \in FieldEnds(s, e)
  PROVE  /\ x \in Marks(s)
         /\ x <= Len(s) => x \in Kept(s)
         /\ x <= Len(s) \/ ~f_escape(s)[Len(s)] => x - 1 = 0 \/ x - 1 \in Kept(s)
<1>1. PICK n \in Nat : n = Len(s)
  BY SeqHas
<1>2. x \in Active(s, "=") \/ x \in Active(s, ",") \/ x = n + 1
  BY <1>1 DEF FieldEnds
<1>3. "=" # "\\" /\ "," # "\\"
  OBVIOUS
<1>4. x # n + 1 => x \in Kept(s)
  BY <1>2, <1>3, WhereIs
<1>5. x # n + 1 => x \in 1..n /\ ~f_escape(s)[x - 1]
  BY <1>1, <1>2, SeqHas DEF Active
<1>6. x \in 1..n + 1
  <2>1. x # n + 1 => x \in 1..n
    BY <1>5
  <2> QED BY <2>1
<1>7. ASSUME x <= n \/ ~f_escape(s)[n] PROVE x - 1 = 0 \/ x - 1 \in Kept(s)
  <2>1. ~f_escape(s)[x - 1]
    <3>1. CASE x = n + 1
      <4>1. x - 1 = n /\ ~(x <= n)
        BY <3>1
      <4> QED BY <1>7, <4>1
    <3> QED BY <1>5, <3>1
  <2>2. PICK y \in 0..n : y = x - 1
    BY <1>6
  <2>3. y # 0 => y \in 1..Len(s)
    BY <1>1
  <2>4. y # 0 => y \in Kept(s)
    BY <2>1, <2>2, <2>3, KeptIs
  <2> QED BY <2>2, <2>4
<1> QED BY <1>1, <1>4, <1>6, <1>7 DEF Marks

\* The rules cut the tokens where the code cuts the line.
LEMMA RulesAre ==
  ASSUME NEW s \in Seq(Char), NEW u \in Seq(Char), u = Uncommented(s),
         NEW e, Active(u, "=") = {e},
         NEW B, B = FieldEnds(u, e), NEW c \in Nat, c = Cardinality(B)
  PROVE  /\ DOMAIN ByTheRules(s) = 0..c - 1
         /\ ByTheRules(s)[0] = Rule6(KeptTokens(u), 1, Rank(Kept(u), e - 1))
         /\ \A i \in 1..c - 1 :
              ByTheRules(s)[i] = Rule6(KeptTokens(u), Rank(Marks(u), Nth(B, i)) + 1,
                                       Rank(Marks(u), Nth(B, i + 1)) - 1)
<1>1. PICK n \in Nat : n = Len(u)
  BY SeqHas
<1>2. PICK t : t = KeptTokens(u) /\ t = Rule2(Tokens(s))
  BY TokensAre, UncommentedTokens
<1>3. PICK K \in SUBSET (1..n) : K = Kept(u)
  BY <1>1, KeptIs
<1>4. PICK k \in Nat : k = Cardinality(K) /\ Len(t) = k
  BY <1>2, <1>3, KeptTokensIs
<1>26. PICK m \in Nat : m = n + 1
  OBVIOUS
<1>27. /\ Marks(u) \in SUBSET (0..m)
       /\ \A x \in 0..n : Rank(Marks(u), x) = Rank(K, x)
       /\ Rank(Marks(u), m) = k + 1
       /\ \A x \in Marks(u) : Rank(Marks(u), x) = Rank(K, x - 1) + 1
  BY <1>1, <1>3, <1>4, <1>26, MarksIs
<1>25. Marks(u) = K \cup {m}
  BY <1>1, <1>3, <1>26 DEF Marks
<1>5. PICK M \in SUBSET (0..m) :
               /\ M = Marks(u) /\ M = K \cup {m}
               /\ \A x \in 0..n : Rank(M, x) = Rank(K, x)
               /\ Rank(M, m) = k + 1
               /\ \A x \in M : Rank(M, x) = Rank(K, x - 1) + 1
  BY <1>25, <1>27
<1>6. PICK C : C = Active(u, ",") /\ C \in SUBSET K
  BY <1>3, WhereIs
<1>28. \A x \in K : x \in 0..n /\ x \in Nat /\ x < m
  BY <1>26
<1>7. e \in 1..n /\ e \in K
  <2>1. e \in Active(u, "=") /\ Active(u, "=") \in SUBSET K
    BY <1>3, WhereIs
  <2> QED BY <1>3, <2>1
<1>8. PICK E : E = Rank(M, e) /\ E = Rank(K, e) /\ E = Rank(K, e - 1) + 1
               /\ E \in Nat /\ E <= k /\ e \in M
  <2>1. K \in SUBSET (0..n) /\ e \in Int /\ e \in 0..n /\ e \in M
    BY <1>5, <1>7
  <2>2. Rank(K, e) \in Nat /\ Rank(K, e) <= Cardinality(K)
    BY <2>1, RankBounds
  <2>3. Rank(M, e) = Rank(K, e) /\ Rank(M, e) = Rank(K, e - 1) + 1
    BY <1>5, <2>1
  <2> QED BY <1>4, <2>1, <2>2, <2>3
<1>9. Where(t, "=") = {E}
  <2>1. Where(t, "=") = Ranks(K, {e})
    BY <1>2, <1>3, WhereIs
  <2>2. Ranks(K, {e}) = {Rank(K, e)}
    BY DEF Ranks
  <2> QED BY <1>8, <2>1, <2>2
<1>10. Min(Where(t, "=")) = E
  <2>1. {E} \in SUBSET Int /\ E \in {E} /\ \A y \in {E} : E <= y
    BY <1>8
  <2>2. PICK S : S = {E}
    OBVIOUS
  <2> QED BY <1>9, <2>1, <2>2, MinIs
<1>11. Where(t, ",") = Ranks(K, C)
  BY <1>2, <1>3, <1>6, WhereIs
<1> DEFINE ends == {i \in Where(t, ",") \cup {Len(t) + 1} : i > E}
           cuts == {E} \cup ends
<1>12. B = {e} \cup {i \in C \cup {m} : i > e}
  BY <1>1, <1>6, <1>26 DEF FieldEnds
<1>13. B \in SUBSET M
  BY <1>5, <1>6, <1>7, <1>12
\* A delimiter is behind the equal sign if its token is.
<1>14. ASSUME NEW x \in C PROVE x > e <=> Rank(K, x) > E
  <2>5. x \in K
    BY <1>6
  <2>1. x \in Int /\ e \in Int /\ K \in SUBSET (0..n)
    BY <1>7, <2>5
  <2>2. x <= e => Rank(K, x) <= Rank(K, e)
    BY <2>1, RankMonotonic
  <2>3. e < x /\ x \in K => Rank(K, e) < Rank(K, x)
    BY <2>1, RankMonotonic
  <2>4. Rank(K, x) \in Nat
    BY <2>1, RankBounds
  <2>6. E \in Nat /\ E = Rank(K, e)
    BY <1>8
  <2> QED BY <2>1, <2>2, <2>3, <2>4, <2>5, <2>6
<1>15. cuts = Ranks(M, B)
  <2>1. ASSUME NEW i \in cuts PROVE i \in Ranks(M, B)
    <3>1. CASE i = E
      BY <1>8, <1>12, <3>1 DEF Ranks
    <3>2. CASE i = Len(t) + 1
      <4>2. i = Rank(M, m)
        BY <1>4, <1>5, <3>2
      <4>3. m > e
        BY <1>7, <1>28
      <4>1. m \in B /\ i = Rank(M, m)
        BY <1>12, <4>2, <4>3
      <4> QED BY <4>1 DEF Ranks
    <3>3. CASE i \in Where(t, ",") /\ i > E
      <4>1. PICK x \in C : i = Rank(K, x)
        BY <1>11, <3>3 DEF Ranks
      <4>2. x > e
        BY <1>14, <3>3, <4>1
      <4>5. x \in K
        BY <1>6
      <4>6. x \in 0..n
        BY <1>28, <4>5
      <4>3. x \in B /\ x \in 0..n
        BY <1>12, <4>2, <4>6
      <4>4. i = Rank(M, x)
        BY <1>5, <4>1, <4>3
      <4> QED BY <4>3, <4>4 DEF Ranks
    <3> QED BY <3>1, <3>2, <3>3
  <2>2. ASSUME NEW i \in Ranks(M, B) PROVE i \in cuts
    <3>1. PICK x \in B : i = Rank(M, x)
      BY <2>2 DEF Ranks
    <3>2. CASE x = e
      BY <1>8, <3>1, <3>2
    <3>3. CASE x = m
      <4>1. i = Len(t) + 1 /\ i > E
        BY <1>4, <1>5, <1>8, <3>1, <3>3
      <4> QED BY <4>1
    <3>4. CASE x \in C /\ x > e
      <4>1. Rank(K, x) > E
        BY <1>14, <3>4
      <4>5. x \in K
        BY <1>6, <3>4
      <4>2. x \in 0..n
        BY <4>5
      <4>3. i = Rank(K, x)
        BY <1>5, <3>1, <4>2
      <4>4. i \in Where(t, ",")
        BY <1>11, <3>4, <4>3 DEF Ranks
      <4> QED BY <4>1, <4>3, <4>4
    <3> QED BY <1>12, <3>1, <3>2, <3>3, <3>4
  <2> HIDE DEF cuts
  <2> QED BY <2>1, <2>2
<1>16. /\ Ranks(M, B) \in SUBSET (1..Cardinality(M))
       /\ Cardinality(Ranks(M, B)) = Cardinality(B)
       /\ \A j \in 1..Cardinality(B) : Nth(Ranks(M, B), j) = Rank(M, Nth(B, j))
  BY <1>13, RankImage
<1>17. Cardinality(cuts) = c /\ \A j \in 1..c : Nth(cuts, j) = Rank(M, Nth(B, j))
  BY <1>15, <1>16
<1>18. Cardinality(ends) = c - 1
  <2>5. E \in Nat
    BY <1>8
  <2>6. ~(E > E)
    BY <2>5
  <2>7. E \notin ends
    BY <2>6
  <2>4. E \notin ends /\ cuts = {E} \cup ends
    <3> HIDE DEF ends
    <3> QED BY <2>7 DEF cuts
  <2>1. ends = cuts \ {E} /\ E \in cuts
    BY <2>4
  <2>2. IsFiniteSet(cuts)
    <3>1. Cardinality(M) \in Nat
      BY FiniteCount
    <3>2. Ranks(M, B) \in SUBSET (0..Cardinality(M))
      BY <1>16, <3>1
    <3> QED BY <1>15, <3>1, <3>2, FiniteCount
  <2> HIDE DEF cuts, ends
  <2>3. Cardinality(cuts \ {E}) = Cardinality(cuts) - 1
    BY <2>1, <2>2, FS_RemoveElement
  <2> QED BY <1>17, <2>1, <2>3
<1>19. ByTheRules(s) =
         [i \in 0..Cardinality(ends) |->
            IF i = 0 THEN Rule6(t, 1, E - 1)
            ELSE Rule6(t, Nth(cuts, i) + 1, Nth(cuts, i + 1) - 1)]
  BY <1>2, <1>10 DEF ByTheRules
<1> HIDE DEF cuts, ends
<1>20. ByTheRules(s) =
         [i \in 0..c - 1 |->
            IF i = 0 THEN Rule6(t, 1, E - 1)
            ELSE Rule6(t, Nth(cuts, i) + 1, Nth(cuts, i + 1) - 1)]
  BY <1>18, <1>19
<1>21. c \in 1..c
  <2>1. Cardinality(FieldEnds(u, e)) > 1
    BY FieldEndsIs
  <2> QED BY <2>1
<1>22. ByTheRules(s)[0] = Rule6(KeptTokens(u), 1, Rank(Kept(u), e - 1))
  <2>1. 0 \in 0..c - 1
    BY <1>21
  <2>2. ByTheRules(s)[0] = Rule6(t, 1, E - 1)
    BY <1>20, <2>1
  <2>3. E - 1 = Rank(K, e - 1)
    <3>1. K \in SUBSET (0..n) /\ e - 1 \in Int
      BY <1>7
    <3>2. Rank(K, e - 1) \in Nat
      BY <3>1, RankBounds
    <3> QED BY <1>8, <3>2
  <2> QED BY <1>2, <1>3, <2>2, <2>3
<1>23. ASSUME NEW i \in 1..c - 1
       PROVE  ByTheRules(s)[i] = Rule6(KeptTokens(u), Rank(Marks(u), Nth(B, i)) + 1,
                                       Rank(Marks(u), Nth(B, i + 1)) - 1)
  <2>1. i \in 0..c - 1 /\ i # 0 /\ i \in 1..c
    OBVIOUS
  <2>2. ByTheRules(s)[i] = Rule6(t, Nth(cuts, i) + 1, Nth(cuts, i + 1) - 1)
    BY <1>20, <2>1
  <2>3. PICK j \in 1..c : j = i + 1
    OBVIOUS
  <2>4. Nth(cuts, i) = Rank(M, Nth(B, i)) /\ Nth(cuts, j) = Rank(M, Nth(B, j))
    BY <1>17, <2>1
  <2> QED BY <1>2, <1>5, <2>2, <2>3, <2>4
<1>24. DOMAIN ByTheRules(s) = 0..c - 1
  BY <1>20
<1> QED BY <1>22, <1>23, <1>24

\* Trimming gives a string.
LEMMA TrimmedIs ==
  ASSUME NEW s \in Seq(Char), NEW from \in Int, NEW to \in Int, 1 <= from, to <= Len(s)
  PROVE  Trimmed(s, from, to) \in Seq(Char)
<1> DEFINE Y == {i \in from..to : s[i] # " "}
<1>1. Trimmed(s, from, to) = IF Y = {} THEN <<>> ELSE SubSeq(s, Min(Y), Max(Y))
  BY DEF Trimmed
<1>2. Y \in SUBSET (from..to)
  OBVIOUS
<1> HIDE DEF Y
<1>3. CASE Y = {}
  BY <1>1, <1>3
<1>4. CASE Y # {}
  <2>1. PICK p \in from..to : p = Min(Y)
    BY <1>2, <1>4, Least
  <2>2. PICK q \in from..to : q = Max(Y)
    BY <1>2, <1>4, Greatest
  <2>3. PICK n \in Nat : n = Len(s)
    BY SeqHas
  <2>4. 1 <= p /\ q <= n /\ p \in Int /\ q \in Int
    BY <2>3
  <2>5. SubSeq(s, p, q) \in Seq(Char)
    BY <2>3, <2>4, Part
  <2> QED BY <1>1, <1>4, <2>1, <2>2, <2>5
<1> QED BY <1>3, <1>4

\* Every field is a string, and lies before the next.
LEMMA FieldIs ==
  ASSUME NEW s \in Seq(Char), NEW e, Active(s, "=") = {e},
         NEW i \in 0..Cardinality(FieldEnds(s, e)) - 1
  PROVE  Field(s, e, i) \in Seq(Char)
<1>1. PICK n \in Nat : n = Len(s)
  BY SeqHas
<1>2. PICK B : B = FieldEnds(s, e)
  OBVIOUS
<1>3. PICK c \in Nat : c = Cardinality(B)
  BY <1>2, FieldEndsIs
<1>4. PICK m \in Nat : m = n + 1
  OBVIOUS
<1>5. B \in SUBSET (1..m) /\ e \in 1..n
  BY <1>1, <1>2, <1>4, FieldEndsIs
<1>6. CASE i = 0
  <2>1. 1 \in Int /\ e - 1 \in Int /\ 1 <= 1 /\ e - 1 <= Len(s)
    BY <1>1, <1>5
  <2>2. Trimmed(s, 1, e - 1) \in Seq(Char)
    BY <2>1, TrimmedIs
  <2> QED BY <1>6, <2>2 DEF Field
<1>7. CASE i # 0
  <2>1. i \in 1..c /\ i + 1 \in 1..c
    BY <1>2, <1>3, <1>7
  <2>2. B \in SUBSET (0..m)
    BY <1>5
  <2>3. Nth(B, i) \in B /\ Nth(B, i + 1) \in B
    <3>1. \A k \in 1..c : Nth(B, k) \in B
      BY <1>3, <2>2, NthOf
    <3> QED BY <2>1, <3>1
  <2>4. PICK x \in 1..m : x = Nth(B, i)
    BY <1>5, <2>3
  <2>5. PICK y \in 1..m : y = Nth(B, i + 1)
    BY <1>5, <2>3
  <2>6. x + 1 \in Int /\ y - 1 \in Int /\ 1 <= x + 1 /\ y - 1 <= Len(s)
    BY <1>1, <1>4
  <2>7. Trimmed(s, x + 1, y - 1) \in Seq(Char)
    BY <2>6, TrimmedIs
  <2> QED BY <1>2, <1>7, <2>4, <2>5, <2>7 DEF Field
<1> QED BY <1>6, <1>7

\* What the code makes of a field is what the rules make of it.
LEMMA FieldRules ==
  ASSUME NEW s \in Seq(Char), NEW u \in Seq(Char), u = Uncommented(s), ~Unfinished(s),
         NEW e, Active(u, "=") = {e},
         NEW i \in 0..Cardinality(FieldEnds(u, e)) - 1,
         ~EndsInBlank(ByTheRules(s)[i])
  PROVE  Sanitized(Field(u, e, i)) = Chars(ByTheRules(s)[i])
<1>1. PICK n \in Nat : n = Len(u)
  BY SeqHas
<1>2. PICK B : B = FieldEnds(u, e)
  OBVIOUS
<1>3. PICK c \in Nat : c = Cardinality(B)
  BY <1>2, FieldEndsIs
<1>4. PICK m \in Nat : m = n + 1
  OBVIOUS
<1>5. B \in SUBSET (1..m) /\ e \in 1..n
  BY <1>1, <1>2, <1>4, FieldEndsIs
<1>6. ~f_escape(u)[n]
  BY <1>1 DEF Unfinished
<1>7. \A x \in B : /\ x \in Marks(u) /\ (x <= n => x \in Kept(u))
                   /\ x - 1 = 0 \/ x - 1 \in Kept(u)
  BY <1>1, <1>2, <1>6, FieldEndsKept
<1>8. PICK r : r = ByTheRules(s)[i]
  OBVIOUS
<1>9. CASE i = 0
  <2>1. r = Rule6(KeptTokens(u), 1, Rank(Kept(u), e - 1))
    BY <1>2, <1>3, <1>8, <1>9, RulesAre
  <2>2. PICK d \in Nat : d = e - 1
    BY <1>5
  <2>3. d <= Len(u) /\ 0 <= d /\ 0 \in Nat
    BY <1>1, <1>5, <2>2
  <2>4. e \in B
    BY <1>2 DEF FieldEnds
  <2>5. d = 0 \/ d \in Kept(u)
    BY <1>7, <2>2, <2>4
  <2>6. Rank(Kept(u), 0) = 0
    <3>1. Kept(u) \in SUBSET (1..n)
      BY <1>1, KeptIs
    <3> QED BY <3>1, RankZero
  <2>7. r = Rule6(KeptTokens(u), Rank(Kept(u), 0) + 1, Rank(Kept(u), d))
    BY <2>1, <2>2, <2>6
  <2>8. Sanitized(Trimmed(u, 0 + 1, d)) = Chars(r)
    BY <1>8, <2>3, <2>5, <2>7, SegmentRules
  <2>9. Field(u, e, i) = Trimmed(u, 0 + 1, d)
    BY <1>9, <2>2 DEF Field
  <2> QED BY <1>8, <2>8, <2>9
<1>10. CASE i # 0
  <2>1. i \in 1..c - 1 /\ i \in 1..c /\ i + 1 \in 1..c
    BY <1>2, <1>3, <1>10
  <2>2. B \in SUBSET (0..m)
    BY <1>5
  <2>3. Nth(B, i) \in B /\ Nth(B, i + 1) \in B /\ Nth(B, i) < Nth(B, i + 1)
    <3>1. \A k \in 1..c : Nth(B, k) \in B
      BY <1>3, <2>2, NthOf
    <3>2. Nth(B, i) < Nth(B, i + 1)
      BY <1>3, <2>1, <2>2, NthNext
    <3> QED BY <2>1, <3>1, <3>2
  <2>4. PICK a \in 1..m : a = Nth(B, i)
    BY <1>5, <2>3
  <2>5. PICK y \in 1..m : y = Nth(B, i + 1)
    BY <1>5, <2>3
  <2>6. PICK d \in Nat : d = y - 1
    OBVIOUS
  <2>7. a \in Nat /\ a <= d /\ d <= Len(u) /\ a <= n
    BY <1>1, <1>4, <2>3, <2>4, <2>5, <2>6
  <2>8. a \in Kept(u) /\ a \in Marks(u)
    BY <1>7, <2>3, <2>4, <2>7
  <2>9. (d = 0 \/ d \in Kept(u)) /\ y \in Marks(u)
    BY <1>7, <2>3, <2>5, <2>6
  <2>10. r = Rule6(KeptTokens(u), Rank(Marks(u), a) + 1, Rank(Marks(u), y) - 1)
    BY <1>2, <1>3, <1>8, <2>1, <2>4, <2>5, RulesAre
  <2>11. Rank(Marks(u), a) = Rank(Kept(u), a)
    <3>1. a \in 0..n
      BY <2>7
    <3> QED BY <1>1, <3>1, MarksIs
  <2>12. Rank(Marks(u), y) - 1 = Rank(Kept(u), d)
    <3>1. Rank(Marks(u), y) = Rank(Kept(u), y - 1) + 1
      BY <2>9, MarksIs
    <3>2. Rank(Kept(u), d) \in Nat
      <4>1. Kept(u) \in SUBSET (0..n) /\ d \in Int
        BY <1>1, KeptIs
      <4> QED BY <4>1, RankBounds
    <3> QED BY <2>6, <3>1, <3>2
  <2>13. r = Rule6(KeptTokens(u), Rank(Kept(u), a) + 1, Rank(Kept(u), d))
    BY <2>10, <2>11, <2>12
  <2>14. Sanitized(Trimmed(u, a + 1, d)) = Chars(r)
    BY <1>8, <2>7, <2>8, <2>9, <2>13, SegmentRules
  <2>15. Field(u, e, i) = Trimmed(u, a + 1, d)
    BY <1>2, <1>10, <2>4, <2>5, <2>6 DEF Field
  <2> QED BY <1>8, <2>14, <2>15
<1> QED BY <1>9, <1>10

\* Trimming tokens gives tokens.
LEMMA Rule6Is ==
  ASSUME NEW t \in Seq(AllTokens), NEW from \in Int, NEW to \in Int,
         1 <= from, to <= Len(t)
  PROVE  Rule6(t, from, to) \in Seq(AllTokens)
<1> DEFINE Y == {i \in from..to : t[i] # Token(" ", FALSE)}
<1>1. Rule6(t, from, to) = IF Y = {} THEN <<>> ELSE SubSeq(t, Min(Y), Max(Y))
  BY DEF Rule6
<1>2. Y \in SUBSET (from..to)
  BY Zenon
<1> HIDE DEF Y
<1>3. CASE Y = {}
  BY <1>1, <1>3
<1>4. CASE Y # {}
  <2>1. Min(Y) \in Y /\ Max(Y) \in Y
    BY <1>2, <1>4, Least, Greatest
  <2>2. PICK x \in from..to : x = Min(Y)
    BY <1>2, <2>1
  <2>3. PICK y \in from..to : y = Max(Y)
    BY <1>2, <2>1
  <2>5. PICK l \in Nat : l = Len(t) /\ to <= l
    BY SeqHas
  <2>6. x \in Int /\ y \in Int /\ 1 <= x /\ y <= l
    <3>1. 1 <= from /\ to <= l
      BY <2>5
    <3> QED BY <3>1
  <2>4. SubSeq(t, x, y) \in Seq(AllTokens)
    BY <2>5, <2>6, Part
  <2> QED BY <1>1, <1>4, <2>2, <2>3, <2>4
<1> QED BY <1>3, <1>4

\* The values of the rules are tokens.
LEMMA RulesTyped ==
  ASSUME NEW s \in Seq(Char), NEW u \in Seq(Char), u = Uncommented(s),
         NEW e, Active(u, "=") = {e}, NEW c \in Nat, c = Cardinality(FieldEnds(u, e))
  PROVE  \A i \in 1..c - 1 : ByTheRules(s)[i] \in Seq(AllTokens)
<1>1. PICK B : B = FieldEnds(u, e)
  OBVIOUS
<1>2. PICK m \in Nat : m = Len(u) + 1
  BY SeqHas
<1>3. PICK M \in SUBSET (0..m) : M = Marks(u)
  BY <1>2, MarksIs
<1>4. PICK k \in Nat : k = Cardinality(Kept(u)) /\ Rank(M, m) = k + 1
  BY <1>2, <1>3, MarksIs, KeptTokensIs
<1>5. B \in SUBSET (1..m)
  BY <1>1, <1>2, FieldEndsIs
<1>6. KeptTokens(u) \in Seq(AllTokens) /\ Len(KeptTokens(u)) = k
  BY <1>4, KeptTokensIs
<1>7. ASSUME NEW i \in 1..c - 1 PROVE ByTheRules(s)[i] \in Seq(AllTokens)
  <2>1. ByTheRules(s)[i] = Rule6(KeptTokens(u), Rank(M, Nth(B, i)) + 1,
                                 Rank(M, Nth(B, i + 1)) - 1)
    BY <1>1, <1>3, RulesAre
  <2>2. PICK j \in 1..c : j = i + 1
    OBVIOUS
  <2>3. i \in 1..c /\ B \in SUBSET (0..m)
    BY <1>5
  <2>4. PICK x \in 0..m : x = Nth(B, i)
    BY <1>1, <2>3, NthOf
  <2>5. PICK y \in 0..m : y = Nth(B, j)
    BY <1>1, <2>3, NthOf
  <2>6. PICK a \in Nat : a = Rank(M, x)
    <3>1. x \in Int
      OBVIOUS
    <3> QED BY <3>1, RankBounds
  <2>7. PICK b \in Nat : b = Rank(M, y) /\ b <= k + 1
    <3>1. y \in Int /\ m \in Int /\ y <= m
      OBVIOUS
    <3>2. Rank(M, y) \in Nat
      BY <3>1, RankBounds
    <3>3. Rank(M, y) <= Rank(M, m)
      BY <3>1, RankMonotonic
    <3> QED BY <1>4, <3>2, <3>3
  <2>8. 1 <= a + 1 /\ a + 1 \in Int /\ b - 1 \in Int /\ b - 1 <= k
    BY <2>7
  <2>9. Rule6(KeptTokens(u), a + 1, b - 1) \in Seq(AllTokens)
    BY <1>6, <2>8, Rule6Is
  <2> QED BY <2>1, <2>2, <2>4, <2>5, <2>6, <2>7, <2>9
<1> QED BY <1>7

-----------------------------------------------------------------------------
(***************************************************************************)
(* The parser follows the rules.                                           *)
(***************************************************************************)

\* No list is there yet.
BeforeKey == pc \in {"comments", "scan", "ignored"}

\* The first k slots hold the first k fields, s[i] is what becomes of field i.
Stage(e) ==
  LET c == Cardinality(FieldEnds(line, e)) IN
  /\ pc = "values" =>
       /\ f_delim \in 1..c /\ valptr = Nth(FieldEnds(line, e), f_delim) + 1
       /\ \A i \in 0..f_delim - 1 : kv[i] = Field(line, e, i)
  /\ pc = "sanitize" =>
       /\ kv[c] = Null
       /\ \A i \in 0..c - 1 : kv[i] = Field(line, e, i)
  /\ pc = "parsed" =>
       /\ kv[c] = Null
       /\ \A i \in 0..c - 1 : kv[i] = Sanitized(Field(line, e, i))

\* What is left of the line and how far the list has come.
ParserInv ==
  /\ given \in Seq(Char)
  /\ line = IF pc = "comments" THEN given ELSE Uncommented(given)
  /\ pc = "ignored" => Cardinality(Active(line, "=")) # 1
  /\ ~BeforeKey =>
       /\ DOMAIN kv = 0..Cardinality(Active(line, ",")) + 2
       /\ \E e : Active(line, "=") = {e} /\ (~Unfinished(given) => Stage(e))

\* At the start nothing was read.
LEMMA ParserInit == Init => ParserInv
<1> SUFFICES ASSUME Init PROVE ParserInv
  OBVIOUS
<1>1. line \in Seq(Char)
  BY DEF Init, Lines
<1> QED BY <1>1 DEF Init, ParserInv, BeforeKey

\* As long as given and line stay, what was taken from them stays.
LEMMA LineIs ==
  ASSUME ParserInv
  PROVE  /\ line \in Seq(Char) /\ Len(line) \in Nat
         /\ pc # "comments" => line = Uncommented(given)
<1>1. given \in Seq(Char) /\ Uncommented(given) \in Seq(Char)
  BY UncommentedIsLine DEF ParserInv
<1>2. line \in Seq(Char)
  BY <1>1 DEF ParserInv
<1> QED BY <1>2, SeqHas DEF ParserInv

\* StoreKey stores the key.
LEMMA KeyParsed == ParserInv /\ StoreKey => ParserInv'
<1> SUFFICES ASSUME ParserInv, StoreKey PROVE ParserInv'
  OBVIOUS
<1>1. line \in Seq(Char) /\ line' = line /\ given' = given
      /\ pc = "scan" /\ pc' = "values" /\ f_delim' = 1
  BY LineIs DEF StoreKey
<1>2. PICK e : /\ Active(line, "=") = {e}
               /\ kv' = [i \in 0..Cardinality(Active(line, ",")) + 2 |->
                          IF i = 0 THEN Trimmed(line, 1, e - 1) ELSE Garbage]
               /\ valptr' = e + 1
  BY DEF StoreKey
<1>3. DOMAIN kv' = 0..Cardinality(Active(line, ",")) + 2
  BY <1>2
<1>4. kv'[0] = Field(line, e, 0)
  <2>1. Cardinality(Active(line, ",")) \in Nat
    BY <1>1, ActiveInLine
  <2>2. PICK d \in Nat : d = Cardinality(Active(line, ","))
    BY <2>1
  <2>3. 0 \in 0..d + 2
    OBVIOUS
  <2> QED BY <1>2, <2>2, <2>3 DEF Field
<1>5. PICK c \in Nat : c = Cardinality(FieldEnds(line, e)) /\ c > 1
                       /\ Nth(FieldEnds(line, e), 1) = e
  BY <1>1, <1>2, FieldEndsIs
<1>6. Stage(e)'
  <2>1. Cardinality(FieldEnds(line', e)) = c
    BY <1>1, <1>5
  <2>2. 1 \in 1..c /\ \A i \in 0..1 - 1 : i = 0
    BY <1>5
  <2> QED BY <1>1, <1>2, <1>4, <1>5, <2>1, <2>2 DEF Stage
<1>7. /\ given' \in Seq(Char)
      /\ line' = Uncommented(given')
  BY <1>1, LineIs DEF ParserInv
<1>8. Active(line', "=") = {e} /\ DOMAIN kv' = 0..Cardinality(Active(line', ",")) + 2
  BY <1>1, <1>2, <1>3
<1> QED BY <1>1, <1>6, <1>7, <1>8 DEF ParserInv, BeforeKey

\* A step behind the key, which takes the stage further.
LEMMA Further ==
  ASSUME ParserInv, ~BeforeKey, ~BeforeKey', line' = line, given' = given,
         DOMAIN kv' = DOMAIN kv,
         \A e : ~Unfinished(given) /\ Active(line, "=") = {e} /\ Stage(e) => Stage(e)'
  PROVE  ParserInv'
<1>1. PICK e : Active(line, "=") = {e} /\ (~Unfinished(given) => Stage(e))
  BY DEF ParserInv
<1>2. ~Unfinished(given') => Stage(e)'
  BY <1>1
<1>3. pc # "comments" /\ pc' # "comments" /\ pc' # "ignored"
  BY DEF BeforeKey
<1>4. given' \in Seq(Char) /\ line' = Uncommented(given')
  BY <1>3, LineIs DEF ParserInv
<1>5. Active(line', "=") = {e} /\ DOMAIN kv' = 0..Cardinality(Active(line', ",")) + 2
  BY <1>1 DEF ParserInv
<1>6. (~Unfinished(given))' => Stage(e)'
  BY <1>2 DEF Unfinished
<1> QED BY <1>3, <1>4, <1>5, <1>6 DEF ParserInv

\* What follows in the line once valptr is behind the j-th end.
LEMMA EndsAre ==
  ASSUME NEW e, line \in Seq(Char), Active(line, "=") = {e}, ~f_escape(line)[Len(line)],
         NEW c \in Nat, c = Cardinality(FieldEnds(line, e)),
         NEW j \in 1..c, valptr = Nth(FieldEnds(line, e), j) + 1
  PROVE  /\ valptr <= Len(line) + 1 => j < c /\ Min(Ends(line)) = Nth(FieldEnds(line, e), j + 1)
         /\ valptr > Len(line) + 1 \/ Ends(line) = {} => j = c
<1>1. PICK n \in Nat : n = Len(line)
  BY SeqHas
<1>2. PICK B : B = FieldEnds(line, e)
  OBVIOUS
<1>3. PICK m \in Nat : m = n + 1
  OBVIOUS
<1>4. /\ B \in SUBSET (1..m) /\ B \in SUBSET (0..m) /\ e \in 1..n
      /\ Nth(B, 1) = e /\ Nth(B, c) = m
  <2>1. B \in SUBSET (1..m)
    BY <1>1, <1>2, <1>3, FieldEndsIs
  <2>2. B \in SUBSET (0..m)
    BY <2>1
  <2> QED BY <1>1, <1>2, <1>3, <2>1, <2>2, FieldEndsIs
<1>5. \A k \in 1..c : Nth(B, k) \in B /\ Rank(B, Nth(B, k)) = k
  BY <1>2, <1>4, NthOf
<1>6. PICK x \in 1..m : x = Nth(B, j) /\ x \in B
  BY <1>4, <1>5
<1>7. valptr = x + 1
  BY <1>2, <1>6
<1>8. m \in B
  <2>1. c \in 1..c
    OBVIOUS
  <2> QED BY <1>4, <1>5, <2>1
<1>9. e <= x
  <2>1. x = e \/ x > e
    BY <1>2, <1>6 DEF FieldEnds
  <2> QED BY <1>4, <2>1
<1>10. Ends(line) = {i \in Active(line, ",") : i >= x + 1} \cup {m}
  BY <1>1, <1>3, <1>7 DEF Ends
<1>11. ASSUME NEW i PROVE i \in Ends(line) => i \in B /\ (i > x \/ i = m)
  <2>1. CASE i = m
    BY <1>8, <2>1
  <2>2. CASE i \in Active(line, ",") /\ i >= x + 1
    <3>1. i \in 1..n
      BY <1>1, <2>2, ActiveInLine
    <3>4. i >= x + 1
      BY <2>2
    <3>3. i \in Int /\ e \in Int /\ i >= x + 1
      BY <1>4, <3>1, <3>4
    <3>2. i > x /\ i > e
      BY <1>9, <3>3
    <3> QED BY <1>2, <2>2, <3>2 DEF FieldEnds
  <2> QED BY <1>10, <2>1, <2>2
<1>12. ASSUME NEW i \in B, i > x PROVE i \in Ends(line)
  <2>1. i \in Active(line, ",") \/ i = e \/ i = m
    BY <1>1, <1>2, <1>3 DEF FieldEnds
  <2>2. i \in Int
    BY <1>4
  <2>3. i # e /\ i >= x + 1
    BY <1>4, <1>9, <1>12, <2>2
  <2> QED BY <1>10, <2>1, <2>3
<1>13. j # c => x < m
  <2>1. c \in Nat /\ j \in 1..c /\ c \in 1..c
    OBVIOUS
  <2>2. x = m => Rank(B, x) = Rank(B, m)
    OBVIOUS
  <2>3. Rank(B, x) = j /\ Rank(B, m) = c
    BY <1>4, <1>5, <1>6, <2>1
  <2> QED BY <2>2, <2>3
<1>14. ASSUME valptr <= Len(line) + 1
       PROVE  j < c /\ Min(Ends(line)) = Nth(FieldEnds(line, e), j + 1)
  <2>1. x < m
    BY <1>1, <1>3, <1>7, <1>14
  <2>2. j # c
    BY <1>4, <1>6, <2>1
  <2>3. j \in 1..c - 1 /\ j + 1 \in 1..c
    BY <2>2
  <2>4. PICK y \in 1..m : y = Nth(B, j + 1) /\ y \in B
    BY <1>4, <1>5, <2>3
  <2>5. x < y /\ \A z \in B : z > x => z >= y
    BY <1>2, <1>4, <1>6, <2>3, <2>4, NthNext
  <2>6. y \in Ends(line)
    BY <1>12, <2>4, <2>5
  <2>7. \A i \in Ends(line) : i > x /\ i \in B /\ i \in Int
    <3>1. ASSUME NEW i \in Ends(line) PROVE i > x /\ i \in B /\ i \in Int
      <4>1. i \in B /\ (i > x \/ i = m)
        BY <1>11
      <4> QED BY <1>4, <2>1, <4>1
    <3> QED BY <3>1
  <2>8. \A i \in Ends(line) : y <= i
    <3>1. ASSUME NEW i \in Ends(line) PROVE y <= i
      <4>1. i >= y /\ i \in Int
        BY <2>5, <2>7
      <4> QED BY <4>1
    <3> QED BY <3>1
  <2>9. Ends(line) \in SUBSET Int
    BY <2>7
  <2>10. Min(Ends(line)) = y
    BY <2>6, <2>8, <2>9, MinIs
  <2> QED BY <1>2, <2>2, <2>4, <2>10
<1>15. ASSUME valptr > Len(line) + 1 \/ Ends(line) = {}
       PROVE  j = c
  <2>1. Ends(line) # {}
    BY <1>10
  <2>2. ~(x < m)
    BY <1>1, <1>3, <1>7, <1>15, <2>1
  <2> QED BY <1>13, <2>2
<1> QED BY <1>14, <1>15

\* StoreValue stores the next field.
LEMMA ValueParsed == ParserInv /\ StoreValue => ParserInv'
<1> SUFFICES ASSUME ParserInv, StoreValue PROVE ParserInv'
  OBVIOUS
<1>1. line' = line /\ given' = given /\ pc = "values" /\ pc' = "values"
      /\ line \in Seq(Char) /\ line = Uncommented(given)
      /\ valptr <= Len(line) + 1
      /\ f_delim' = f_delim + 1 /\ valptr' = Min(Ends(line)) + 1
      /\ kv' = [kv EXCEPT ![f_delim] = Trimmed(line, valptr, Min(Ends(line)) - 1)]
  BY LineIs DEF StoreValue
<1>2. ASSUME NEW e, ~Unfinished(given), Active(line, "=") = {e}, Stage(e) PROVE Stage(e)'
  <2>2. PICK d \in Nat : d = Cardinality(Active(line, ","))
    BY <1>1, ActiveInLine
  <2>1. PICK c \in Nat : c = Cardinality(FieldEnds(line, e)) /\ c > 1 /\ c <= d + 2
    BY <1>1, <1>2, <2>2, FieldEndsIs
  <2>3. DOMAIN kv = 0..d + 2
    BY <1>1, <2>2 DEF ParserInv, BeforeKey
  <2>4. PICK j \in 1..c : j = f_delim
    BY <1>1, <1>2, <2>1 DEF Stage
  <2>5. /\ valptr = Nth(FieldEnds(line, e), j) + 1
        /\ \A i \in 0..j - 1 : kv[i] = Field(line, e, i)
    BY <1>1, <1>2, <2>4 DEF Stage
  <2>6. ~f_escape(line)[Len(line)]
    BY <1>1, <1>2 DEF Unfinished
  <2>7. j < c /\ Min(Ends(line)) = Nth(FieldEnds(line, e), j + 1)
    BY <1>1, <1>2, <2>1, <2>5, <2>6, EndsAre
  <2>8. Trimmed(line, valptr, Min(Ends(line)) - 1) = Field(line, e, j)
    <3>1. j # 0
      OBVIOUS
    <3> QED BY <2>5, <2>7, <3>1 DEF Field
  <2>15. j < c /\ c <= d + 2
    BY <2>1, <2>7
  <2>9. j \in 0..d + 2 /\ \A i \in 0..j : i \in 0..d + 2
    BY <2>15
  <2>10. \A i \in 0..j : kv'[i] = Field(line, e, i)
    <3>1. ASSUME NEW i \in 0..j PROVE kv'[i] = Field(line, e, i)
      <4>1. CASE i = j
        BY <1>1, <2>3, <2>4, <2>8, <2>9, <4>1
      <4>2. CASE i # j
        <5>1. i \in 0..j - 1 /\ i \in DOMAIN kv
          BY <2>3, <2>9, <4>2
        <5> QED BY <1>1, <2>4, <2>5, <4>2, <5>1
      <4> QED BY <4>1, <4>2
    <3> QED BY <3>1
  <2>11. f_delim' = j + 1 /\ j + 1 \in 1..c /\ j + 1 - 1 = j
    BY <1>1, <2>4, <2>7
  <2>12. valptr' = Nth(FieldEnds(line', e), f_delim') + 1
    BY <1>1, <2>7, <2>11
  <2>13. \A i \in 0..f_delim' - 1 : kv'[i] = Field(line', e, i)
    <3>1. f_delim' - 1 = j
      BY <2>11
    <3> QED BY <1>1, <2>10, <3>1
  <2>14. f_delim' \in 1..Cardinality(FieldEnds(line', e))
    BY <1>1, <2>1, <2>11
  <2> QED BY <1>1, <2>12, <2>13, <2>14 DEF Stage
<1>3. DOMAIN kv' = DOMAIN kv
  BY <1>1
<1> QED BY <1>1, <1>2, <1>3, Further DEF BeforeKey

\* EndValues leaves no field out.
LEMMA EndParsed == ParserInv /\ EndValues => ParserInv'
<1> SUFFICES ASSUME ParserInv, EndValues PROVE ParserInv'
  OBVIOUS
<1>1. line' = line /\ given' = given /\ pc = "values" /\ pc' = "sanitize"
      /\ line \in Seq(Char) /\ line = Uncommented(given)
      /\ (valptr > Len(line) + 1 \/ Ends(line) = {})
      /\ kv' = [kv EXCEPT ![f_delim] = Null]
  BY LineIs DEF EndValues
<1>2. ASSUME NEW e, ~Unfinished(given), Active(line, "=") = {e}, Stage(e) PROVE Stage(e)'
  <2>2. PICK d \in Nat : d = Cardinality(Active(line, ","))
    BY <1>1, ActiveInLine
  <2>1. PICK c \in Nat : c = Cardinality(FieldEnds(line, e)) /\ c > 1 /\ c <= d + 2
    BY <1>1, <1>2, <2>2, FieldEndsIs
  <2>3. DOMAIN kv = 0..d + 2
    BY <1>1, <2>2 DEF ParserInv, BeforeKey
  <2>4. PICK j \in 1..c : j = f_delim
    BY <1>1, <1>2, <2>1 DEF Stage
  <2>5. /\ valptr = Nth(FieldEnds(line, e), j) + 1
        /\ \A i \in 0..j - 1 : kv[i] = Field(line, e, i)
    BY <1>1, <1>2, <2>4 DEF Stage
  <2>6. ~f_escape(line)[Len(line)]
    BY <1>1, <1>2 DEF Unfinished
  <2>7. j = c
    BY <1>1, <1>2, <2>1, <2>5, <2>6, EndsAre
  <2>13. c <= d + 2
    BY <2>1
  <2>14. c \in 0..d + 2 /\ \A i \in 0..c - 1 : i \in 0..d + 2 /\ i # c
    BY <2>13
  <2>8. c \in DOMAIN kv
    BY <2>3, <2>14
  <2>9. kv'[c] = Null
    BY <1>1, <2>4, <2>7, <2>8
  <2>10. \A i \in 0..c - 1 : kv'[i] = Field(line, e, i)
    <3>1. ASSUME NEW i \in 0..c - 1 PROVE kv'[i] = Field(line, e, i)
      <4>1. i \in DOMAIN kv /\ i # c
        BY <2>3, <2>14
      <4> QED BY <1>1, <2>4, <2>5, <2>7, <4>1
    <3> QED BY <3>1
  <2>11. Cardinality(FieldEnds(line', e)) = c
    BY <1>1, <2>1
  <2>12. \A i \in 0..c - 1 : kv'[i] = Field(line', e, i)
    BY <1>1, <2>10
  <2> QED BY <1>1, <2>9, <2>11, <2>12 DEF Stage
<1>3. DOMAIN kv' = DOMAIN kv
  BY <1>1
<1> QED BY <1>1, <1>2, <1>3, Further DEF BeforeKey

\* The first null pointer of a list.
LEMMA CountIs ==
  ASSUME NEW k, NEW m \in Nat, DOMAIN k = 0..m, NEW c \in 0..m, k[c] = Null,
         \A i \in 0..c - 1 : k[i] \in Seq(Char)
  PROVE  Count(k) = c
<1> DEFINE nulls == {i \in DOMAIN k : k[i] = Null}
<1>1. nulls \in SUBSET Int /\ c \in nulls
  OBVIOUS
<1>2. ASSUME NEW i \in nulls PROVE c <= i
  <2>1. i \in 0..m /\ k[i] = Null
    OBVIOUS
  <2>2. ~(i \in 0..c - 1)
    BY <2>1, KeyValAssumption
  <2> QED BY <2>1, <2>2
<1> HIDE DEF nulls
<1>3. Min(nulls) = c
  BY <1>1, <1>2, MinIs
<1> QED BY <1>3 DEF Count, nulls

\* Sanitize makes of every field the value of the rules.
LEMMA ParsedSanitized == ParserInv /\ Sanitize => ParserInv'
<1> SUFFICES ASSUME ParserInv, Sanitize PROVE ParserInv'
  OBVIOUS
<1>1. line' = line /\ given' = given /\ pc = "sanitize" /\ pc' = "parsed"
      /\ line \in Seq(Char) /\ line = Uncommented(given)
      /\ kv' = [i \in DOMAIN kv |-> IF i < Count(kv) THEN Sanitized(kv[i]) ELSE kv[i]]
  BY LineIs DEF Sanitize
<1>2. ASSUME NEW e, ~Unfinished(given), Active(line, "=") = {e}, Stage(e) PROVE Stage(e)'
  <2>2. PICK d \in Nat : d = Cardinality(Active(line, ","))
    BY <1>1, ActiveInLine
  <2>1. PICK c \in Nat : c = Cardinality(FieldEnds(line, e)) /\ c > 1 /\ c <= d + 2
    BY <1>1, <1>2, <2>2, FieldEndsIs
  <2>3. PICK m \in Nat : m = d + 2 /\ DOMAIN kv = 0..m
    <3>1. DOMAIN kv = 0..d + 2
      BY <1>1, <2>2 DEF ParserInv, BeforeKey
    <3>2. d + 2 \in Nat
      OBVIOUS
    <3> QED BY <3>1, <3>2
  <2>10. c <= d + 2 /\ m = d + 2
    BY <2>1, <2>3
  <2>4. c \in 0..m
    BY <2>10
  <2>5. kv[c] = Null /\ \A i \in 0..c - 1 : kv[i] = Field(line, e, i)
    BY <1>1, <1>2, <2>1 DEF Stage
  <2>6. \A i \in 0..c - 1 : Field(line, e, i) \in Seq(Char)
    BY <1>1, <1>2, <2>1, FieldIs
  <2>7. Count(kv) = c
    BY <2>3, <2>4, <2>5, <2>6, CountIs
  <2>8. kv'[c] = Null
    <3>1. ~(c < c)
      OBVIOUS
    <3> QED BY <1>1, <2>3, <2>4, <2>5, <2>7, <3>1
  <2>9. \A i \in 0..c - 1 : kv'[i] = Sanitized(Field(line, e, i))
    <3>1. ASSUME NEW i \in 0..c - 1 PROVE kv'[i] = Sanitized(Field(line, e, i))
      <4>1. i \in DOMAIN kv /\ i < c
        BY <2>3, <2>4
      <4> QED BY <1>1, <2>5, <2>7, <4>1
    <3> QED BY <3>1
  <2>11. Cardinality(FieldEnds(line', e)) = c
    BY <1>1, <2>1
  <2>12. \A i \in 0..c - 1 : kv'[i] = Sanitized(Field(line', e, i))
    BY <1>1, <2>9
  <2> QED BY <1>1, <2>8, <2>11, <2>12 DEF Stage
<1>3. DOMAIN kv' = DOMAIN kv
  BY <1>1
<1> QED BY <1>1, <1>2, <1>3, Further DEF BeforeKey

\* A step behind the parser.
LEMMA Beyond ==
  ASSUME ParserInv, ~BeforeKey, line' = line, given' = given, DOMAIN kv' = DOMAIN kv,
         pc' \in {"shifted", "remove", "absent", "list", "collapse", "array"}
  PROVE  ParserInv'
<1>1. ~BeforeKey'
  BY DEF BeforeKey
<1>2. \A e : Stage(e)'
  BY DEF Stage
<1> QED BY <1>1, <1>2, Further

\* The loops that close gaps move strings, not slots.
LEMMA MovedDomain ==
  ASSUME NEW k, NEW v, NEW w
  PROVE  DOMAIN Moved(k, v, w) = DOMAIN k
BY DEF Moved

\* No step of the loader disturbs it.
LEMMA ParserStep == ParserInv /\ [Next]_vars => ParserInv'
<1> SUFFICES ASSUME ParserInv, [Next]_vars PROVE ParserInv'
  OBVIOUS
<1>1. CASE RemoveComments
  <2>1. line' = Uncommented(given) /\ given' = given /\ pc' = "scan"
    BY <1>1 DEF RemoveComments, ParserInv
  <2>2. given' \in Seq(Char) /\ line' = Uncommented(given')
    BY <2>1 DEF ParserInv
  <2> QED BY <2>1, <2>2 DEF ParserInv, BeforeKey
<1>2. CASE NoKey
  <2>1. line' = line /\ given' = given /\ pc = "scan" /\ pc' = "ignored"
        /\ Cardinality(Active(line, "=")) # 1
    BY <1>2 DEF NoKey
  <2>2. given' \in Seq(Char) /\ line' = Uncommented(given')
        /\ Cardinality(Active(line', "=")) # 1
    BY <2>1, LineIs DEF ParserInv
  <2> QED BY <2>1, <2>2 DEF ParserInv, BeforeKey
<1>3. CASE StoreKey
  BY <1>3, KeyParsed
<1>4. CASE StoreValue
  BY <1>4, ValueParsed
<1>5. CASE EndValues
  BY <1>5, EndParsed
<1>6. CASE Sanitize
  BY <1>6, ParsedSanitized
<1>7. CASE keyval2array
  <2>1. DOMAIN kv' = DOMAIN kv
    BY <1>7 DEF keyval2array
  <2> QED BY <1>7, <2>1, Beyond DEF keyval2array, BeforeKey
<1>8. CASE UseList
  BY <1>8, Beyond DEF UseList, buffer, BeforeKey
<1>9. CASE keyval_remove_empty_values
  <2>1. DOMAIN kv' = DOMAIN kv
    BY <1>9, MovedDomain DEF keyval_remove_empty_values
  <2> QED BY <1>9, <2>1, Beyond DEF keyval_remove_empty_values, BeforeKey
<1>10. CASE NoValues
  BY <1>10, Beyond DEF NoValues, buffer, BeforeKey
<1>11. CASE keyval2valstr
  BY <1>11, Beyond DEF keyval2valstr, buffer, BeforeKey
<1>12. CASE str2arr
  BY <1>12, Beyond DEF str2arr, buffer, BeforeKey
<1>13. CASE arrcollapse
  BY <1>13, Beyond DEF arrcollapse, buffer, BeforeKey
<1>14. CASE Collapsed
  BY <1>14, Beyond DEF Collapsed, buffer, BeforeKey
<1>15. CASE UNCHANGED vars
  <2>1. UNCHANGED <<line, pc, kv, f_delim, valptr, given>>
    BY <1>15 DEF vars, buffer
  <2>2. CASE BeforeKey
    BY <2>1, <2>2 DEF ParserInv, BeforeKey
  <2>3. CASE ~BeforeKey
    <3>1. \A e : Stage(e) => Stage(e)'
      BY <2>1 DEF Stage
    <3>2. ~BeforeKey'
      BY <2>1, <2>3 DEF BeforeKey
    <3> QED BY <2>1, <2>3, <3>1, <3>2, Further
  <2> QED BY <2>2, <2>3
<1> QED BY <1>1, <1>2, <1>3, <1>4, <1>5, <1>6, <1>7, <1>8, <1>9, <1>10, <1>11,
           <1>12, <1>13, <1>14, <1>15 DEF Next

\* The line is ignored if and only if the rules find no key, or more than one.
LEMMA IgnoredByTheRules ==
  ASSUME ParserInv
  PROVE  pc = "ignored" <=> pc \notin {"comments", "scan"} /\
           Cardinality(Where(Rule2(Tokens(given)), "=")) # 1
<1>1. CASE pc \in {"comments", "scan"}
  BY <1>1
<1>2. CASE pc \notin {"comments", "scan"}
  <2>1. line \in Seq(Char) /\ line = Uncommented(given) /\ given \in Seq(Char)
    BY <1>2, LineIs DEF ParserInv
  <2>2. Rule2(Tokens(given)) = KeptTokens(line)
    BY <2>1, TokensAre, UncommentedTokens
  <2>3. Cardinality(Where(KeptTokens(line), "=")) = Cardinality(Active(line, "="))
    <3>1. "=" # "\\"
      OBVIOUS
    <3> QED BY <2>1, <3>1, SameCount
  <2>4. pc # "ignored" => Cardinality(Active(line, "=")) = 1
    <3>1. ASSUME pc # "ignored" PROVE \E e : Active(line, "=") = {e}
      BY <1>2, <3>1 DEF ParserInv, BeforeKey
    <3>2. \A e : Cardinality({e}) = 1
      BY FS_Singleton
    <3> QED BY <3>1, <3>2
  <2>5. pc = "ignored" => Cardinality(Active(line, "=")) # 1
    BY DEF ParserInv
  <2> QED BY <1>2, <2>2, <2>3, <2>4, <2>5
<1> QED BY <1>1, <1>2

\* The list that was parsed, and what the rules give for it.
LEMMA ParsedList ==
  ASSUME ParserInv, pc = "parsed", ~Unfinished(given)
  PROVE  \E c \in Nat, m \in Nat :
           /\ c > 1 /\ DOMAIN ByTheRules(given) = 0..c - 1
           /\ DOMAIN kv = 0..m /\ c <= m /\ kv[c] = Null
           /\ \A i \in 0..c - 1 :
                /\ kv[i] \in Seq(Char)
                /\ ~EndsInBlank(ByTheRules(given)[i]) => kv[i] = Chars(ByTheRules(given)[i])
           /\ \A i \in 1..c - 1 : ByTheRules(given)[i] \in Seq(AllTokens)
<1>1. line \in Seq(Char) /\ line = Uncommented(given) /\ given \in Seq(Char)
  BY LineIs DEF ParserInv
<1>2. PICK e : Active(line, "=") = {e} /\ Stage(e)
  BY DEF ParserInv, BeforeKey
<1>3. PICK d \in Nat : d = Cardinality(Active(line, ","))
  BY <1>1, ActiveInLine
<1>4. PICK c \in Nat : c = Cardinality(FieldEnds(line, e)) /\ c > 1 /\ c <= d + 2
  BY <1>1, <1>2, <1>3, FieldEndsIs
<1>5. PICK m \in Nat : m = d + 2
  OBVIOUS
<1>6. kv[c] = Null /\ \A i \in 0..c - 1 : kv[i] = Sanitized(Field(line, e, i))
  BY <1>4, <1>2 DEF Stage
<1>7. DOMAIN ByTheRules(given) = 0..c - 1
  BY <1>1, <1>2, <1>4, RulesAre
<1>8. ASSUME NEW i \in 0..c - 1
      PROVE  /\ kv[i] \in Seq(Char)
             /\ ~EndsInBlank(ByTheRules(given)[i]) => kv[i] = Chars(ByTheRules(given)[i])
  <2>1. Field(line, e, i) \in Seq(Char)
    BY <1>1, <1>2, <1>4, FieldIs
  <2>2. kv[i] \in Seq(Char)
    BY <1>6, <2>1, SanitizedIs
  <2>3. ASSUME ~EndsInBlank(ByTheRules(given)[i]) PROVE kv[i] = Chars(ByTheRules(given)[i])
    <3>1. Sanitized(Field(line, e, i)) = Chars(ByTheRules(given)[i])
      BY <1>1, <1>2, <1>4, <2>3, FieldRules
    <3> QED BY <1>6, <3>1
  <2> QED BY <2>2, <2>3
<1>9. \A i \in 1..c - 1 : ByTheRules(given)[i] \in Seq(AllTokens)
  BY <1>1, <1>2, <1>4, RulesTyped
<1>10. DOMAIN kv = 0..m
  BY <1>3, <1>5 DEF ParserInv, BeforeKey
<1>11. c > 1 /\ c <= m
  BY <1>4, <1>5
<1> QED BY <1>6, <1>7, <1>8, <1>9, <1>10, <1>11

\* It has the values the rules give.
LEMMA ParsedByTheRules ==
  ASSUME ParserInv, pc = "parsed", ~Unfinished(given)
  PROVE  /\ keyval_nvalues = Cardinality(DOMAIN ByTheRules(given)) - 1
         /\ \A i \in DOMAIN ByTheRules(given) :
              ~EndsInBlank(ByTheRules(given)[i]) => kv[i] = Chars(ByTheRules(given)[i])
<1>1. PICK c \in Nat, m \in Nat :
        /\ c > 1 /\ DOMAIN ByTheRules(given) = 0..c - 1
        /\ DOMAIN kv = 0..m /\ c <= m /\ kv[c] = Null
        /\ \A i \in 0..c - 1 :
             /\ kv[i] \in Seq(Char)
             /\ ~EndsInBlank(ByTheRules(given)[i]) => kv[i] = Chars(ByTheRules(given)[i])
        /\ \A i \in 1..c - 1 : ByTheRules(given)[i] \in Seq(AllTokens)
  BY ParsedList
<1>2. c > 1 /\ c <= m
  BY <1>1
<1>3. Count(kv) = c
  <2>1. c \in 0..m
    BY <1>2
  <2> QED BY <1>1, <2>1, CountIs
<1>4. Cardinality(0..c - 1) = c
  <2>1. 0 \in Int /\ c - 1 \in Int /\ 0 <= c - 1 /\ c - 1 - 0 + 1 = c
    BY <1>2
  <2> QED BY <2>1, FS_Interval
<1> QED BY <1>1, <1>3, <1>4 DEF keyval_nvalues

\* The invariant gives the rules.
LEMMA ParserImplies == ParserInv => MatchesRules
BY IgnoredByTheRules, ParsedByTheRules DEF MatchesRules

\* keyval.c:4-23: for lines of every length, with any number of escapes, blanks,
\* delimiters and comments, keyval_create() ignores exactly the lines that the
\* rules give no key, and of the others it stores the key and all the values the
\* rules read, sanitized in place; what the rules promise of escaped blanks at
\* the end and of an escape of nothing it does not keep.
THEOREM Parsed == Spec => []MatchesRules
BY ParserInit, ParserStep, ParserImplies, PTL DEF Spec

-----------------------------------------------------------------------------
(***************************************************************************)
(* Slots of the list and room behind it.                                   *)
(***************************************************************************)

\* The ends of the values from place v of s on.
EndsFrom(s, v) ==
  IF v > Len(s) + 1 THEN {}
  ELSE {i \in Active(s, ",") : i >= v} \cup
       (IF f_escape(s)[Len(s)] THEN {} ELSE {Len(s) + 1})

\* The ends are finitely many.
LEMMA EndsFinite ==
  ASSUME NEW s \in Seq(Char), NEW v \in Int
  PROVE  /\ EndsFrom(s, v) \in SUBSET (1..Len(s) + 1)
         /\ \A i \in EndsFrom(s, v) : i >= v
         /\ IsFiniteSet(EndsFrom(s, v))
         /\ Cardinality(EndsFrom(s, v)) \in Nat
         /\ Cardinality(EndsFrom(s, v)) <= Cardinality(Active(s, ",")) + 1
<1>1. PICK n \in Nat : n = Len(s)
  OBVIOUS
<1>2. PICK commas : /\ commas = Active(s, ",") /\ commas \subseteq 1..n
                    /\ IsFiniteSet(commas) /\ Cardinality(commas) \in Nat
  BY <1>1, ActiveInLine
<1> DEFINE last == n + 1
           all == commas \cup {last}
           from == EndsFrom(s, v)
<1>3. from \subseteq all /\ \A i \in from : i >= v
  <2>1. CASE v > last
    BY <1>1, <2>1 DEF EndsFrom
  <2>2. CASE ~(v > last)
    <3>1. \A i \in from : (i \in commas /\ i >= v) \/ i = last
      BY <1>1, <1>2, <2>2 DEF EndsFrom
    <3>2. last >= v
      BY <2>2
    <3> HIDE DEF from, last
    <3> QED BY <3>1, <3>2
  <2> QED BY <2>1, <2>2
<1>4. all \subseteq 1..last /\ last = Len(s) + 1
  <2>1. last = Len(s) + 1 /\ last \in 1..last /\ 1..n \subseteq 1..last
    BY <1>1
  <2> HIDE DEF last
  <2> QED BY <1>2, <2>1
<1> HIDE DEF from, last
<1>5. IsFiniteSet(all) /\ Cardinality(all) <= Cardinality(commas) + 1
  <2>1. /\ IsFiniteSet(all)
        /\ Cardinality(all) =
             IF last \in commas THEN Cardinality(commas) ELSE Cardinality(commas) + 1
    BY <1>2, FS_AddElement
  <2> HIDE DEF all
  <2>2. Cardinality(commas) <= Cardinality(commas) + 1 /\
        Cardinality(commas) + 1 <= Cardinality(commas) + 1
    <3>1. PICK c \in Nat : c = Cardinality(commas)
      BY <1>2
    <3> QED BY <3>1
  <2> QED BY <2>1, <2>2
<1> HIDE DEF all
<1>6. Cardinality(all) \in Nat
  BY <1>5, FS_CardinalityType
<1>7. IsFiniteSet(from) /\ Cardinality(from) <= Cardinality(all)
  BY <1>3, <1>5, FS_Subset
<1>8. Cardinality(from) \in Nat
  BY <1>7, FS_CardinalityType
<1>9. Cardinality(from) <= Cardinality(commas) + 1
  <2> DEFINE f == Cardinality(from)
             a == Cardinality(all)
             c == Cardinality(commas)
  <2>1. f \in Nat /\ a \in Nat /\ c \in Nat /\ f <= a
    BY <1>2, <1>6, <1>7, <1>8
  <2>2. a <= c + 1
    BY <1>5
  <2> HIDE DEF f, a, c
  <2>3. f <= c + 1
    BY <2>1, <2>2
  <2> QED BY <2>3 DEF f, c
<1> QED BY <1>2, <1>3, <1>4, <1>7, <1>8, <1>9 DEF from

\* Behind the first of them there is one less.
LEMMA OneEndLess ==
  ASSUME NEW s \in Seq(Char), NEW v \in Int, v <= Len(s) + 1,
         EndsFrom(s, v) # {},
         NEW end, end = Min(EndsFrom(s, v))
  PROVE  /\ end \in v..Len(s) + 1
         /\ Cardinality(EndsFrom(s, end + 1)) + 1 <= Cardinality(EndsFrom(s, v))
<1>1. PICK here \in SUBSET (1..Len(s) + 1) :
        /\ here = EndsFrom(s, v) /\ \A i \in here : i >= v
        /\ IsFiniteSet(here) /\ Cardinality(here) \in Nat
  BY EndsFinite
<1>2. Len(s) \in Nat
  OBVIOUS
<1>3. end \in here
  <2>1. Len(s) + 1 \in Int /\ 1 \in Int
    BY <1>2
  <2> QED BY <1>1, <2>1, Least
<1>4. end \in v..Len(s) + 1 /\ end + 1 \in Int
  BY <1>1, <1>2, <1>3
<1>5. PICK next \in SUBSET (1..Len(s) + 1) :
        /\ next = EndsFrom(s, end + 1) /\ \A i \in next : i >= end + 1
        /\ IsFiniteSet(next) /\ Cardinality(next) \in Nat
  BY <1>4, EndsFinite
<1> DEFINE rest == here \ {end}
<1>6. next \in SUBSET rest
  <2>1. end \notin next
    BY <1>4, <1>5
  <2>2. next \subseteq here
    <3>1. CASE end > Len(s)
      <4>1. end + 1 > Len(s) + 1
        BY <1>2, <1>4, <3>1
      <4> QED BY <1>5, <4>1 DEF EndsFrom
    <3>2. CASE end <= Len(s)
      <4>1. ~(v > Len(s) + 1) /\ ~(end + 1 > Len(s) + 1)
        BY <1>2, <1>4, <3>2
      <4>2. PICK commas \in SUBSET (1..Len(s)) : commas = Active(s, ",")
        BY ActiveInLine
      <4>3. \A i \in commas : i >= end + 1 => i >= v
        BY <1>2, <1>4
      <4> DEFINE unended == IF f_escape(s)[Len(s)] THEN {} ELSE {Len(s) + 1}
      <4>4. here = {i \in commas : i >= v} \cup unended
        BY <1>1, <4>1, <4>2 DEF EndsFrom
      <4>5. next = {i \in commas : i >= end + 1} \cup unended
        BY <1>5, <4>1, <4>2 DEF EndsFrom
      <4> HIDE DEF unended
      <4> QED BY <4>3, <4>4, <4>5
    <3> QED BY <1>2, <1>4, <3>1, <3>2
  <2> QED BY <2>1, <2>2
<1>7. IsFiniteSet(rest) /\ Cardinality(rest) = Cardinality(here) - 1
  BY <1>1, <1>3, FS_RemoveElement
<1> HIDE DEF rest
<1>8. Cardinality(next) <= Cardinality(rest)
  BY <1>6, <1>7, FS_Subset
<1> QED BY <1>1, <1>4, <1>5, <1>7, <1>8

\* What the list is sized by, and what may still be stored.
Delimiters == Cardinality(Active(line, ","))
Remaining == Cardinality(EndsFrom(line, valptr))

\* What is stored fits, and what is still to be stored will.
Filled ==
  /\ DOMAIN kv = 0..Delimiters + 2
  /\ room = Len(line) + 1
  /\ valptr \in 1..Len(line) + 2
  /\ used \in 0..valptr - 1
  /\ f_delim \in 1..Delimiters + 3
  /\ pc = "values" => f_delim + Remaining <= Delimiters + 2
  /\ pc # "values" => f_delim >= 2 /\ kv[f_delim - 1] = Null
  /\ pc = "remove" => index[2] \in 1..index[1] /\ index[1] <= f_delim - 1

\* The slots and the bytes that are left suffice for what may still be stored.
BoundsInv ==
  /\ line \in Seq(Char)
  /\ index \in Nat \X Nat
  /\ BeforeKey => kv = Empty /\ f_delim = 0 /\ used = 0 /\ room = 0
  /\ ~BeforeKey => Filled

\* Nothing is stored before the key.
LEMMA BoundsInit == Init => BoundsInv
<1> SUFFICES ASSUME Init PROVE BoundsInv
  OBVIOUS
<1>1. line \in Seq(Char)
  BY DEF Init, Lines
<1>2. index \in Nat \X Nat
  BY DEF Init
<1> QED BY <1>1, <1>2 DEF Init, BoundsInv, BeforeKey

\* As long as the line stays, so do the numbers taken from it.
LEMMA SameLine ==
  ASSUME line' = line
  PROVE  /\ Delimiters' = Delimiters
         /\ valptr' = valptr => Remaining' = Remaining
<1>1. Delimiters' = Delimiters
  BY DEF Delimiters, Active, f_escape
<1>2. ASSUME valptr' = valptr PROVE Remaining' = Remaining
  BY <1>2 DEF Remaining, EndsFrom, Active, f_escape
<1> QED BY <1>1, <1>2

\* A step that only looks at what is stored, or changes strings in front of
\* the null pointer.
LEMMA StoredStays ==
  ASSUME BoundsInv, ~BeforeKey, pc # "values", pc' # "values", ~BeforeKey',
         line' = line, UNCHANGED <<f_delim, valptr, used, room>>,
         DOMAIN kv' = DOMAIN kv, kv'[f_delim - 1] = Null,
         index' \in Nat \X Nat,
         pc' = "remove" => index'[2] \in 1..index'[1] /\ index'[1] <= f_delim - 1
  PROVE  BoundsInv'
<1>1. Delimiters' = Delimiters
  BY SameLine
<1>2. Filled
  BY DEF BoundsInv
<1>3. Filled'
  BY <1>1, <1>2 DEF Filled
<1> QED BY <1>3 DEF BoundsInv

\* The counters are numbers.
LEMMA Numbers ==
  ASSUME BoundsInv
  PROVE  /\ Len(line) \in Nat /\ Delimiters \in Nat
         /\ valptr \in Int => Remaining \in Nat
<1>1. line \in Seq(Char)
  BY DEF BoundsInv
<1>2. Len(line) \in Nat
  BY <1>1
<1>3. Delimiters \in Nat
  BY <1>1, ActiveInLine DEF Delimiters
<1>4. valptr \in Int => Remaining \in Nat
  BY <1>1, EndsFinite DEF Remaining
<1> QED BY <1>2, <1>3, <1>4

\* The key fits,
LEMMA KeyFits == BoundsInv /\ StoreKey => BoundsInv'
<1> SUFFICES ASSUME BoundsInv, StoreKey PROVE BoundsInv'
  OBVIOUS
<1>1. line \in Seq(Char) /\ line' = line /\ index \in Nat \X Nat
  BY DEF BoundsInv, StoreKey
<1>2. PICK n \in Nat : n = Len(line)
  BY <1>1
<1>3. Delimiters \in Nat /\ Delimiters' = Delimiters
  BY <1>1, Numbers, SameLine
<1>4. PICK e \in 1..n :
        /\ kv' = [i \in 0..Delimiters + 2 |->
                    IF i = 0 THEN Trimmed(line, 1, e - 1) ELSE Garbage]
        /\ valptr' = e + 1
  <2>1. PICK equals \in SUBSET (1..n) : equals = Active(line, "=")
    BY <1>1, <1>2, ActiveInLine
  <2> QED BY <2>1 DEF StoreKey, Delimiters
<1>5. Len(Trimmed(line, 1, e - 1)) \in 0..e - 1
  BY <1>1, <1>2, <1>4, TrimmedFits
<1>6. DOMAIN kv' = 0..Delimiters' + 2 /\ kv'[0] = Trimmed(line, 1, e - 1)
  BY <1>3, <1>4
<1>7. room' = Len(line') + 1 /\ valptr' \in 1..Len(line') + 2
  <2>1. room' = Len(line') + 1
    BY <1>1 DEF StoreKey
  <2>2. e + 1 \in 1..n + 2
    OBVIOUS
  <2> QED BY <1>1, <1>2, <1>4, <2>1, <2>2
<1>8. used' \in 0..valptr' - 1
  <2>1. used' = Len(Trimmed(line, 1, e - 1)) + 1
    BY <1>6 DEF StoreKey
  <2> QED BY <1>4, <1>5, <2>1
<1>9. f_delim' = 1 /\ pc' = "values" /\ index' = index
  BY DEF StoreKey
<1>10. 1 + Remaining' <= Delimiters' + 2
  <2>1. PICK v \in Int : v = valptr'
    BY <1>4
  <2>2. Remaining' = Cardinality(EndsFrom(line, v))
    BY <1>1, <2>1 DEF Remaining, EndsFrom, Active, f_escape
  <2>3. /\ Cardinality(EndsFrom(line, v)) \in Nat
        /\ Cardinality(EndsFrom(line, v)) <= Delimiters + 1
    BY <1>1, EndsFinite DEF Delimiters
  <2> QED BY <1>3, <2>2, <2>3
<1>11. Filled'
  <2>1. f_delim' \in 1..Delimiters' + 3
    BY <1>3, <1>9
  <2> QED BY <1>6, <1>7, <1>8, <1>9, <1>10, <2>1 DEF Filled
<1> QED BY <1>1, <1>9, <1>11 DEF BoundsInv, BeforeKey

\* a value fits,
LEMMA ValueFits == BoundsInv /\ StoreValue => BoundsInv'
<1> SUFFICES ASSUME BoundsInv, StoreValue PROVE BoundsInv'
  OBVIOUS
<1>1. /\ line \in Seq(Char) /\ line' = line
      /\ index \in Nat \X Nat /\ index' = index
      /\ pc = "values" /\ pc' = "values" /\ room' = room
  BY DEF BoundsInv, StoreValue
<1>2. PICK n \in Nat : n = Len(line)
  BY <1>1
<1>3. Delimiters \in Nat /\ Delimiters' = Delimiters /\ Filled
  BY <1>1, Numbers, SameLine DEF BoundsInv, BeforeKey
<1>4. PICK v \in 1..n + 1 : v = valptr
  BY <1>2, <1>3 DEF StoreValue, Filled
<1>5. EndsFrom(line, v) # {} /\ Ends(line) = EndsFrom(line, v)
  <2>1. ~(valptr > Len(line) + 1)
    BY <1>2, <1>4
  <2>2. Ends(line) = EndsFrom(line, valptr)
    BY <2>1 DEF Ends, EndsFrom
  <2> QED BY <1>4, <2>2 DEF StoreValue
<1>6. PICK end \in v..n + 1 :
        /\ end = Min(EndsFrom(line, v))
        /\ Cardinality(EndsFrom(line, end + 1)) + 1 <= Cardinality(EndsFrom(line, v))
  BY <1>1, <1>2, <1>4, <1>5, OneEndLess
<1>7. /\ kv' = [kv EXCEPT ![f_delim] = Trimmed(line, v, end - 1)]
      /\ valptr' = end + 1
  BY <1>4, <1>5, <1>6 DEF StoreValue
<1>8. Len(Trimmed(line, v, end - 1)) \in 0..end - v
  BY <1>1, <1>2, <1>4, <1>6, TrimmedFits
<1>9. f_delim' = f_delim + 1 /\ f_delim' \in 1..Delimiters + 2 /\
      f_delim' + Remaining' <= Delimiters + 2
  <2>1. Remaining = Cardinality(EndsFrom(line, v))
    BY <1>4 DEF Remaining
  <2>2. Remaining' = Cardinality(EndsFrom(line, end + 1))
    BY <1>1, <1>7 DEF Remaining, EndsFrom, Active, f_escape
  <2>3. Remaining \in Nat /\ Cardinality(EndsFrom(line, end + 1)) \in Nat
    <3>1. v \in Int /\ end + 1 \in Int
      OBVIOUS
    <3> QED BY <1>1, <2>1, <3>1, EndsFinite
  <2>4. f_delim \in Nat /\ f_delim >= 1 /\ f_delim + Remaining <= Delimiters + 2
    BY <1>1, <1>3 DEF Filled
  <2>5. f_delim' = f_delim + 1
    BY DEF StoreValue
  <2> QED BY <1>3, <1>6, <2>1, <2>2, <2>3, <2>4, <2>5
<1>10. DOMAIN kv = 0..Delimiters + 2 /\ f_delim \in 0..Delimiters + 2
  BY <1>3, <1>9 DEF Filled
<1>11. DOMAIN kv' = DOMAIN kv /\ kv'[f_delim] = Trimmed(line, v, end - 1)
  BY <1>7, <1>10
<1>12. used' \in 0..valptr' - 1
  <2>1. used \in 0..v - 1
    BY <1>3, <1>4 DEF Filled
  <2>2. used' = used + Len(Trimmed(line, v, end - 1)) + 1
    BY <1>11 DEF StoreValue
  <2> QED BY <1>4, <1>6, <1>7, <1>8, <2>1, <2>2
<1>13. room' = Len(line') + 1 /\ valptr' \in 1..Len(line') + 2
  BY <1>1, <1>2, <1>3, <1>4, <1>6, <1>7 DEF Filled
<1>14. Filled'
  <2>1. DOMAIN kv' = 0..Delimiters' + 2 /\ f_delim' \in 1..Delimiters' + 3
    BY <1>3, <1>9, <1>10, <1>11
  <2>2. f_delim' + Remaining' <= Delimiters' + 2
    BY <1>3, <1>9
  <2> QED BY <1>1, <1>12, <1>13, <2>1, <2>2 DEF Filled
<1> QED BY <1>1, <1>14 DEF BoundsInv, BeforeKey

\* the null pointer fits.
LEMMA EndFits == BoundsInv /\ EndValues => BoundsInv'
<1> SUFFICES ASSUME BoundsInv, EndValues PROVE BoundsInv'
  OBVIOUS
<1>1. /\ line \in Seq(Char) /\ line' = line
      /\ index \in Nat \X Nat /\ index' = index
      /\ pc = "values" /\ pc' = "sanitize"
      /\ valptr' = valptr /\ used' = used /\ room' = room
  BY DEF BoundsInv, EndValues
<1>2. Delimiters \in Nat /\ Delimiters' = Delimiters /\ Filled
  BY <1>1, Numbers, SameLine DEF BoundsInv, BeforeKey
<1>3. Remaining \in Nat
  BY <1>2, Numbers DEF Filled
<1>4. f_delim \in 1..Delimiters + 2 /\ f_delim' = f_delim + 1
  BY <1>1, <1>2, <1>3 DEF Filled, EndValues
<1>5. DOMAIN kv' = DOMAIN kv /\ kv'[f_delim] = Null
  BY <1>2, <1>4 DEF Filled, EndValues
<1>6. f_delim' - 1 = f_delim
  BY <1>4
<1>7. Filled'
  BY <1>1, <1>2, <1>4, <1>5, <1>6 DEF Filled
<1> QED BY <1>1, <1>7 DEF BoundsInv, BeforeKey

\* Once it is written, the loops find the null pointer behind the last string.
LEMMA EndFound ==
  ASSUME Filled, Delimiters \in Nat, pc # "values"
  PROVE  /\ Count(kv) \in DOMAIN kv /\ Count(kv) <= f_delim - 1
         /\ f_delim - 1 \in DOMAIN kv /\ kv[f_delim - 1] = Null
<1> DEFINE nulls == {n \in DOMAIN kv : kv[n] = Null}
<1>1. PICK last \in Nat : last = Delimiters + 2
  OBVIOUS
<1>2. DOMAIN kv = 0..last
  BY <1>1 DEF Filled
<1>3. f_delim - 1 \in 0..last /\ kv[f_delim - 1] = Null
  BY <1>1 DEF Filled
<1>4. nulls \in SUBSET (0..last) /\ f_delim - 1 \in nulls
  BY <1>2, <1>3
<1>5. Count(kv) = Min(nulls)
  BY DEF Count
<1> HIDE DEF nulls
<1>6. Count(kv) \in 0..last /\ Count(kv) <= f_delim - 1
  <2>1. 0 \in Int /\ last \in Int /\ nulls # {}
    BY <1>4
  <2>2. Min(nulls) \in nulls /\ \A y \in nulls : Min(nulls) <= y
    BY <1>4, <2>1, Least
  <2> QED BY <1>4, <1>5, <2>2
<1> QED BY <1>2, <1>3, <1>6

\* No step breaks the bounds.
LEMMA BoundsStep == BoundsInv /\ [Next]_vars => BoundsInv'
<1> SUFFICES ASSUME BoundsInv, [Next]_vars PROVE BoundsInv'
  OBVIOUS
<1>0. ASSUME ~BeforeKey, pc # "values"
      PROVE  /\ Filled /\ Count(kv) \in DOMAIN kv /\ Count(kv) <= f_delim - 1
             /\ f_delim - 1 \in DOMAIN kv /\ kv[f_delim - 1] = Null
             /\ f_delim \in Nat /\ f_delim >= 2 /\ Count(kv) \in Nat
  <2>1. Filled /\ Delimiters \in Nat
    BY <1>0, Numbers DEF BoundsInv
  <2>2. DOMAIN kv \subseteq Nat
    BY <2>1 DEF Filled
  <2> QED BY <1>0, <2>1, <2>2, EndFound DEF Filled
<1>1. CASE RemoveComments
  <2>1. line' \in Seq(Char)
    BY <1>1, UncommentedIsLine DEF RemoveComments, BoundsInv
  <2> QED BY <1>1, <2>1 DEF RemoveComments, BoundsInv, BeforeKey, buffer
<1>2. CASE NoKey
  BY <1>2 DEF NoKey, BoundsInv, BeforeKey, buffer
<1>3. CASE StoreKey
  BY <1>3, KeyFits
<1>4. CASE StoreValue
  BY <1>4, ValueFits
<1>5. CASE EndValues
  BY <1>5, EndFits
<1>6. CASE Sanitize
  <2>1. ~BeforeKey /\ pc # "values"
    BY <1>6 DEF Sanitize, BeforeKey
  <2>2. ~(f_delim - 1 < Count(kv))
    BY <1>0, <2>1
  <2>3. DOMAIN kv' = DOMAIN kv /\ kv'[f_delim - 1] = Null
    BY <1>0, <1>6, <2>1, <2>2 DEF Sanitize
  <2> QED BY <1>6, <2>1, <2>3, StoredStays DEF Sanitize, BeforeKey, BoundsInv
<1>7. CASE keyval2array
  <2>1. ~BeforeKey /\ pc # "values"
    BY <1>7 DEF keyval2array, BeforeKey
  <2>2. ~(f_delim - 1 + 1 < Count(kv))
    BY <1>0, <2>1
  <2>3. DOMAIN kv' = DOMAIN kv /\ kv'[f_delim - 1] = Null
    BY <1>0, <1>7, <2>1, <2>2 DEF keyval2array
  <2> QED BY <1>7, <2>1, <2>3, StoredStays DEF keyval2array, BeforeKey, BoundsInv
<1>8. CASE UseList
  <2>1. ~BeforeKey /\ pc # "values"
    BY <1>8 DEF UseList, BeforeKey
  <2>2. kv' = kv /\ UNCHANGED <<f_delim, valptr, used, room>> /\ line' = line
    BY <1>8 DEF UseList, buffer
  <2>3. index' = <<1, 1>> /\ 1 \in 1..1 /\ 1 <= f_delim - 1
    BY <1>0, <1>8, <2>1 DEF UseList
  <2> QED BY <1>0, <1>8, <2>1, <2>2, <2>3, StoredStays DEF UseList, BeforeKey
<1>9. CASE keyval_remove_empty_values
  <2>1. ~BeforeKey /\ pc # "values" /\ pc = "remove" /\ pc' = "remove"
    BY <1>9 DEF keyval_remove_empty_values, BeforeKey
  <2>2. PICK v \in Nat, w \in Nat : index = <<v, w>>
    BY DEF BoundsInv
  <2>3. w \in 1..v /\ v <= f_delim - 1 /\ kv[v] # Null
    BY <1>0, <1>9, <2>1, <2>2 DEF keyval_remove_empty_values, Filled
  <2>4. v < f_delim - 1 /\ w < f_delim - 1
    BY <1>0, <2>1, <2>3
  <2>5. DOMAIN kv' = DOMAIN kv /\ kv'[f_delim - 1] = Null
    <3>1. kv' = Moved(kv, v, w)
      BY <1>9, <2>2 DEF keyval_remove_empty_values
    <3>2. v # f_delim - 1 /\ w # f_delim - 1
      BY <1>0, <2>1, <2>4
    <3> QED BY <1>0, <2>1, <3>1, <3>2 DEF Moved
  <2>6. /\ index' \in Nat \X Nat
        /\ index'[2] \in 1..index'[1] /\ index'[1] <= f_delim - 1
    <3>1. index' = <<v + 1, IF kv[v] = <<>> THEN w ELSE w + 1>>
      BY <1>9, <2>2 DEF keyval_remove_empty_values, After
    <3>2. w \in 1..v + 1 /\ w + 1 \in 1..v + 1 /\ v + 1 <= f_delim - 1
      BY <1>0, <2>1, <2>3, <2>4
    <3> QED BY <3>1, <3>2
  <2> QED BY <1>9, <2>1, <2>5, <2>6, StoredStays
        DEF keyval_remove_empty_values, BeforeKey
<1>10. ASSUME ~BeforeKey, pc # "values", pc' # "values", ~BeforeKey', pc' # "remove",
              line' = line, UNCHANGED buffer, index' \in Nat \X Nat
       PROVE  BoundsInv'
  <2>1. kv' = kv /\ UNCHANGED <<f_delim, valptr, used, room>>
    BY <1>10 DEF buffer
  <2> QED BY <1>0, <1>10, <2>1, StoredStays
<1>11. CASE NoValues
  BY <1>10, <1>11 DEF NoValues, BeforeKey, BoundsInv
<1>12. CASE keyval2valstr
  BY <1>10, <1>12 DEF keyval2valstr, BeforeKey, BoundsInv
<1>13. CASE str2arr
  BY <1>10, <1>13 DEF str2arr, BeforeKey
<1>14. CASE arrcollapse
  <2>1. index' \in Nat \X Nat
    <3>1. PICK v \in Nat, w \in Nat : index = <<v, w>>
      BY DEF BoundsInv
    <3>2. index' = <<v + 1, IF array[v] = <<>> THEN w ELSE w + 1>>
      BY <1>14, <3>1 DEF arrcollapse, After
    <3> QED BY <3>2
  <2> QED BY <1>10, <1>14, <2>1 DEF arrcollapse, BeforeKey
<1>15. CASE Collapsed
  BY <1>10, <1>15 DEF Collapsed, BeforeKey, BoundsInv
<1>16. CASE UNCHANGED vars
  <2>1. UNCHANGED <<line, pc, kv, f_delim, valptr, used, room, index>>
    BY <1>16 DEF vars, buffer
  <2>2. Delimiters' = Delimiters /\ Remaining' = Remaining
    BY <2>1, SameLine
  <2> QED BY <2>1, <2>2 DEF BoundsInv, Filled, BeforeKey
<1> QED BY <1>1, <1>2, <1>3, <1>4, <1>5, <1>6, <1>7, <1>8, <1>9,
           <1>11, <1>12, <1>13, <1>14, <1>15, <1>16 DEF Next

\* The invariant gives the bounds.
LEMMA BoundsImply == BoundsInv => InBounds
<1> SUFFICES ASSUME BoundsInv PROVE InBounds
  OBVIOUS
<1>1. CASE BeforeKey
  <2>1. f_delim = 0 /\ used = 0 /\ room = 0 /\ DOMAIN kv = {}
    BY <1>1 DEF BoundsInv, Empty
  <2>2. Cardinality(DOMAIN kv) = 0
    BY <2>1, FS_EmptySet
  <2> QED BY <1>1, <2>1, <2>2 DEF InBounds, BeforeKey
<1>2. CASE ~BeforeKey
  <2>1. Filled /\ Len(line) \in Nat
    BY <1>2, Numbers DEF BoundsInv
  <2>2. PICK d \in Nat : d = Delimiters
    BY Numbers
  <2>3. f_delim <= Cardinality(DOMAIN kv)
    <3>1. Cardinality(0..d + 2) = d + 3
      BY FS_Interval
    <3> QED BY <2>1, <2>2, <3>1 DEF Filled
  <2>4. used <= room
    BY <2>1 DEF Filled
  <2>5. ASSUME pc # "values"
        PROVE  (\E n \in DOMAIN kv : kv[n] = Null) /\ Count(kv) < f_delim
    <3>1. /\ Count(kv) \in DOMAIN kv /\ Count(kv) <= f_delim - 1
          /\ f_delim - 1 \in DOMAIN kv /\ kv[f_delim - 1] = Null
      BY <2>1, <2>2, <2>5, EndFound
    <3>2. DOMAIN kv \subseteq Int /\ f_delim \in Int
      BY <2>1 DEF Filled
    <3> QED BY <3>1, <3>2
  <2> QED BY <2>3, <2>4, <2>5 DEF InBounds
<1> QED BY <1>1, <1>2

\* keyval_create() never stores a pointer or a character outside of what it
\* allocated, and neither it nor keyval2array(), keyval_remove_empty_values()
\* and keyval2valstr() run past the null pointer, for lines of every length
\* with any number of delimiters, escapes and comments (keyval.c:278-385).
THEOREM LineFits == Spec => []InBounds
BY BoundsInit, BoundsStep, BoundsImply, PTL DEF Spec

-----------------------------------------------------------------------------
(***************************************************************************)
(* The string of keyval2valstr().                                          *)
(***************************************************************************)

\* A delimiter and a string behind a string.
Appended(a, b) == a \o <<",">> \o b

\* Its length and its characters.
LEMMA AppendedIs ==
  ASSUME NEW a \in Seq(Char), NEW b \in Seq(Char)
  PROVE  /\ Appended(a, b) \in Seq(Char)
         /\ Len(Appended(a, b)) = Len(a) + 1 + Len(b)
         /\ \A i \in 1..Len(a) : Appended(a, b)[i] = a[i]
         /\ Appended(a, b)[Len(a) + 1] = ","
         /\ \A i \in 1..Len(b) : Appended(a, b)[Len(a) + 1 + i] = b[i]
<1>1. "," \in Char
  BY DEF Char
<1>2. PICK d \in Seq(Char) : d = <<",">> /\ Len(d) = 1 /\ d[1] = ","
  <2>1. <<",">> \in Seq(Char) /\ Len(<<",">>) = 1 /\ <<",">>[1] = ","
    <3>1. PICK x \in Char : x = ","
      BY <1>1
    <3>2. <<x>> \in Seq(Char) /\ Len(<<x>>) = 1 /\ <<x>>[1] = x
      OBVIOUS
    <3> QED BY <3>1, <3>2
  <2> QED BY <2>1
<1>4. PICK m \in Nat : m = Len(a)
  BY SeqHas
<1>10. PICK l \in Nat : l = Len(b)
  BY SeqHas
<1>3. PICK ad \in Seq(Char) : /\ ad = a \o d /\ Len(ad) = Len(a) + Len(d)
                              /\ \A i \in 1..Len(a) : ad[i] = a[i]
                              /\ ad[Len(a) + 1] = d[1]
  <2>1. a \o d \in Seq(Char) /\ Len(a \o d) = m + 1
        /\ \A i \in 1..m + 1 : (a \o d)[i] = IF i <= m THEN a[i] ELSE d[i - m]
    BY <1>2, <1>4, ConcatProperties
  <2>2. \A i \in 1..m : i \in 1..m + 1 /\ i <= m
    OBVIOUS
  <2>3. m + 1 \in 1..m + 1 /\ ~(m + 1 <= m) /\ m + 1 - m = 1
    OBVIOUS
  <2>4. \A i \in 1..m : (a \o d)[i] = a[i]
    BY <2>1, <2>2
  <2>5. (a \o d)[m + 1] = d[1]
    BY <2>1, <2>3
  <2> QED BY <1>2, <1>4, <2>1, <2>4, <2>5
<1>5. Len(ad) = m + 1
  BY <1>2, <1>3, <1>4
<1>6. PICK adb \in Seq(Char) : /\ adb = ad \o b /\ Len(adb) = Len(ad) + Len(b)
                               /\ \A i \in 1..Len(ad) : adb[i] = ad[i]
                               /\ \A i \in 1..Len(b) : adb[Len(ad) + i] = b[i]
  <2>1. PICK p \in Nat : p = Len(ad)
    BY SeqHas
  <2>2. ad \o b \in Seq(Char) /\ Len(ad \o b) = p + l
        /\ \A i \in 1..p + l : (ad \o b)[i] = IF i <= p THEN ad[i] ELSE b[i - p]
    BY <1>10, <2>1, ConcatProperties
  <2>3. \A i \in 1..p : (ad \o b)[i] = ad[i]
    <3>1. \A i \in 1..p : i \in 1..p + l /\ i <= p
      OBVIOUS
    <3> QED BY <2>2, <3>1
  <2>4. \A i \in 1..l : (ad \o b)[p + i] = b[i]
    <3>1. \A i \in 1..l : p + i \in 1..p + l /\ ~(p + i <= p) /\ p + i - p = i
      OBVIOUS
    <3> QED BY <2>2, <3>1
  <2> QED BY <1>10, <2>1, <2>2, <2>3, <2>4
<1>7. \A i \in 1..m : i \in 1..m + 1
  OBVIOUS
<1>8. \A i \in 1..m : adb[i] = a[i]
  BY <1>3, <1>4, <1>5, <1>6, <1>7
<1>9. adb[m + 1] = ","
  <2>1. m + 1 \in 1..m + 1
    OBVIOUS
  <2> QED BY <1>2, <1>3, <1>4, <1>5, <1>6, <2>1
<1>11. adb = Appended(a, b)
  BY <1>2, <1>3, <1>6 DEF Appended
<1>12. Len(adb) = m + 1 + l /\ \A i \in 1..l : adb[m + 1 + i] = b[i]
  BY <1>5, <1>6, <1>10
<1> QED BY <1>4, <1>8, <1>9, <1>10, <1>11, <1>12

\* The strings in slots 1 to m.
Texts(k, m) == \A i \in 1..m : k[i] \in Seq(Char)

\* The texts that __2str() goes through.
Grown(k, g, i) == IF i = 1 THEN k[1] ELSE Appended(g[i - 1], k[i])
\* Every text is the one before, a delimiter and a string.
Growing(k, c, g) ==
  [i \in 0..c |-> IF i < 1 \/ i = c THEN <<>> ELSE Grown(k, g, i)]

\* There are such texts,
LEMMA TextsGrow ==
  ASSUME NEW k, NEW p \in Nat, Texts(k, p)
  PROVE  \E g \in [0..p -> Seq(Char)] :
           g[0] = <<>> /\ \A i \in 1..p : g[i] = Grown(k, g, i)
<1> DEFINE Upto(m) == {g \in [0..m -> Seq(Char)] :
                         g[0] = <<>> /\ \A i \in 1..m : g[i] = Grown(k, g, i)}
           Some == {m \in Nat : m <= p => Upto(m) # {}}
<1>1. ASSUME NEW m \in Nat, \A l \in 0..m - 1 : l \in Some PROVE m \in Some
  <2>1. CASE m = 0
    <3>1. PICK g : g = [i \in 0..0 |-> <<>>]
      OBVIOUS
    <3>2. g \in [0..0 -> Seq(Char)] /\ g[0] = <<>> /\ 1..0 = {}
      BY <3>1
    <3>3. g \in Upto(0)
      BY <3>2
    <3> QED BY <2>1, <3>3
  <2>2. CASE m # 0 /\ m <= p
    <3>1. m - 1 \in Nat /\ m - 1 \in 0..m - 1 /\ m - 1 <= p /\ m \in 1..p
          /\ \A i \in 0..m : i = m \/ i \in 0..m - 1
      BY <2>2
    <3>2. m - 1 \in Some
      BY <1>1, <3>1
    <3>3. PICK h \in Upto(m - 1) : TRUE
      BY <3>1, <3>2
    <3>4. PICK last : last = Grown(k, h, m)
      OBVIOUS
    <3>5. last \in Seq(Char)
      <4>1. k[m] \in Seq(Char)
        BY <3>1 DEF Texts
      <4>2. h[m - 1] \in Seq(Char)
        BY <3>1, <3>3
      <4>3. Appended(h[m - 1], k[m]) \in Seq(Char)
        BY <4>1, <4>2, AppendedIs
      <4> QED BY <3>4, <4>1, <4>3 DEF Grown
    <3>6. PICK g : g = [i \in 0..m |-> IF i = m THEN last ELSE h[i]]
      OBVIOUS
    <3>7. g \in [0..m -> Seq(Char)]
      <4>1. ASSUME NEW i \in 0..m
            PROVE  (IF i = m THEN last ELSE h[i]) \in Seq(Char)
        <5>1. i = m \/ i \in 0..m - 1
          BY <3>1
        <5> QED BY <3>3, <3>5, <5>1
      <4> QED BY <3>6, <4>1
    <3>8. g[m] = last /\ \A i \in 0..m - 1 : g[i] = h[i]
      <4>1. m \in 0..m /\ \A i \in 0..m - 1 : i \in 0..m /\ i # m
        OBVIOUS
      <4> QED BY <3>6, <4>1
    <3>9. g[0] = <<>>
      <4>1. 0 \in 0..m - 1
        BY <3>1
      <4> QED BY <3>3, <3>8, <4>1
    <3>10. ASSUME NEW i \in 1..m PROVE g[i] = Grown(k, g, i)
      <4>1. i - 1 \in 0..m - 1
        OBVIOUS
      <4>2. Grown(k, g, i) = Grown(k, h, i)
        BY <3>8, <4>1 DEF Grown
      <4>3. CASE i = m
        BY <3>4, <3>8, <4>2, <4>3
      <4>4. CASE i # m
        <5>1. i \in 1..m - 1 /\ i \in 0..m - 1
          BY <4>4
        <5>2. h[i] = Grown(k, h, i)
          BY <3>3, <5>1
        <5> QED BY <3>8, <4>2, <5>1, <5>2
      <4> QED BY <4>3, <4>4
    <3>11. g \in Upto(m)
      BY <3>7, <3>9, <3>10
    <3> QED BY <3>11
  <2>3. CASE ~(m <= p)
    BY <2>3
  <2> QED BY <2>1, <2>2, <2>3
<1>2. p \in Some
  <2>1. Some \in SUBSET Nat
    OBVIOUS
  <2> HIDE DEF Some
  <2> QED BY <1>1, <2>1, Induction
<1>3. p <= p
  OBVIOUS
<1>4. Upto(p) # {}
  BY <1>2, <1>3
<1> QED BY <1>4

\* so that the recursion of __2str() has a solution.
LEMMA GrowingIs ==
  ASSUME NEW k, NEW p \in Nat, Texts(k, p)
  PROVE  \E g : g = Growing(k, p + 1, g)
<1>1. PICK h \in [0..p -> Seq(Char)] :
        h[0] = <<>> /\ \A i \in 1..p : h[i] = Grown(k, h, i)
  BY TextsGrow
<1>2. PICK c \in Nat : c = p + 1
  OBVIOUS
<1>3. PICK f : f = [i \in 0..c |-> IF i = c THEN <<>> ELSE h[i]]
  OBVIOUS
<1>4. \A i \in 0..p : f[i] = h[i]
  <2>1. \A i \in 0..p : i \in 0..c /\ i # c
    BY <1>2
  <2> QED BY <1>3, <2>1
<1>5. ASSUME NEW i \in 0..c
      PROVE  f[i] = IF i < 1 \/ i = c THEN <<>> ELSE Grown(k, f, i)
  <2>1. CASE i = c
    BY <1>3, <2>1
  <2>2. CASE i = 0
    <3>1. 0 \in 0..p /\ i < 1
      BY <2>2
    <3> QED BY <1>1, <1>4, <2>2, <3>1
  <2>3. CASE i # c /\ i # 0
    <3>1. i \in 1..p /\ ~(i < 1) /\ i - 1 \in 0..p /\ i \in 0..p
      BY <1>2, <2>3
    <3>2. Grown(k, f, i) = Grown(k, h, i)
      BY <1>4, <3>1 DEF Grown
    <3> QED BY <1>1, <1>4, <2>3, <3>1, <3>2
  <2> QED BY <2>1, <2>2, <2>3
<1>6. f = [i \in 0..c |-> f[i]]
  BY <1>3
<1>7. f = Growing(k, c, f)
  BY <1>5, <1>6 DEF Growing
<1> QED BY <1>2, <1>7

\* What it is after every string.
LEMMA Grows ==
  ASSUME NEW k, NEW p \in Nat, Texts(k, p), NEW t, t = Growing(k, p + 1, t)
  PROVE  \A i \in 1..p : t[i] \in Seq(Char) /\ t[i] = Grown(k, t, i)
<1>1. PICK c \in Nat : c = p + 1
  OBVIOUS
<1>2. ASSUME NEW i \in 1..p PROVE t[i] = Grown(k, t, i)
  <2>1. i \in 0..c /\ ~(i < 1) /\ i # c
    BY <1>1
  <2>2. t = Growing(k, c, t)
    BY <1>1
  <2>3. Growing(k, c, t)[i] = Grown(k, t, i)
    BY <2>1 DEF Growing
  <2> QED BY <2>2, <2>3
<1> DEFINE Text == {i \in Nat : i \in 1..p => t[i] \in Seq(Char)}
<1>3. ASSUME NEW i \in Nat, \A l \in 0..i - 1 : l \in Text PROVE i \in Text
  <2>1. CASE i \in 1..p /\ i = 1
    <3>1. t[i] = k[1] /\ k[1] \in Seq(Char)
      BY <1>2, <2>1 DEF Grown, Texts
    <3> QED BY <3>1
  <2>2. CASE i \in 1..p /\ i # 1
    <3>1. i - 1 \in 0..i - 1 /\ i - 1 \in 1..p
      BY <2>2
    <3>2. t[i - 1] \in Seq(Char)
      BY <1>3, <3>1
    <3>3. k[i] \in Seq(Char)
      BY <2>2 DEF Texts
    <3>4. t[i] = Appended(t[i - 1], k[i])
      BY <1>2, <2>2 DEF Grown
    <3>5. t[i] \in Seq(Char)
      BY <3>2, <3>3, <3>4, AppendedIs
    <3> QED BY <3>5
  <2>3. CASE i \notin 1..p
    BY <2>3
  <2> QED BY <2>1, <2>2, <2>3
<1>4. \A i \in Nat : i \in Text
  <2>1. Text \in SUBSET Nat
    OBVIOUS
  <2> HIDE DEF Text
  <2> QED BY <1>3, <2>1, Induction
<1>5. \A i \in 1..p : t[i] \in Seq(Char)
  BY <1>4
<1> QED BY <1>2, <1>5

\* What __2str() writes: the strings one after the other, a ',' between them.
LEMMA JoinedIs ==
  ASSUME NEW k, NEW p \in Nat, Texts(k, p), Count(k) = p + 1, p > 0
  PROVE  \E t : /\ Joined(k, 1) = t[p]
                /\ \A i \in 1..p : t[i] \in Seq(Char) /\ t[i] = Grown(k, t, i)
<1>1. PICK c \in Nat : c = p + 1 /\ c - 1 = p /\ c = Count(k)
  OBVIOUS
<1> DEFINE Rec(g) ==
      [i \in (1 - 1)..Count(k) |->
         IF i < 1 \/ i = Count(k) THEN <<>>
         ELSE IF i = 1 THEN k[i] ELSE g[i - 1] \o <<",">> \o k[i]]
<1>2. PICK t : t = CHOOSE g : g = Rec(g)
  OBVIOUS
<1>3. Joined(k, 1) = t[p]
  <2>1. Joined(k, 1) = t[Count(k) - 1]
    BY <1>2 DEF Joined
  <2> QED BY <1>1, <2>1
<1>4. ASSUME NEW g PROVE Rec(g) = Growing(k, c, g)
  <2>1. PICK lo : lo = 1 - 1 /\ lo = 0
    OBVIOUS
  <2>2. Rec(g) = [i \in 0..c |->
         IF i < 1 \/ i = c THEN <<>>
         ELSE IF i = 1 THEN k[i] ELSE g[i - 1] \o <<",">> \o k[i]]
    BY <1>1, <2>1
  <2>3. ASSUME NEW i \in 0..c
        PROVE  (IF i = 1 THEN k[i] ELSE g[i - 1] \o <<",">> \o k[i]) = Grown(k, g, i)
    BY DEF Grown, Appended
  <2> HIDE DEF Rec
  <2> QED BY <2>2, <2>3 DEF Growing
<1> HIDE DEF Rec
<1>5. t = Growing(k, c, t)
  <2>1. \E g : g = Growing(k, c, g)
    BY <1>1, GrowingIs
  <2>2. \E g : g = Rec(g)
    BY <1>4, <2>1
  <2>3. t = Rec(t)
    BY <1>2, <2>2
  <2> QED BY <1>4, <2>3
<1>6. \A i \in 1..p : t[i] \in Seq(Char) /\ t[i] = Grown(k, t, i)
  BY <1>1, <1>5, Grows
<1> QED BY <1>3, <1>6

-----------------------------------------------------------------------------
(***************************************************************************)
(* Ranges.                                                                 *)
(***************************************************************************)

\* The steps a line goes through.
Pcs == {"comments", "scan", "ignored", "values", "sanitize", "parsed",
        "shifted", "remove", "absent", "list", "collapse", "array"}
\* Slots hold strings, the null pointer or what malloc() left.
AllSlots(k) == \A i \in DOMAIN k : k[i] \in Slots \cup {Garbage}

\* The slots in front of f_delim were written, arrcollapse() has the end before it.
TypeInv ==
  /\ pc \in Pcs /\ valptr \in Nat /\ list \in Slots
  /\ AllSlots(kv)
  /\ ~BeforeKey => \A i \in 0..f_delim - 1 : kv[i] \in Slots
  /\ \A i \in DOMAIN array : array[i] \in Slots
  /\ pc = "list" => list \in Seq(Char)
  /\ pc = "collapse" =>
       \E n \in Nat : /\ DOMAIN array = 0..n /\ array[n] = Null
                      /\ index[1] \in 0..n /\ index[2] \in 0..index[1]

\* At the start nothing is allocated.
LEMMA TypeInit == Init => TypeInv
<1> SUFFICES ASSUME Init PROVE TypeInv
  OBVIOUS
<1>1. pc = "comments" /\ valptr = 0 /\ list = Null /\ kv = Empty /\ array = Empty
  BY DEF Init
<1>2. DOMAIN Empty = {}
  BY DEF Empty
<1> QED BY <1>1, <1>2 DEF TypeInv, Pcs, BeforeKey, AllSlots, Slots

\* What Bounds and Parser say of the rest.
LEMMA TypeImplies == TypeInv /\ BoundsInv /\ ParserInv => TypeOK
<1> SUFFICES ASSUME TypeInv, BoundsInv, ParserInv PROVE TypeOK
  OBVIOUS
<1>1. {f_delim, used, room} \subseteq Nat
  <2>1. CASE BeforeKey
    BY <2>1 DEF BoundsInv
  <2>2. CASE ~BeforeKey
    <3>1. Filled /\ Len(line) \in Nat
      BY <2>2, LineIs DEF BoundsInv
    <3>2. f_delim \in Nat
      BY <3>1 DEF Filled
    <3>3. room \in Nat
      BY <3>1 DEF Filled
    <3>4. used \in Nat
      BY <3>1 DEF Filled
    <3> QED BY <3>2, <3>3, <3>4
  <2> QED BY <2>1, <2>2
<1>2. index[1] \in Nat /\ index[2] \in Nat
  BY DEF BoundsInv
<1>3. line \in Seq(Char) /\ given \in Seq(Char)
  BY DEF BoundsInv, ParserInv
<1> QED BY <1>1, <1>2, <1>3 DEF TypeInv, TypeOK, Pcs, AllSlots

\* In front of the null pointer there are strings.
LEMMA StringsFirst ==
  ASSUME TypeInv, BoundsInv, ~BeforeKey, pc # "values"
  PROVE  /\ Count(kv) \in Nat /\ Count(kv) <= f_delim - 1 /\ f_delim \in Nat
         /\ \A i \in 0..Count(kv) - 1 : kv[i] \in Seq(Char)
<1>1. Filled /\ Delimiters \in Nat
  BY Numbers DEF BoundsInv
<1>2. PICK m \in Nat : DOMAIN kv = 0..m
  <2>1. PICK d \in Nat : d = Delimiters
    BY <1>1
  <2>2. DOMAIN kv = 0..d + 2 /\ d + 2 \in Nat
    BY <1>1, <2>1 DEF Filled
  <2> QED BY <2>2
<1>3. f_delim \in Nat
  BY <1>1 DEF Filled
<1>4. PICK c \in 0..m : c = Count(kv) /\ c <= f_delim - 1
  BY <1>1, <1>2, EndFound
<1> DEFINE nulls == {n \in DOMAIN kv : kv[n] = Null}
<1>5. \A y \in nulls : c <= y
  <2>1. nulls \in SUBSET (0..m) /\ f_delim - 1 \in nulls
    BY <1>1, <1>2, EndFound
  <2>2. c = Min(nulls)
    BY <1>4 DEF Count
  <2> HIDE DEF nulls
  <2>3. 0 \in Int /\ m \in Int /\ nulls # {}
    BY <2>1
  <2>4. Min(nulls) \in nulls /\ \A y \in nulls : Min(nulls) <= y
    BY <2>1, <2>3, Least
  <2> QED BY <2>2, <2>4
<1>6. ASSUME NEW i \in 0..c - 1 PROVE kv[i] \in Seq(Char)
  <2>1. i \in 0..f_delim - 1 /\ i \in 0..m /\ ~(c <= i)
    BY <1>3, <1>4
  <2>2. kv[i] \in Slots
    BY <2>1 DEF TypeInv
  <2>3. i \notin nulls
    BY <1>5, <2>1
  <2>4. kv[i] # Null
    BY <1>2, <2>1, <2>3
  <2> QED BY <2>2, <2>4 DEF Slots
<1> QED BY <1>3, <1>4, <1>6

\* The step of the key.
LEMMA KeyTyped == TypeInv /\ BoundsInv /\ ParserInv /\ StoreKey => TypeInv'
<1> SUFFICES ASSUME TypeInv, BoundsInv, ParserInv, StoreKey PROVE TypeInv'
  OBVIOUS
<1>1. line \in Seq(Char) /\ pc' = "values" /\ f_delim' = 1
      /\ list' = list /\ array' = array
  BY LineIs DEF StoreKey, lists
<1>2. PICK n \in Nat : n = Len(line)
  BY <1>1, SeqHas
<1>3. PICK d \in Nat : d = Cardinality(Active(line, ","))
  BY <1>1, ActiveInLine
<1>4. PICK e \in 1..n :
        /\ kv' = [i \in 0..d + 2 |-> IF i = 0 THEN Trimmed(line, 1, e - 1) ELSE Garbage]
        /\ valptr' = e + 1
  <2>1. \A e \in Active(line, "=") : e \in 1..n
    BY <1>1, <1>2, ActiveInLine
  <2> QED BY <1>3, <2>1 DEF StoreKey
<1>5. Trimmed(line, 1, e - 1) \in Slots
  <2>1. 1 \in Int /\ e - 1 \in Int /\ 1 <= 1 /\ e - 1 <= Len(line)
    BY <1>2
  <2>2. Trimmed(line, 1, e - 1) \in Seq(Char)
    BY <1>1, <2>1, TrimmedIs
  <2> QED BY <2>2 DEF Slots
<1>6. AllSlots(kv')
  BY <1>4, <1>5 DEF AllSlots
<1>7. \A i \in 0..f_delim' - 1 : kv'[i] \in Slots
  <2>1. 0 \in 0..d + 2
    OBVIOUS
  <2>2. kv'[0] \in Slots
    BY <1>4, <1>5, <2>1
  <2>3. \A i \in 0..1 - 1 : i = 0
    OBVIOUS
  <2> QED BY <1>1, <2>2, <2>3
<1>8. valptr' \in Nat
  BY <1>4
<1>9. list' \in Slots /\ \A i \in DOMAIN array' : array'[i] \in Slots
  BY <1>1 DEF TypeInv
<1> QED BY <1>1, <1>6, <1>7, <1>8, <1>9 DEF TypeInv, Pcs

\* The step of a value.
LEMMA ValueTyped == TypeInv /\ BoundsInv /\ ParserInv /\ StoreValue => TypeInv'
<1> SUFFICES ASSUME TypeInv, BoundsInv, ParserInv, StoreValue PROVE TypeInv'
  OBVIOUS
<1>1. line \in Seq(Char) /\ pc = "values" /\ pc' = "values" /\ f_delim' = f_delim + 1
      /\ list' = list /\ array' = array
  BY LineIs DEF StoreValue, lists
<1>2. PICK n \in Nat : n = Len(line)
  BY <1>1, SeqHas
<1>3. Filled /\ Delimiters \in Nat
  BY <1>1, Numbers DEF BoundsInv, BeforeKey
<1>4. PICK v \in 1..n + 1 : v = valptr
  BY <1>2, <1>3 DEF StoreValue, Filled
<1>5. EndsFrom(line, v) # {} /\ Ends(line) = EndsFrom(line, v)
  <2>1. ~(valptr > Len(line) + 1)
    BY <1>2, <1>4
  <2>2. Ends(line) = EndsFrom(line, valptr)
    BY <2>1 DEF Ends, EndsFrom
  <2> QED BY <1>4, <2>2 DEF StoreValue
<1>6. PICK end \in v..n + 1 : end = Min(EndsFrom(line, v))
  BY <1>1, <1>2, <1>4, <1>5, OneEndLess
<1>7. /\ kv' = [kv EXCEPT ![f_delim] = Trimmed(line, v, end - 1)]
      /\ valptr' = end + 1
  BY <1>4, <1>5, <1>6 DEF StoreValue
<1>8. Trimmed(line, v, end - 1) \in Slots
  <2>1. v \in Int /\ end - 1 \in Int /\ 1 <= v /\ end - 1 <= Len(line)
    BY <1>2
  <2>2. Trimmed(line, v, end - 1) \in Seq(Char)
    BY <1>1, <2>1, TrimmedIs
  <2> QED BY <2>2 DEF Slots
<1>9. AllSlots(kv')
  BY <1>7, <1>8 DEF AllSlots, TypeInv
<1>10. \A i \in 0..f_delim' - 1 : kv'[i] \in Slots
  <2>1. PICK d \in Nat : d = Delimiters
    BY <1>3
  <2>2. PICK j \in 1..d + 3 : j = f_delim
    BY <1>3, <2>1 DEF Filled
  <2>3. DOMAIN kv = 0..d + 2 /\ j + Remaining <= d + 2
    BY <1>1, <1>3, <2>1, <2>2 DEF Filled
  <2>4. Remaining \in Nat
    <3>1. valptr \in Int
      BY <1>4
    <3> QED BY <3>1, Numbers
  <2>5. j \in 0..d + 2
    BY <2>3, <2>4
  <2>6. \A i \in 0..j - 1 : kv[i] \in Slots
    BY <1>1, <2>2 DEF TypeInv, BeforeKey
  <2>7. \A i \in 0..j : i = j \/ i \in 0..j - 1
    OBVIOUS
  <2>8. kv'[j] \in Slots
    BY <1>7, <1>8, <2>2, <2>3, <2>5
  <2>9. ASSUME NEW i \in 0..j - 1 PROVE kv'[i] \in Slots
    <3>1. i \in 0..d + 2 /\ i # j
      BY <2>5
    <3> QED BY <1>7, <2>2, <2>3, <2>6, <3>1
  <2>10. f_delim' - 1 = j
    BY <1>1, <2>2
  <2> QED BY <2>7, <2>8, <2>9, <2>10
<1>11. valptr' \in Nat
  BY <1>7
<1>12. list' \in Slots /\ \A i \in DOMAIN array' : array'[i] \in Slots
  BY <1>1 DEF TypeInv
<1> QED BY <1>1, <1>9, <1>10, <1>11, <1>12 DEF TypeInv, Pcs

\* The step of the null pointer.
LEMMA EndTyped == TypeInv /\ BoundsInv /\ ParserInv /\ EndValues => TypeInv'
<1> SUFFICES ASSUME TypeInv, BoundsInv, ParserInv, EndValues PROVE TypeInv'
  OBVIOUS
<1>1. pc = "values" /\ pc' = "sanitize" /\ f_delim' = f_delim + 1 /\ valptr' = valptr
      /\ list' = list /\ array' = array /\ kv' = [kv EXCEPT ![f_delim] = Null]
  BY DEF EndValues, lists
<1>2. Null \in Slots
  BY DEF Slots
<1>3. AllSlots(kv')
  BY <1>1, <1>2 DEF AllSlots, TypeInv
<1>4. Filled /\ Delimiters \in Nat
  BY <1>1, Numbers DEF BoundsInv, BeforeKey
<1>5. PICK d \in Nat : d = Delimiters
  BY <1>4
<1>6. PICK j \in 1..d + 3 : j = f_delim
  BY <1>4, <1>5 DEF Filled
<1>7. DOMAIN kv = 0..d + 2
  BY <1>4, <1>5 DEF Filled
<1>8. \A i \in 0..f_delim' - 1 : kv'[i] \in Slots
  <2>1. ASSUME NEW i \in 0..j PROVE kv'[i] \in Slots
    <3>1. CASE i = j
      <4>1. j \in 0..d + 2
        <5>1. j + Remaining <= d + 2
          BY <1>1, <1>4, <1>5, <1>6 DEF Filled
        <5>2. Remaining \in Nat
          <6>1. valptr \in Int
            BY DEF TypeInv
          <6> QED BY <6>1, Numbers
        <5> QED BY <5>1, <5>2
      <4> QED BY <1>1, <1>2, <1>6, <1>7, <3>1, <4>1
    <3>2. CASE i # j
      <4>1. i \in 0..j - 1 /\ i \in 0..d + 2
        BY <3>2
      <4>2. kv[i] \in Slots
        BY <1>1, <1>6, <4>1 DEF TypeInv, BeforeKey
      <4> QED BY <1>1, <1>6, <1>7, <3>2, <4>1, <4>2
    <3> QED BY <3>1, <3>2
  <2>2. f_delim' - 1 = j
    BY <1>1, <1>6
  <2> QED BY <2>1, <2>2
<1>9. list' \in Slots /\ (\A i \in DOMAIN array' : array'[i] \in Slots) /\ valptr' \in Nat
  BY <1>1 DEF TypeInv
<1> QED BY <1>1, <1>3, <1>8, <1>9 DEF TypeInv, Pcs

\* A step behind the parser that changes strings of the list, but no slot more.
LEMMA ListTyped ==
  ASSUME TypeInv, f_delim' = f_delim, valptr' = valptr, list' = list, array' = array,
         ~BeforeKey, pc' \in Pcs, pc' \notin {"list", "collapse"},
         AllSlots(kv'), \A i \in 0..f_delim - 1 : kv'[i] \in Slots
  PROVE  TypeInv'
<1>1. /\ list' \in Slots /\ \A i \in DOMAIN array' : array'[i] \in Slots
      /\ valptr' \in Nat
  BY DEF TypeInv
<1>2. \A i \in 0..f_delim' - 1 : kv'[i] \in Slots
  OBVIOUS
<1> QED BY <1>1, <1>2 DEF TypeInv

\* The strings stay strings when they are sanitized,
LEMMA SanitizeTyped == TypeInv /\ BoundsInv /\ Sanitize => TypeInv'
<1> SUFFICES ASSUME TypeInv, BoundsInv, Sanitize PROVE TypeInv'
  OBVIOUS
<1>1. /\ pc = "sanitize" /\ pc' = "parsed" /\ f_delim' = f_delim /\ valptr' = valptr
      /\ list' = list /\ array' = array
      /\ kv' = [i \in DOMAIN kv |-> IF i < Count(kv) THEN Sanitized(kv[i]) ELSE kv[i]]
  BY DEF Sanitize, lists
<1>2. PICK c \in Nat : c = Count(kv)
  BY <1>1, StringsFirst DEF BeforeKey
<1>3. \A i \in 0..c - 1 : kv[i] \in Seq(Char)
  BY <1>1, <1>2, StringsFirst DEF BeforeKey
<1>4. Filled /\ Delimiters \in Nat
  BY <1>1, Numbers DEF BoundsInv, BeforeKey
<1>5. PICK d \in Nat : d = Delimiters
  BY <1>4
<1>6. DOMAIN kv = 0..d + 2 /\ f_delim \in 1..d + 3
  BY <1>4, <1>5 DEF Filled
<1>7. ASSUME NEW i \in 0..d + 2 PROVE kv'[i] = kv[i] \/ kv'[i] \in Slots
  <2>1. CASE i < c
    <3>1. i \in 0..c - 1
      BY <2>1
    <3>2. Sanitized(kv[i]) \in Seq(Char)
      BY <1>3, <3>1, SanitizedIs
    <3>3. kv'[i] = Sanitized(kv[i])
      BY <1>1, <1>2, <1>6, <2>1
    <3> QED BY <3>2, <3>3 DEF Slots
  <2>2. CASE ~(i < c)
    BY <1>1, <1>2, <1>6, <2>2
  <2> QED BY <2>1, <2>2
<1>8. AllSlots(kv')
  <2>1. DOMAIN kv' = 0..d + 2
    BY <1>1, <1>6
  <2> QED BY <1>6, <1>7, <2>1 DEF TypeInv, AllSlots
<1>9. \A i \in 0..f_delim - 1 : kv'[i] \in Slots
  <2>1. \A i \in 0..f_delim - 1 : i \in 0..d + 2
    BY <1>6
  <2>2. \A i \in 0..f_delim - 1 : kv[i] \in Slots
    BY <1>1 DEF TypeInv, BeforeKey
  <2> QED BY <1>7, <2>1, <2>2
<1> QED BY <1>1, <1>8, <1>9, ListTyped DEF BeforeKey, Pcs

\* when they move down a slot,
LEMMA ShiftTyped == TypeInv /\ BoundsInv /\ keyval2array => TypeInv'
<1> SUFFICES ASSUME TypeInv, BoundsInv, keyval2array PROVE TypeInv'
  OBVIOUS
<1>1. /\ pc = "parsed" /\ pc' = "shifted" /\ f_delim' = f_delim /\ valptr' = valptr
      /\ list' = list /\ array' = array
      /\ kv' = [i \in DOMAIN kv |-> IF i + 1 < Count(kv) THEN kv[i + 1] ELSE kv[i]]
  BY DEF keyval2array, lists
<1>2. PICK c \in Nat : c = Count(kv)
  BY <1>1, StringsFirst DEF BeforeKey
<1>3. \A i \in 0..c - 1 : kv[i] \in Seq(Char)
  BY <1>1, <1>2, StringsFirst DEF BeforeKey
<1>4. Filled /\ Delimiters \in Nat
  BY <1>1, Numbers DEF BoundsInv, BeforeKey
<1>5. PICK d \in Nat : d = Delimiters
  BY <1>4
<1>6. DOMAIN kv = 0..d + 2 /\ f_delim \in 1..d + 3
  BY <1>4, <1>5 DEF Filled
<1>7. ASSUME NEW i \in 0..d + 2 PROVE kv'[i] = kv[i] \/ kv'[i] \in Slots
  <2>1. CASE i + 1 < c
    <3>1. i + 1 \in 0..c - 1
      BY <2>1
    <3>2. kv[i + 1] \in Seq(Char)
      BY <1>3, <3>1
    <3>3. kv'[i] = kv[i + 1]
      BY <1>1, <1>2, <1>6, <2>1
    <3> QED BY <3>2, <3>3 DEF Slots
  <2>2. CASE ~(i + 1 < c)
    BY <1>1, <1>2, <1>6, <2>2
  <2> QED BY <2>1, <2>2
<1>8. AllSlots(kv')
  <2>1. DOMAIN kv' = 0..d + 2
    BY <1>1, <1>6
  <2> QED BY <1>6, <1>7, <2>1 DEF TypeInv, AllSlots
<1>9. \A i \in 0..f_delim - 1 : kv'[i] \in Slots
  <2>1. \A i \in 0..f_delim - 1 : i \in 0..d + 2
    BY <1>6
  <2>2. \A i \in 0..f_delim - 1 : kv[i] \in Slots
    BY <1>1 DEF TypeInv, BeforeKey
  <2> QED BY <1>7, <2>1, <2>2
<1> QED BY <1>1, <1>8, <1>9, ListTyped DEF BeforeKey, Pcs

\* One turn of a loop that closes gaps puts nothing new into the list.
LEMMA MovedFrom ==
  ASSUME NEW k, NEW v \in DOMAIN k, NEW w, NEW i \in DOMAIN k
  PROVE  Moved(k, v, w)[i] \in {k[i], k[v], Null}
BY DEF Moved

\* and when the empty ones are removed.
LEMMA RemoveTyped == TypeInv /\ BoundsInv /\ keyval_remove_empty_values => TypeInv'
<1> SUFFICES ASSUME TypeInv, BoundsInv, keyval_remove_empty_values PROVE TypeInv'
  OBVIOUS
<1>1. /\ pc = "remove" /\ pc' = "remove" /\ f_delim' = f_delim /\ valptr' = valptr
      /\ list' = list /\ array' = array
      /\ kv' = Moved(kv, index[1], index[2])
  BY DEF keyval_remove_empty_values, lists
<1>2. Filled /\ Delimiters \in Nat
  BY <1>1, Numbers DEF BoundsInv, BeforeKey
<1>3. PICK d \in Nat : d = Delimiters
  BY <1>2
<1>4. PICK j \in 1..d + 3 : j = f_delim
  BY <1>2, <1>3 DEF Filled
<1>5. PICK v \in Nat, w \in Nat : index[1] = v /\ index[2] = w
  BY DEF BoundsInv
<1>6. w \in 1..v /\ v <= j - 1
  BY <1>1, <1>2, <1>4, <1>5 DEF Filled
<1>7. DOMAIN kv = 0..d + 2
  BY <1>2, <1>3 DEF Filled
<1>8. \A i \in 0..j - 1 : kv[i] \in Slots
  BY <1>1, <1>4 DEF TypeInv, BeforeKey
<1>9. v \in DOMAIN kv /\ v \in 0..j - 1
  BY <1>6, <1>7
<1>10. kv' = Moved(kv, v, w) /\ DOMAIN kv' = DOMAIN kv
  BY <1>1, <1>5, MovedDomain
<1>11. ASSUME NEW i \in DOMAIN kv PROVE kv'[i] = kv[i] \/ kv'[i] \in Slots
  <2>1. kv'[i] \in {kv[i], kv[v], Null}
    BY <1>9, <1>10, MovedFrom
  <2>2. kv[v] \in Slots
    BY <1>8, <1>9
  <2> QED BY <2>1, <2>2 DEF Slots
<1>12. AllSlots(kv')
  BY <1>10, <1>11 DEF TypeInv, AllSlots
<1>13. \A i \in 0..f_delim - 1 : kv'[i] \in Slots
  <2>1. \A i \in 0..j - 1 : i \in 0..d + 2
    OBVIOUS
  <2> QED BY <1>4, <1>7, <1>8, <1>11, <2>1
<1> QED BY <1>1, <1>12, <1>13, ListTyped DEF BeforeKey, Pcs

\* The list of values is a string,
LEMMA JoinTyped == TypeInv /\ BoundsInv /\ keyval2valstr => TypeInv'
<1> SUFFICES ASSUME TypeInv, BoundsInv, keyval2valstr PROVE TypeInv'
  OBVIOUS
<1>1. /\ pc = "remove" /\ pc' = "list" /\ list' = Joined(kv, 1) /\ array' = array
      /\ kv' = kv /\ f_delim' = f_delim /\ valptr' = valptr /\ Count(kv) - 1 > 0
  BY DEF keyval2valstr, buffer, keyval_nvalues
<1>2. PICK c \in Nat : c = Count(kv) /\ \A i \in 0..c - 1 : kv[i] \in Seq(Char)
  BY <1>1, StringsFirst DEF BeforeKey
<1>3. PICK p \in Nat : p = c - 1 /\ p > 0 /\ Count(kv) = p + 1
  BY <1>1, <1>2
<1>4. Texts(kv, p)
  <2>1. \A i \in 1..p : i \in 0..c - 1
    BY <1>3
  <2> QED BY <1>2, <2>1 DEF Texts
<1>5. list' \in Seq(Char)
  <2>1. PICK t : Joined(kv, 1) = t[p] /\ \A i \in 1..p : t[i] \in Seq(Char)
    BY <1>3, <1>4, JoinedIs
  <2>2. p \in 1..p
    BY <1>3
  <2> QED BY <1>1, <2>1, <2>2
<1>6. list' \in Slots
  BY <1>5 DEF Slots
<1>7. ~BeforeKey /\ ~BeforeKey'
  BY <1>1 DEF BeforeKey
<1>8. AllSlots(kv') /\ (\A i \in 0..f_delim' - 1 : kv'[i] \in Slots)
      /\ valptr' \in Nat /\ \A i \in DOMAIN array' : array'[i] \in Slots
  BY <1>1, <1>7 DEF TypeInv
<1> QED BY <1>1, <1>5, <1>6, <1>8 DEF TypeInv, Pcs

\* The delimiters of a list, and what lies between them.
LEMMA CutsAre ==
  ASSUME NEW s \in Seq(Char), NEW n, n = Cardinality(Cuts(s)) - 1
  PROVE  /\ n \in Nat
         /\ \A i \in 0..n - 1 :
              Trimmed(s, Nth(Cuts(s), i + 1) + 1, Nth(Cuts(s), i + 2) - 1) \in Seq(Char)
<1>1. PICK l \in Nat : l = Len(s) /\ DOMAIN s = 1..l
  BY SeqHas
<1>2. PICK m \in Nat : m = l + 1
  OBVIOUS
<1>3. PICK C \in SUBSET (0..m) : C = Cuts(s) /\ 0 \in C
  <2>1. Cuts(s) = {i \in 1..l : s[i] = ","} \cup {0, m}
    BY <1>1, <1>2 DEF Cuts
  <2>2. \A i \in 1..l : i \in 0..m
    BY <1>2
  <2>3. 0 \in 0..m /\ m \in 0..m
    OBVIOUS
  <2> QED BY <2>1, <2>2, <2>3
<1>4. PICK c \in Nat : c = Cardinality(C) /\ c > 0
  <2>1. IsFiniteSet(C) /\ Cardinality(C) \in Nat
    BY FiniteCount
  <2>2. Cardinality(C) # 0
    BY <1>3, <2>1, FS_EmptySet
  <2> QED BY <2>1, <2>2
<1>5. n = c - 1 /\ n \in Nat
  BY <1>3, <1>4
<1>6. \A k \in 1..c : Nth(C, k) \in 0..m
  BY <1>4, NthOf
<1>7. ASSUME NEW i \in 0..c - 2
      PROVE  Trimmed(s, Nth(C, i + 1) + 1, Nth(C, i + 2) - 1) \in Seq(Char)
  <2>1. PICK j \in 1..c : j = i + 1
    OBVIOUS
  <2>2. PICK k \in 1..c : k = i + 2
    OBVIOUS
  <2>3. PICK x \in 0..m : x = Nth(C, j)
    BY <1>6
  <2>4. PICK y \in 0..m : y = Nth(C, k)
    BY <1>6
  <2>5. x + 1 \in Int /\ y - 1 \in Int /\ 1 <= x + 1 /\ y - 1 <= Len(s)
    BY <1>1, <1>2
  <2>6. Trimmed(s, x + 1, y - 1) \in Seq(Char)
    BY <2>5, TrimmedIs
  <2> QED BY <2>1, <2>2, <2>3, <2>4, <2>6
<1>8. ASSUME NEW i \in 0..n - 1 PROVE i \in 0..c - 2
  BY <1>5
<1> QED BY <1>3, <1>5, <1>7, <1>8

\* and what str2arr() makes of it are strings and an end,
LEMMA ArrayTyped == TypeInv /\ str2arr => TypeInv'
<1> SUFFICES ASSUME TypeInv, str2arr PROVE TypeInv'
  OBVIOUS
<1>1. PICK n : n = Cardinality(Cuts(list)) - 1
  OBVIOUS
<1>2. /\ pc = "list" /\ pc' = "collapse" /\ list' = list /\ index' = <<0, 0>>
      /\ kv' = kv /\ f_delim' = f_delim /\ valptr' = valptr
      /\ array' = [i \in 0..n |-> IF i = n THEN Null
           ELSE Trimmed(list, Nth(Cuts(list), i + 1) + 1, Nth(Cuts(list), i + 2) - 1)]
  BY <1>1 DEF str2arr, buffer
<1>3. list \in Seq(Char)
  BY <1>2 DEF TypeInv
<1>4. n \in Nat /\ \A i \in 0..n - 1 :
        Trimmed(list, Nth(Cuts(list), i + 1) + 1, Nth(Cuts(list), i + 2) - 1) \in Seq(Char)
  BY <1>1, <1>3, CutsAre
<1>5. PICK m \in Nat : m = n
  BY <1>4
<1>6. DOMAIN array' = 0..m /\ array'[m] = Null
  BY <1>2, <1>5
<1>7. ASSUME NEW i \in 0..m PROVE array'[i] \in Slots
  <2>1. CASE i = m
    BY <1>6, <2>1 DEF Slots
  <2>2. CASE i # m
    <3>1. i \in 0..m - 1
      BY <2>2
    <3> QED BY <1>2, <1>4, <1>5, <2>2, <3>1 DEF Slots
  <2> QED BY <2>1, <2>2
<1>8. index'[1] \in 0..m /\ index'[2] \in 0..index'[1]
  <2>1. index'[1] = 0 /\ index'[2] = 0
    BY <1>2
  <2> QED BY <2>1
<1>9. AllSlots(kv') /\ (\A i \in 0..f_delim' - 1 : kv'[i] \in Slots)
      /\ valptr' \in Nat /\ list' \in Slots
  BY <1>2 DEF TypeInv, BeforeKey
<1>10. \A i \in DOMAIN array' : array'[i] \in Slots
  BY <1>6, <1>7
<1> QED BY <1>2, <1>6, <1>8, <1>9, <1>10 DEF TypeInv, Pcs

\* which arrcollapse() never passes.
LEMMA CollapseTyped == TypeInv /\ arrcollapse => TypeInv'
<1> SUFFICES ASSUME TypeInv, arrcollapse PROVE TypeInv'
  OBVIOUS
<1>1. /\ pc = "collapse" /\ pc' = "collapse" /\ list' = list
      /\ kv' = kv /\ f_delim' = f_delim /\ valptr' = valptr
      /\ array[index[1]] # Null
      /\ array' = Moved(array, index[1], index[2])
      /\ index' = After(array, index[1], index[2])
  BY DEF arrcollapse, buffer
<1>2. PICK n \in Nat : /\ DOMAIN array = 0..n /\ array[n] = Null
                       /\ index[1] \in 0..n /\ index[2] \in 0..index[1]
  BY <1>1 DEF TypeInv
<1>3. PICK v \in 0..n : v = index[1]
  BY <1>2
<1>4. PICK w \in 0..v : w = index[2]
  BY <1>2, <1>3
<1>5. v # n /\ w # n /\ v + 1 \in 0..n /\ w \in 0..v + 1 /\ w + 1 \in 0..v + 1
  <2>1. v # n
    BY <1>1, <1>2, <1>3
  <2> QED BY <2>1
<1>6. DOMAIN array' = 0..n
  BY <1>1, <1>2, MovedDomain
<1>7. array'[n] = Null
  BY <1>1, <1>2, <1>3, <1>4, <1>5 DEF Moved
<1>8. \A i \in DOMAIN array' : array'[i] \in Slots
  <2>1. ASSUME NEW i \in 0..n PROVE array'[i] \in Slots
    <3>1. array'[i] \in {array[i], array[v], Null}
      BY <1>1, <1>2, <1>3, <1>4, MovedFrom
    <3>2. array[i] \in Slots /\ array[v] \in Slots /\ Null \in Slots
      BY <1>2 DEF TypeInv, Slots
    <3> QED BY <3>1, <3>2
  <2> QED BY <1>6, <2>1
<1>9. index'[1] \in 0..n /\ index'[2] \in 0..index'[1]
  <2>1. index' = <<v + 1, IF array[v] = <<>> THEN w ELSE w + 1>>
    BY <1>1, <1>3, <1>4 DEF After
  <2>2. index'[1] = v + 1 /\ (index'[2] = w \/ index'[2] = w + 1)
    BY <2>1
  <2> QED BY <1>5, <2>2
<1>10. AllSlots(kv') /\ (\A i \in 0..f_delim' - 1 : kv'[i] \in Slots)
       /\ valptr' \in Nat /\ list' \in Slots
  BY <1>1 DEF TypeInv, BeforeKey
<1> QED BY <1>1, <1>6, <1>7, <1>8, <1>9, <1>10 DEF TypeInv, Pcs

\* No step leaves the ranges.
LEMMA TypeStep == TypeInv /\ BoundsInv /\ ParserInv /\ [Next]_vars => TypeInv'
<1> SUFFICES ASSUME TypeInv, BoundsInv, ParserInv, [Next]_vars PROVE TypeInv'
  OBVIOUS
\* Steps that leave the lists alone.
<1>1. ASSUME UNCHANGED <<kv, f_delim, valptr, list, array>>, pc' \in Pcs,
             pc' \notin {"list", "collapse"}, BeforeKey => BeforeKey'
      PROVE  TypeInv'
  <2>1. AllSlots(kv') /\ list' \in Slots /\ (\A i \in DOMAIN array' : array'[i] \in Slots)
        /\ valptr' \in Nat
    BY <1>1 DEF TypeInv
  <2>2. ~BeforeKey' => \A i \in 0..f_delim' - 1 : kv'[i] \in Slots
    BY <1>1 DEF TypeInv
  <2> QED BY <1>1, <2>1, <2>2 DEF TypeInv
<1>2. CASE RemoveComments
  BY <1>1, <1>2 DEF RemoveComments, buffer, lists, BeforeKey, Pcs
<1>3. CASE NoKey
  BY <1>1, <1>3 DEF NoKey, buffer, lists, BeforeKey, Pcs
<1>4. CASE StoreKey
  BY <1>4, KeyTyped
<1>5. CASE StoreValue
  BY <1>5, ValueTyped
<1>6. CASE EndValues
  BY <1>6, EndTyped
<1>7. CASE Sanitize
  BY <1>7, SanitizeTyped
<1>8. CASE keyval2array
  BY <1>8, ShiftTyped
<1>9. CASE UseList
  BY <1>1, <1>9 DEF UseList, buffer, lists, BeforeKey, Pcs
<1>10. CASE keyval_remove_empty_values
  BY <1>10, RemoveTyped
<1>11. CASE NoValues
  BY <1>1, <1>11 DEF NoValues, buffer, lists, BeforeKey, Pcs
<1>12. CASE keyval2valstr
  BY <1>12, JoinTyped
<1>13. CASE str2arr
  BY <1>13, ArrayTyped
<1>14. CASE arrcollapse
  BY <1>14, CollapseTyped
<1>15. CASE Collapsed
  BY <1>1, <1>15 DEF Collapsed, buffer, lists, BeforeKey, Pcs
<1>16. CASE UNCHANGED vars
  <2>1. UNCHANGED <<pc, kv, f_delim, valptr, list, array, index>>
    BY <1>16 DEF vars, buffer, lists
  <2> QED BY <2>1 DEF TypeInv, BeforeKey, AllSlots
<1> QED BY <1>2, <1>3, <1>4, <1>5, <1>6, <1>7, <1>8, <1>9, <1>10, <1>11,
           <1>12, <1>13, <1>14, <1>15, <1>16 DEF Next

\* Every slot that is read was written, with a string or the null pointer, in the
\* list of keyval.c as in the array of str2arr(), through the moves of
\* keyval2array(), keyval_remove_empty_values() and arrcollapse().
THEOREM TypeCorrect == Spec => []TypeOK
BY TypeInit, TypeStep, TypeImplies, BoundsInit, BoundsStep, ParserInit, ParserStep,
   PTL DEF Spec

-----------------------------------------------------------------------------
(***************************************************************************)
(* The array of str2arr() holds the strings that were joined.              *)
(***************************************************************************)

\* A string that neither begins nor ends with a blank.
Tight(v) == v # <<>> /\ v[1] # " " /\ v[Len(v)] # " "

\* Trimming leaves it alone.
LEMMA TrimmedPlain ==
  ASSUME NEW s \in Seq(Char), NEW v \in Seq(Char), NEW a \in Nat, Behind(v, s, a), Tight(v)
  PROVE  Trimmed(s, a + 1, a + Len(v)) = v
<1>1. PICK n \in Nat : n = Len(s)
  BY SeqHas
<1>2. PICK m \in Nat : m = Len(v) /\ m # 0
  <2>1. Len(v) \in Nat
    BY SeqHas
  <2>2. Len(v) # 0
    <3>1. v # <<>>
      BY DEF Tight
    <3> QED BY <3>1, EmptySeq
  <2> QED BY <2>1, <2>2
<1>17. 1 \in 1..m /\ m \in 1..m
  BY <1>2
<1>3. PICK b \in Nat : b = a + m
  OBVIOUS
<1>4. \A i \in 1..m : v[i] = s[a + i]
  BY <1>2 DEF Behind
<1>14. b <= n
  <2>1. a + Len(v) <= Len(s)
    BY DEF Behind
  <2> QED BY <1>1, <1>2, <1>3, <2>1
<1>15. PICK c \in Nat : c = a + 1 /\ 1 <= c /\ c <= b /\ c - 1 = a /\ b - c + 1 = m
  BY <1>2, <1>3
<1> DEFINE Y == {i \in c..b : s[i] # " "}
<1>5. Trimmed(s, c, b) = IF Y = {} THEN <<>> ELSE SubSeq(s, Min(Y), Max(Y))
  BY DEF Trimmed
<1>16. c \in Y
  <2>1. 1 \in 1..m /\ c \in c..b
    BY <1>15, <1>17
  <2>2. s[c] = v[1]
    BY <1>4, <1>15, <2>1
  <2>3. s[c] # " "
    BY <2>2 DEF Tight
  <2> QED BY <2>1, <2>3
<1>6. b \in Y
  <2>1. m \in 1..m /\ b \in c..b
    BY <1>15, <1>17
  <2>2. s[b] = v[m]
    BY <1>3, <1>4, <2>1
  <2>3. s[b] # " "
    BY <1>2, <2>2 DEF Tight
  <2>4. b \in c..b
    BY <2>1
  <2> QED BY <2>3, <2>4, Zenon
<1>7. Y \in SUBSET Int /\ \A x \in Y : c <= x /\ b >= x
  <2>1. Y \subseteq c..b
    BY Zenon
  <2> HIDE DEF Y
  <2> QED BY <2>1
<1> HIDE DEF Y
<1>8. Min(Y) = c
  BY <1>7, <1>16, MinIs
<1>9. Max(Y) = b
  BY <1>6, <1>7, MaxIs
<1>10. Trimmed(s, c, b) = SubSeq(s, c, b)
  BY <1>5, <1>6, <1>8, <1>9, <1>16
<1>11. PICK u \in Seq(Char) : u = SubSeq(s, c, b) /\ Len(u) = m /\ \A i \in 1..m : u[i] = s[a + i]
  <2>1. c \in Int /\ b \in Int /\ 1 <= c /\ b <= Len(s)
    BY <1>1, <1>14, <1>15
  <2>2. /\ SubSeq(s, c, b) \in Seq(Char)
        /\ Len(SubSeq(s, c, b)) = IF c <= b THEN b - c + 1 ELSE 0
        /\ \A i \in 1..b - c + 1 : SubSeq(s, c, b)[i] = s[c - 1 + i]
    BY <2>1, Part
  <2>3. \A i \in 1..m : c - 1 + i = a + i
    BY <1>15
  <2>4. Len(SubSeq(s, c, b)) = m
    BY <1>15, <2>2
  <2>5. \A i \in 1..m : SubSeq(s, c, b)[i] = s[a + i]
    BY <1>15, <2>2, <2>3
  <2> QED BY <2>2, <2>4, <2>5
<1>12. u = v
  <2>1. Len(u) = Len(v) /\ \A i \in 1..Len(u) : u[i] = v[i]
    BY <1>2, <1>4, <1>11
  <2> QED BY <2>1, SeqEqual
<1> QED BY <1>2, <1>3, <1>10, <1>11, <1>12, <1>15

\* t holds the texts that __2str() goes through for the strings of k.
Texting(k, t, p) == \A j \in 1..p : t[j] \in Seq(Char) /\ t[j] = Grown(k, t, j)

\* Where the i-th string of a list ends, and the delimiter stands.
End(t, i) == IF i = 0 THEN 0 ELSE Len(t[i]) + 1

\* Each string begins behind the delimiter of the one before.
LEMMA EndIs ==
  ASSUME NEW k, NEW p \in Nat, Texts(k, p), NEW t, Texting(k, t, p), NEW i \in 1..p
  PROVE  /\ End(t, i - 1) \in Nat /\ Len(k[i]) \in Nat
         /\ End(t, i) = End(t, i - 1) + Len(k[i]) + 1
<1>1. PICK v \in Seq(Char) : v = k[i]
  BY DEF Texts
<1>2. PICK u \in Seq(Char) : u = t[i] /\ u = Grown(k, t, i)
  BY DEF Texting
<1>3. PICK l \in Nat : l = Len(v)
  BY SeqHas
<1>4. CASE i = 1
  <2>1. u = v
    BY <1>1, <1>2, <1>4 DEF Grown
  <2>2. End(t, i) = l + 1
    BY <1>2, <1>3, <1>4, <2>1 DEF End
  <2>3. End(t, i - 1) = 0
    BY <1>4 DEF End
  <2> QED BY <1>1, <1>3, <2>2, <2>3
<1>5. CASE i # 1
  <2>1. PICK h \in 1..p : h = i - 1 /\ h # 0
    BY <1>5
  <2>2. PICK w \in Seq(Char) : w = t[h]
    BY DEF Texting
  <2>3. PICK m \in Nat : m = Len(w)
    BY SeqHas
  <2>4. u = Appended(w, v)
    BY <1>1, <1>2, <1>5, <2>1, <2>2 DEF Grown
  <2>5. Len(Appended(w, v)) = Len(w) + 1 + Len(v)
    BY AppendedIs
  <2>6. End(t, i) = Len(u) + 1
    BY <1>2 DEF End
  <2>7. End(t, h) = m + 1
    BY <2>1, <2>2, <2>3 DEF End
  <2>8. End(t, i) = m + 1 + l + 1
    BY <1>3, <2>3, <2>4, <2>5, <2>6
  <2>9. End(t, i - 1) = m + 1
    BY <2>1, <2>7
  <2>10. Len(k[i]) = l
    BY <1>1, <1>3
  <2>11. \A d, e, q : d = m + 1 /\ q = l /\ e = m + 1 + l + 1
                     => d \in Nat /\ q \in Nat /\ e = d + q + 1
    OBVIOUS
  <2> QED BY <2>8, <2>9, <2>10, <2>11
<1> QED BY <1>4, <1>5

\* What stands in a string stands there still when something is appended.
LEMMA BehindMore ==
  ASSUME NEW a \in Seq(Char), NEW b \in Seq(Char), NEW v \in Seq(Char), NEW x \in Nat,
         Behind(v, a, x)
  PROVE  Behind(v, Appended(a, b), x)
<1>1. PICK m \in Nat : m = Len(a)
  BY SeqHas
<1>2. PICK l \in Nat : l = Len(b)
  BY SeqHas
<1>3. PICK d \in Nat : d = Len(v)
  BY SeqHas
<1>4. PICK s : s = Appended(a, b)
  OBVIOUS
<1>5. Len(s) = Len(a) + 1 + Len(b) /\ \A i \in 1..Len(a) : s[i] = a[i]
  BY <1>4, AppendedIs
<1>6. x + d <= m /\ \A i \in 1..d : v[i] = a[x + i]
  BY <1>1, <1>3 DEF Behind
<1>7. \A i \in 1..d : x + i \in 1..m
  <2>1. x + d <= m
    BY <1>6
  <2> QED BY <2>1
<1>8. \A i \in 1..d : v[i] = s[x + i]
  BY <1>1, <1>5, <1>6, <1>7
<1>9. x + d <= Len(s)
  <2>1. x + d <= m /\ Len(s) = m + 1 + l
    BY <1>1, <1>2, <1>5, <1>6
  <2> QED BY <2>1
<1> QED BY <1>3, <1>4, <1>8, <1>9 DEF Behind

\* What is appended stands at the end.
LEMMA BehindLast ==
  ASSUME NEW a \in Seq(Char), NEW b \in Seq(Char)
  PROVE  Behind(b, Appended(a, b), Len(a) + 1)
<1>1. PICK m \in Nat : m = Len(a)
  BY SeqHas
<1>2. PICK l \in Nat : l = Len(b)
  BY SeqHas
<1>3. PICK s : s = Appended(a, b)
  OBVIOUS
<1>4. Len(s) = Len(a) + 1 + Len(b) /\ \A i \in 1..Len(b) : s[Len(a) + 1 + i] = b[i]
  BY <1>3, AppendedIs
<1>5. Len(s) = m + 1 + l
  BY <1>1, <1>2, <1>4
<1>6. \A i \in 1..l : b[i] = s[m + 1 + i]
  BY <1>1, <1>2, <1>4
<1>7. m + 1 + l <= Len(s)
  BY <1>5
<1> QED BY <1>1, <1>2, <1>3, <1>6, <1>7 DEF Behind

\* Text j of a list holds its first j strings, each at its place.
Holds(k, t, j) ==
  \A i \in 1..j : /\ Behind(k[i], t[j], End(t, i - 1))
                  /\ i # j => t[j][End(t, i)] = ","

\* Every text holds the strings it was made of.
LEMMA TextHolds ==
  ASSUME NEW k, NEW p \in Nat, Texts(k, p), NEW t, Texting(k, t, p)
  PROVE  \A j \in 1..p : Holds(k, t, j)
<1> DEFINE Good == {j \in Nat : j \in 1..p => Holds(k, t, j)}
<1>1. ASSUME NEW j \in Nat, \A m \in 0..j - 1 : m \in Good PROVE j \in Good
  <2>1. CASE j \in 1..p /\ j = 1
    <3>1. PICK v \in Seq(Char) : v = k[1] /\ v = t[1]
      BY <2>1 DEF Grown, Texting
    <3>2. Behind(v, v, 0)
      <4>1. PICK l \in Nat : l = Len(v)
        BY SeqHas
      <4>2. 0 + l <= l /\ \A i \in 1..l : 0 + i = i
        OBVIOUS
      <4> QED BY <4>1, <4>2 DEF Behind
    <3>3. ASSUME NEW i \in 1..1 PROVE i = 1 /\ End(t, i - 1) = 0
      BY DEF End
    <3>4. Holds(k, t, 1)
      BY <3>1, <3>2, <3>3 DEF Holds
    <3> QED BY <2>1, <3>4
  <2>2. CASE j \in 1..p /\ j # 1
    <3>1. PICK h \in 1..p : h = j - 1 /\ h \in 0..j - 1 /\ h # 0 /\ h \in 1..h
      BY <2>2
    <3>2. Holds(k, t, h)
      BY <1>1, <3>1
    <3>3. PICK w \in Seq(Char) : w = t[h]
      BY DEF Texting
    <3>4. PICK v \in Seq(Char) : v = k[j]
      BY <2>2 DEF Texts
    <3>5. t[j] = Appended(w, v)
      BY <2>2, <3>1, <3>3, <3>4 DEF Texting, Grown
    <3>6. PICK m \in Nat : m = Len(w)
      BY SeqHas
    <3>7. End(t, h) = Len(w) + 1
      BY <3>1, <3>3 DEF End
    <3>8. ASSUME NEW i \in 1..j
          PROVE  /\ Behind(k[i], t[j], End(t, i - 1))
                 /\ i # j => t[j][End(t, i)] = ","
      <4>1. CASE i = j
        <5>1. Behind(v, Appended(w, v), Len(w) + 1)
          BY BehindLast
        <5> QED BY <3>1, <3>4, <3>5, <3>7, <4>1, <5>1
      <4>2. CASE i # j
        <5>1. i \in 1..h /\ i \in 1..p
          BY <3>1, <4>2
        <5>2. PICK b \in Nat : b = End(t, i - 1)
          BY <5>1, EndIs
        <5>3. PICK u \in Seq(Char) : u = k[i]
          BY <5>1 DEF Texts
        <5>4. Behind(u, w, b)
          BY <3>2, <3>3, <5>1, <5>2, <5>3 DEF Holds
        <5>5. Behind(u, Appended(w, v), b)
          BY <5>4, BehindMore
        <5>6. PICK x : x = End(t, i)
          OBVIOUS
        <5>7. Appended(w, v)[x] = ","
          <6>1. CASE i = h
            <7>1. Appended(w, v)[Len(w) + 1] = ","
              BY AppendedIs
            <7> QED BY <3>7, <5>6, <6>1, <7>1
          <6>2. CASE i # h
            <7>1. w[x] = ","
              BY <3>2, <3>3, <5>1, <5>6, <6>2 DEF Holds
            <7>2. PICK g \in 1..h : g = i + 1 /\ g - 1 = i
              BY <5>1, <6>2
            <7>3. g \in 1..p
              BY <7>2
            <7>4. x + Len(k[g]) <= m
              BY <3>2, <3>3, <3>6, <5>6, <7>2 DEF Holds, Behind
            <7>5. Len(k[g]) \in Nat
              BY <7>3, EndIs
            <7>6. End(t, i) = End(t, i - 1) + Len(k[i]) + 1 /\ Len(k[i]) \in Nat
              BY <5>1, EndIs
            <7>7. x \in Nat /\ x >= 1
              BY <5>2, <5>6, <7>6
            <7>8. x \in 1..m
              BY <7>4, <7>5, <7>7
            <7>9. \A y \in 1..Len(w) : Appended(w, v)[y] = w[y]
              BY AppendedIs
            <7> QED BY <3>6, <7>1, <7>8, <7>9
          <6> QED BY <6>1, <6>2
        <5> QED BY <3>5, <5>2, <5>3, <5>5, <5>6, <5>7
      <4> QED BY <4>1, <4>2
    <3>9. Holds(k, t, j)
      BY <3>8 DEF Holds
    <3> QED BY <3>9
  <2>3. CASE j \notin 1..p
    BY <2>3
  <2> QED BY <2>1, <2>2, <2>3
<1>2. \A j \in Nat : j \in Good
  <2>1. Good \in SUBSET Nat
    OBVIOUS
  <2> HIDE DEF Good
  <2> QED BY <1>1, <2>1, Induction
<1> QED BY <1>2

\* The places E[0], ..., E[p] are those where str2arr() cuts s.
Separates(s, E, p) ==
  /\ E \in [0..p -> Nat] /\ E[0] = 0 /\ E[p] = Len(s) + 1
  /\ \A i \in 0..p : E[i] \in Cuts(s)
  /\ \A i \in 1..p : E[i - 1] < E[i] /\ \A y \in Cuts(s) : y < E[i] => y <= E[i - 1]

\* They are its members in their order.
LEMMA CutsRank ==
  ASSUME NEW s \in Seq(Char), NEW p \in Nat, NEW E, Separates(s, E, p)
  PROVE  /\ Cardinality(Cuts(s)) = p + 1
         /\ \A i \in 0..p : Nth(Cuts(s), i + 1) = E[i]
<1>1. PICK n \in Nat : n = Len(s) /\ DOMAIN s = 1..n
  BY SeqHas
<1>2. PICK m \in Nat : m = n + 1
  OBVIOUS
<1>3. PICK C \in SUBSET (0..m) : C = Cuts(s)
  <2>1. Cuts(s) = {i \in 1..n : s[i] = ","} \cup {0, m}
    BY <1>1, <1>2 DEF Cuts
  <2>2. \A i \in 1..n : i \in 0..m
    BY <1>2
  <2>3. 0 \in 0..m /\ m \in 0..m
    OBVIOUS
  <2> QED BY <2>1, <2>2, <2>3
<1>4. \A i \in 0..p : E[i] \in C /\ E[i] \in Int
  BY <1>3 DEF Separates
<1>5. \A i \in 1..p : E[i - 1] < E[i] /\ \A y \in C : y < E[i] => y <= E[i - 1]
  BY <1>3 DEF Separates
<1>6. E[0] = 0 /\ E[p] = m
  BY <1>1, <1>2 DEF Separates
<1>7. Rank(C, 0) = 1
  <2>1. 0 \in C /\ 0 - 1 \in Int /\ 0 - 1 < 0 /\ 0 \in Int
    BY <1>4, <1>6
  <2>2. Rank(C, 0) = Rank(C, 0 - 1) + 1
    BY <2>1, RankStep
  <2>3. Rank(C, 0 - 1) = 0
    BY <2>1, RankBounds
  <2> QED BY <2>2, <2>3
<1> DEFINE Good == {j \in Nat : j \in 0..p => Rank(C, E[j]) = j + 1}
<1>8. ASSUME NEW j \in Nat, \A i \in 0..j - 1 : i \in Good PROVE j \in Good
  <2>1. CASE j = 0
    BY <1>6, <1>7, <2>1
  <2>2. CASE j \in 1..p
    <3>1. PICK h \in 0..p : h = j - 1 /\ h \in 0..j - 1
      BY <2>2
    <3>2. Rank(C, E[h]) = h + 1
      BY <1>8, <3>1
    <3>3. PICK x \in Int : x = E[j] /\ x \in C
      BY <1>4, <2>2
    <3>4. PICK z \in Int : z = E[h] /\ z < x /\ \A y \in C : y < x => y <= z
      <4>1. E[h] \in Int
        BY <1>4
      <4>2. E[h] < x /\ \A y \in C : y < x => y <= E[h]
        BY <1>5, <2>2, <3>1, <3>3
      <4> QED BY <4>1, <4>2
    <3>5. Rank(C, x) = Rank(C, x - 1) + 1
      BY <3>3, RankStep
    <3>6. {y \in C : y <= x - 1} = {y \in C : y <= z}
      <4>1. ASSUME NEW y \in C PROVE y <= x - 1 <=> y <= z
        <5>1. y \in Int /\ (y < x => y <= z) /\ z < x
          BY <3>4
        <5> QED BY <5>1
      <4> QED BY <4>1
    <3>7. Rank(C, x - 1) = Rank(C, z)
      BY <3>6 DEF Rank
    <3>8. Rank(C, E[j]) = h + 1 + 1
      BY <3>2, <3>3, <3>4, <3>5, <3>7
    <3>9. h + 1 + 1 = j + 1
      BY <3>1
    <3> QED BY <3>8, <3>9
  <2>3. CASE j \notin 0..p
    BY <2>3
  <2> QED BY <2>1, <2>2, <2>3
<1>9. \A j \in Nat : j \in Good
  <2>1. Good \in SUBSET Nat
    OBVIOUS
  <2> HIDE DEF Good
  <2> QED BY <1>8, <2>1, Induction
<1>10. \A i \in 0..p : Rank(C, E[i]) = i + 1
  BY <1>9
<1>11. Cardinality(C) = p + 1
  <2>1. Rank(C, m) = Cardinality(C)
    <3>1. m \in Int /\ m <= m
      OBVIOUS
    <3> QED BY <3>1, RankBounds
  <2>2. p \in 0..p
    OBVIOUS
  <2> QED BY <1>6, <1>10, <2>1, <2>2
<1>12. \A i \in 0..p : Nth(C, i + 1) = E[i]
  BY <1>4, <1>10, NthIs
<1> QED BY <1>3, <1>11, <1>12

\* A value of an entry that is not empty and needs no escape.
Word(v) == v \in Seq(Char) /\ v # <<>> /\ Plain(v)
\* The first p strings of a list are such values.
Words(k, p) == \A i \in 1..p : Word(k[i])

\* String i of s is what stands on l places behind place a.
Piece(s, E, p, i, a, l) ==
  /\ a = E[i - 1] /\ E[i] = a + l + 1 /\ a + l <= Len(s)
  /\ \A x \in 1..l : s[a + x] # ","
  /\ i # p => s[E[i]] = ","

\* The string of keyval2valstr() is cut between its strings.
LEMMA JoinedSeparates ==
  ASSUME NEW k, NEW p \in Nat, p > 0, Words(k, p), NEW t, Texting(k, t, p)
  PROVE  Separates(t[p], [i \in 0..p |-> End(t, i)], p)
<1>1. Texts(k, p)
  BY DEF Words, Word, Texts
<1>2. PICK s \in Seq(Char) : s = t[p]
  BY DEF Texting
<1>3. PICK n \in Nat : n = Len(s) /\ DOMAIN s = 1..n
  BY SeqHas
<1>4. PICK q \in 1..p : q = p
  OBVIOUS
<1>5. Holds(k, t, q)
  BY <1>1, TextHolds
<1> DEFINE E == [i \in 0..p |-> End(t, i)]
<1>6. E[0] = 0
  BY DEF End
<1>7. E[p] = n + 1
  BY <1>2, <1>3 DEF End
<1>8. ASSUME NEW i \in 1..p PROVE \E a \in Nat, l \in Nat : Piece(s, E, p, i, a, l)
  <2>1. PICK v \in Seq(Char) : v = k[i] /\ Plain(v)
    BY DEF Words, Word
  <2>2. PICK l \in Nat : l = Len(v) /\ DOMAIN v = 1..l
    BY SeqHas
  <2>3. End(t, i - 1) \in Nat /\ Len(k[i]) \in Nat
        /\ End(t, i) = End(t, i - 1) + Len(k[i]) + 1
    BY <1>1, EndIs
  <2>4. PICK a \in Nat : a = E[i - 1] /\ a = End(t, i - 1)
    <3>1. i - 1 \in 0..p
      OBVIOUS
    <3> QED BY <2>3, <3>1
  <2>5. E[i] = End(t, i)
    OBVIOUS
  <2>6. E[i] = a + l + 1
    BY <2>1, <2>2, <2>3, <2>4, <2>5
  <2>7. Behind(v, s, a) /\ (i # p => s[E[i]] = ",")
    BY <1>2, <1>4, <1>5, <2>1, <2>4, <2>5 DEF Holds
  <2>8. a + l <= n /\ \A x \in 1..l : v[x] = s[a + x]
    BY <1>3, <2>2, <2>7 DEF Behind
  <2>9. \A x \in 1..l : v[x] # ","
    BY <2>1, <2>2 DEF Plain
  <2> HIDE DEF E
  <2>10. \A x \in 1..l : s[a + x] # ","
    BY <2>8, <2>9
  <2>11. a + l <= Len(s)
    BY <1>3, <2>8
  <2> QED BY <2>4, <2>6, <2>7, <2>10, <2>11 DEF Piece
<1>9. E \in [0..p -> Nat]
  <2>1. ASSUME NEW i \in 0..p PROVE E[i] \in Nat
    <3>1. CASE i = 0
      BY <1>6, <3>1
    <3>2. CASE i # 0
      <4>1. PICK j \in 1..p : j = i
        BY <3>2
      <4>2. End(t, j - 1) \in Nat /\ Len(k[j]) \in Nat
            /\ End(t, j) = End(t, j - 1) + Len(k[j]) + 1
        BY <1>1, EndIs
      <4> QED BY <4>1, <4>2
    <3> QED BY <3>1, <3>2
  <2> QED BY <2>1
<1> HIDE DEF E
<1>10. ASSUME NEW i \in 0..p PROVE E[i] \in Cuts(s)
  <2>1. CASE i = 0
    BY <1>6, <2>1 DEF Cuts
  <2>2. CASE i = p
    BY <1>3, <1>7, <2>2 DEF Cuts
  <2>3. CASE i # 0 /\ i # p
    <3>1. PICK j \in 1..p : j = i
      BY <2>3
    <3>3. PICK a \in Nat, l \in Nat : Piece(s, E, p, j, a, l)
      BY <1>8
    <3>8. s[E[j]] = ","
      BY <2>3, <3>1, <3>3 DEF Piece
    <3>9. E[j] = a + l + 1
      BY <3>3 DEF Piece
    <3>4. PICK g \in 1..p : g = j + 1 /\ j = g - 1
      BY <2>3, <3>1
    <3>5. PICK b \in Nat, d \in Nat : Piece(s, E, p, g, b, d)
      BY <1>8
    <3>11. b = E[j] /\ b + d <= n
      BY <1>3, <3>4, <3>5 DEF Piece
    <3>6. PICK x \in Nat : x = E[j] /\ x = a + l + 1
      BY <3>9
    <3>7. x \in 1..n
      <4>1. x + d <= n
        BY <3>6, <3>11
      <4>2. x = a + l + 1
        BY <3>6
      <4> QED BY <4>1, <4>2
    <3> QED BY <1>3, <3>1, <3>6, <3>7, <3>8 DEF Cuts
  <2> QED BY <2>1, <2>2, <2>3
<1>11. ASSUME NEW i \in 1..p
       PROVE  E[i - 1] < E[i] /\ \A y \in Cuts(s) : y < E[i] => y <= E[i - 1]
  <2>1. PICK a \in Nat, l \in Nat : Piece(s, E, p, i, a, l)
    BY <1>8
  <2>2. /\ a = E[i - 1] /\ E[i] = a + l + 1 /\ a + l <= n
        /\ \A x \in 1..l : s[a + x] # ","
    BY <1>3, <2>1 DEF Piece
  <2>3. a < a + l + 1
    OBVIOUS
  <2>4. ASSUME NEW y \in Cuts(s), y < a + l + 1 PROVE y <= a
    <3>1. CASE y = 0
      BY <3>1
    <3>2. CASE y = n + 1
      <4>1. a + l <= n
        BY <2>2
      <4>2. n + 1 < a + l + 1
        BY <2>4, <3>2
      <4> QED BY <4>1, <4>2
    <3>3. CASE y \in 1..n /\ s[y] = ","
      <4>1. SUFFICES ASSUME ~(y <= a) PROVE FALSE
        OBVIOUS
      <4>2. PICK x \in 1..l : a + x = y
        <5>1. PICK z \in 1..n : z = y
          BY <3>3
        <5>2. z < a + l + 1 /\ ~(z <= a)
          BY <2>4, <4>1, <5>1
        <5>3. z - a \in 1..l /\ a + (z - a) = z
          BY <5>2
        <5> QED BY <5>1, <5>3
      <4> QED BY <2>2, <3>3, <4>2
    <3> QED BY <1>3, <3>1, <3>2, <3>3 DEF Cuts
  <2> QED BY <2>2, <2>3, <2>4
<1>12. Separates(s, E, p)
  BY <1>3, <1>6, <1>7, <1>9, <1>10, <1>11 DEF Separates
<1> QED BY <1>2, <1>12 DEF E

\* str2arr() takes the string of keyval2valstr() apart again.
LEMMA CutUp ==
  ASSUME NEW k, NEW p \in Nat, p > 0, Words(k, p), Count(k) = p + 1
  PROVE  /\ Joined(k, 1) \in Seq(Char)
         /\ Cardinality(Cuts(Joined(k, 1))) = p + 1
         /\ \A i \in 0..p - 1 :
              Trimmed(Joined(k, 1), Nth(Cuts(Joined(k, 1)), i + 1) + 1,
                      Nth(Cuts(Joined(k, 1)), i + 2) - 1) = k[i + 1]
<1>1. Texts(k, p)
  BY DEF Words, Word, Texts
<1>2. PICK t : Joined(k, 1) = t[p] /\ Texting(k, t, p)
  BY <1>1, JoinedIs DEF Texting
<1>3. PICK q \in 1..p : q = p
  OBVIOUS
<1>4. PICK s \in Seq(Char) : s = Joined(k, 1) /\ s = t[p]
  BY <1>2, <1>3 DEF Texting
<1>5. PICK E : E = [i \in 0..p |-> End(t, i)] /\ Separates(s, E, p)
  BY <1>2, <1>4, JoinedSeparates
<1>6. Cardinality(Cuts(s)) = p + 1 /\ \A i \in 0..p : Nth(Cuts(s), i + 1) = E[i]
  BY <1>5, CutsRank
<1>7. Holds(k, t, q)
  BY <1>1, <1>2, TextHolds
<1>8. ASSUME NEW i \in 0..p - 1
      PROVE  Trimmed(s, Nth(Cuts(s), i + 1) + 1, Nth(Cuts(s), i + 2) - 1) = k[i + 1]
  <2>1. PICK j \in 1..p : j = i + 1 /\ j - 1 = i /\ j + 1 = i + 2
    OBVIOUS
  <2>2. PICK v : v = k[j] /\ Word(v)
    BY DEF Words
  <2>3. v \in Seq(Char) /\ Tight(v)
    BY <2>2 DEF Word, Plain, Tight
  <2>4. End(t, j - 1) \in Nat /\ Len(k[j]) \in Nat
        /\ End(t, j) = End(t, j - 1) + Len(k[j]) + 1
    BY <1>1, <1>2, EndIs
  <2>5. PICK a \in Nat : a = End(t, i)
    BY <2>1, <2>4
  <2>6. PICK l \in Nat : l = Len(v)
    BY <2>2, <2>4
  <2>7. Behind(v, s, a)
    BY <1>3, <1>4, <1>7, <2>1, <2>2, <2>5 DEF Holds
  <2>8. Trimmed(s, a + 1, a + l) = v
    BY <2>3, <2>6, <2>7, TrimmedPlain
  <2>9. i \in 0..p /\ j \in 0..p
    OBVIOUS
  <2>10. E[i] = a
    BY <1>5, <2>5, <2>9
  <2>11. E[j] = a + l + 1
    <3>1. E[j] = End(t, j)
      BY <1>5, <2>9
    <3> QED BY <2>1, <2>2, <2>4, <2>5, <2>6, <3>1
  <2>12. Nth(Cuts(s), i + 1) = a /\ Nth(Cuts(s), i + 2) = a + l + 1
    BY <1>6, <2>1, <2>9, <2>10, <2>11
  <2>13. a + l + 1 - 1 = a + l
    OBVIOUS
  <2> QED BY <2>1, <2>2, <2>8, <2>12, <2>13
<1> QED BY <1>4, <1>6, <1>8

-----------------------------------------------------------------------------
(***************************************************************************)
(* What the daemon works with.                                             *)
(***************************************************************************)

\* The values of a line by the rules, those that are not empty, and the lines
\* that ListSurvives is about.
Value(s, i) == Chars(ByTheRules(s)[i])
Wanted(s) == {i \in DOMAIN ByTheRules(s) \ {0} : ByTheRules(s)[i] # <<>>}
Item(s, j) == Value(s, Nth(Wanted(s), j))
Clear(s) == ~Unfinished(s) /\ \A i \in Wanted(s) : Plain(Value(s, i))

\* The line has c - 1 values.
Entry(s, c) ==
  /\ c \in Nat /\ c > 1 /\ DOMAIN ByTheRules(s) = 0..c - 1
  /\ \A i \in 1..c - 1 : ByTheRules(s)[i] \in Seq(AllTokens)

\* Its values are strings, empty when they have no token.
LEMMA ValueIs ==
  ASSUME NEW s, NEW c, Entry(s, c), NEW i \in 1..c - 1
  PROVE  /\ Value(s, i) \in Seq(Char)
         /\ Value(s, i) = <<>> <=> i \notin Wanted(s)
         /\ Len(Value(s, i)) = Len(ByTheRules(s)[i])
<1>1. PICK t \in Seq(AllTokens) : t = ByTheRules(s)[i]
  BY DEF Entry
<1>2. PICK n \in Nat : n = Len(t) /\ DOMAIN t = 1..n
  BY SeqHas
<1>3. \A j \in 1..n : t[j].char \in Char
  <2>1. \A j \in 1..n : t[j] \in AllTokens
    BY <1>2, SeqHas
  <2>2. \A x \in AllTokens : x.char \in Char
    BY DEF AllTokens
  <2> QED BY <2>1, <2>2
<1>4. Value(s, i) = [j \in 1..n |-> t[j].char]
  BY <1>1, <1>2 DEF Value, Chars
<1>5. Value(s, i) \in [1..n -> Char]
  BY <1>3, <1>4
<1>6. Value(s, i) \in Seq(Char) /\ Len(Value(s, i)) = n
  BY <1>5, SeqIs
<1>7. Value(s, i) = <<>> <=> n = 0
  BY <1>6, EmptySeq
<1>8. t = <<>> <=> n = 0
  BY <1>2, EmptySeq
<1>9. i \in Wanted(s) <=> t # <<>>
  <2>1. i \in DOMAIN ByTheRules(s) \ {0}
    <3>1. c \in Nat
      BY DEF Entry
    <3>2. i \in 0..c - 1 /\ i # 0
      BY <3>1
    <3> QED BY <3>2 DEF Entry
  <2> QED BY <1>1, <2>1 DEF Wanted
<1> QED BY <1>1, <1>2, <1>6, <1>7, <1>8, <1>9

\* Only a value that is not plain ends in a blank.
LEMMA PlainEnds ==
  ASSUME NEW s, NEW c, Entry(s, c), Clear(s), NEW i \in 1..c - 1
  PROVE  ~EndsInBlank(ByTheRules(s)[i])
<1>1. CASE i \notin Wanted(s)
  <2>1. c \in Nat
    BY DEF Entry
  <2>2. i \in 0..c - 1 /\ i # 0
    BY <2>1
  <2>3. ByTheRules(s)[i] = <<>>
    BY <1>1, <2>2 DEF Wanted, Entry
  <2> QED BY <2>3 DEF EndsInBlank
<1>2. CASE i \in Wanted(s)
  <2>1. PICK t \in Seq(AllTokens) : t = ByTheRules(s)[i]
    BY DEF Entry
  <2>2. PICK v : v = Value(s, i)
    OBVIOUS
  <2>3. v # <<>> /\ Len(v) = Len(t) /\ v \in Seq(Char)
    BY <1>2, <2>1, <2>2, ValueIs
  <2>4. PICK l \in Nat : l = Len(v) /\ l \in 1..l /\ DOMAIN t = 1..l
    <3>1. Len(v) \in Nat /\ Len(v) # 0
      BY <2>3, SeqHas, EmptySeq
    <3>2. DOMAIN t = 1..Len(t)
      BY SeqHas
    <3> QED BY <2>3, <3>1, <3>2
  <2>5. v[l] # " "
    BY <1>2, <2>2, <2>3, <2>4 DEF Clear, Plain
  <2>6. v[l] = t[l].char
    BY <2>1, <2>2, <2>4 DEF Value, Chars
  <2>7. t[l] # Token(" ", TRUE)
    <3>1. Token(" ", TRUE).char = " "
      BY DEF Token
    <3> QED BY <2>5, <2>6, <3>1
  <2> QED BY <2>1, <2>3, <2>4, <2>7 DEF EndsInBlank
<1> QED BY <1>1, <1>2

\* What is not empty is plain, and counted by Item().
LEMMA WantedIs ==
  ASSUME NEW s, NEW c, Entry(s, c), Clear(s)
  PROVE  /\ Wanted(s) \in SUBSET (1..c - 1) /\ Cardinality(Wanted(s)) \in Nat
         /\ \A j \in 1..Cardinality(Wanted(s)) : Word(Item(s, j))
<1>1. PICK m \in Nat : m = c - 1 /\ DOMAIN ByTheRules(s) = 0..m
  BY DEF Entry
<1>2. Wanted(s) \in SUBSET (1..m)
  <2>1. ASSUME NEW i \in 0..m, i # 0 PROVE i \in 1..m
    BY <2>1
  <2> QED BY <1>1, <2>1 DEF Wanted
<1>3. PICK W \in SUBSET (0..m) : W = Wanted(s)
  BY <1>2
<1>4. Cardinality(W) \in Nat
  BY FiniteCount
<1>5. ASSUME NEW j \in 1..Cardinality(W) PROVE Word(Item(s, j))
  <2>1. PICK i \in W : i = Nth(W, j)
    BY NthOf
  <2>2. i \in 1..c - 1
    BY <1>1, <1>2, <1>3
  <2>3. Value(s, i) \in Seq(Char) /\ Value(s, i) # <<>>
    BY <1>3, <2>2, ValueIs
  <2>4. Plain(Value(s, i))
    BY <1>3 DEF Clear
  <2> QED BY <1>3, <2>1, <2>3, <2>4 DEF Item, Word
<1> QED BY <1>1, <1>2, <1>3, <1>4, <1>5

\* keyval_remove_empty_values() in front of slot v: what is wanted of the values
\* up to there has been moved to the front, as far as slot w.
Removing(s, c, k, v, w) ==
  /\ v \in 1..c /\ w \in 1..v /\ w = Rank(Wanted(s), v - 1) + 1
  /\ \E m \in Nat : DOMAIN k = 0..m /\ c <= m
  /\ k[0] \in Seq(Char) /\ k[c] = Null
  /\ \A j \in 1..w - 1 : k[j] = Item(s, j)
  /\ \A j \in w..v - 1 : k[j] = Null
  /\ \A j \in v..c - 1 : k[j] = Value(s, j)

\* One turn of its loop, slot by slot.
LEMMA MovedSlots ==
  ASSUME NEW k, NEW v \in DOMAIN k, NEW w \in DOMAIN k, NEW i \in DOMAIN k
  PROVE  /\ k[v] = <<>> => Moved(k, v, w)[i] = IF i = v THEN Null ELSE k[i]
         /\ k[v] # <<>> /\ v = w => Moved(k, v, w) = k
         /\ k[v] # <<>> /\ v # w =>
              Moved(k, v, w)[i] = IF i = v THEN Null ELSE IF i = w THEN k[v] ELSE k[i]
<1>1. CASE k[v] = <<>>
  BY <1>1 DEF Moved
<1>2. CASE k[v] # <<>>
  BY <1>2 DEF Moved
<1> QED BY <1>1, <1>2

\* The loop begins with the list of the parser.
LEMMA RemovingBegins ==
  ASSUME NEW s, NEW c, Entry(s, c), Clear(s), NEW k, NEW m \in Nat, DOMAIN k = 0..m,
         c <= m, k[c] = Null, k[0] \in Seq(Char),
         \A j \in 1..c - 1 : k[j] = Value(s, j)
  PROVE  Removing(s, c, k, 1, 1)
<1>1. c \in Nat /\ c > 1
  BY DEF Entry
<1>2. PICK n \in Nat : n = c - 1
  BY <1>1
<1>3. Rank(Wanted(s), 1 - 1) = 0
  <2>1. Wanted(s) \in SUBSET (1..n)
    BY <1>2, WantedIs
  <2>2. Rank(Wanted(s), 0) = 0
    BY <2>1, RankZero
  <2> QED BY <2>2
<1>4. 1 \in 1..c /\ 1 \in 1..1
  BY <1>1
<1>5. 1..1 - 1 = {}
  OBVIOUS
<1>6. 1 = Rank(Wanted(s), 1 - 1) + 1
  BY <1>3
<1> QED BY <1>4, <1>5, <1>6 DEF Removing

\* It goes on, whether the value is empty, stays where it is or moves to the front.
LEMMA RemovingGoesOn ==
  ASSUME NEW s, NEW c, Entry(s, c), Clear(s), NEW k, NEW v, NEW w,
         Removing(s, c, k, v, w), k[v] # Null
  PROVE  Removing(s, c, Moved(k, v, w), After(k, v, w)[1], After(k, v, w)[2])
<1>1. c \in Nat /\ c > 1 /\ v \in 1..c /\ w \in 1..v
  BY DEF Entry, Removing
<1>2. v # c
  BY DEF Removing
<1>3. PICK d \in Nat : d = c - 1 /\ v \in 1..d /\ w \in 1..d /\ v \in Nat
  BY <1>1, <1>2
<1>4. PICK m \in Nat : DOMAIN k = 0..m /\ c <= m
  BY DEF Removing
<1>5. v \in 0..m /\ w \in 0..m /\ \A i \in 0..c : i \in 0..m
  <2>1. c <= m
    BY <1>4
  <2> QED BY <1>1, <2>1
<1>6. k[0] \in Seq(Char) /\ k[c] = Null /\ (\A j \in 1..w - 1 : k[j] = Item(s, j))
      /\ (\A j \in w..v - 1 : k[j] = Null) /\ (\A j \in v..d : k[j] = Value(s, j))
  BY <1>3 DEF Removing
<1>7. k[v] = Value(s, v)
  BY <1>3, <1>6
<1>8. PICK W \in SUBSET (0..d) : W = Wanted(s) /\ W \in SUBSET (1..d)
  <2>1. Wanted(s) \in SUBSET (1..d)
    BY <1>3, WantedIs
  <2> QED BY <2>1
<1>9. w = Rank(W, v - 1) + 1
  BY <1>8 DEF Removing
<1>10. k[v] = <<>> <=> v \notin W
  BY <1>3, <1>7, <1>8, ValueIs
<1>15. /\ v \in W => Rank(W, v) = w
       /\ v \notin W => Rank(W, v) + 1 = w
  <2>1. v \in Int
    BY <1>3
  <2>2. /\ Rank(W, v - 1) \in Nat
        /\ v \in W => Rank(W, v) = Rank(W, v - 1) + 1
        /\ v \notin W => Rank(W, v) = Rank(W, v - 1)
    BY <2>1, RankStep
  <2> QED BY <1>9, <2>2
<1>11. PICK x : x = v + 1 /\ x \in 1..c /\ x - 1 = v
  BY <1>1, <1>3
<1>12. PICK g : g = Moved(k, v, w) /\ DOMAIN g = 0..m
  BY <1>4, MovedDomain
<1>13. CASE k[v] = <<>>
  <2>1. \A i \in 0..m : g[i] = IF i = v THEN Null ELSE k[i]
    BY <1>4, <1>5, <1>12, <1>13, MovedSlots
  <2>2. After(k, v, w)[1] = x /\ After(k, v, w)[2] = w
    BY <1>11, <1>13 DEF After
  <2>3. w = Rank(W, x - 1) + 1
    BY <1>10, <1>11, <1>13, <1>15
  <2>4. g[0] \in Seq(Char) /\ g[c] = Null
    <3>1. 0 # v /\ 0 \in 0..m /\ c \in 0..m
      BY <1>3, <1>1, <1>5
    <3> QED BY <1>2, <1>6, <2>1, <3>1
  <2>5. \A j \in 1..w - 1 : g[j] = Item(s, j)
    <3>1. \A j \in 1..w - 1 : j # v /\ j \in 0..m
      BY <1>1, <1>5
    <3> QED BY <1>6, <2>1, <3>1
  <2>6. \A j \in w..x - 1 : g[j] = Null
    <3>1. \A j \in w..v : j \in 0..m /\ (j # v => j \in w..v - 1)
      BY <1>1, <1>5
    <3> QED BY <1>6, <1>11, <2>1, <3>1
  <2>7. \A j \in x..c - 1 : g[j] = Value(s, j)
    <3>1. \A j \in v + 1..d : j \in 0..m /\ j # v /\ j \in v..d
      BY <1>1, <1>3, <1>5
    <3> QED BY <1>3, <1>6, <1>11, <2>1, <3>1
  <2>8. w \in 1..x
    BY <1>1, <1>11
  <2> QED BY <1>4, <1>8, <1>11, <1>12, <2>2, <2>3, <2>4, <2>5, <2>6, <2>7, <2>8 DEF Removing
<1>14. CASE k[v] # <<>>
  <2>1. PICK y : y = w + 1 /\ y \in 1..x /\ y - 1 = w
    BY <1>1, <1>3, <1>11
  <2>2. After(k, v, w)[1] = x /\ After(k, v, w)[2] = y
    BY <1>11, <1>14, <2>1 DEF After
  <2>3. Rank(W, v) = w /\ v \in W
    BY <1>10, <1>14, <1>15
  <2>4. y = Rank(W, x - 1) + 1
    BY <1>11, <2>1, <2>3
  <2>5. k[v] = Item(s, w)
    <3>1. Nth(W, w) = v
      BY <2>3, NthIs
    <3> QED BY <1>7, <1>8, <3>1 DEF Item
  <2>6. CASE v = w
    <3>1. g = k
      BY <1>4, <1>5, <1>12, <1>14, <2>6, MovedSlots
    <3>2. \A j \in 1..y - 1 : g[j] = Item(s, j)
      <4>1. \A j \in 1..w : j # w => j \in 1..w - 1
        BY <1>1
      <4> QED BY <1>6, <2>1, <2>5, <2>6, <3>1, <4>1
    <3>3. y..x - 1 = {}
      <4>1. w + 1..v = {}
        BY <1>1, <2>6
      <4> QED BY <1>11, <2>1, <4>1
    <3>4. \A j \in x..c - 1 : g[j] = Value(s, j)
      <4>1. \A j \in v + 1..d : j \in v..d
        BY <1>3
      <4> QED BY <1>3, <1>6, <1>11, <3>1, <4>1
    <3> QED BY <1>4, <1>6, <1>8, <1>11, <1>12, <2>1, <2>2, <2>4, <3>1, <3>2, <3>3, <3>4
            DEF Removing
  <2>7. CASE v # w
    <3>1. \A i \in 0..m : g[i] = IF i = v THEN Null ELSE IF i = w THEN k[v] ELSE k[i]
      BY <1>4, <1>5, <1>12, <1>14, <2>7, MovedSlots
    <3>2. g[0] \in Seq(Char) /\ g[c] = Null
      <4>1. 0 # v /\ 0 # w /\ c # w /\ 0 \in 0..m /\ c \in 0..m
        BY <1>1, <1>3, <1>5
      <4> QED BY <1>2, <1>6, <3>1, <4>1
    <3>3. \A j \in 1..y - 1 : g[j] = Item(s, j)
      <4>1. \A j \in 1..w : j # v /\ j \in 0..m /\ (j # w => j \in 1..w - 1)
        BY <1>1, <1>5, <2>7
      <4> QED BY <1>6, <2>1, <2>5, <3>1, <4>1
    <3>4. \A j \in y..x - 1 : g[j] = Null
      <4>1. \A j \in w + 1..v : j \in 0..m /\ j # w /\ (j # v => j \in w..v - 1)
        BY <1>1, <1>5
      <4> QED BY <1>6, <1>11, <2>1, <3>1, <4>1
    <3>5. \A j \in x..c - 1 : g[j] = Value(s, j)
      <4>1. \A j \in v + 1..d : j \in 0..m /\ j # v /\ j # w /\ j \in v..d
        BY <1>1, <1>3, <1>5
      <4> QED BY <1>3, <1>6, <1>11, <3>1, <4>1
    <3> QED BY <1>4, <1>8, <1>11, <1>12, <2>1, <2>2, <2>4, <3>2, <3>3, <3>4, <3>5
            DEF Removing
  <2> QED BY <2>6, <2>7
<1> QED BY <1>13, <1>14

\* At the null pointer all that is wanted stands in front, and nothing else.
LEMMA RemovingEnds ==
  ASSUME NEW s, NEW c, Entry(s, c), Clear(s), NEW k, NEW v, NEW w,
         Removing(s, c, k, v, w), k[v] = Null
  PROVE  /\ Count(k) = Cardinality(Wanted(s)) + 1
         /\ \A j \in 1..Cardinality(Wanted(s)) : k[j] = Item(s, j)
<1>1. c \in Nat /\ c > 1 /\ v \in 1..c /\ w \in 1..v
  BY DEF Entry, Removing
<1>2. PICK d \in Nat : d = c - 1
  BY <1>1
<1>3. v = c
  <2>1. SUFFICES ASSUME v # c PROVE FALSE
    OBVIOUS
  <2>2. v \in 1..d /\ v \in v..d
    BY <1>1, <1>2, <2>1
  <2>3. k[v] = Value(s, v)
    BY <1>2, <2>2 DEF Removing
  <2>4. Value(s, v) \in Seq(Char)
    BY <1>2, <2>2, ValueIs
  <2> QED BY <2>3, <2>4, KeyValAssumption
<1>4. PICK W \in SUBSET (0..d) : W = Wanted(s)
  <2>1. Wanted(s) \in SUBSET (1..d)
    BY <1>2, WantedIs
  <2>2. \A i \in 1..d : i \in 0..d
    OBVIOUS
  <2> QED BY <2>1, <2>2
<1>5. PICK p \in Nat : p = Cardinality(W)
  BY FiniteCount
<1>6. w = p + 1
  <2>1. d \in Int /\ d <= d
    OBVIOUS
  <2>2. Rank(W, d) = Cardinality(W)
    BY <2>1, RankBounds
  <2>3. w = Rank(W, v - 1) + 1
    BY <1>4 DEF Removing
  <2> QED BY <1>2, <1>3, <1>5, <2>2, <2>3
<1>7. PICK m \in Nat : DOMAIN k = 0..m /\ c <= m
  BY DEF Removing
<1>8. \A j \in 1..p : k[j] = Item(s, j)
  <2>1. w - 1 = p
    BY <1>6
  <2> QED BY <2>1 DEF Removing
<1>9. k[w] = Null
  <2>1. CASE w = v
    BY <2>1
  <2>2. CASE w # v
    <3>1. w \in w..v - 1
      BY <1>1, <2>2
    <3> QED BY <3>1 DEF Removing
  <2> QED BY <2>1, <2>2
<1>10. \A j \in 0..w - 1 : k[j] \in Seq(Char)
  <2>1. ASSUME NEW j \in 0..p PROVE k[j] \in Seq(Char)
    <3>1. CASE j = 0
      BY <3>1 DEF Removing
    <3>2. CASE j # 0
      <4>1. j \in 1..p
        BY <3>2
      <4>2. Word(Item(s, j))
        BY <1>4, <1>5, <4>1, WantedIs
      <4> QED BY <1>8, <4>1, <4>2 DEF Word
    <3> QED BY <3>1, <3>2
  <2>2. w - 1 = p
    BY <1>6
  <2> QED BY <2>1, <2>2
<1>11. w \in 0..m
  <2>1. c <= m
    BY <1>7
  <2> QED BY <1>1, <2>1
<1>12. Count(k) = w
  BY <1>7, <1>9, <1>10, <1>11, CountIs
<1> QED BY <1>4, <1>5, <1>6, <1>8, <1>12

\* The list of keyval2valstr() was joined from what is wanted.
Listed(s, l) ==
  /\ Cardinality(Wanted(s)) > 0
  /\ \E k : /\ l = Joined(k, 1) /\ Count(k) = Cardinality(Wanted(s)) + 1
            /\ \A j \in 1..Cardinality(Wanted(s)) : k[j] = Item(s, j)
\* The array of str2arr() holds what is wanted.
Held(s, a) ==
  /\ DOMAIN a = 0..Cardinality(Wanted(s)) /\ a[Cardinality(Wanted(s))] = Null
  /\ \A i \in 0..Cardinality(Wanted(s)) - 1 : a[i] = Item(s, i + 1)

\* How far a line that ListSurvives is about has come.
ListInv ==
  Clear(given) =>
    /\ pc = "remove" =>
         \E c : Entry(given, c) /\ Removing(given, c, kv, index[1], index[2])
    /\ pc = "list" => (\E c : Entry(given, c)) /\ Listed(given, list)
    /\ pc \in {"collapse", "array"} => (\E c : Entry(given, c)) /\ Held(given, array)
    /\ pc = "collapse" => index[1] = index[2] /\ index[1] \in 0..Cardinality(Wanted(given))

\* No line has come that far at the start.
LEMMA ListInit == Init => ListInv
BY DEF Init, ListInv

\* The values of the rules are in the list when the loop begins.
LEMMA ListUsed == ParserInv /\ UseList => ListInv'
<1> SUFFICES ASSUME ParserInv, UseList, Clear(given) PROVE ListInv'
  <2>1. ASSUME UseList, ~Clear(given) PROVE ListInv'
    <3>1. given' = given
      BY <2>1 DEF UseList
    <3> QED BY <2>1, <3>1 DEF ListInv
  <2> QED BY <2>1
<1>1. /\ pc = "parsed" /\ pc' = "remove" /\ given' = given /\ kv' = kv
      /\ index' = <<1, 1>>
  BY DEF UseList, buffer
<1>2. PICK c \in Nat, m \in Nat :
        /\ c > 1 /\ DOMAIN ByTheRules(given) = 0..c - 1
        /\ DOMAIN kv = 0..m /\ c <= m /\ kv[c] = Null
        /\ \A i \in 0..c - 1 :
             /\ kv[i] \in Seq(Char)
             /\ ~EndsInBlank(ByTheRules(given)[i]) => kv[i] = Chars(ByTheRules(given)[i])
        /\ \A i \in 1..c - 1 : ByTheRules(given)[i] \in Seq(AllTokens)
  BY <1>1, ParsedList DEF Clear
<1>3. Entry(given, c)
  BY <1>2 DEF Entry
<1>4. 0 \in 0..c - 1 /\ \A j \in 1..c - 1 : j \in 0..c - 1
  <2>1. c > 1
    BY <1>2
  <2> QED BY <2>1
<1>5. \A j \in 1..c - 1 : kv[j] = Value(given, j)
  BY <1>2, <1>3, <1>4, PlainEnds DEF Value
<1>6. kv[0] \in Seq(Char)
  BY <1>2, <1>4
<1>7. DOMAIN kv = 0..m /\ c <= m /\ kv[c] = Null
  BY <1>2
<1>8. Removing(given, c, kv, 1, 1)
  BY <1>3, <1>5, <1>6, <1>7, RemovingBegins
<1>9. index'[1] = 1 /\ index'[2] = 1
  BY <1>1
<1> QED BY <1>1, <1>3, <1>8, <1>9 DEF ListInv

\* The loop goes on,
LEMMA ListRemoved == ListInv /\ keyval_remove_empty_values => ListInv'
<1> SUFFICES ASSUME ListInv, keyval_remove_empty_values PROVE ListInv'
  OBVIOUS
<1>1. /\ pc = "remove" /\ pc' = "remove" /\ given' = given /\ kv[index[1]] # Null
      /\ kv' = Moved(kv, index[1], index[2]) /\ index' = After(kv, index[1], index[2])
  BY DEF keyval_remove_empty_values
<1>2. ASSUME Clear(given)
      PROVE  \E c : Entry(given, c) /\ Removing(given, c, kv', index'[1], index'[2])
  <2>1. PICK c : Entry(given, c) /\ Removing(given, c, kv, index[1], index[2])
    BY <1>1, <1>2 DEF ListInv
  <2>2. PICK v, w : v = index[1] /\ w = index[2]
    OBVIOUS
  <2>3. Removing(given, c, Moved(kv, v, w), After(kv, v, w)[1], After(kv, v, w)[2])
    BY <1>1, <1>2, <2>1, <2>2, RemovingGoesOn
  <2> QED BY <1>1, <2>1, <2>2, <2>3
<1> QED BY <1>1, <1>2 DEF ListInv

\* it ends with what is wanted,
LEMMA ListJoined == ListInv /\ keyval2valstr => ListInv'
<1> SUFFICES ASSUME ListInv, keyval2valstr PROVE ListInv'
  OBVIOUS
<1>1. /\ pc = "remove" /\ pc' = "list" /\ given' = given /\ kv[index[1]] = Null
      /\ Count(kv) - 1 > 0 /\ list' = Joined(kv, 1)
  BY DEF keyval2valstr, keyval_nvalues
<1>2. ASSUME Clear(given)
      PROVE  (\E c : Entry(given, c)) /\ Listed(given, list')
  <2>1. PICK c : Entry(given, c) /\ Removing(given, c, kv, index[1], index[2])
    BY <1>1, <1>2 DEF ListInv
  <2>2. PICK p \in Nat : p = Cardinality(Wanted(given))
    BY <1>2, <2>1, WantedIs
  <2>3. /\ Count(kv) = Cardinality(Wanted(given)) + 1
        /\ \A j \in 1..Cardinality(Wanted(given)) : kv[j] = Item(given, j)
    BY <1>1, <1>2, <2>1, RemovingEnds
  <2>4. p > 0
    <3>1. Count(kv) = p + 1 /\ Count(kv) - 1 > 0
      BY <1>1, <2>2, <2>3
    <3> QED BY <3>1
  <2> QED BY <1>1, <2>1, <2>2, <2>3, <2>4 DEF Listed
<1> QED BY <1>1, <1>2 DEF ListInv

\* str2arr() finds it in the list,
LEMMA ListCut == ListInv /\ str2arr => ListInv'
<1> SUFFICES ASSUME ListInv, str2arr PROVE ListInv'
  OBVIOUS
<1>1. PICK n : n = Cardinality(Cuts(list)) - 1
  OBVIOUS
<1>2. /\ pc = "list" /\ pc' = "collapse" /\ given' = given /\ index' = <<0, 0>>
      /\ array' = [i \in 0..n |-> IF i = n THEN Null
           ELSE Trimmed(list, Nth(Cuts(list), i + 1) + 1, Nth(Cuts(list), i + 2) - 1)]
  BY <1>1 DEF str2arr
<1>3. ASSUME Clear(given)
      PROVE  (\E c : Entry(given, c)) /\ Held(given, array')
             /\ 0 \in 0..Cardinality(Wanted(given))
  <2>1. PICK c : Entry(given, c)
    BY <1>2, <1>3 DEF ListInv
  <2>2. PICK p \in Nat : p = Cardinality(Wanted(given))
    BY <1>3, <2>1, WantedIs
  <2>3. Listed(given, list)
    BY <1>2, <1>3 DEF ListInv
  <2>4. p > 0
    BY <2>2, <2>3 DEF Listed
  <2>5. PICK k : /\ list = Joined(k, 1) /\ Count(k) = p + 1
                 /\ \A j \in 1..p : k[j] = Item(given, j)
    BY <2>2, <2>3 DEF Listed
  <2>6. Words(k, p)
    BY <1>3, <2>1, <2>2, <2>5, WantedIs DEF Words
  <2>7. PICK s : s = Joined(k, 1) /\ s = list
    BY <2>5
  <2>8. /\ Cardinality(Cuts(s)) = p + 1
        /\ \A i \in 0..p - 1 :
             Trimmed(s, Nth(Cuts(s), i + 1) + 1, Nth(Cuts(s), i + 2) - 1) = k[i + 1]
    BY <2>4, <2>5, <2>6, <2>7, CutUp
  <2>9. n = p
    <3>1. n = p + 1 - 1
      BY <1>1, <2>7, <2>8
    <3> QED BY <3>1
  <2>10. DOMAIN array' = 0..p /\ array'[p] = Null
    BY <1>2, <2>9
  <2>11. ASSUME NEW i \in 0..p - 1 PROVE array'[i] = Item(given, i + 1)
    <3>1. i \in 0..p /\ i # p /\ i + 1 \in 1..p
      OBVIOUS
    <3>2. array'[i] = Trimmed(s, Nth(Cuts(s), i + 1) + 1, Nth(Cuts(s), i + 2) - 1)
      BY <1>2, <2>7, <2>9, <3>1
    <3> QED BY <2>5, <2>8, <3>1, <3>2
  <2> QED BY <2>1, <2>2, <2>10, <2>11 DEF Held
<1>4. index'[1] = 0 /\ index'[2] = 0
  BY <1>2
<1> QED BY <1>2, <1>3, <1>4 DEF ListInv

\* and arrcollapse() has nothing to do.
LEMMA ListCollapsed == ListInv /\ arrcollapse => ListInv'
<1> SUFFICES ASSUME ListInv, arrcollapse PROVE ListInv'
  OBVIOUS
<1>1. /\ pc = "collapse" /\ pc' = "collapse" /\ given' = given
      /\ array[index[1]] # Null
      /\ array' = Moved(array, index[1], index[2])
      /\ index' = After(array, index[1], index[2])
  BY DEF arrcollapse
<1>2. ASSUME Clear(given)
      PROVE  /\ \E c : Entry(given, c)
             /\ Held(given, array') /\ index'[1] = index'[2]
             /\ index'[1] \in 0..Cardinality(Wanted(given))
  <2>1. PICK c : Entry(given, c)
    BY <1>1, <1>2 DEF ListInv
  <2>2. Held(given, array) /\ index[1] = index[2]
        /\ index[1] \in 0..Cardinality(Wanted(given))
    BY <1>1, <1>2 DEF ListInv
  <2>3. PICK p \in Nat : p = Cardinality(Wanted(given))
    BY <1>2, <2>1, WantedIs
  <2>4. PICK v \in 0..p : v = index[1] /\ v = index[2]
    BY <2>2, <2>3
  <2>5. v # p
    BY <1>1, <2>2, <2>3, <2>4 DEF Held
  <2>6. v \in 0..p - 1 /\ v + 1 \in 1..p /\ v + 1 \in 0..p
    BY <2>5
  <2>7. array[v] # <<>>
    <3>1. array[v] = Item(given, v + 1)
      BY <2>2, <2>3, <2>6 DEF Held
    <3>2. Word(Item(given, v + 1))
      BY <1>2, <2>1, <2>3, <2>6, WantedIs
    <3> QED BY <3>1, <3>2 DEF Word
  <2>8. v \in DOMAIN array
    BY <2>2, <2>3 DEF Held
  <2>9. Moved(array, v, v) = array
    BY <2>7, <2>8, MovedSlots
  <2>10. After(array, v, v)[1] = v + 1 /\ After(array, v, v)[2] = v + 1
    BY <2>7 DEF After
  <2>11. array' = array /\ index'[1] = v + 1 /\ index'[2] = v + 1
    BY <1>1, <2>4, <2>9, <2>10
  <2> QED BY <2>1, <2>2, <2>3, <2>6, <2>11
<1> QED BY <1>1, <1>2 DEF ListInv

\* No step loses or changes a value.
LEMMA ListStep == ParserInv /\ ListInv /\ [Next]_vars => ListInv'
<1> SUFFICES ASSUME ParserInv, ListInv, [Next]_vars PROVE ListInv'
  OBVIOUS
<1>1. CASE UseList
  BY <1>1, ListUsed
<1>2. CASE keyval_remove_empty_values
  BY <1>2, ListRemoved
<1>3. CASE keyval2valstr
  BY <1>3, ListJoined
<1>4. CASE str2arr
  BY <1>4, ListCut
<1>5. CASE arrcollapse
  BY <1>5, ListCollapsed
<1>6. CASE Collapsed
  <2>1. pc = "collapse" /\ pc' = "array" /\ given' = given /\ array' = array
    BY <1>6 DEF Collapsed, lists
  <2> QED BY <2>1 DEF ListInv
<1>7. CASE UNCHANGED vars
  <2>1. pc' = pc /\ given' = given /\ array' = array /\ kv' = kv /\ list' = list
        /\ index' = index
    BY <1>7 DEF vars, buffer, lists
  <2> QED BY <2>1 DEF ListInv
<1>8. ASSUME \/ RemoveComments \/ NoKey \/ StoreKey \/ StoreValue \/ EndValues
             \/ Sanitize \/ keyval2array \/ NoValues
      PROVE  ListInv'
  <2>1. pc' \in {"scan", "ignored", "values", "sanitize", "parsed", "shifted", "absent"}
    BY <1>8 DEF RemoveComments, NoKey, StoreKey, StoreValue, EndValues, Sanitize,
                keyval2array, NoValues
  <2> QED BY <2>1 DEF ListInv
<1> QED BY <1>1, <1>2, <1>3, <1>4, <1>5, <1>6, <1>7, <1>8 DEF Next

\* The array holds what is wanted and nothing else.
LEMMA ListImplies == ListInv => ListSurvives
<1> SUFFICES ASSUME ListInv, pc = "array", Clear(given)
             PROVE  Strings(array) =
                      [i \in 0..Cardinality(Wanted(given)) - 1 |-> Item(given, i + 1)]
  <2>1. ASSUME pc = "array", ~Unfinished(given),
               \A i \in Wanted(given) : Plain(Chars(ByTheRules(given)[i]))
        PROVE  Clear(given)
    BY <2>1 DEF Clear, Value
  <2> QED BY <2>1 DEF ListSurvives, Wanted, Item, Value
<1>1. PICK c : Entry(given, c)
  BY DEF ListInv
<1>2. PICK p \in Nat : p = Cardinality(Wanted(given))
  BY <1>1, WantedIs
<1>3. DOMAIN array = 0..p /\ array[p] = Null /\ \A i \in 0..p - 1 : array[i] = Item(given, i + 1)
  BY <1>2 DEF ListInv, Held
<1>4. \A i \in 0..p - 1 : array[i] \in Seq(Char)
  <2>1. \A i \in 0..p - 1 : i + 1 \in 1..p
    OBVIOUS
  <2>2. \A j \in 1..p : Item(given, j) \in Seq(Char)
    BY <1>1, <1>2, WantedIs DEF Word
  <2> QED BY <1>3, <2>1, <2>2
<1>5. p \in 0..p
  OBVIOUS
<1>6. Count(array) = p
  BY <1>3, <1>4, <1>5, CountIs
<1> QED BY <1>2, <1>3, <1>6 DEF Strings

\* For a line whose values need no escape, what the daemon works with in the end is
\* exactly its values that are not empty, in their order, however many there are and
\* however long: keyval_remove_empty_values() moves each to the front once, the ','
\* of keyval2valstr() stand where str2arr() cuts, and arrcollapse() finds no gap
\* (keyval.c:519-560, util.c:251-316, 395-417).
THEOREM ValuesSurvive == Spec => []ListSurvives
BY ListInit, ListStep, ListImplies, ParserInit, ParserStep, PTL DEF Spec

=============================================================================
