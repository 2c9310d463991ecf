------------------------- MODULE SubsequenceProofs -------------------------
(***************************************************************************)
(* What Keep returns: a sequence of the same kind, whose elements keep     *)
(* their order, so that an element never moves forward when more elements  *)
(* are kept.  No induction over the sequence is needed: the rank of a      *)
(* position is a bijection onto an interval, because cardinalities agree.  *)
(***************************************************************************)
EXTENDS Subsequences, FiniteSetTheorems, WellFoundedInduction, TLAPS

\* Every set of natural numbers has a least element: what stands in for
\* induction, whose theorems take an operator as their parameter.
LEMMA LeastExists ==
  ASSUME NEW T \in SUBSET Nat, T # {}
  PROVE  \E x \in T : \A y \in T : x <= y
<1> DEFINE Below(k) == {m \in T : m <= k}
           Sets == {Below(k) : k \in T}
<1>1. ASSUME NEW k \in T PROVE Below(k) \in FiniteSubsetsOf(Nat)
  <2>1. Below(k) \in SUBSET Nat /\ k \in Nat /\ \A m \in Below(k) : m <= k
    OBVIOUS
  <2>2. QED BY <2>1, FS_BoundedSetOfNaturals DEF FiniteSubsetsOf
<1>2. Sets \subseteq FiniteSubsetsOf(Nat) /\ Sets # {}
  BY <1>1
<1>3. \E X \in Sets : \A Y \in Sets : <<Y, X>> \notin StrictSubsetOrdering(Nat)
  BY <1>2, FS_StrictSubsetOrderingWellFounded, WFMin
<1>4. PICK x \in T : \A y \in T : <<Below(y), Below(x)>> \notin StrictSubsetOrdering(Nat)
  BY <1>3
<1>5. ASSUME NEW y \in T, y < x PROVE FALSE
  <2>1. x <= x /\ ~(x <= y) /\ \A m \in T : m <= y => m <= x
    BY <1>5
  <2>2. Below(y) \subseteq Below(x) /\ x \in Below(x) /\ x \notin Below(y)
    BY <2>1
  <2>3. <<Below(y), Below(x)>> \in StrictSubsetOrdering(Nat)
    BY <2>2 DEF StrictSubsetOrdering
  <2>4. QED BY <1>4, <2>3
<1>6. QED BY <1>5

\* A finite set of natural numbers that has a member has a greatest one.
LEMMA GreatestExists ==
  ASSUME NEW T \in SUBSET Nat, T # {}, IsFiniteSet(T)
  PROVE  \E x \in T : \A y \in T : y <= x
<1> DEFINE Above(k) == {m \in T : k <= m}
           Sets == {Above(k) : k \in T}
<1>1. ASSUME NEW k \in T PROVE Above(k) \in FiniteSubsetsOf(Nat)
  <2>1. Above(k) \in SUBSET T
    OBVIOUS
  <2>2. QED BY <2>1, FS_Subset DEF FiniteSubsetsOf
<1>2. Sets \subseteq FiniteSubsetsOf(Nat) /\ Sets # {}
  BY <1>1
<1>3. \E X \in Sets : \A Y \in Sets : <<Y, X>> \notin StrictSubsetOrdering(Nat)
  BY <1>2, FS_StrictSubsetOrderingWellFounded, WFMin
<1>4. PICK x \in T : \A y \in T : <<Above(y), Above(x)>> \notin StrictSubsetOrdering(Nat)
  BY <1>3
<1>5. ASSUME NEW y \in T, x < y PROVE FALSE
  <2>1. x <= x /\ ~(y <= x) /\ \A m \in T : y <= m => x <= m
    BY <1>5
  <2>2. Above(y) \subseteq Above(x) /\ x \in Above(x) /\ x \notin Above(y)
    BY <2>1
  <2>3. <<Above(y), Above(x)>> \in StrictSubsetOrdering(Nat)
    BY <2>2 DEF StrictSubsetOrdering
  <2>4. QED BY <1>4, <2>3
<1>6. QED BY <1>5

\* The rank of a member counts it, and grows with the member.
LEMMA RankType ==
  ASSUME NEW I \in SUBSET Int, IsFiniteSet(I), NEW i \in I
  PROVE  Rank(I, i) \in 1..Cardinality(I)
<1>1. {h \in I : h <= i} \in SUBSET I /\ {h \in I : h <= i} # {}
  OBVIOUS
<1>2. /\ IsFiniteSet({h \in I : h <= i})
      /\ Cardinality({h \in I : h <= i}) <= Cardinality(I)
  BY <1>1, FS_Subset
<1>3. Cardinality({h \in I : h <= i}) # 0
  BY <1>1, <1>2, FS_EmptySet
<1>4. QED BY <1>2, <1>3, FS_CardinalityType DEF Rank

LEMMA RankGrows ==
  ASSUME NEW I \in SUBSET Int, IsFiniteSet(I), NEW h \in I, NEW i \in I, h < i
  PROVE  Rank(I, h) < Rank(I, i)
<1> DEFINE H == {k \in I : k <= h}
           J == {k \in I : k <= i}
<1>0. i <= i /\ ~(i <= h) /\ \A k \in I : k <= h => k <= i
  OBVIOUS
<1>1. H \in SUBSET J /\ J \in SUBSET I /\ i \in J /\ i \notin H
  BY <1>0
<1>2. IsFiniteSet(J)
  BY <1>1, FS_Subset
<1>3. Cardinality(H) <= Cardinality(J) /\ Cardinality(H) # Cardinality(J) /\ IsFiniteSet(H)
  BY <1>1, <1>2, FS_Subset
<1>4. QED BY <1>2, <1>3, FS_CardinalityType DEF Rank

\* Every number up to the cardinality is the rank of exactly one member.
LEMMA RankOnto ==
  ASSUME NEW I \in SUBSET Int, IsFiniteSet(I)
  PROVE  \A n \in 1..Cardinality(I) : \E i \in I : Rank(I, i) = n
<1> DEFINE N == Cardinality(I)
           f == [i \in I |-> Rank(I, i)]
<1>1. N \in Nat /\ IsFiniteSet(1..N) /\ Cardinality(1..N) = N
  BY FS_CardinalityType, FS_Interval
<1>2. f \in [I -> 1..N]
  BY RankType
<1>3. ASSUME NEW h \in I, NEW i \in I, h # i PROVE f[h] # f[i]
  <2>1. h < i \/ i < h
    BY <1>3
  <2>2. Rank(I, h) \in Int /\ Rank(I, i) \in Int
    BY RankType, <1>1
  <2>3. QED BY <2>1, <2>2, RankGrows
<1>4. f \in Injection(I, 1..N)
  BY <1>2, <1>3 DEF Injection, IsInjective
<1>5. f \in Surjection(I, 1..N)
  BY <1>1, <1>4, FS_Injection
<1>6. QED BY <1>5 DEF Surjection

LEMMA NthType ==
  ASSUME NEW I \in SUBSET Int, IsFiniteSet(I), NEW n \in 1..Cardinality(I)
  PROVE  Nth(I, n) \in I /\ Rank(I, Nth(I, n)) = n
BY RankOnto DEF Nth

LEMMA NthOfRank ==
  ASSUME NEW I \in SUBSET Int, IsFiniteSet(I), NEW i \in I
  PROVE  Nth(I, Rank(I, i)) = i
<1>1. Rank(I, i) \in 1..Cardinality(I)
  BY RankType
<1> DEFINE k == Nth(I, Rank(I, i))
<1>2. k \in I /\ Rank(I, k) = Rank(I, i)
  BY <1>1, NthType
<1>3. Rank(I, i) \in Int /\ Cardinality(I) \in Nat
  BY <1>1, FS_CardinalityType
<1> HIDE DEF k
<1>4. ~(k < i) /\ ~(i < k) /\ k \in Int /\ i \in Int
  BY <1>2, <1>3, RankGrows
<1>5. k = i
  BY <1>4
<1>6. QED BY <1>5 DEF k

LEMMA PositionsFinite ==
  ASSUME NEW S, NEW s \in Seq(S), NEW T
  PROVE  /\ Positions(s, T) \in SUBSET (1..Len(s)) /\ Positions(s, T) \in SUBSET Int
         /\ IsFiniteSet(Positions(s, T)) /\ Cardinality(Positions(s, T)) \in Nat
<1>1. Positions(s, T) \in SUBSET (1..Len(s)) /\ Len(s) \in Nat /\ Positions(s, T) \in SUBSET Int
  BY DEF Positions
<1>2. IsFiniteSet(Positions(s, T))
  <2>1. IsFiniteSet(1..Len(s))
    BY <1>1, FS_Interval
  <2>2. QED BY <1>1, <2>1, FS_Subset
<1>3. QED BY <1>1, <1>2, FS_CardinalityType

\* Keep returns elements of the sequence that belong to the set ...
LEMMA KeepType ==
  ASSUME NEW S, NEW s \in Seq(S), NEW T
  PROVE  /\ Keep(s, T) \in Seq(S)
         /\ Len(Keep(s, T)) = Cardinality(Positions(s, T))
         /\ \A n \in 1..Len(Keep(s, T)) : Nth(Positions(s, T), n) \in Positions(s, T)
                                          /\ Keep(s, T)[n] = s[Nth(Positions(s, T), n)]
<1> DEFINE I == Positions(s, T)
<1>1. I \in SUBSET Int /\ IsFiniteSet(I) /\ Cardinality(I) \in Nat /\ I \in SUBSET (1..Len(s))
  BY PositionsFinite
<1>2. \A n \in 1..Cardinality(I) : Nth(I, n) \in I
  BY <1>1, NthType
<1>3. \A n \in 1..Cardinality(I) : s[Nth(I, n)] \in S
  BY <1>1, <1>2
<1> HIDE DEF I
<1>4. Keep(s, T) = [n \in 1..Cardinality(I) |-> s[Nth(I, n)]]
  BY DEF Keep, I
<1>5. Keep(s, T) \in Seq(S) /\ Len(Keep(s, T)) = Cardinality(I)
  BY <1>1, <1>3, <1>4
<1>6. QED BY <1>2, <1>4, <1>5 DEF I

\* ... and each of them, ...
LEMMA KeepEach ==
  ASSUME NEW S, NEW s \in Seq(S), NEW T, NEW i \in Positions(s, T)
  PROVE  /\ Rank(Positions(s, T), i) \in 1..Len(Keep(s, T))
         /\ Keep(s, T)[Rank(Positions(s, T), i)] = s[i]
BY PositionsFinite, RankType, NthOfRank, KeepType

\* ... so that an element of a sequence without repetitions stands where it
\* stood or later when more elements are kept.
LEMMA KeepMore ==
  ASSUME NEW S, NEW s \in Seq(S), \A h, i \in 1..Len(s) : s[h] = s[i] => h = i,
         NEW T, NEW U, T \subseteq U,
         NEW m \in 1..Len(Keep(s, T)), NEW n \in 1..Len(Keep(s, U)),
         Keep(s, T)[m] = Keep(s, U)[n]
  PROVE  m <= n
<1> DEFINE I == Positions(s, T)
           J == Positions(s, U)
           i == Nth(I, m)
<1>1. /\ I \in SUBSET Int /\ IsFiniteSet(I) /\ I \in SUBSET (1..Len(s))
      /\ J \in SUBSET Int /\ IsFiniteSet(J) /\ J \in SUBSET (1..Len(s))
      /\ Cardinality(I) \in Nat /\ Cardinality(J) \in Nat
  BY PositionsFinite
<1>2. I \in SUBSET J
  BY DEF Positions
<1>3. /\ m \in 1..Cardinality(I) /\ n \in 1..Cardinality(J)
      /\ i \in I /\ Keep(s, T)[m] = s[i]
      /\ Nth(J, n) \in J /\ Keep(s, U)[n] = s[Nth(J, n)]
  BY KeepType
<1>4. Nth(J, n) = i
  BY <1>1, <1>2, <1>3
<1>5. Rank(I, i) = m /\ Rank(J, i) = n
  BY <1>1, <1>3, <1>4, NthType
<1>6. {h \in I : h <= i} \in SUBSET {h \in J : h <= i} /\ {h \in J : h <= i} \in SUBSET J
  BY <1>2
<1>7. Cardinality({h \in I : h <= i}) <= Cardinality({h \in J : h <= i})
  BY <1>1, <1>6, FS_Subset
<1>8. QED BY <1>5, <1>7 DEF Rank

\* When the kept positions are consecutive, Keep is the subsequence between them.
LEMMA KeepInterval ==
  ASSUME NEW S, NEW s \in Seq(S), NEW T, NEW a \in Nat, NEW b \in Nat,
         1 <= a, a <= b + 1, b <= Len(s),
         \A i \in 1..Len(s) : s[i] \in T <=> a <= i /\ i <= b
  PROVE  Keep(s, T) = SubSeq(s, a, b)
<1> DEFINE I == Positions(s, T)
<1>1. I = a..b /\ IsFiniteSet(I) /\ I \in SUBSET Int
  BY PositionsFinite DEF Positions
<1>2. Cardinality(I) = b + 1 - a
  <2>1. Cardinality(a..b) = IF a > b THEN 0 ELSE b - a + 1
    BY FS_Interval, a \in Int, b \in Int
  <2>2. QED BY <1>1, <2>1
<1>3. ASSUME NEW i \in I PROVE Rank(I, i) = i + 1 - a
  <2>1. i \in Int /\ a <= i /\ i <= b /\ \A h \in I : h \in Int /\ a <= h
    BY <1>1
  <2>2. \A h \in a..i : h \in I /\ h <= i
    BY <1>1, <2>1
  <2>3. \A h \in I : h <= i => h \in a..i
    BY <2>1
  <2>4. {h \in I : h <= i} = a..i
    BY <2>2, <2>3
  <2>5. Cardinality(a..i) = i + 1 - a
    BY <2>1, FS_Interval
  <2>6. QED BY <2>4, <2>5 DEF Rank
<1>4. ASSUME NEW n \in 1..(b + 1 - a) PROVE Nth(I, n) = a + n - 1
  <2>1. a + n - 1 \in I
    BY <1>1 DEF Positions
  <2>2. Rank(I, a + n - 1) = n
    BY <1>3, <2>1
  <2>3. QED BY <1>1, <2>1, <2>2, NthOfRank
<1>5. Keep(s, T) = [n \in 1..(b + 1 - a) |-> s[Nth(I, n)]]
  BY <1>2 DEF Keep
<1>6. SubSeq(s, a, b) = [n \in 1..(b + 1 - a) |-> s[a + n - 1]]
  OBVIOUS
<1> HIDE DEF I
<1>7. QED BY <1>4, <1>5, <1>6
=============================================================================
