------------------------- MODULE LatencySweepProofs -------------------------
(***************************************************************************)
(* What the cache table takes from the latency curve, for every grid of    *)
(* working sets and every latency a machine may answer.  First numbers:    *)
(* least and greatest elements, a set in ascending order, the median.      *)
(* Then the plateaus find_plateaus cuts a curve into and the levels        *)
(* estimate_cache_levels reads off their steps, the sweep itself: which    *)
(* points were measured again, and when a level is trusted; and last the   *)
(* rings it chases: what is linked of them, and where a chase is led.      *)
(***************************************************************************)
EXTENDS LatencySweep, FiniteSetTheorems, SequenceTheorems, WellFoundedInduction, TLAPS

-----------------------------------------------------------------------------
(* Numbers.                                                                *)

LEMMA LeastExists ==
    ASSUME NEW S, S \subseteq Nat, S # {}
    PROVE  \E x \in S : \A y \in S : x <= y
<1> PICK s \in S : TRUE OBVIOUS
<1> DEFINE I == 0..s
           Under(x) == {z \in S : z < x}
           T == {Under(x) : x \in S \cap I}
           R == StrictSubsetOrdering(I)
<1>1. s \in Nat /\ \A z \in S : z \in Nat OBVIOUS
<1>2. T \subseteq FiniteSubsetsOf(I)
  <2>1. \A x \in S \cap I : Under(x) \subseteq I
    <3> SUFFICES ASSUME NEW x \in S, x \in I, NEW z \in S, z < x PROVE z \in I OBVIOUS
    <3>1. z \in Nat /\ x \in Nat /\ x <= s BY <1>1
    <3> QED BY <1>1, <3>1
  <2>2. IsFiniteSet(I) BY <1>1, FS_Interval
  <2>3. \A x \in S \cap I : IsFiniteSet(Under(x)) BY <2>1, <2>2, FS_Subset
  <2> QED BY <2>1, <2>3 DEF FiniteSubsetsOf
<1>3. T # {}
  <2>1. s \in S /\ s \in I BY <1>1
  <2> QED BY <2>1
<1>4. PICK t \in T : \A u \in T : <<u, t>> \notin R
  <2>1. IsWellFoundedOn(R, FiniteSubsetsOf(I)) BY FS_StrictSubsetOrderingWellFounded
  <2> HIDE DEF T, R
  <2> QED BY <1>2, <1>3, <2>1, WFMin
<1>5. PICK x \in S \cap I : t = Under(x) OBVIOUS
<1>6. \A y \in S : x <= y
  <2> SUFFICES ASSUME NEW y \in S, y < x PROVE FALSE BY <1>1
  <2>1. y \in S \cap I /\ y \in Nat /\ x \in Nat BY <1>1
  <2>2. Under(y) \subseteq Under(x)
    <3>1. \A z \in S : z < y => z < x BY <1>1, <2>1
    <3> QED BY <3>1
  <2>3. y \in Under(x) /\ y \notin Under(y) BY <2>1
  <2>4. <<Under(y), Under(x)>> \in R
    <3>1. Under(y) \in SUBSET I /\ Under(x) \in SUBSET I
      <4>1. Under(y) \in T /\ Under(x) \in T BY <2>1
      <4> HIDE DEF T, Under
      <4> QED BY <1>2, <4>1 DEF FiniteSubsetsOf
    <3> QED BY <2>2, <2>3, <3>1 DEF StrictSubsetOrdering
  <2> QED BY <1>4, <1>5, <2>1, <2>4
<1> QED BY <1>6

LEMMA MinOf ==
    ASSUME NEW S, S \subseteq Nat, S # {}
    PROVE  Min(S) \in S /\ \A y \in S : Min(S) <= y
BY LeastExists DEF Min

\* A finite set of naturals has its Max: the numbers above an element are a
\* finite set, and the smallest such set is that of the largest element.
LEMMA MaxOf ==
    ASSUME NEW S, S \subseteq Nat, IsFiniteSet(S), S # {}
    PROVE  Max(S) \in S /\ \A y \in S : Max(S) >= y
<1> DEFINE Over(x) == {z \in S : z > x}
           T == {Cardinality(Over(x)) : x \in S}
<1>1. \A x \in S : IsFiniteSet(Over(x)) /\ Cardinality(Over(x)) \in Nat
  <2> TAKE x \in S
  <2>1. Over(x) \subseteq S OBVIOUS
  <2> QED BY <2>1, FS_Subset, FS_CardinalityType
<1>2. T \subseteq Nat /\ T # {} BY <1>1
<1>3. PICK x \in S : \A y \in S : Cardinality(Over(x)) <= Cardinality(Over(y))
  <2>1. PICK t \in T : \A u \in T : t <= u
    <3> HIDE DEF T
    <3> QED BY <1>2, LeastExists
  <2> QED BY <2>1
<1>4. \A y \in S : x >= y
  <2> SUFFICES ASSUME NEW y \in S, y > x PROVE FALSE OBVIOUS
  <2>1. Over(y) \in SUBSET Over(x)
    <3>1. \A z \in S : z \in Nat OBVIOUS
    <3>2. \A z \in S : z > y => z > x BY <3>1
    <3> QED BY <3>2
  <2>2. y \in Over(x) /\ y \notin Over(y) OBVIOUS
  <2>3. /\ Cardinality(Over(y)) <= Cardinality(Over(x))
        /\ Cardinality(Over(x)) = Cardinality(Over(y)) => Over(x) = Over(y)
    <3>1. IsFiniteSet(Over(x)) BY <1>1
    <3> HIDE DEF Over
    <3> QED BY <3>1, <2>1, FS_Subset
  <2>4. Cardinality(Over(x)) <= Cardinality(Over(y)) BY <1>3
  <2>5. Cardinality(Over(x)) = Cardinality(Over(y)) BY <1>1, <2>3, <2>4
  <2> QED BY <2>2, <2>3, <2>5
<1> QED BY <1>4 DEF Max

LEMMA MaxOfRange ==
    ASSUME NEW a \in Nat, NEW b \in Nat, NEW S, S \subseteq a..b, S # {}
    PROVE  Max(S) \in S /\ \A y \in S : Max(S) >= y
<1>1. IsFiniteSet(S)
  <2>1. IsFiniteSet(a..b) BY FS_Interval
  <2> QED BY <2>1, FS_Subset
<1>2. S \subseteq Nat OBVIOUS
<1> QED BY <1>1, <1>2, MaxOf

\* Ascending lists the elements in order, one for each of their number.
LEMMA AscendingIs ==
    ASSUME NEW S, S \subseteq Nat, IsFiniteSet(S)
    PROVE  /\ Cardinality(S) \in Nat
           /\ Ascending(S) \in [1..Cardinality(S) -> S]
           /\ \A j, k \in 1..Cardinality(S) : j < k => Ascending(S)[j] < Ascending(S)[k]
<1> DEFINE n == Cardinality(S)
           A == Ascending(S)
           Under(x) == {y \in S : y < x}
           rank(x) == Cardinality(Under(x))
<1>1. n \in Nat BY FS_CardinalityType
<1>2. \A x \in S : Under(x) \in SUBSET S /\ IsFiniteSet(Under(x)) /\ rank(x) \in Nat
  <2> TAKE x \in S
  <2>1. Under(x) \subseteq S OBVIOUS
  <2> QED BY <2>1, FS_Subset, FS_CardinalityType
<1>3. \A k \in 1..n : \E x \in S : rank(x) = k - 1
  <2> DEFINE Missing == {k \in 1..n : \A x \in S : rank(x) # k - 1}
  <2> SUFFICES ASSUME Missing # {} PROVE FALSE OBVIOUS
  <2>1. PICK k \in Missing : \A j \in Missing : k <= j
    <3>1. Missing \subseteq Nat BY <1>1
    <3> HIDE DEF Missing
    <3> QED BY <3>1, LeastExists
  <2>2. k \in 1..n /\ k \in Nat BY <1>1, <2>1
  <2>3. CASE k = 1
    <3>1. S # {} BY <2>2, <2>3, FS_EmptySet
    <3>2. PICK x \in S : \A y \in S : x <= y BY <3>1, LeastExists
    <3>3. Under(x) = {}
      <4> SUFFICES ASSUME NEW y \in S, y < x PROVE FALSE OBVIOUS
      <4>1. y \in Nat /\ x \in Nat /\ x <= y BY <3>2
      <4> QED BY <4>1
    <3>4. rank(x) = 0 BY <3>3, FS_EmptySet
    <3> QED BY <2>1, <2>3, <3>4
  <2>4. CASE k > 1
    <3>1. k - 1 \in 1..n /\ k - 1 \notin Missing
      <4>1. k - 1 \in 1..n /\ ~(k <= k - 1) BY <1>1, <2>2, <2>4
      <4> HIDE DEF Missing
      <4> QED BY <4>1, <2>1
    <3>2. PICK x \in S : rank(x) = (k - 1) - 1 BY <3>1
    <3> DEFINE U == {y \in S : y > x}
               V == Under(x) \cup {x}
    <3>3. Cardinality(V) = k - 1 /\ IsFiniteSet(V)
      <4>1. x \notin Under(x) OBVIOUS
      <4>2. IsFiniteSet(Under(x)) /\ rank(x) \in Nat BY <1>2
      <4> HIDE DEF Under
      <4>3. Cardinality(V) = rank(x) + 1 /\ IsFiniteSet(V) BY <4>1, <4>2, FS_AddElement
      <4> QED BY <4>2, <4>3, <3>2, <2>2
    <3>4. U # {}
      <4> SUFFICES ASSUME U = {} PROVE FALSE OBVIOUS
      <4>1. S = V
        <5>1. \A y \in S : y = x \/ y < x BY x \in Nat, S \subseteq Nat
        <5> QED BY <5>1
      <4> HIDE DEF V
      <4> QED BY <4>1, <3>3, <2>2, <1>1
    <3>5. PICK z \in U : \A y \in U : z <= y
      <4>1. U \subseteq Nat OBVIOUS
      <4> HIDE DEF U
      <4> QED BY <4>1, <3>4, LeastExists
    <3>6. Under(z) = V
      <4>1. z \in S /\ z > x BY <3>5
      <4>2. \A y \in S : y < z => y <= x BY <3>5, <4>1
      <4>3. \A y \in S : y <= x => y < z BY <4>1
      <4>4. \A y \in S : y <= x <=> (y < x \/ y = x) OBVIOUS
      <4> QED BY <4>2, <4>3, <4>4
    <3>7. z \in S /\ rank(z) = k - 1 BY <3>3, <3>5, <3>6
    <3> QED BY <2>1, <3>7
  <2> QED BY <2>2, <2>3, <2>4
<1>4. \A k \in 1..n : A[k] \in S /\ rank(A[k]) = k - 1
  <2> TAKE k \in 1..n
  <2>1. A[k] = CHOOSE x \in S : rank(x) = k - 1 BY DEF Ascending
  <2> HIDE DEF A, rank
  <2> QED BY <1>3, <2>1
<1>5. A \in [1..n -> S]
  <2>1. A = [k \in 1..n |-> A[k]] BY SMTT(30) DEF Ascending
  <2> HIDE DEF A
  <2> QED BY <1>4, <2>1
<1>6. \A j, k \in 1..n : j < k => A[j] < A[k]
  <2> SUFFICES ASSUME NEW j \in 1..n, NEW k \in 1..n, j < k, ~(A[j] < A[k]) PROVE FALSE
    OBVIOUS
  <2> DEFINE a == A[j]  b == A[k]
  <2>1. a \in S /\ b \in S /\ rank(a) = j - 1 /\ rank(b) = k - 1 BY <1>4
  <2> HIDE DEF a, b, A
  <2>2. a \in Nat /\ b \in Nat /\ b <= a
    <3>1. a \in Nat /\ b \in Nat BY <2>1
    <3>2. ~(a < b) BY DEF a, b
    <3> QED BY <3>1, <3>2
  <2>3. Under(b) \in SUBSET Under(a)
    <3>1. \A y \in S : y \in Nat OBVIOUS
    <3>2. \A y \in S : y < b => y < a BY <2>2, <3>1
    <3> QED BY <3>2
  <2>4. IsFiniteSet(Under(a)) BY <1>2, <2>1
  <2>5. rank(b) <= rank(a)
    <3> HIDE DEF Under
    <3> QED BY <2>3, <2>4, FS_Subset
  <2> QED BY <2>1, <2>5, <1>1
<1> QED BY <1>1, <1>5, <1>6

LEMMA LenIs ==
    ASSUME NEW n \in Nat, NEW S, NEW f \in [1..n -> S]
    PROVE  f \in Seq(S) /\ Len(f) = n
<1>1. f \in Seq(S) BY SeqDef
<1>2. DOMAIN f = 1..n /\ DOMAIN f = 1..Len(f) /\ Len(f) \in Nat BY <1>1, LenProperties
<1> DEFINE m == Len(f)
<1>3. m \in Nat /\ 1..n = 1..m BY <1>2
<1> HIDE DEF m
<1>4. n \in 1..n \/ n = 0 OBVIOUS
<1>5. m \in 1..m \/ m = 0 BY <1>3
<1>6. m = n BY <1>3, <1>4, <1>5
<1> QED BY <1>1, <1>6 DEF m

\* The number the ranks count to is reached by one of the entries.
LEMMA SmallestIs ==
    ASSUME NEW s \in Seq(Nat), NEW k \in 1..Len(s)
    PROVE  Smallest(s, k) \in Nat /\ Smallest(s, k) \in ToSet(s)
<1> DEFINE n == Len(s)
           V == ToSet(s)
           upTo(v) == {i \in DOMAIN s : s[i] <= v}
           under(v) == {i \in DOMAIN s : s[i] < v}
           Enough == {v \in V : k <= Cardinality(upTo(v))}
<1>1. n \in Nat /\ DOMAIN s = 1..n /\ \A i \in 1..n : s[i] \in Nat
  BY LenProperties, ElementOfSeq
<1>2. IsFiniteSet(1..n) /\ Cardinality(1..n) = n
  <2>1. IsFiniteSet(1..n) /\ Cardinality(1..n) = IF 1 > n THEN 0 ELSE n - 1 + 1
    <3> HIDE DEF n
    <3> QED BY <1>1, FS_Interval
  <2> HIDE DEF n
  <2> QED BY <1>1, <2>1
<1>3. V \subseteq Nat /\ IsFiniteSet(V) /\ V # {}
  <2>1. V = {s[i] : i \in 1..n} BY <1>1 DEF ToSet
  <2>2. s \in [1..n -> V] BY <1>1, <2>1, LenProperties
  <2>3. s \in Surjection(1..n, V)
    <3>1. \A t \in V : \E i \in 1..n : s[i] = t BY <2>1
    <3> HIDE DEF V
    <3> QED BY <2>2, <3>1 DEF Surjection
  <2>4. IsFiniteSet(V)
    <3> HIDE DEF V
    <3> QED BY <1>2, <2>3, FS_Surjection
  <2>5. s[k] \in V BY <2>1
  <2> QED BY <1>1, <2>1, <2>4, <2>5
<1>4. \A v \in Nat : /\ upTo(v) \subseteq 1..n /\ under(v) \subseteq 1..n
                     /\ IsFiniteSet(upTo(v)) /\ Cardinality(upTo(v)) \in Nat
                     /\ IsFiniteSet(under(v)) /\ Cardinality(under(v)) \in Nat
  <2> TAKE v \in Nat
  <2>1. upTo(v) \subseteq 1..n /\ under(v) \subseteq 1..n BY <1>1
  <2> HIDE DEF upTo, under
  <2> QED BY <1>2, <2>1, FS_Subset, FS_CardinalityType
<1>5. Enough # {}
  <2> DEFINE m == Max(V)
  <2>1. m \in V /\ \A y \in V : m >= y BY <1>3, MaxOf
  <2>2. \A i \in 1..n : s[i] \in V /\ s[i] <= m BY <1>1, <1>3, <2>1 DEF ToSet
  <2>3. upTo(m) = 1..n BY <1>1, <2>2
  <2>4. k <= Cardinality(upTo(m))
    <3> k <= n OBVIOUS
    <3> HIDE DEF upTo, n, m
    <3> QED BY <1>2, <2>3
  <2> QED BY <2>1, <2>4
<1>6. PICK v \in Enough : \A w \in Enough : v <= w
  <2>1. Enough \subseteq Nat BY <1>3
  <2> HIDE DEF Enough
  <2> QED BY <1>5, <2>1, LeastExists
<1>7. v \in V /\ v \in Nat /\ k <= Cardinality(upTo(v)) BY <1>3, <1>6
<1>8. Cardinality(under(v)) < k
  <2> DEFINE W == {w \in V : w < v}
  <2>1. CASE W = {}
    <3>1. \A i \in 1..n : s[i] \in V BY <1>1 DEF ToSet
    <3>2. under(v) = {} BY <1>1, <2>1, <3>1
    <3>3. Cardinality(under(v)) = 0 BY <3>2, FS_EmptySet
    <3>4. k \in Nat /\ 0 < k BY <1>1
    <3> QED BY <3>3, <3>4
  <2>2. CASE W # {}
    <3> DEFINE m == Max(W)
    <3>1. m \in W /\ \A w \in W : m >= w
      <4>1. W \subseteq V OBVIOUS
      <4>2. W \subseteq Nat /\ IsFiniteSet(W) BY <1>3, <4>1, FS_Subset
      <4> HIDE DEF W
      <4> QED BY <2>2, <4>2, MaxOf
    <3>2. m \in V /\ m < v /\ m \in Nat BY <1>3, <3>1
    <3>3. m \notin Enough
      <4> HIDE DEF Enough, m
      <4> QED BY <1>6, <1>7, <3>2
    <3>4. under(v) \subseteq upTo(m)
      <4> SUFFICES ASSUME NEW i \in 1..n, s[i] < v PROVE s[i] <= m BY <1>1
      <4>1. s[i] \in W BY <1>1 DEF ToSet
      <4> HIDE DEF W, m
      <4>2. m >= s[i] BY <3>1, <4>1
      <4> QED BY <1>1, <3>2, <4>2
    <3>5. Cardinality(under(v)) <= Cardinality(upTo(m))
      <4>1. IsFiniteSet(upTo(m)) BY <1>4, <3>2
      <4> HIDE DEF upTo, under
      <4> QED BY <3>4, <4>1, FS_Subset
    <3>6. Cardinality(upTo(m)) < k
      <4>1. ~(k <= Cardinality(upTo(m))) BY <3>2, <3>3
      <4>2. Cardinality(upTo(m)) \in Nat BY <1>4, <3>2
      <4> HIDE DEF upTo
      <4> QED BY <4>1, <4>2
    <3>7. Cardinality(upTo(m)) \in Nat /\ Cardinality(under(v)) \in Nat
      BY <1>4, <1>7, <3>2
    <3> HIDE DEF upTo, under
    <3> QED BY <3>5, <3>6, <3>7
  <2> QED BY <2>1, <2>2
<1>9. \E x \in V : Cardinality(under(x)) < k /\ k <= Cardinality(upTo(x)) BY <1>7, <1>8
<1>10. Smallest(s, k) \in V BY <1>9 DEF Smallest
<1> QED BY <1>3, <1>10

\* A set of latencies with each everything below it: all there are, or those of
\* which the double is below the memory latency.
Downward(L) == L \subseteq Nat /\ \A v \in L, u \in Nat : u <= v => u \in L

LEMMA NatIsDownward == Downward(Nat)
BY DEF Downward

LEMMA MedianIs ==
    ASSUME NEW L, Downward(L), NEW s \in Seq(Nat), s # << >>,
           \A i \in 1..Len(s) : s[i] \in L
    PROVE  Median(s) \in L
<1> DEFINE n == Len(s)
           m == n \div 2
<1>1. n \in Nat \ {0} BY EmptySeq
<1>2. m \in Nat /\ (n % 2 = 1 => m + 1 \in 1..n) /\ (n % 2 # 1 => m \in 1..n /\ m + 1 \in 1..n)
  BY <1>1
<1> HIDE DEF m
<1>3. \A k \in 1..n : Smallest(s, k) \in L
  <2> TAKE k \in 1..n
  <2>1. Smallest(s, k) \in ToSet(s) BY SmallestIs
  <2>2. DOMAIN s = 1..n BY LenProperties
  <2> QED BY <2>1, <2>2 DEF ToSet
<1> HIDE DEF n
<1>4. \A a, b \in L : (a + b) \div 2 \in L
  <2> TAKE a, b \in L
  <2> DEFINE h == (a + b) \div 2
  <2>1. a \in Nat /\ b \in Nat BY DEF Downward
  <2>2. h \in Nat /\ (h <= a \/ h <= b) BY <2>1
  <2> HIDE DEF h
  <2>3. h \in L BY <2>2 DEF Downward
  <2> QED BY <2>3 DEF h
<1>5. Median(s) = IF n % 2 = 1 THEN Smallest(s, m + 1)
                  ELSE (Smallest(s, m) + Smallest(s, m + 1)) \div 2
  BY DEF Median, m, n
<1>6. CASE n % 2 = 1
  <2>1. Smallest(s, m + 1) \in L BY <1>2, <1>3, <1>6
  <2> QED BY <1>5, <1>6, <2>1
<1>7. CASE n % 2 # 1
  <2>1. Smallest(s, m) \in L /\ Smallest(s, m + 1) \in L BY <1>2, <1>3, <1>7
  <2> QED BY <1>4, <1>5, <1>7, <2>1
<1> QED BY <1>6, <1>7

\* The grid grows.
LEMMA SizesAre ==
    /\ Sizes \in Seq(Nat \ {0})
    /\ \A i, j \in Points : i < j => Sizes[i] < Sizes[j]
<1> DEFINE Grid == {q * 2^k : q \in 4..7, k \in 0..Octaves}
           S == {s \in Grid : s <= MaxKiB}
<1>1. \A s \in Grid : s \in Nat \ {0}
  <2> SUFFICES ASSUME NEW q \in 4..7, NEW k \in 0..Octaves PROVE q * 2^k \in Nat \ {0}
    OBVIOUS
  <2> DEFINE p == 2^k
  <2>1. p \in Nat \ {0} BY GridAssumption
  <2> HIDE DEF p
  <2>2. q * p \in Nat \ {0} BY <2>1
  <2> QED BY <2>2 DEF p
<1> HIDE DEF Grid
<1>2. S \subseteq 0..MaxKiB /\ S \subseteq Nat \ {0} BY <1>1, GridAssumption
<1>3. IsFiniteSet(S)
  <2>1. IsFiniteSet(0..MaxKiB) BY GridAssumption, FS_Interval
  <2> QED BY <1>2, <2>1, FS_Subset
<1>4. Sizes = Ascending(S) BY DEF Sizes, Grid
<1> DEFINE n == Cardinality(S)
<1>5. /\ n \in Nat
      /\ Ascending(S) \in [1..n -> S]
      /\ \A j, k \in 1..n : j < k => Ascending(S)[j] < Ascending(S)[k]
  <2> S \subseteq Nat BY <1>2
  <2> HIDE DEF S
  <2> QED BY <1>3, AscendingIs
<1> HIDE DEF S, n
<1>6. Sizes \in [1..n -> Nat \ {0}] BY <1>2, <1>4, <1>5
<1>7. Sizes \in Seq(Nat \ {0}) /\ Len(Sizes) = n BY <1>5, <1>6, LenIs
<1> QED BY <1>4, <1>5, <1>7 DEF Points

-----------------------------------------------------------------------------
(* Plateaus and levels.                                                    *)

Curves == Seq([latency : Nat, order : Orders])

LEMMA CurveIs ==
    ASSUME NEW pts \in Curves
    PROVE  /\ Len(pts) \in Nat /\ DOMAIN pts = 1..Len(pts)
           /\ \A i \in 1..Len(pts) : Latency(pts, i) \in Nat
<1> DEFINE P == [latency : Nat, order : Orders]
<1>1. pts \in Seq(P) BY DEF Curves
<1>2. \A p \in P : p.latency \in Nat OBVIOUS
<1> HIDE DEF P
<1>3. Len(pts) \in Nat /\ DOMAIN pts = 1..Len(pts) BY <1>1, LenProperties
<1>4. \A i \in 1..Len(pts) : pts[i] \in P BY <1>1, ElementOfSeq
<1> QED BY <1>2, <1>3, <1>4 DEF Latency

\* A single point is flat, so a run has an end.
LEMMA RunEnds ==
    ASSUME NEW pts \in Curves, NEW s \in 1..Len(pts)
    PROVE  RunEnd(pts, s) \in s..Len(pts)
<1> DEFINE E == {e \in s..Len(pts) : Flat(pts, s, e)}
<1>1. Len(pts) \in Nat /\ s \in Nat BY CurveIs
<1>2. Flat(pts, s, s) BY <1>1 DEF Flat
<1>3. s \in E BY <1>1, <1>2
<1>4. E \subseteq s..Len(pts) OBVIOUS
<1> HIDE DEF E
<1>5. Max(E) \in E BY <1>1, <1>3, <1>4, MaxOfRange
<1> QED BY <1>4, <1>5 DEF RunEnd, E

Plateaus(L) == [first : Nat, last : Nat, latency : L]

LEMMA PlateauIs ==
    ASSUME NEW pts \in Curves, NEW s \in 1..Len(pts), NEW e \in s..Len(pts),
           NEW L, Downward(L), \A i \in 1..Len(pts) : Latency(pts, i) \in L
    PROVE  /\ Plateau(pts, s, e) \in Plateaus(L)
           /\ Plateau(pts, s, e).first = s /\ Plateau(pts, s, e).last = e
<1> DEFINE n == e - s + 1
           f == [i \in 1..n |-> Latency(pts, s + i - 1)]
<1>1. Len(pts) \in Nat /\ s \in Nat /\ e \in Nat /\ n \in Nat \ {0} BY CurveIs
<1>2. \A i \in 1..n : Latency(pts, s + i - 1) \in L
  <2> TAKE i \in 1..n
  <2>1. s + i - 1 \in 1..Len(pts) BY <1>1
  <2> QED BY <2>1
<1> HIDE DEF n
<1>3. f \in [1..n -> Nat] /\ \A i \in 1..n : f[i] \in L BY <1>2 DEF Downward
<1>4. f \in Seq(Nat) /\ Len(f) = n
  <2> HIDE DEF f
  <2> QED BY <1>1, <1>3, LenIs
<1> HIDE DEF f
<1>5. f # << >> BY <1>1, <1>4, EmptySeq
<1>6. Median(f) \in L BY <1>3, <1>4, <1>5, MedianIs
<1> QED BY <1>1, <1>6 DEF Plateau, Plateaus, f, n

\* The table of find_plateaus from each point on, as it refers to later ones.
Cut(pts, g, s) ==
    IF s > Len(pts) THEN << >>
    ELSE IF Latency(pts, s) > 0 /\ RunEnd(pts, s) - s + 1 >= 3
         THEN <<Plateau(pts, s, RunEnd(pts, s))>> \o g[RunEnd(pts, s) + 1]
         ELSE g[s + 1]

\* It exists: it can be filled from its end.
LEMMA PlateausFromIs ==
    ASSUME NEW pts \in Curves
    PROVE  PlateausFrom(pts) = [s \in 1..(Len(pts) + 1) |-> Cut(pts, PlateausFrom(pts), s)]
<1> DEFINE n == Len(pts)
           D == 1..(n + 1)
           Fills(g, k) == /\ g = [s \in D |-> g[s]]
                          /\ \A s \in k..(n + 1) : g[s] = Cut(pts, g, s)
           Bad == {k \in D : ~\E g : Fills(g, k)}
<1>1. n \in Nat BY CurveIs
<1>2. \A s \in 1..n : RunEnd(pts, s) + 1 \in (s + 1)..(n + 1)
  <2> TAKE s \in 1..n
  <2>1. RunEnd(pts, s) \in s..n BY RunEnds
  <2> HIDE DEF n
  <2> QED BY <1>1, <2>1
<1>3. Bad = {}
  <2> SUFFICES ASSUME Bad # {} PROVE FALSE OBVIOUS
  <2> DEFINE k == Max(Bad)
  <2>1. k \in Bad /\ \A j \in Bad : k >= j
    <3> DEFINE m == n + 1
    <3>1. Bad \subseteq 1..m /\ m \in Nat BY <1>1
    <3> HIDE DEF Bad, m
    <3> QED BY <3>1, MaxOfRange
  <2> HIDE DEF k
  <2>2. k \in D BY <2>1
  <2>3. CASE k = n + 1
    <3> DEFINE h == [s \in D |-> << >>]
    <3>1. h = [s \in D |-> h[s]] OBVIOUS
    <3>2. \A s \in k..(n + 1) : s = n + 1 /\ s \in D /\ s > n
      <4> HIDE DEF n
      <4> QED BY <1>1, <2>3
    <3>3. \A s \in k..(n + 1) : h[s] = << >> /\ Cut(pts, h, s) = << >> BY <3>2 DEF Cut
    <3> HIDE DEF h
    <3>4. Fills(h, k) BY <3>1, <3>3
    <3> QED BY <2>1, <3>4
  <2>4. CASE k # n + 1
    <3>1. k \in 1..n /\ k + 1 \in D /\ ~(k >= k + 1) BY <1>1, <2>2, <2>4
    <3>2. k + 1 \notin Bad
      <4> HIDE DEF Bad
      <4> QED BY <2>1, <3>1
    <3>3. PICK g : Fills(g, k + 1) BY <3>1, <3>2
    <3> DEFINE h == [s \in D |-> IF s = k THEN Cut(pts, g, k) ELSE g[s]]
    <3>4. h = [s \in D |-> h[s]] OBVIOUS
    <3>5. \A s \in D : s > k => h[s] = g[s] BY <2>2
    <3>6. h[k] = Cut(pts, g, k) BY <2>2
    <3> HIDE DEF h
    <3>7. \A s \in k..(n + 1) : Cut(pts, h, s) = Cut(pts, g, s)
      <4> TAKE s \in k..(n + 1)
      <4>1. CASE s > n BY <4>1 DEF Cut
      <4>2. CASE s <= n
        <5>1. s \in 1..n BY <1>1, <3>1, <4>2
        <5>2. RunEnd(pts, s) + 1 \in D /\ RunEnd(pts, s) + 1 > k
          <6> DEFINE r == RunEnd(pts, s) + 1
          <6>1. r \in (s + 1)..(n + 1) BY <1>2, <5>1
          <6> HIDE DEF r
          <6>2. r \in D /\ r > k BY <1>1, <5>1, <6>1, <3>1
          <6> QED BY <6>2 DEF r
        <5>3. s + 1 \in D /\ s + 1 > k BY <1>1, <5>1, <3>1
        <5>4. h[RunEnd(pts, s) + 1] = g[RunEnd(pts, s) + 1] /\ h[s + 1] = g[s + 1]
          BY <3>5, <5>2, <5>3
        <5> QED BY <5>4 DEF Cut
      <4>3. s \in Nat BY <3>1
      <4> QED BY <1>1, <4>1, <4>2, <4>3
    <3>8. \A s \in k..(n + 1) : h[s] = Cut(pts, g, s)
      <4> TAKE s \in k..(n + 1)
      <4>1. CASE s = k BY <3>6, <4>1
      <4>2. CASE s # k
        <5>1. s \in (k + 1)..(n + 1) /\ s \in D /\ s > k BY <1>1, <3>1, <4>2
        <5> QED BY <3>3, <3>5, <5>1
      <4> QED BY <4>1, <4>2
    <3>9. Fills(h, k) BY <3>4, <3>7, <3>8
    <3> QED BY <2>1, <3>9
  <2> QED BY <2>3, <2>4
<1>4. \E g : g = [s \in D |-> Cut(pts, g, s)]
  <2>1. 1 \in D BY <1>1
  <2>2. PICK g : Fills(g, 1) BY <1>3, <2>1
  <2>3. g = [s \in D |-> Cut(pts, g, s)] BY <2>2
  <2> QED BY <2>3
<1>5. PlateausFrom(pts) = CHOOSE g : g = [s \in D |-> Cut(pts, g, s)]
  BY DEF PlateausFrom, Cut
<1> HIDE DEF D
<1>6. PlateausFrom(pts) = [s \in D |-> Cut(pts, PlateausFrom(pts), s)] BY <1>4, <1>5
<1> QED BY <1>6 DEF D

\* Plateaus of the points s..n, one after the other.
Chain(q, s, n, L) ==
    /\ q \in Seq(Plateaus(L))
    /\ \A i \in 1..Len(q) : s <= q[i].first /\ q[i].first <= q[i].last /\ q[i].last <= n
    /\ \A i, j \in 1..Len(q) : i < j => q[i].last < q[j].first

LEMMA ChainGrows ==
    ASSUME NEW L, Downward(L), NEW n \in Nat, NEW s \in 1..n, NEW p \in Plateaus(L), NEW q,
           p.first = s, p.last \in s..n, Chain(q, p.last + 1, n, L)
    PROVE  Chain(<<p>> \o q, s, n, L)
<1> DEFINE r == <<p>> \o q
           m == Len(q)
<1>1. q \in Seq(Plateaus(L)) /\ m \in Nat BY LenProperties DEF Chain
<1>2. <<p>> \in Seq(Plateaus(L)) /\ Len(<<p>>) = 1 /\ <<p>>[1] = p OBVIOUS
<1>3. /\ r \in Seq(Plateaus(L)) /\ Len(r) = 1 + m
      /\ \A i \in 1..(1 + m) : r[i] = IF i <= 1 THEN <<p>>[i] ELSE q[i - 1]
  BY <1>1, <1>2, ConcatProperties
<1> HIDE DEF r
<1>4. r[1] = p /\ \A i \in 2..(1 + m) : r[i] = q[i - 1] /\ i - 1 \in 1..m
  BY <1>1, <1>2, <1>3
<1>5. \A j \in 1..m : /\ q[j].first \in Nat /\ q[j].last \in Nat
                      /\ p.last + 1 <= q[j].first /\ q[j].first <= q[j].last /\ q[j].last <= n
  <2> TAKE j \in 1..m
  <2>1. q[j] \in Plateaus(L) BY <1>1, ElementOfSeq
  <2>2. /\ p.last + 1 <= q[j].first /\ q[j].first <= q[j].last /\ q[j].last <= n
    BY DEF Chain
  <2> QED BY <2>1, <2>2 DEF Plateaus
<1>6. \A i, j \in 1..m : i < j => q[i].last < q[j].first BY DEF Chain
<1> HIDE DEF m
<1>7. \A i \in 1..(1 + m) : i = 1 \/ i \in 2..(1 + m) BY <1>1
<1>8. \A i \in 1..(1 + m) : s <= r[i].first /\ r[i].first <= r[i].last /\ r[i].last <= n
  <2> TAKE i \in 1..(1 + m)
  <2>1. CASE i = 1 BY <1>4, <2>1
  <2>2. CASE i \in 2..(1 + m)
    <3>1. r[i] = q[i - 1] /\ i - 1 \in 1..m BY <1>4, <2>2
    <3> QED BY <1>5, <3>1
  <2> QED BY <1>7, <2>1, <2>2
<1>9. \A i, j \in 1..(1 + m) : i < j => r[i].last < r[j].first
  <2> SUFFICES ASSUME NEW i \in 1..(1 + m), NEW j \in 1..(1 + m), i < j
               PROVE  r[i].last < r[j].first
    OBVIOUS
  <2>1. j \in 2..(1 + m) BY <1>1
  <2>2. r[j] = q[j - 1] /\ j - 1 \in 1..m BY <1>4, <2>1
  <2>3. CASE i = 1 BY <1>4, <1>5, <2>2, <2>3
  <2>4. CASE i \in 2..(1 + m)
    <3>1. r[i] = q[i - 1] /\ i - 1 \in 1..m BY <1>4, <2>4
    <3>2. i - 1 < j - 1 BY <1>1
    <3> QED BY <1>6, <2>2, <3>1, <3>2
  <2> QED BY <1>7, <2>3, <2>4
<1> QED BY <1>3, <1>8, <1>9 DEF Chain, r

LEMMA ChainWidens ==
    ASSUME NEW L, Downward(L), NEW n \in Nat, NEW s \in Nat, NEW t \in Nat, s <= t, NEW q, Chain(q, t, n, L)
    PROVE  Chain(q, s, n, L)
<1>1. \A i \in 1..Len(q) : q[i].first \in Nat
  <2> TAKE i \in 1..Len(q)
  <2>1. q[i] \in Plateaus(L) BY ElementOfSeq DEF Chain
  <2> QED BY <2>1 DEF Plateaus
<1> QED BY <1>1 DEF Chain

LEMMA PlateausAre ==
    ASSUME NEW pts \in Curves, NEW L, Downward(L),
           \A i \in 1..Len(pts) : Latency(pts, i) \in L
    PROVE  Chain(FindPlateaus(pts), 1, Len(pts), L)
<1> DEFINE n == Len(pts)
           D == 1..(n + 1)
           f == PlateausFrom(pts)
           Bad == {s \in D : ~Chain(f[s], s, n, L)}
<1>1. n \in Nat BY CurveIs
<1>2. \A s \in D : f[s] = Cut(pts, f, s)
  <2>1. f = [s \in D |-> Cut(pts, f, s)] BY PlateausFromIs
  <2> HIDE DEF f, D
  <2> QED BY <2>1
<1> HIDE DEF f
<1>3. Bad = {}
  <2> SUFFICES ASSUME Bad # {} PROVE FALSE OBVIOUS
  <2> DEFINE k == Max(Bad)
  <2>1. k \in Bad /\ \A j \in Bad : k >= j
    <3> DEFINE m == n + 1
    <3>1. Bad \subseteq 1..m /\ m \in Nat BY <1>1
    <3> HIDE DEF Bad, m
    <3> QED BY <3>1, MaxOfRange
  <2> HIDE DEF k
  <2>2. k \in D /\ k \in Nat /\ ~Chain(f[k], k, n, L) BY <1>1, <2>1
  <2>3. \A j \in D : j > k => Chain(f[j], j, n, L)
    <3> SUFFICES ASSUME NEW j \in D, j > k, j \in Bad PROVE FALSE OBVIOUS
    <3>1. k >= j BY <2>1
    <3> HIDE DEF n
    <3> QED BY <1>1, <2>2, <3>1
  <2>4. f[k] = Cut(pts, f, k) BY <1>2, <2>2
  <2>5. CASE k > n
    <3>1. f[k] = << >> BY <2>4, <2>5 DEF Cut
    <3>2. << >> \in Seq(Plateaus(L)) /\ Len(<< >>) = 0 BY EmptySeq
    <3>3. Chain(<< >>, k, n, L) BY <3>2 DEF Chain
    <3> QED BY <2>2, <3>1, <3>3
  <2>6. CASE ~(k > n)
    <3>1. k \in 1..n
      <4> HIDE DEF n
      <4> QED BY <1>1, <2>2, <2>6
    <3> DEFINE e == RunEnd(pts, k)
    <3>2. e \in k..n BY <3>1, RunEnds
    <3>3. Plateau(pts, k, e) \in Plateaus(L) /\ Plateau(pts, k, e).first = k
             /\ Plateau(pts, k, e).last = e
      BY <3>1, <3>2, PlateauIs
    <3>4. e + 1 \in D /\ e + 1 > k /\ k + 1 \in D /\ k + 1 > k
      <4> HIDE DEF e, n
      <4> QED BY <1>1, <3>1, <3>2
    <3>5. Chain(f[e + 1], e + 1, n, L) /\ Chain(f[k + 1], k + 1, n, L) BY <2>3, <3>4
    <3>6. Chain(<<Plateau(pts, k, e)>> \o f[e + 1], k, n, L)
      <4> DEFINE p == Plateau(pts, k, e)
      <4>1. p \in Plateaus(L) /\ p.first = k /\ p.last = e BY <3>3
      <4> DEFINE q == f[e + 1]
      <4>2. p.last \in k..n /\ Chain(q, p.last + 1, n, L) BY <3>2, <3>5, <4>1
      <4> HIDE DEF p, e, n, q
      <4>3. Chain(<<p>> \o q, k, n, L) BY <1>1, <3>1, <4>1, <4>2, ChainGrows
      <4> QED BY <4>3 DEF p, q
    <3>7. Chain(f[k + 1], k, n, L)
      <4>1. k + 1 \in Nat /\ k <= k + 1 BY <2>2
      <4> HIDE DEF n
      <4> QED BY <1>1, <2>2, <3>5, <4>1, ChainWidens
    <3>8. f[k] = <<Plateau(pts, k, e)>> \o f[e + 1] \/ f[k] = f[k + 1]
      BY <2>4, <2>6 DEF Cut
    <3> QED BY <2>2, <3>6, <3>7, <3>8
  <2> QED BY <2>5, <2>6
<1>4. Chain(f[1], 1, n, L)
  <2>1. 1 \in D BY <1>1
  <2> QED BY <1>3, <2>1
<1> QED BY <1>4 DEF FindPlateaus, f

\* A capacity lies on the plateau below its step or between the two.
LEMMA CapacityIsBelow ==
    ASSUME NEW pts, NEW below \in Plateaus(Nat), NEW above \in Plateaus(Nat), below.last < above.first
    PROVE  CapacityPoint(pts, below, above) \in below.last..(above.first - 1)
<1> DEFINE a == below.last
           b == above.first - 1
<1>1. a \in Nat /\ b \in Nat /\ a <= b BY DEF Plateaus
<1> DEFINE fits(j) == Latency(pts, j) * Latency(pts, j) * Latency(pts, j)
                          < below.latency * below.latency * above.latency
           S == {a} \cup {j \in a..b : \A k \in a..j : fits(k)}
<1>2. CapacityPoint(pts, below, above) = Max(S) BY DEF CapacityPoint
<1> HIDE DEF a, b, fits
<1>3. S \subseteq a..b /\ S # {} BY <1>1
<1> HIDE DEF S
<1>4. Max(S) \in a..b BY <1>1, <1>3, MaxOfRange
<1> QED BY <1>2, <1>4 DEF a, b

Levels == [capacity : Nat \ {0}, latency : Nat]
Rising(lv) == \A j, k \in 1..Len(lv) : j < k => lv[j].capacity < lv[k].capacity

\* Capacities rise because the steps do and a capacity lies below its step.
LEMMA LevelsAre ==
    ASSUME NEW pts \in Curves, Len(pts) = Len(Sizes), NEW mem \in Nat
    PROVE  LET lv == EstimateLevels(pts, mem)
           IN  /\ lv \in Seq(Levels) /\ Rising(lv)
               /\ \A k \in 1..Len(lv) : mem > 0 => 2 * lv[k].latency < mem
               /\ lv # << >> => pts # << >>
<1> DEFINE pl == FindPlateaus(pts)
           n == Len(pts)
           S == Steps(pl, mem)
           st == Ascending(S)
           c == Cardinality(S)
           point(k) == CapacityPoint(pts, pl[st[k]], pl[st[k] + 1])
           e(k) == [capacity |-> Sizes[point(k)], latency |-> pl[st[k]].latency]
           lv == EstimateLevels(pts, mem)
<1>1. n \in Nat BY CurveIs
<1>2. Chain(pl, 1, n, Nat) BY CurveIs, NatIsDownward, PlateausAre
<1> HIDE DEF pl
<1>3. pl \in Seq(Plateaus(Nat)) /\ Len(pl) \in Nat BY <1>2, LenProperties DEF Chain
<1>4. S \subseteq 1..(Len(pl) - 1) BY DEF Steps
<1>5. \A i \in S : mem > 0 => 2 * pl[i].latency < mem
  <2> SUFFICES ASSUME NEW i \in S, mem > 0 PROVE 2 * pl[i].latency < mem OBVIOUS
  <2>1. i \in 1..(Len(pl) - 1) /\ \A k \in 1..i : ~IsMemory(pl[k], mem) BY DEF Steps
  <2>2. i \in 1..i BY <2>1
  <2>3. ~(2 * pl[i].latency >= mem) BY <2>1, <2>2 DEF IsMemory
  <2>4. i \in 1..Len(pl) BY <1>3, <2>1
  <2>5. pl[i] \in Plateaus(Nat) BY <1>3, <2>4, ElementOfSeq
  <2>6. pl[i].latency \in Nat BY <2>5 DEF Plateaus
  <2> QED BY <2>3, <2>6
<1> HIDE DEF S
<1>6. /\ c \in Nat /\ st \in [1..c -> S]
      /\ \A j, k \in 1..c : j < k => st[j] < st[k]
  <2>1. IsFiniteSet(S)
    <3>1. IsFiniteSet(1..(Len(pl) - 1)) BY <1>3, FS_Interval
    <3> QED BY <1>4, <3>1, FS_Subset
  <2>2. S \subseteq Nat BY <1>4
  <2> QED BY <2>1, <2>2, AscendingIs
<1> HIDE DEF c, st
<1>7. Len(st) = c BY <1>6, LenIs
<1>8. \A k \in 1..c :
          /\ st[k] \in 1..Len(pl) /\ st[k] + 1 \in 1..Len(pl) /\ st[k] \in Nat
          /\ pl[st[k]] \in Plateaus(Nat) /\ pl[st[k] + 1] \in Plateaus(Nat)
          /\ pl[st[k]].last < pl[st[k] + 1].first
  <2> TAKE k \in 1..c
  <2> DEFINE i == st[k]
  <2>1. i \in 1..(Len(pl) - 1) BY <1>4, <1>6
  <2> HIDE DEF i
  <2>2. i \in 1..Len(pl) /\ i + 1 \in 1..Len(pl) /\ i \in Nat /\ i < i + 1 BY <1>3, <2>1
  <2>3. pl[i] \in Plateaus(Nat) /\ pl[i + 1] \in Plateaus(Nat) BY <1>3, <2>2, ElementOfSeq
  <2>4. pl[i].last < pl[i + 1].first BY <1>2, <2>2 DEF Chain
  <2> QED BY <2>2, <2>3, <2>4 DEF i
<1>9. \A k \in 1..c :
          /\ point(k) \in Nat /\ pl[st[k]].last \in Nat /\ pl[st[k] + 1].first \in Nat
          /\ point(k) >= pl[st[k]].last /\ point(k) < pl[st[k] + 1].first
          /\ point(k) \in Points
  <2> TAKE k \in 1..c
  <2> DEFINE p == pl[st[k]]
             q == pl[st[k] + 1]
  <2>1. p \in Plateaus(Nat) /\ q \in Plateaus(Nat) /\ p.last < q.first BY <1>8
  <2>2. 1 <= p.first /\ p.first <= p.last /\ q.first <= q.last /\ q.last <= n
    BY <1>2, <1>8 DEF Chain
  <2> HIDE DEF p, q
  <2>3. /\ p.first \in Nat /\ p.last \in Nat /\ q.first \in Nat /\ q.last \in Nat
    BY <2>1 DEF Plateaus
  <2> DEFINE a == CapacityPoint(pts, p, q)
  <2>4. a \in p.last..(q.first - 1) BY <2>1, CapacityIsBelow
  <2> HIDE DEF a
  <2>5. a \in Nat /\ a >= p.last /\ a < q.first /\ a \in 1..n BY <1>1, <2>2, <2>3, <2>4
  <2> HIDE DEF n
  <2>6. a \in Points BY <2>5 DEF Points, n
  <2> QED BY <2>3, <2>5, <2>6 DEF a, p, q
<1>10. lv = [k \in 1..c |-> e(k)]
  BY <1>7 DEF EstimateLevels, pl, S, st
<1> HIDE DEF point, lv
<1>11. \A k \in 1..c : e(k) \in Levels
  <2> TAKE k \in 1..c
  <2>1. Sizes[point(k)] \in Nat \ {0} BY <1>9, SizesAre, ElementOfSeq DEF Points
  <2>2. pl[st[k]].latency \in Nat BY <1>8 DEF Plateaus
  <2> QED BY <2>1, <2>2 DEF Levels
<1>12. lv \in [1..c -> Levels]
  <2> HIDE DEF e
  <2> QED BY <1>10, <1>11
<1>13. lv \in Seq(Levels) /\ Len(lv) = c BY <1>6, <1>12, LenIs
<1>14. \A k \in 1..c : lv[k].capacity = Sizes[point(k)] /\ lv[k].latency = pl[st[k]].latency
  BY <1>10
<1>15. \A j, k \in 1..c : j < k => lv[j].capacity < lv[k].capacity
  <2> SUFFICES ASSUME NEW j \in 1..c, NEW k \in 1..c, j < k
               PROVE  lv[j].capacity < lv[k].capacity
    OBVIOUS
  <2> DEFINE x == st[j]  y == st[k]
  <2>1. x < y BY <1>6
  <2>2. /\ x \in 1..Len(pl) /\ y \in 1..Len(pl) /\ x + 1 \in 1..Len(pl) /\ x \in Nat
        /\ y \in Nat
    BY <1>8
  <2>3. point(j) < pl[x + 1].first /\ point(k) >= pl[y].last BY <1>9
  <2>4. pl[x + 1].first <= pl[x + 1].last BY <1>2, <2>2 DEF Chain
  <2>5. pl[x + 1].first \in Nat /\ pl[x + 1].last \in Nat /\ pl[y].last \in Nat
    <3>1. pl[x + 1] \in Plateaus(Nat) /\ pl[y] \in Plateaus(Nat) BY <1>3, <2>2, ElementOfSeq
    <3> QED BY <3>1 DEF Plateaus
  <2>6. pl[y].first \in Nat /\ pl[y].first <= pl[y].last
    <3>1. pl[y] \in Plateaus(Nat) BY <1>3, <2>2, ElementOfSeq
    <3>2. pl[y].first <= pl[y].last BY <1>2, <2>2 DEF Chain
    <3> QED BY <3>1, <3>2 DEF Plateaus
  <2>7. point(j) \in Nat /\ point(k) \in Nat /\ point(j) \in Points /\ point(k) \in Points BY <1>9
  <2> HIDE DEF x, y
  <2>8. x + 1 = y \/ x + 1 < y BY <2>1, <2>2
  <2>9. point(j) < point(k)
    <3>1. CASE x + 1 = y BY <2>3, <2>4, <2>5, <2>7, <3>1
    <3>2. CASE x + 1 < y
      <4>1. pl[x + 1].last < pl[y].first BY <1>2, <2>2, <3>2 DEF Chain
      <4> QED BY <2>3, <2>4, <2>5, <2>6, <2>7, <4>1, SMTT(30)
    <3> QED BY <2>8, <3>1, <3>2
  <2> QED BY <1>14, <2>7, <2>9, SizesAre
<1>16. \A k \in 1..c : mem > 0 => 2 * lv[k].latency < mem BY <1>5, <1>6, <1>14
<1>17. lv # << >> => pts # << >>
  <2> SUFFICES ASSUME lv # << >>, pts = << >> PROVE FALSE OBVIOUS
  <2>1. c \in Nat \ {0} BY <1>13, EmptySeq
  <2>2. 1 \in 1..c BY <2>1
  <2>3. point(1) \in 1..Len(pts) BY <1>9, <2>2 DEF Points
  <2>4. Len(pts) = 0 BY EmptySeq
  <2> QED BY <2>3, <2>4
<1> QED BY <1>13, <1>15, <1>16, <1>17 DEF Rising, lv

-----------------------------------------------------------------------------
(* The report.                                                             *)

LEMMA MaxIs ==
    ASSUME NEW S, S \subseteq Nat, NEW x \in S, \A y \in S : x >= y
    PROVE  Max(S) = x
<1>1. \A z \in S : (\A y \in S : z >= y) => z = x
  <2> SUFFICES ASSUME NEW z \in S, z >= x PROVE z = x OBVIOUS
  <2>1. x >= z /\ x \in Nat /\ z \in Nat OBVIOUS
  <2> QED BY <2>1
<1> QED BY <1>1 DEF Max

\* assign_curve loses no level.
LEMMA ReportIs ==
    ASSUME NEW lv \in Seq(Levels), Rising(lv), NEW doubt
    PROVE  LET r == Report(lv, doubt)
           IN  /\ r.l3 \in Nat
               /\ r.l3 > 0 => r.l1 < r.l2 /\ r.l2 < r.l3
               /\ r.l3 > 0 => lv # << >>
               /\ lv # << >> => Last(lv).capacity = Max({r.l1, r.l2, r.l3})
               /\ {l.capacity : l \in ToSet(lv)} = ({r.l1, r.l2, r.l3} \cup r.between) \ {0}
               /\ r.trusted <=> doubt = "none"
<1> DEFINE n == Len(lv)
           cap(k) == IF k \in DOMAIN lv THEN lv[k].capacity ELSE 0
           r == Report(lv, doubt)
<1>1. n \in Nat /\ DOMAIN lv = 1..n BY LenProperties
<1>2. \A k \in 1..n : cap(k) = lv[k].capacity /\ cap(k) \in Nat \ {0}
  <2> TAKE k \in 1..n
  <2>1. lv[k] \in Levels BY ElementOfSeq
  <2> QED BY <1>1, <2>1 DEF Levels
<1>3. \A k : k \notin 1..n => cap(k) = 0 BY <1>1
<1>4. \A j, k \in 1..n : j < k => cap(j) < cap(k) BY <1>2 DEF Rising
<1>5. /\ r.l1 = cap(1) /\ r.l2 = cap(2)
      /\ r.l3 = IF n >= 3 THEN cap(n) ELSE 0
      /\ r.between = {cap(k) : k \in 3..(n - 1)}
      /\ r.trusted = (doubt = "none")
  BY DEF Report
<1>6. {l.capacity : l \in ToSet(lv)} = {cap(k) : k \in 1..n} BY <1>1, <1>2 DEF ToSet
<1> DEFINE x == r.l1  y == r.l2  z == r.l3  B == r.between
<1>7. lv = << >> <=> n = 0 BY EmptySeq
<1>8. Last(lv).capacity = lv[n].capacity BY DEF Last
<1> DEFINE Stated == /\ z \in Nat
                     /\ z > 0 => x < y /\ y < z
                     /\ z > 0 => lv # << >>
                     /\ lv # << >> => lv[n].capacity = Max({x, y, z})
                     /\ {cap(k) : k \in 1..n} = ({x, y, z} \cup B) \ {0}
<1> HIDE DEF n, cap, r, Stated
<1> SUFFICES Stated
  <2>1. r.trusted <=> doubt = "none" BY <1>5
  <2> QED BY <1>6, <1>8, <2>1 DEF Stated, r
<1>9. CASE n = 0
  <2>1. x = 0 /\ y = 0 /\ z = 0 /\ B = {} BY <1>3, <1>5, <1>9
  <2>2. {cap(k) : k \in 1..n} = {} BY <1>9
  <2> HIDE DEF x, y, z, B
  <2>3. {cap(k) : k \in 1..n} = ({x, y, z} \cup B) \ {0} BY <2>1, <2>2
  <2> QED BY <1>7, <1>9, <2>1, <2>3 DEF Stated
<1>10. CASE n = 1
  <2>1. 1 \in 1..n /\ 2 \notin 1..n /\ ~(n >= 3) /\ 3..(n - 1) = {} /\ 1..n = {1} BY <1>10
  <2>2. x = cap(1) /\ y = 0 /\ z = 0 /\ B = {} /\ cap(1) \in Nat \ {0}
    BY <1>2, <1>3, <1>5, <2>1
  <2>3. {cap(k) : k \in 1..n} = {cap(1)} BY <2>1
  <2>4. lv[n].capacity = cap(1) BY <1>2, <1>10, <2>1
  <2> HIDE DEF x, y, z, B
  <2>5. {cap(k) : k \in 1..n} = ({x, y, z} \cup B) \ {0} BY <2>2, <2>3
  <2>6. Max({x, y, z}) = cap(1)
    <3> DEFINE S == {x, y, z}
    <3>1. S \subseteq Nat /\ cap(1) \in S /\ \A s \in S : cap(1) >= s BY <2>2
    <3> HIDE DEF S
    <3> QED BY <3>1, MaxIs DEF S
  <2>7. z \in Nat /\ ~(z > 0) BY <2>2
  <2>8. lv[n].capacity = Max({x, y, z}) BY <2>4, <2>6
  <2> QED BY <2>5, <2>7, <2>8 DEF Stated
<1>11. CASE n = 2
  <2>1. 1 \in 1..n /\ 2 \in 1..n /\ ~(n >= 3) /\ 3..(n - 1) = {} /\ 1..n = {1, 2} BY <1>11
  <2>2. /\ x = cap(1) /\ y = cap(2) /\ z = 0 /\ B = {} /\ cap(1) \in Nat \ {0}
        /\ cap(2) \in Nat \ {0} /\ cap(1) < cap(2)
    BY <1>2, <1>4, <1>5, <2>1
  <2>3. {cap(k) : k \in 1..n} = {cap(1), cap(2)} BY <2>1
  <2>4. lv[n].capacity = cap(2) BY <1>2, <1>11, <2>1
  <2> HIDE DEF x, y, z, B
  <2>5. {cap(k) : k \in 1..n} = ({x, y, z} \cup B) \ {0} BY <2>2, <2>3
  <2>6. Max({x, y, z}) = cap(2)
    <3> DEFINE S == {x, y, z}
    <3>1. S \subseteq Nat /\ cap(2) \in S /\ \A s \in S : cap(2) >= s BY <2>2
    <3> HIDE DEF S
    <3> QED BY <3>1, MaxIs DEF S
  <2>7. z \in Nat /\ ~(z > 0) BY <2>2
  <2>8. lv[n].capacity = Max({x, y, z}) BY <2>4, <2>6
  <2> QED BY <2>5, <2>7, <2>8 DEF Stated
<1>12. CASE n >= 3
  <2>1. 1 \in 1..n /\ 2 \in 1..n /\ n \in 1..n /\ 1 < 2 /\ 2 < n BY <1>1, <1>12
  <2>2. /\ x = cap(1) /\ y = cap(2) /\ z = cap(n) /\ B = {cap(k) : k \in 3..(n - 1)}
        /\ cap(1) \in Nat \ {0} /\ cap(2) \in Nat \ {0} /\ cap(n) \in Nat \ {0}
        /\ cap(1) < cap(2) /\ cap(2) < cap(n)
    BY <1>2, <1>4, <1>5, <1>12, <2>1
  <2>3. 1..n = {1, 2, n} \cup (3..(n - 1)) BY <1>1, <1>12
  <2>4. {cap(k) : k \in 1..n} = {cap(1), cap(2), cap(n)} \cup {cap(k) : k \in 3..(n - 1)}
    BY <2>3
  <2>5. 0 \notin {cap(k) : k \in 1..n} BY <1>2
  <2>6. lv[n].capacity = cap(n) BY <1>2, <2>1
  <2> HIDE DEF x, y, z, B
  <2>7. {cap(k) : k \in 1..n} = ({x, y, z} \cup B) \ {0} BY <2>2, <2>4, <2>5
  <2>8. Max({x, y, z}) = cap(n)
    <3> DEFINE S == {x, y, z}
    <3>1. S \subseteq Nat /\ cap(n) \in S /\ \A s \in S : cap(n) >= s BY <2>2
    <3> HIDE DEF S
    <3> QED BY <3>1, MaxIs DEF S
  <2>9. lv # << >> BY <1>7, <1>12
  <2> QED BY <2>2, <2>6, <2>7, <2>8, <2>9 DEF Stated
<1> QED BY <1>1, <1>9, <1>10, <1>11, <1>12

-----------------------------------------------------------------------------
(* The sweep.                                                              *)

CurveType ==
    /\ pc \in {"map", "sweep", "remeasure", "assign", "done"}
    /\ memory \in Nat /\ order \in Orders
    /\ points \in Curves /\ decisive \subseteq Points

CurveMeasured ==
    /\ pc = "map" => points = << >>
    /\ pc = "sweep" => Len(points) <= Len(Sizes)
    /\ pc = "remeasure" => Len(points) = Len(Sizes)

Covered(i) == {i - 1, i} \cap remeasured # {} \/ {i - 1, i} \subseteq decisive

\* Until the deciding points are all done, a fall that has no median sample has
\* both of its samples among those still to be measured again.
FallsCovered == pc = "remeasure" => \A i \in Falls(points, memory) : Covered(i)

LevelsRead ==
    pc \in {"assign", "done"} =>
        \/ points = << >> /\ levels = << >>
        \/ /\ Len(points) = Len(Sizes)
           /\ levels = EstimateLevels(points, memory)
           /\ reached = ReachedMemory(points, memory)

\* No level before estimate_cache_levels has run.
LevelsLate == pc \notin {"assign", "done"} => levels = << >>

Reported == pc = "done" => report = Report(levels, Doubt)

CurveInvariant ==
    /\ CurveType /\ CurveMeasured /\ FallsCovered /\ FallsConfirmed
    /\ LevelsLate /\ LevelsRead /\ Reported

LEMMA SizesLength == Len(Sizes) \in Nat /\ Points = 1..Len(Sizes)
BY SizesAre, LenProperties DEF Points

LEMMA AnswersAre ==
    ASSUME NEW o \in Orders, NEW i \in Points, NEW v \in Answers[o][i]
    PROVE  v \in Nat
BY AnswersAssumption

LEMMA NoCurve ==
    /\ << >> \in Curves /\ Len(<< >>) = 0
    /\ \A mem : Falls(<< >>, mem) = {}
<1>1. << >> \in Curves BY EmptySeq DEF Curves
<1>2. Len(<< >>) = 0 OBVIOUS
<1>3. 2..0 = {} OBVIOUS
<1> QED BY <1>1, <1>2, <1>3 DEF Falls

\* The curve with one more point.
LEMMA CurveGrows ==
    ASSUME NEW pts \in Curves, NEW ns \in Nat, NEW o \in Orders
    PROVE  LET more == Append(pts, [latency |-> ns, order |-> o])
           IN  more \in Curves /\ Len(more) = Len(pts) + 1
<1> DEFINE P == [latency : Nat, order : Orders]
           p == [latency |-> ns, order |-> o]
<1>1. pts \in Seq(P) /\ p \in P BY DEF Curves
<1> HIDE DEF P, p
<1>2. Append(pts, p) \in Seq(P) /\ Len(Append(pts, p)) = Len(pts) + 1
  BY <1>1, AppendProperties
<1> QED BY <1>2 DEF Curves, P, p

\* The curve with point j measured again.
LEMMA CurveRemeasured ==
    ASSUME NEW pts \in Curves, NEW j \in 1..Len(pts), NEW ns \in Nat, NEW o \in Orders
    PROVE  LET again == [pts EXCEPT ![j] = [latency |-> ns, order |-> o]]
           IN  /\ again \in Curves /\ Len(again) = Len(pts)
               /\ \A i \in 1..Len(pts) : i # j => Latency(again, i) = Latency(pts, i)
<1> DEFINE P == [latency : Nat, order : Orders]
           p == [latency |-> ns, order |-> o]
           again == [pts EXCEPT ![j] = p]
<1>1. pts \in Seq(P) /\ p \in P BY DEF Curves
<1> HIDE DEF P, p
<1>2. again \in Seq(P) /\ Len(again) = Len(pts) BY <1>1, ExceptSeq
<1>3. DOMAIN pts = 1..Len(pts) BY CurveIs
<1>4. \A i \in 1..Len(pts) : i # j => again[i] = pts[i] BY <1>3
<1> QED BY <1>2, <1>4 DEF Curves, P, p, Latency

LEMMA CurveStarts == ASSUME Init PROVE CurveInvariant
<1>1. /\ pc = "map" /\ points = << >> /\ memory = 0 /\ order \in Orders
      /\ decisive = {} /\ levels = << >>
  BY DEF Init
<1>2. CurveType BY <1>1, NoCurve DEF CurveType
<1> QED BY <1>1, <1>2 DEF CurveInvariant, CurveMeasured, FallsCovered, FallsConfirmed,
        LevelsLate, LevelsRead, Reported

LEMMA MapFailsKeeps == ASSUME CurveInvariant, MapFails PROVE CurveInvariant'
<1>1. /\ pc = "map" /\ pc' = "assign" /\ points = << >> /\ levels = << >>
      /\ points' = points /\ memory' = memory /\ levels' = levels
  BY DEF MapFails, CurveInvariant, CurveMeasured, LevelsLate
<1>2. CurveType' BY DEF MapFails, CurveInvariant, CurveType
<1>3. FallsConfirmed'
  <2>1. Falls(points', memory') = {} BY <1>1, NoCurve
  <2> QED BY <2>1 DEF FallsConfirmed
<1> QED BY <1>1, <1>2, <1>3 DEF CurveInvariant, CurveMeasured, FallsCovered, LevelsLate,
        LevelsRead, Reported

LEMMA MapRegionKeeps == ASSUME CurveInvariant, MapRegion PROVE CurveInvariant'
<1>1. /\ pc' = "sweep" /\ points = << >> /\ levels = << >>
      /\ points' = points /\ order' = order /\ decisive' = decisive /\ levels' = levels
  BY DEF MapRegion, CurveInvariant, CurveMeasured, LevelsLate
<1>2. memory' \in Nat
  <2>1. memory' \in References \/ memory' = 0 BY DEF MapRegion
  <2>2. \A m \in References : m \in Nat BY AnswersAssumption
  <2>3. CASE memory' \in References BY <2>2, <2>3
  <2>4. CASE memory' = 0 BY <2>4
  <2> QED BY <2>1, <2>3, <2>4
<1>3. CurveType' BY <1>1, <1>2, NoCurve DEF CurveInvariant, CurveType
<1>4. CurveMeasured' BY <1>1, NoCurve, SizesLength DEF CurveMeasured
<1> QED BY <1>1, <1>3, <1>4 DEF CurveInvariant, FallsCovered, FallsConfirmed, LevelsLate,
        LevelsRead, Reported

LEMMA SampleKeeps == ASSUME CurveInvariant, Sample PROVE CurveInvariant'
<1>1. /\ pc = "sweep" /\ pc' = pc /\ memory' = memory /\ order' = order
      /\ decisive' = decisive /\ levels = << >> /\ levels' = levels
      /\ order \in Orders /\ points \in Curves /\ Len(points) < Len(Sizes)
  BY DEF Sample, CurveInvariant, CurveType, LevelsLate
<1>2. PICK ns \in Answers[order][Len(points) + 1] :
          points' = Append(points, [latency |-> ns, order |-> order])
  BY DEF Sample
<1>3. Len(points) + 1 \in Points BY <1>1, CurveIs, SizesLength
<1>4. ns \in Nat BY <1>1, <1>2, <1>3, AnswersAre
<1>5. points' \in Curves /\ Len(points') = Len(points) + 1 BY <1>1, <1>2, <1>4, CurveGrows
<1>6. CurveType' BY <1>1, <1>5 DEF CurveInvariant, CurveType
<1>7. CurveMeasured' BY <1>1, <1>3, <1>5, SizesLength DEF CurveMeasured
<1> QED BY <1>1, <1>6, <1>7 DEF CurveInvariant, FallsCovered, FallsConfirmed, LevelsLate,
        LevelsRead, Reported

LEMMA SweepAgainKeeps == ASSUME CurveInvariant, SweepAgain PROVE CurveInvariant'
<1>1. /\ pc = "sweep" /\ pc' = pc /\ points' = << >> /\ order' = "global"
      /\ memory' = memory /\ decisive' = decisive /\ levels = << >> /\ levels' = levels
  BY DEF SweepAgain, CurveInvariant, LevelsLate
<1>2. CurveType' BY <1>1, NoCurve DEF CurveInvariant, CurveType, Orders
<1>3. CurveMeasured' BY <1>1, NoCurve, SizesLength DEF CurveMeasured
<1> QED BY <1>1, <1>2, <1>3 DEF CurveInvariant, FallsCovered, FallsConfirmed, LevelsLate,
        LevelsRead, Reported

LEMMA DecideKeeps == ASSUME CurveInvariant, Decide PROVE CurveInvariant'
<1>1. /\ pc = "sweep" /\ pc' = "remeasure" /\ points' = points /\ order' = order
      /\ memory' = memory /\ decisive' = Decisive(points, memory)
      /\ levels = << >> /\ levels' = levels /\ Len(points) = Len(Sizes)
  BY DEF Decide, CurveInvariant, LevelsLate
<1>2. Decisive(points, memory) \subseteq Points BY DEF Decisive
<1>3. CurveType' BY <1>1, <1>2 DEF CurveInvariant, CurveType
<1>4. \A i \in Falls(points, memory) : {i - 1, i} \subseteq Decisive(points, memory)
  <2> TAKE i \in Falls(points, memory)
  <2>1. i \in 2..Len(Sizes) BY <1>1 DEF Falls
  <2>2. {i - 1, i} \subseteq Points BY <2>1, SizesLength
  <2>3. {i - 1, i} \subseteq UNION {{k - 1, k} : k \in Falls(points, memory)} OBVIOUS
  <2> QED BY <2>2, <2>3 DEF Decisive
<1>5. FallsCovered' BY <1>1, <1>4 DEF FallsCovered, Covered
<1> QED BY <1>1, <1>3, <1>5 DEF CurveInvariant, CurveMeasured, FallsConfirmed, LevelsLate,
        LevelsRead, Reported

LEMMA RemeasureKeeps == ASSUME CurveInvariant, Remeasure PROVE CurveInvariant'
<1> DEFINE j == Min(decisive)
<1>1. /\ pc = "remeasure" /\ pc' = pc /\ order' = order /\ memory' = memory
      /\ levels = << >> /\ levels' = levels /\ Len(points) = Len(Sizes)
      /\ points \in Curves /\ order \in Orders /\ decisive # {} /\ decisive \subseteq Points
      /\ decisive' = decisive \ {j} /\ remeasured' = remeasured \cup {j}
  BY DEF Remeasure, CurveInvariant, CurveType, CurveMeasured, LevelsLate
<1>2. PICK a, b \in Answers[order][j] :
          points' = [points EXCEPT ![j] =
              [latency |-> Median(<<points[j].latency, a, b>>), order |-> order]]
  BY DEF Remeasure
<1>3. j \in decisive
  <2>1. decisive \subseteq Nat BY <1>1, SizesLength
  <2> QED BY <1>1, <2>1, MinOf
<1> HIDE DEF j
<1>4. j \in Points /\ j \in 1..Len(points) BY <1>1, <1>3, SizesLength
<1>5. Median(<<points[j].latency, a, b>>) \in Nat
  <2>1. points[j].latency \in Nat BY <1>1, <1>4, CurveIs DEF Latency
  <2>2. a \in Nat /\ b \in Nat BY <1>1, <1>2, <1>4, AnswersAre
  <2> DEFINE s == <<points[j].latency, a, b>>
  <2>3. s \in Seq(Nat) /\ s # << >> BY <2>1, <2>2
  <2> HIDE DEF s
  <2>4. \A k \in 1..Len(s) : s[k] \in Nat BY <2>3, ElementOfSeq
  <2>5. Median(s) \in Nat BY <2>3, <2>4, NatIsDownward, MedianIs
  <2> QED BY <2>5 DEF s
<1>6. /\ points' \in Curves /\ Len(points') = Len(points)
      /\ \A i \in 1..Len(points) : i # j => Latency(points', i) = Latency(points, i)
  BY <1>1, <1>2, <1>4, <1>5, CurveRemeasured
<1>7. CurveType' BY <1>1, <1>6 DEF CurveInvariant, CurveType
<1>8. FallsCovered'
  <2> SUFFICES ASSUME NEW i \in Falls(points', memory) PROVE Covered(i)'
    BY <1>1 DEF FallsCovered
  <2>1. i \in 2..Len(points) /\ Len(points) \in Nat BY <1>1, <1>6, CurveIs DEF Falls
  <2>2. CASE j \in {i - 1, i} BY <1>1, <2>2 DEF Covered
  <2>3. CASE j \notin {i - 1, i}
    <3>1. /\ Latency(points', i) = Latency(points, i)
          /\ Latency(points', i - 1) = Latency(points, i - 1)
      BY <1>6, <2>1, <2>3
    <3>2. i \in Falls(points, memory) BY <2>1, <3>1 DEF Falls
    <3>3. Covered(i) BY <1>1, <3>2 DEF CurveInvariant, FallsCovered
    <3> QED BY <1>1, <2>3, <3>3 DEF Covered
  <2> QED BY <2>2, <2>3
<1> QED BY <1>1, <1>6, <1>7, <1>8 DEF CurveInvariant, CurveMeasured, FallsConfirmed,
        LevelsLate, LevelsRead, Reported

LEMMA EstimateKeeps == ASSUME CurveInvariant, Estimate PROVE CurveInvariant'
<1>1. /\ pc = "remeasure" /\ pc' = "assign" /\ points' = points /\ memory' = memory
      /\ order' = order /\ decisive = {} /\ decisive' = decisive
      /\ remeasured' = remeasured /\ Len(points) = Len(Sizes)
      /\ levels' = EstimateLevels(points, memory)
      /\ reached' = ReachedMemory(points, memory)
  BY DEF Estimate, CurveInvariant, CurveMeasured
<1>2. CurveType' BY <1>1 DEF CurveInvariant, CurveType
<1>3. FallsConfirmed'
  <2> SUFFICES ASSUME NEW i \in Falls(points, memory) PROVE {i - 1, i} \cap remeasured # {}
    BY <1>1 DEF FallsConfirmed
  <2>1. Covered(i) BY <1>1 DEF CurveInvariant, FallsCovered
  <2> QED BY <1>1, <2>1 DEF Covered
<1> QED BY <1>1, <1>2, <1>3 DEF CurveInvariant, CurveMeasured, FallsCovered, LevelsLate,
        LevelsRead, Reported

LEMMA AssignKeeps == ASSUME CurveInvariant, Assign PROVE CurveInvariant'
<1>1. /\ pc = "assign" /\ pc' = "done" /\ points' = points /\ memory' = memory
      /\ order' = order /\ decisive' = decisive /\ remeasured' = remeasured
      /\ levels' = levels /\ reached' = reached /\ report' = Report(levels, Doubt)
  BY DEF Assign
<1>2. CurveType' BY <1>1 DEF CurveInvariant, CurveType
<1>3. FallsConfirmed' BY <1>1 DEF CurveInvariant, FallsConfirmed
<1>4. LevelsRead' BY <1>1 DEF CurveInvariant, LevelsRead
<1>5. Reported' BY <1>1 DEF Reported, Doubt
<1> QED BY <1>1, <1>2, <1>3, <1>4, <1>5 DEF CurveInvariant, CurveMeasured, FallsCovered,
        LevelsLate

LEMMA CurveStep == ASSUME CurveInvariant, [Next]_vars PROVE CurveInvariant'
<1>1. CASE UNCHANGED vars
  BY <1>1 DEF vars, CurveInvariant, CurveType, CurveMeasured, FallsCovered, Covered,
     FallsConfirmed, LevelsLate, LevelsRead, Reported, Doubt
<1>2. CASE Next
  BY <1>2, MapFailsKeeps, MapRegionKeeps, SampleKeeps, SweepAgainKeeps, DecideKeeps,
     RemeasureKeeps, EstimateKeeps, AssignKeeps
     DEF Next
<1> QED BY <1>1, <1>2

-----------------------------------------------------------------------------
(* What the invariant says of the report.                                  *)

LEMMA OrderFollows == ASSUME CurveInvariant PROVE LevelsOrdered
<1>1. CASE levels = << >>
  <2>1. levels \in Seq(Levels) /\ DOMAIN levels = {} /\ Rising(levels)
    <3>1. DOMAIN << >> = 1..0 /\ 1..0 = {} /\ Len(<< >>) = 0 BY EmptySeq
    <3> QED BY <1>1, <3>1, EmptySeq DEF Rising
  <2>2. pc = "done" => report = Report(levels, Doubt) BY DEF CurveInvariant, Reported
  <2> QED BY <2>1, <2>2, ReportIs DEF LevelsOrdered
<1>2. CASE levels # << >>
  <2>1. /\ points \in Curves /\ memory \in Nat /\ Len(points) = Len(Sizes)
        /\ levels = EstimateLevels(points, memory)
    BY <1>2 DEF CurveInvariant, CurveType, LevelsLate, LevelsRead
  <2>2. /\ levels \in Seq(Levels) /\ Rising(levels)
        /\ \A k \in 1..Len(levels) : memory > 0 => 2 * levels[k].latency < memory
    BY <2>1, LevelsAre
  <2>3. DOMAIN levels = 1..Len(levels) /\ Len(levels) \in Nat BY <2>2, LenProperties
  <2>4. \A k \in DOMAIN levels : k > 1 => levels[k - 1].capacity < levels[k].capacity
    <3> SUFFICES ASSUME NEW k \in 1..Len(levels), k > 1
                 PROVE  levels[k - 1].capacity < levels[k].capacity
      BY <2>3
    <3>1. k - 1 \in 1..Len(levels) /\ k - 1 < k BY <2>3
    <3> QED BY <2>2, <3>1 DEF Rising
  <2>5. pc = "done" => report = Report(levels, Doubt) BY DEF CurveInvariant, Reported
  <2> QED BY <2>2, <2>3, <2>4, <2>5, ReportIs DEF LevelsOrdered
<1> QED BY <1>1, <1>2

\* A curve reaches memory on a plateau, so at some working set.
LEMMA ReachedSomewhere ==
    ASSUME NEW pts \in Curves, NEW mem \in Nat, ReachedMemory(pts, mem)
    PROVE  mem > 0 /\ \E i \in 1..Len(pts) : 2 * Latency(pts, i) >= mem
<1> DEFINE L == {v \in Nat : 2 * v < mem}
           pl == FindPlateaus(pts)
<1>1. PICK i \in Steps(pl, mem) : IsMemory(pl[i + 1], mem) BY DEF ReachedMemory
<1>2. mem > 0 /\ 2 * pl[i + 1].latency >= mem BY <1>1 DEF IsMemory
<1>3. i \in 1..(Len(pl) - 1) BY DEF Steps
<1>4. ASSUME \A k \in 1..Len(pts) : ~(2 * Latency(pts, k) >= mem)
      PROVE  FALSE
  <2>1. \A k \in 1..Len(pts) : Latency(pts, k) \in L BY <1>4, CurveIs
  <2>2. Downward(L) BY DEF Downward
  <2> HIDE DEF L, pl
  <2>3. Chain(pl, 1, Len(pts), L) BY <2>1, <2>2, PlateausAre DEF pl
  <2>4. pl \in Seq(Plateaus(L)) /\ Len(pl) \in Nat BY <2>3, LenProperties DEF Chain
  <2>5. i + 1 \in 1..Len(pl) BY <1>3, <2>4
  <2>6. pl[i + 1] \in Plateaus(L) BY <2>4, <2>5, ElementOfSeq
  <2>7. pl[i + 1].latency \in L BY <2>6 DEF Plateaus
  <2> QED BY <1>2, <2>7 DEF L
<1> QED BY <1>2, <1>4

\* A curve that does not relapse is, once as slow as memory, so to its end.
LEMMA NoRelapseToTheEnd ==
    ASSUME NEW pts \in Curves, NEW mem \in Nat, NEW i \in 1..Len(pts),
           2 * Latency(pts, i) >= mem,
           ~\E k \in 2..Len(pts) : 2 * Latency(pts, k - 1) >= mem /\ 2 * Latency(pts, k) < mem
    PROVE  2 * Latency(pts, Len(pts)) >= mem
<1> DEFINE n == Len(pts)
           S == {k \in 1..n : 2 * Latency(pts, k) >= mem}
           m == Max(S)
<1>1. n \in Nat /\ \A k \in 1..n : Latency(pts, k) \in Nat BY CurveIs
<1>2. m \in S /\ \A k \in S : m >= k
  <2>1. S \subseteq 1..n /\ S # {} OBVIOUS
  <2> HIDE DEF S, n
  <2> QED BY <1>1, <2>1, MaxOfRange
<1> HIDE DEF m
<1>3. m \in 1..n /\ 2 * Latency(pts, m) >= mem BY <1>2
<1>4. m = n
  <2> SUFFICES ASSUME m # n PROVE FALSE OBVIOUS
  <2>1. m + 1 \in 2..n /\ m + 1 \in 1..n /\ (m + 1) - 1 = m /\ ~(m >= m + 1) BY <1>1, <1>3
  <2>2. m + 1 \notin S
    <3> HIDE DEF S
    <3> QED BY <1>2, <2>1
  <2>3. ~(2 * Latency(pts, m + 1) >= mem) /\ Latency(pts, m + 1) \in Nat BY <1>1, <2>1, <2>2
  <2>4. ~(2 * Latency(pts, m + 1) < mem) BY <1>3, <2>1
  <2> QED BY <2>3, <2>4
<1> QED BY <1>3, <1>4

LEMMA BackingFollows == ASSUME CurveInvariant PROVE LastLevelIsBacked
<1> SUFFICES ASSUME pc = "done", LastLevel > 0
             PROVE  /\ memory > 0
                    /\ ~Relapses => 2 * Last(points).latency >= memory
                    /\ \A i \in 2..Len(points) :
                           LET before == Latency(points, i - 1)
                               after  == Latency(points, i)
                           IN  2 * before < memory /\ before - after >= 5
                                   => 10 * after > 9 * before
  BY DEF LastLevelIsBacked
<1>1. report = Report(levels, Doubt) BY DEF CurveInvariant, Reported
<1>2. report.trusted /\ report.l3 > 0 BY DEF LastLevel
<1>3. levels # << >>
  <2> SUFFICES ASSUME levels = << >> PROVE FALSE OBVIOUS
  <2>1. levels \in Seq(Levels) /\ Rising(levels)
    <3>1. 1..0 = {} /\ Len(<< >>) = 0 OBVIOUS
    <3> QED BY <3>1, EmptySeq DEF Rising
  <2> QED BY <1>1, <1>2, <2>1, ReportIs
<1>4. /\ points \in Curves /\ memory \in Nat /\ Len(points) = Len(Sizes)
      /\ levels = EstimateLevels(points, memory) /\ reached = ReachedMemory(points, memory)
  BY <1>3 DEF CurveInvariant, CurveType, LevelsLate, LevelsRead
<1>5. levels \in Seq(Levels) /\ Rising(levels) /\ points # << >> BY <1>3, <1>4, LevelsAre
<1>6. Doubt = "none"
  <2> DEFINE d == Doubt
  <2>1. report.trusted <=> d = "none" BY <1>1 DEF Report
  <2> HIDE DEF d
  <2>2. d = "none" BY <1>2, <2>1
  <2> QED BY <2>2 DEF d
<1>7. /\ Falls(points, memory) = {}
      /\ reached \/ (~NeverReachedMemory(points, memory) /\ memory # 0)
  BY <1>5, <1>6 DEF Doubt, PrefetchDoubt
<1>8. Len(points) \in Nat \ {0} /\ \A i \in 1..Len(points) : Latency(points, i) \in Nat
  <2>1. Len(points) # 0 BY <1>4, <1>5, EmptySeq DEF Curves
  <2> QED BY <1>4, <2>1, CurveIs
<1>9. reached => memory > 0 BY <1>4, ReachedSomewhere
<1>10. memory > 0 BY <1>4, <1>7, <1>9
<1>11. Last(points).latency = Latency(points, Len(points)) BY DEF Last, Latency
<1>12. ~Relapses => 2 * Last(points).latency >= memory
  <2> SUFFICES ASSUME ~Relapses
               PROVE  2 * Latency(points, Len(points)) >= memory
    BY <1>11
  <2>1. CASE reached
    <3>1. PICK i \in 1..Len(points) : 2 * Latency(points, i) >= memory
      BY <1>4, <2>1, ReachedSomewhere
    <3> QED BY <1>4, <3>1, NoRelapseToTheEnd DEF Relapses
  <2>2. CASE ~reached
    <3>1. Len(points) \in 1..Len(points) BY <1>8
    <3> DEFINE deepest == Latency(points, Len(points))
    <3>2. deepest \in Nat BY <1>8, <3>1
    <3>3. ~(2 * deepest < memory)
      BY <1>5, <1>7, <1>10, <2>2 DEF NeverReachedMemory
    <3> HIDE DEF deepest
    <3> QED BY <1>4, <3>2, <3>3 DEF deepest
  <2> QED BY <2>1, <2>2
<1>13. ASSUME NEW i \in 2..Len(points)
       PROVE  LET before == Latency(points, i - 1)
                  after  == Latency(points, i)
              IN  2 * before < memory /\ before - after >= 5 => 10 * after > 9 * before
  <2> DEFINE before == Latency(points, i - 1)
             after == Latency(points, i)
  <2>1. i \in 1..Len(points) /\ i - 1 \in 1..Len(points) BY <1>8
  <2>2. before \in Nat /\ after \in Nat BY <1>8, <2>1
  <2>3. ~(/\ before > 0 /\ 2 * before < memory
          /\ before - after >= 5 /\ 10 * after <= 9 * before)
    BY <1>7 DEF Falls
  <2> HIDE DEF before, after
  <2>4. 2 * before < memory /\ before - after >= 5 => 10 * after > 9 * before
    BY <1>4, <2>2, <2>3
  <2> QED BY <2>4 DEF before, after
<1> QED BY <1>10, <1>12, <1>13

-----------------------------------------------------------------------------
\* A curve is measured to its end before levels are read from it, each fall in it was
\* confirmed and has the sizes around it measured, and the report is of that curve.
THEOREM CurveKeepsInvariant == Spec => []CurveInvariant
BY CurveStarts, CurveStep, PTL DEF Spec

\* The levels that estimate_cache_levels reads off a curve rise strictly in
\* capacity and are faster than memory, assign_curve reports the deepest of them
\* and loses none, and what cache_report_last_level_bytes hands on as the last
\* one was held against memory: the deepest working set was as slow, on a curve
\* that did not relapse.
THEOREM LevelsAreReliable == Spec => []LastLevelCanCap
<1>1. CurveInvariant => LastLevelCanCap
  BY OrderFollows, BackingFollows DEF LastLevelCanCap
<1> QED BY <1>1, CurveKeepsInvariant, PTL

\* measure_cache_curve measures the deciding points three times: no fall that
\* prefetch_doubt holds against the curve was seen by two single rings only.
THEOREM FallsAreMedians == Spec => []FallsConfirmed
<1>1. CurveInvariant => FallsConfirmed BY DEF CurveInvariant
<1> QED BY <1>1, CurveKeepsInvariant, PTL

-----------------------------------------------------------------------------
(***************************************************************************)
(* The rings.  An order visits every line once and begins with line 0, so  *)
(* that the links of one slot are a path over the lines from word 0 of the *)
(* slot to word 0 of the next; what other slots and earlier rings linked   *)
(* lies elsewhere or is written over.                                      *)
(***************************************************************************)

LEMMA UpTo ==
    ASSUME NEW m \in Nat, NEW S, 0 \in S, \A k \in 0..m : k \in S /\ k < m => k + 1 \in S
    PROVE  0..m \subseteq S
<1> DEFINE T == {k \in 0..m : k \notin S}
<1> SUFFICES ASSUME T # {} PROVE FALSE OBVIOUS
<1>1. PICK x \in T : \A y \in T : x <= y
  <2>1. T \subseteq Nat OBVIOUS
  <2> HIDE DEF T
  <2> QED BY <2>1, LeastExists
<1>2. x \in 1..m /\ x \notin S OBVIOUS
<1>3. x - 1 \in 0..m /\ x - 1 < m /\ ~(x <= x - 1) /\ (x - 1) + 1 = x BY <1>2
<1>4. x - 1 \notin T BY <1>1, <1>3
<1>5. x - 1 \in S BY <1>3, <1>4
<1> QED BY <1>2, <1>3, <1>5

LEMMA QuotientIs ==
    ASSUME NEW d \in Nat \ {0}, NEW l \in Nat, NEW s \in 0..(d - 1)
    PROVE  (l * d + s) \div d = l /\ (l * d + s) % d = s
OBVIOUS

LEMMA BelowProduct ==
    ASSUME NEW d \in Nat \ {0}, NEW n \in Nat \ {0}, NEW l \in 0..(n - 1), NEW s \in 0..(d - 1)
    PROVE  l * d + s \in 0..(n * d - 1)
<1>1. l * d <= (n - 1) * d OBVIOUS
<1>2. (n - 1) * d = n * d - d OBVIOUS
<1>3. l * d \in Nat /\ n * d \in Nat OBVIOUS
<1> QED BY <1>1, <1>2, <1>3

\* Turns into a group, of an order that is gone through group by group.
OneTurn(o, n, g) ==
    \A i, j \in 1..(n - 1) :
        i < j /\ o[i + 1] \div g = o[j + 1] \div g =>
            o[i] \div g = o[i + 1] \div g \/ o[j] \div g = o[j + 1] \div g

AllLines(o, n) ==
    /\ o \in [1..n -> 0..(n - 1)]
    /\ \A i, j \in 1..n : o[i] = o[j] => i = j
    /\ \A l \in 0..(n - 1) : \E i \in 1..n : o[i] = l

LEMMA PermutationIs ==
    ASSUME NEW n \in Nat \ {0}, NEW u \in SetToSeqs(0..(n - 1))
    PROVE  AllLines(u, n)
<1> DEFINE T == 0..(n - 1)
           D == 1..n
<1>1. IsFiniteSet(T) /\ Cardinality(T) = n /\ IsFiniteSet(D) /\ Cardinality(D) = n
  BY FS_Interval
<1>2. u \in [D -> T] /\ \A i, j \in D : i # j => u[i] # u[j]
  BY <1>1 DEF SetToSeqs
<1> HIDE DEF T, D
<1>3. u \in Injection(D, T) BY <1>2 DEF Injection, IsInjective
<1>4. u \in Surjection(D, T) BY <1>1, <1>3, FS_Injection
<1> QED BY <1>2, <1>4 DEF Surjection, AllLines, T, D

\* Where in the order before the rotation the i-th line of the order stood.
Stood(z, n, i) == IF i <= n - z + 1 THEN z + i - 1 ELSE i - (n - z + 1)

LEMMA RotateIs ==
    ASSUME NEW n \in Nat \ {0}, NEW u, AllLines(u, n)
    PROVE  \E z \in 1..n : /\ u[z] = 0
                           /\ Rotate(u) \in [1..n -> 0..(n - 1)]
                           /\ \A i \in 1..n : Rotate(u)[i] = u[Stood(z, n, i)]
<1> DEFINE z == CHOOSE i \in DOMAIN u : u[i] = 0
           T == 0..(n - 1)
           a == SubSeq(u, z, n)
           b == SubSeq(u, 1, z - 1)
<1>1. u \in [1..n -> T] /\ 0 \in T BY DEF AllLines
<1>2. DOMAIN u = 1..n /\ u \in Seq(T) /\ Len(u) = n BY <1>1
<1>3. z \in 1..n /\ u[z] = 0
  <2>1. \E i \in 1..n : u[i] = 0 BY <1>1 DEF AllLines
  <2> QED BY <1>2, <2>1
<1>4. Rotate(u) = a \o b BY <1>2 DEF Rotate
<1> HIDE DEF z, T
<1>5. a \in Seq(T) /\ Len(a) = n - z + 1 /\ \A i \in 1..(n - z + 1) : a[i] = u[z + i - 1]
  <2>1. \A i \in z..n : u[i] \in T BY <1>1, <1>3
  <2> QED BY <1>3, <2>1, SubSeqProperties
<1>6. b \in Seq(T) /\ Len(b) = z - 1 /\ \A i \in 1..(z - 1) : b[i] = u[i]
  <2>1. \A i \in 1..(z - 1) : u[i] \in T BY <1>1, <1>3
  <2> QED BY <1>3, <2>1, SubSeqProperties
<1> HIDE DEF a, b
<1>7. /\ Rotate(u) \in Seq(T) /\ Len(Rotate(u)) = n
      /\ \A i \in 1..n : Rotate(u)[i] = IF i <= n - z + 1 THEN a[i] ELSE b[i - (n - z + 1)]
  <2>1. Len(a) + Len(b) = n BY <1>3, <1>5, <1>6
  <2> QED BY <1>4, <1>5, <1>6, <2>1, ConcatProperties
<1>8. ASSUME NEW i \in 1..n PROVE Rotate(u)[i] = u[Stood(z, n, i)]
  <2>1. CASE i <= n - z + 1
    <3>1. Rotate(u)[i] = a[i] /\ i \in 1..(n - z + 1) BY <1>3, <1>7, <2>1
    <3>2. a[i] = u[z + i - 1] BY <1>5, <3>1
    <3> QED BY <2>1, <3>1, <3>2 DEF Stood
  <2>2. CASE ~(i <= n - z + 1)
    <3> DEFINE k == i - (n - z + 1)
    <3>1. k \in 1..(z - 1) BY <1>3, <2>2
    <3>2. Rotate(u)[i] = b[k] BY <1>7, <2>2
    <3>3. Stood(z, n, i) = k BY <2>2 DEF Stood
    <3> HIDE DEF k
    <3> QED BY <1>6, <3>1, <3>2, <3>3
  <2> QED BY <2>1, <2>2
<1>9. Rotate(u) \in [1..n -> T]
  <2> DEFINE r == Rotate(u)
  <2>1. r \in Seq(T) /\ Len(r) = n BY <1>7
  <2> HIDE DEF r
  <2>2. r \in [1..n -> T] BY <2>1
  <2> QED BY <2>2 DEF r
<1> QED BY <1>3, <1>8, <1>9 DEF T

LEMMA GroupIs ==
    ASSUME NEW n \in Nat \ {0}, NEW size \in Nat
    PROVE  Group(n, size) \in 1..n /\ (size > 0 /\ size < n => Group(n, size) = size)
BY DEF Group

\* What build_ring_order returns, whatever is shuffled.
LEMMA OrderIs ==
    ASSUME NEW n \in Nat \ {0}, NEW size \in Nat, NEW o \in RingOrders(n, size)
    PROVE  AllLines(o, n) /\ o[1] = 0 /\ OneTurn(o, n, Group(n, size))
<1> DEFINE g == Group(n, size)
<1>1. PICK u \in SetToSeqs(0..(n - 1)) : GroupByGroup(u, g) /\ o = Rotate(u) BY DEF RingOrders
<1>2. AllLines(u, n) BY PermutationIs
<1>3. PICK z \in 1..n : /\ u[z] = 0 /\ o \in [1..n -> 0..(n - 1)]
                        /\ \A i \in 1..n : o[i] = u[Stood(z, n, i)]
  <2>1. \E z \in 1..n : /\ u[z] = 0 /\ Rotate(u) \in [1..n -> 0..(n - 1)]
                        /\ \A i \in 1..n : Rotate(u)[i] = u[Stood(z, n, i)]
    BY <1>2, RotateIs
  <2> QED BY <1>1, <2>1
<1>4. g \in Nat \ {0}
  <2>1. g \in 1..n BY GroupIs
  <2> QED BY <2>1
<1> HIDE DEF g
<1> DEFINE was(i) == Stood(z, n, i)
<1>5. \A i \in 1..n : was(i) \in 1..n BY DEF Stood
<1>6. \A i, j \in 1..n : was(i) = was(j) => i = j BY DEF Stood
<1>7. \A k \in 1..n : \E i \in 1..n : was(i) = k
  <2> SUFFICES ASSUME NEW k \in 1..n PROVE \E i \in 1..n : was(i) = k OBVIOUS
  <2>1. CASE k >= z
    <3>1. k - z + 1 \in 1..n /\ was(k - z + 1) = k BY <2>1 DEF Stood
    <3> QED BY <3>1
  <2>2. CASE k < z
    <3>1. k + (n - z + 1) \in 1..n /\ was(k + (n - z + 1)) = k BY <2>2 DEF Stood
    <3> QED BY <3>1
  <2> QED BY <2>1, <2>2
<1>8. was(1) = z BY DEF Stood
<1>9. AllLines(o, n)
  <2>1. \A i \in 1..n : o[i] = u[was(i)] /\ was(i) \in 1..n BY <1>3, <1>5
  <2> HIDE DEF was
  <2>2. \A i, j \in 1..n : u[i] = u[j] => i = j BY <1>2 DEF AllLines
  <2>3. \A i, j \in 1..n : was(i) = was(j) => i = j BY <1>6 DEF was
  <2>4. \A i, j \in 1..n : o[i] = o[j] => i = j BY <2>1, <2>2, <2>3
  <2>5. ASSUME NEW l \in 0..(n - 1) PROVE \E i \in 1..n : o[i] = l
    <3>1. PICK k \in 1..n : u[k] = l BY <1>2 DEF AllLines
    <3>2. PICK i \in 1..n : was(i) = k BY <1>7
    <3> QED BY <2>1, <3>1, <3>2
  <2> QED BY <1>3, <2>4, <2>5 DEF AllLines
<1>10. o[1] = 0 BY <1>3, <1>8
<1>11. OneTurn(o, n, g)
  <2> SUFFICES ASSUME NEW i \in 1..(n - 1), NEW j \in 1..(n - 1), i < j,
                      o[i + 1] \div g = o[j + 1] \div g
               PROVE  o[i] \div g = o[i + 1] \div g \/ o[j] \div g = o[j + 1] \div g
    BY DEF OneTurn
  <2> DEFINE page(k) == u[k] \div g
  <2>1. \A a, b \in 1..n : page(a) = page(b) => \A k \in a..b : page(k) = page(a)
    BY <1>1, <1>2 DEF GroupByGroup, AllLines
  <2>2. \A k \in 1..n : o[k] \div g = page(was(k)) BY <1>3
  <2>3. i \in 1..n /\ i + 1 \in 1..n /\ j \in 1..n /\ j + 1 \in 1..n OBVIOUS
  <2>4. page(was(i + 1)) = page(was(j + 1)) BY <2>2, <2>3
  <2> HIDE DEF page
  \* both stood behind line 0, or both before it: so did those between them
  <2>5. CASE j + 1 <= n - z + 1 \/ i + 1 > n - z + 1
    <3>1. was(j) \in was(i + 1)..was(j + 1) BY <2>5 DEF Stood
    <3>2. page(was(j)) = page(was(i + 1)) BY <1>5, <2>1, <2>3, <2>4, <3>1
    <3> QED BY <2>2, <2>3, <2>4, <3>2
  \* or line 0 was between them, and is of their group
  <2>6. CASE i + 1 <= n - z + 1 /\ j + 1 > n - z + 1
    <3>1. was(i) \in was(j + 1)..was(i + 1) BY <2>6 DEF Stood
    <3>2. page(was(i)) = page(was(j + 1)) BY <1>5, <2>1, <2>3, <2>4, <3>1
    <3> QED BY <2>2, <2>3, <2>4, <3>2
  <2> QED BY <2>5, <2>6
<1> QED BY <1>9, <1>10, <1>11 DEF g

\* The words of slot s are linked along the order o, to word 0 of the next slot.
LinkedAlong(o, s) ==
    \A i \in 1..Ring.lines :
        buffer[Node(s, o[i])] =
            IF i < Ring.lines THEN Node(s, o[i + 1]) ELSE Node((s + 1) % Ring.slots, 0)

Linked(s) == \E o \in OrdersOf(turn) : LinkedAlong(o, s)

\* What is linked of the ring of this turn.
RingInvariant ==
    /\ byPage \in BOOLEAN
    /\ DOMAIN buffer = 0..(Words - 1)
    /\ chase \in {"link", "probe", "sample"} => turn \in DOMAIN Rings
    /\ chase = "link" =>
           /\ slot \in 0..(Ring.slots - 1)
           /\ lineOrder \in OrdersOf(turn) /\ first \in OrdersOf(turn)
           /\ \A s \in 0..(slot - 1) : Linked(s)
    /\ chase \in {"probe", "sample"} => \A s \in 0..(Ring.slots - 1) : Linked(s)
    /\ chase = "sample" /\ steps > 0 => steps >= Ring.lines

LEMMA RingIs ==
    ASSUME turn \in DOMAIN Rings
    PROVE  /\ Ring.lines \in Nat \ {0} /\ Ring.stride \in Nat \ {0}
           /\ Ring.slots \in 1..Ring.stride /\ Ring.lines * Ring.stride <= Words /\ Words \in Nat
<1>1. Ring.lines \in Nat /\ Ring.lines >= 2 /\ Ring.stride \in Nat /\ Ring.slots \in 1..Ring.stride
  BY RingAssumption DEF Ring
<1>2. Ring.lines * Ring.stride <= Words /\ Words \in Nat BY RingAssumption DEF Ring
<1> QED BY <1>1, <1>2

LEMMA OrdersAre ==
    ASSUME turn \in DOMAIN Rings, NEW o \in OrdersOf(turn)
    PROVE  /\ AllLines(o, Ring.lines) /\ o[1] = 0
           /\ byPage => OneTurn(o, Ring.lines, Group(Ring.lines, PageLines))
<1>1. Ring.lines \in Nat \ {0} BY RingIs
<1>2. PageLines \in Nat BY RingAssumption
<1>3. CASE byPage
  <2>1. o \in RingOrders(Ring.lines, PageLines) BY <1>3 DEF OrdersOf, PagedOrders, Ring
  <2> QED BY <1>1, <1>2, <2>1, OrderIs
<1>4. CASE ~byPage
  <2>1. o \in RingOrders(Ring.lines, 0) BY <1>4 DEF OrdersOf, GlobalOrders, Ring
  <2> QED BY <1>1, <1>4, <2>1, OrderIs
<1> QED BY <1>3, <1>4

LEMMA NodesAre ==
    ASSUME turn \in DOMAIN Rings, NEW s \in 0..(Ring.slots - 1), NEW l \in 0..(Ring.lines - 1)
    PROVE  /\ Node(s, l) \in 0..(Words - 1)
           /\ Node(s, l) \div Ring.stride = l /\ Node(s, l) % Ring.stride = s
<1> DEFINE d == Ring.stride
           n == Ring.lines
<1>1. /\ n \in Nat \ {0} /\ d \in Nat \ {0} /\ Ring.slots \in 1..d
      /\ n * d <= Words /\ Words \in Nat /\ n * d \in Nat
  <2>1. n \in Nat \ {0} /\ d \in Nat \ {0} /\ Ring.slots \in 1..d /\ n * d <= Words /\ Words \in Nat
    BY RingIs
  <2> HIDE DEF n, d
  <2> QED BY <2>1
<1>2. Node(s, l) = l * d + s BY DEF Node
<1>3. l \in 0..(n - 1) OBVIOUS
<1> HIDE DEF n, d
<1>4. s \in 0..(d - 1) /\ l \in Nat BY <1>1, <1>3
<1>5. l * d + s \in 0..(n * d - 1) BY <1>1, <1>3, <1>4, BelowProduct
<1>6. (l * d + s) \div d = l /\ (l * d + s) % d = s BY <1>1, <1>4, QuotientIs
<1>7. l * d + s \in 0..(Words - 1) BY <1>1, <1>5
<1> QED BY <1>2, <1>6, <1>7 DEF d

LEMMA RingStarts == ASSUME RingInit PROVE RingInvariant
BY DEF RingInit, RingInvariant

LEMMA StartKeeps ==
    ASSUME RingInvariant, NEW k, Start(k), UNCHANGED <<byPage, buffer>> PROVE RingInvariant'
<1>1. byPage' \in BOOLEAN /\ DOMAIN buffer' = 0..(Words - 1) BY DEF RingInvariant
<1>2. CASE k \in DOMAIN Rings
  <2>1. /\ turn' = k /\ slot' = 0 /\ chase' = "link"
        /\ lineOrder' \in OrdersOf(k) /\ first' \in OrdersOf(k)
    BY <1>2 DEF Start
  <2>2. OrdersOf(turn)' = OrdersOf(k) BY <2>1 DEF OrdersOf
  <2>3. 0 \in 0..(Ring.slots - 1)'
    <3>1. Rings[k].slots \in 1..Rings[k].stride /\ Rings[k].stride \in Nat
      BY <1>2, RingAssumption
    <3> QED BY <2>1, <3>1 DEF Ring
  <2>4. 0..(slot' - 1) = {} BY <2>1
  <2> QED BY <1>1, <1>2, <2>1, <2>2, <2>3, <2>4 DEF RingInvariant
<1>3. CASE k \notin DOMAIN Rings
  <2>1. chase' = "swept" BY <1>3 DEF Start
  <2> QED BY <1>1, <2>1 DEF RingInvariant
<1> QED BY <1>2, <1>3

LEMMA ReferenceKeeps ==
    ASSUME RingInvariant, LinkReference \/ LoadReference PROVE RingInvariant'
<1>1. CASE LinkReference
  <2>1. chase' = "reference" /\ byPage' = byPage BY <1>1 DEF LinkReference
  <2>2. DOMAIN buffer' = DOMAIN buffer BY <1>1 DEF LinkReference
  <2> QED BY <2>1, <2>2 DEF RingInvariant
<1>2. CASE LoadReference
  <2>1. chase' = "reference" /\ byPage' = byPage /\ buffer' = buffer BY <1>2 DEF LoadReference
  <2> QED BY <2>1 DEF RingInvariant
<1> QED BY <1>1, <1>2

\* What LinkSlot leaves of a slot linked before, and what it links.
LEMMA LinkSlotKeeps == ASSUME RingInvariant, LinkSlot PROVE RingInvariant'
<1> DEFINE n == Ring.lines
           d == Ring.stride
           c == Ring.slots
           o == lineOrder
<1>1. PICK following \in IF slot + 1 < c THEN OrdersOf(turn) ELSE {first} :
          /\ buffer' = [w \in DOMAIN buffer |->
                 IF \E i \in 1..n : Node(slot, o[i]) = w
                 THEN LET i == CHOOSE i \in 1..n : Node(slot, o[i]) = w
                      IN  IF i < n THEN Node(slot, o[i + 1])
                          ELSE Node((slot + 1) % c, following[1])
                 ELSE buffer[w]]
          /\ lineOrder' = following
  BY DEF LinkSlot
<1>2. /\ chase = "link" /\ slot' = slot + 1 /\ turn' = turn /\ byPage' = byPage /\ first' = first
      /\ chase' = IF slot + 1 < c THEN "link" ELSE "probe"
  BY DEF LinkSlot
<1>3. /\ turn \in DOMAIN Rings /\ slot \in 0..(c - 1)
      /\ o \in OrdersOf(turn) /\ first \in OrdersOf(turn)
      /\ \A s \in 0..(slot - 1) : Linked(s)
      /\ byPage \in BOOLEAN /\ DOMAIN buffer = 0..(Words - 1)
  BY <1>2 DEF RingInvariant
<1>4. following \in OrdersOf(turn) BY <1>3
<1>5. n \in Nat \ {0} /\ d \in Nat \ {0} /\ c \in 1..d BY <1>3, RingIs
<1>6. AllLines(o, n) /\ following[1] = 0 BY <1>3, <1>4, OrdersAre
<1>7. \A s \in 0..(c - 1), l \in 0..(n - 1) :
          Node(s, l) \in 0..(Words - 1) /\ Node(s, l) \div d = l /\ Node(s, l) % d = s
  BY <1>3, NodesAre
<1>8. \A i \in 1..n : o[i] \in 0..(n - 1) BY <1>6 DEF AllLines
<1>9. OrdersOf(turn)' = OrdersOf(turn) /\ Ring' = Ring BY <1>2 DEF OrdersOf, Ring
<1>10. ASSUME NEW s \in 0..slot PROVE Linked(s)'
  <2>1. s \in 0..(c - 1) BY <1>3, <1>5
  <2>2. ASSUME NEW p \in OrdersOf(turn),
               \A i \in 1..n : buffer'[Node(s, p[i])] =
                   IF i < n THEN Node(s, p[i + 1]) ELSE Node((s + 1) % c, 0)
        PROVE  Linked(s)'
    <3>1. LinkedAlong(p, s)' BY <1>9, <2>2 DEF LinkedAlong, Node
    <3> QED BY <1>9, <3>1 DEF Linked
  <2>3. CASE s < slot
    <3>1. PICK p \in OrdersOf(turn) : LinkedAlong(p, s) BY <1>3, <2>3 DEF Linked
    <3>2. AllLines(p, n) BY <1>3, OrdersAre
    <3>3. ASSUME NEW i \in 1..n PROVE buffer'[Node(s, p[i])] = buffer[Node(s, p[i])]
      <4>1. p[i] \in 0..(n - 1) BY <3>2 DEF AllLines
      <4>2. Node(s, p[i]) \in DOMAIN buffer /\ Node(s, p[i]) % d = s BY <1>3, <1>7, <2>1, <4>1
      <4>3. \A j \in 1..n : Node(slot, o[j]) % d = slot BY <1>3, <1>7, <1>8
      <4>4. ~\E j \in 1..n : Node(slot, o[j]) = Node(s, p[i]) BY <2>3, <4>2, <4>3
      <4> QED BY <1>1, <4>2, <4>4
    <3>4. \A i \in 1..n : buffer[Node(s, p[i])] =
              IF i < n THEN Node(s, p[i + 1]) ELSE Node((s + 1) % c, 0)
      BY <3>1 DEF LinkedAlong
    <3> QED BY <2>2, <3>3, <3>4
  <2>4. CASE s = slot
    <3>1. ASSUME NEW i \in 1..n
          PROVE  buffer'[Node(s, o[i])] = IF i < n THEN Node(s, o[i + 1]) ELSE Node((s + 1) % c, 0)
      <4> DEFINE w == Node(slot, o[i])
                 j == CHOOSE k \in 1..n : Node(slot, o[k]) = w
      <4>1. w \in DOMAIN buffer BY <1>3, <1>7, <1>8
      <4>2. j \in 1..n /\ Node(slot, o[j]) = w OBVIOUS
      <4>3. buffer'[w] = IF j < n THEN Node(slot, o[j + 1]) ELSE Node((slot + 1) % c, following[1])
        BY <1>1, <4>1
      <4> HIDE DEF j
      <4>4. \A k \in 1..n : Node(slot, o[k]) \div d = o[k] BY <1>3, <1>7, <1>8
      <4>5. o[j] = o[i] BY <4>2, <4>4
      <4>6. j = i BY <1>6, <4>2, <4>5 DEF AllLines
      <4> QED BY <1>6, <2>4, <4>3, <4>6
    <3> QED BY <1>3, <2>2, <3>1
  <2> QED BY <1>3, <2>1, <2>3, <2>4
<1>11. byPage' \in BOOLEAN /\ DOMAIN buffer' = 0..(Words - 1) BY <1>1, <1>2, <1>3
<1>12. turn' \in DOMAIN Rings BY <1>2, <1>3
<1>13. CASE slot + 1 < c
  <2>1. chase' = "link" /\ slot' \in 0..(Ring.slots - 1)' BY <1>2, <1>3, <1>5, <1>9, <1>13
  <2>2. lineOrder' \in OrdersOf(turn)' /\ first' \in OrdersOf(turn)' BY <1>1, <1>2, <1>3, <1>4, <1>9
  <2>3. 0..(slot' - 1) = 0..slot BY <1>2, <1>3
  <2> QED BY <1>10, <1>11, <1>12, <2>1, <2>2, <2>3 DEF RingInvariant
<1>14. CASE ~(slot + 1 < c)
  <2>1. chase' = "probe" BY <1>2, <1>14
  <2>2. 0..(Ring.slots - 1)' = 0..slot BY <1>3, <1>5, <1>9, <1>14
  <2> QED BY <1>10, <1>11, <1>12, <2>1, <2>2 DEF RingInvariant
<1> QED BY <1>13, <1>14

LEMMA ProbeKeeps == ASSUME RingInvariant, Probe PROVE RingInvariant'
<1>1. PICK cost \in Latencies : steps' = IF cost = 0 THEN 0
                                         ELSE Max({Budget \div cost, MinimumSteps, Ring.lines})
  BY DEF Probe
<1>2. /\ chase = "probe" /\ chase' = "sample"
      /\ UNCHANGED <<byPage, buffer, turn, slot, lineOrder, first>>
  BY DEF Probe
<1>3. turn \in DOMAIN Rings /\ \A s \in 0..(Ring.slots - 1) : Linked(s)
  BY <1>2 DEF RingInvariant
<1>4. ASSUME steps' > 0 PROVE steps' >= Ring.lines
  <2> DEFINE T == {Budget \div cost, MinimumSteps, Ring.lines}
  <2>1. cost # 0 /\ steps' = Max(T) BY <1>1, <1>4
  <2>2. cost \in Nat \ {0} /\ Budget \in Nat /\ MinimumSteps \in Nat BY <2>1, RingAssumption
  <2>3. Ring.lines \in Nat BY <1>3, RingIs
  <2>4. Budget \div cost \in Nat BY <2>2
  <2>5. T \in SUBSET Nat /\ T # {} /\ IsFiniteSet(T)
    <3>1. IsFiniteSet({Budget \div cost}) BY FS_Singleton
    <3>2. IsFiniteSet({Budget \div cost} \cup {MinimumSteps}) BY <3>1, FS_AddElement
    <3>3. IsFiniteSet(({Budget \div cost} \cup {MinimumSteps}) \cup {Ring.lines})
      BY <3>2, FS_AddElement
    <3>4. T = ({Budget \div cost} \cup {MinimumSteps}) \cup {Ring.lines} OBVIOUS
    <3> QED BY <2>2, <2>3, <2>4, <3>3, <3>4
  <2>6. Ring.lines \in T OBVIOUS
  <2> HIDE DEF T
  <2>7. \A x \in T : x <= Max(T) BY <2>5, MaxOf
  <2>8. Max(T) \in T BY <2>5, MaxOf
  <2> QED BY <2>1, <2>5, <2>6, <2>7, <2>8
<1>5. Ring' = Ring /\ OrdersOf(turn)' = OrdersOf(turn) BY <1>2 DEF Ring, OrdersOf
<1>6. ASSUME NEW s \in 0..(Ring.slots - 1) PROVE Linked(s)'
  <2>1. Linked(s) BY <1>3
  <2> QED BY <1>2, <1>5, <2>1 DEF Linked, LinkedAlong, Node
<1> QED BY <1>2, <1>3, <1>4, <1>5, <1>6 DEF RingInvariant

LEMMA RingStep == ASSUME RingInvariant, [RingNext]_ringVars PROVE RingInvariant'
<1>1. CASE LinkReference \/ LoadReference BY <1>1, ReferenceKeeps
<1>2. CASE LinkSlot BY <1>2, LinkSlotKeeps
<1>3. CASE Probe BY <1>3, ProbeKeeps
<1>4. CASE NoReference BY <1>4, StartKeeps DEF NoReference
<1>5. CASE EndReference BY <1>5, StartKeeps DEF EndReference
<1>6. CASE NextRing BY <1>6, StartKeeps DEF NextRing
<1>7. CASE UNCHANGED ringVars
  BY <1>7 DEF ringVars, RingInvariant, Linked, LinkedAlong, Node, Ring, OrdersOf
<1> QED BY <1>1, <1>2, <1>3, <1>4, <1>5, <1>6, <1>7 DEF RingNext, Chasing

LEMMA RingKeepsInvariant == RingSpec => []RingInvariant
BY RingStarts, RingStep, PTL DEF RingSpec

-----------------------------------------------------------------------------
(* The chase.                                                              *)

LEMMA WalkExists ==
    ASSUME NEW b, NEW m \in Nat
    PROVE  \E f : f = [k \in 0..m |-> IF k = 0 THEN 0 ELSE b[f[k - 1]]]
<1> DEFINE Fills(f, j) == f = [k \in 0..j |-> IF k = 0 THEN 0 ELSE b[f[k - 1]]]
           S == {j \in 0..m : \E f : Fills(f, j)}
<1>1. 0 \in S
  <2> DEFINE f == [k \in 0..0 |-> 0]
  <2>1. \A k \in 0..0 : k = 0 OBVIOUS
  <2>2. f = [k \in 0..0 |-> IF k = 0 THEN 0 ELSE b[f[k - 1]]] BY <2>1
  <2> HIDE DEF f
  <2>3. \E h : Fills(h, 0) BY <2>2
  <2>4. 0 \in 0..m OBVIOUS
  <2> QED BY <2>3, <2>4
<1>2. ASSUME NEW j \in 0..m, j \in S, j < m PROVE j + 1 \in S
  <2>1. PICK f : Fills(f, j) BY <1>2
  <2> DEFINE g == [k \in 0..(j + 1) |-> IF k <= j THEN f[k] ELSE b[f[j]]]
  <2>2. \A k \in 0..j : f[k] = IF k = 0 THEN 0 ELSE b[f[k - 1]] BY <2>1
  <2>3. ASSUME NEW k \in 0..(j + 1) PROVE g[k] = IF k = 0 THEN 0 ELSE b[g[k - 1]]
    <3>1. CASE k <= j /\ k # 0
      <4>1. k \in 0..j /\ k - 1 \in 0..(j + 1) /\ k - 1 <= j BY <3>1
      <4>2. g[k] = f[k] /\ g[k - 1] = f[k - 1] BY <4>1
      <4> QED BY <2>2, <3>1, <4>1, <4>2
    <3>2. CASE k = 0
      <4>1. g[k] = f[k] /\ k \in 0..j BY <3>2
      <4> QED BY <2>2, <3>2, <4>1
    <3>3. CASE k = j + 1
      <4>1. g[k] = b[f[j]] /\ k # 0 /\ k - 1 = j BY <3>3
      <4>2. g[j] = f[j] OBVIOUS
      <4> QED BY <4>1, <4>2
    <3> QED BY <3>1, <3>2, <3>3
  <2>4. g = [k \in 0..(j + 1) |-> g[k]] OBVIOUS
  <2> HIDE DEF g
  <2>5. g = [k \in 0..(j + 1) |-> IF k = 0 THEN 0 ELSE b[g[k - 1]]] BY <2>3, <2>4
  <2>6. Fills(g, j + 1) BY <2>5
  <2>7. j + 1 \in 0..m BY <1>2
  <2> QED BY <2>6, <2>7
<1> HIDE DEF S
<1>3. 0..m \subseteq S BY <1>1, <1>2, UpTo
<1>4. m \in S BY <1>3
<1> QED BY <1>4 DEF S

LEMMA WalkIs ==
    Words \in Nat => Walk[0] = 0 /\ \A k \in 1..(2 * Words) : Walk[k] = buffer[Walk[k - 1]]
<1> SUFFICES ASSUME Words \in Nat
             PROVE  Walk[0] = 0 /\ \A k \in 1..(2 * Words) : Walk[k] = buffer[Walk[k - 1]]
  OBVIOUS
<1> DEFINE m == 2 * Words
<1>1. m \in Nat OBVIOUS
<1> HIDE DEF m
<1>2. \E f : f = [k \in 0..m |-> IF k = 0 THEN 0 ELSE buffer[f[k - 1]]]
  BY <1>1, WalkExists, ZenonT(30)
<1>3. Walk = CHOOSE f : f = [k \in 0..m |-> IF k = 0 THEN 0 ELSE buffer[f[k - 1]]]
  BY DEF Walk, m
<1>4. Walk = [k \in 0..m |-> IF k = 0 THEN 0 ELSE buffer[Walk[k - 1]]]
  <2> DEFINE w == CHOOSE f : f = [k \in 0..m |-> IF k = 0 THEN 0 ELSE buffer[f[k - 1]]]
  <2>1. w = [k \in 0..m |-> IF k = 0 THEN 0 ELSE buffer[w[k - 1]]] BY <1>2
  <2> HIDE DEF w
  <2>2. Walk = w BY <1>3 DEF w
  <2> QED BY <2>1, <2>2
<1> HIDE DEF Walk
<1>5. \A k \in 0..m : Walk[k] = IF k = 0 THEN 0 ELSE buffer[Walk[k - 1]]
  <2> DEFINE w == Walk
  <2>1. w = [k \in 0..m |-> IF k = 0 THEN 0 ELSE buffer[w[k - 1]]] BY <1>4
  <2> HIDE DEF w
  <2>2. \A k \in 0..m : w[k] = IF k = 0 THEN 0 ELSE buffer[w[k - 1]] BY <2>1
  <2> QED BY <2>2 DEF w
<1>6. Walk[0] = 0 BY <1>1, <1>5
<1>7. \A k \in 1..m : Walk[k] = buffer[Walk[k - 1]] BY <1>1, <1>5
<1> QED BY <1>6, <1>7 DEF m

\* The nodes N of an order are linked in b, the last one to z.
Path(b, N, o, n, z) ==
    \A i \in 1..n : b[N[o[i]]] = IF i < n THEN N[o[i + 1]] ELSE z

\* The n loads of the chase w after the first e.
Loads(b, w, e, n) == \A k \in (e + 1)..(e + n) : w[k] = b[w[k - 1]]

\* A walk that has reached word 0 of a slot is led along the slot's order.
LEMMA SlotIsWalked ==
    ASSUME NEW n \in Nat \ {0}, NEW N, NEW o, NEW b, NEW w, NEW z, NEW e \in Nat,
           Path(b, N, o, n, z), w[e] = N[o[1]], Loads(b, w, e, n)
    PROVE  (\A i \in 0..(n - 1) : w[e + i] = N[o[i + 1]]) /\ w[e + n] = z
<1> DEFINE S == {i \in 0..(n - 1) : w[e + i] = N[o[i + 1]]}
<1>1. 0 \in S OBVIOUS
<1>2. ASSUME NEW i \in 0..(n - 1), i \in S, i < n - 1 PROVE i + 1 \in S
  <2>1. w[e + i] = N[o[i + 1]] BY <1>2
  <2>2. e + i + 1 \in (e + 1)..(e + n) /\ (e + i + 1) - 1 = e + i BY <1>2
  <2>3. w[e + i + 1] = b[w[e + i]] BY <2>2 DEF Loads
  <2>4. i + 1 \in 1..n /\ i + 1 < n BY <1>2
  <2>5. b[N[o[i + 1]]] = N[o[(i + 1) + 1]] BY <2>4 DEF Path
  <2>6. e + (i + 1) = e + i + 1 /\ i + 1 \in 0..(n - 1) BY <1>2
  <2> QED BY <2>1, <2>3, <2>5, <2>6
<1> HIDE DEF S
<1>3. 0..(n - 1) \subseteq S
  <2>1. n - 1 \in Nat OBVIOUS
  <2> QED BY <1>1, <1>2, <2>1, UpTo
<1>4. \A i \in 0..(n - 1) : w[e + i] = N[o[i + 1]] BY <1>3 DEF S
<1>5. w[e + n] = z
  <2>1. w[e + (n - 1)] = N[o[n]]
    <3>1. n - 1 \in 0..(n - 1) /\ (n - 1) + 1 = n OBVIOUS
    <3> QED BY <1>4, <3>1
  <2>2. e + n \in (e + 1)..(e + n) /\ (e + n) - 1 = e + (n - 1) OBVIOUS
  <2>3. w[e + n] = b[w[e + (n - 1)]] BY <2>2 DEF Loads
  <2>4. b[N[o[n]]] = z BY DEF Path
  <2> QED BY <2>1, <2>3, <2>4
<1> QED BY <1>4, <1>5

LEMMA LapsFit ==
    ASSUME NEW n \in Nat \ {0}, NEW c \in Nat \ {0}, NEW d \in Nat, c <= d,
           NEW W \in Nat, n * d <= W, NEW s \in 0..(c - 1)
    PROVE  s * n \in Nat /\ (s + 1) * n = s * n + n /\ s * n + n <= c * n /\ c * n <= W
<1>1. s * n \in Nat /\ c * n \in Nat /\ (s + 1) * n = s * n + n OBVIOUS
<1>2. (s + 1) * n <= c * n
  <2>1. s + 1 <= c OBVIOUS
  <2> QED BY <2>1
<1>3. c * n <= n * d OBVIOUS
<1>4. n * d \in Nat OBVIOUS
<1> QED BY <1>1, <1>2, <1>3, <1>4

LEMMA SlotWalk ==
    ASSUME turn \in DOMAIN Rings, NEW s \in 0..(Ring.slots - 1),
           NEW o \in OrdersOf(turn), LinkedAlong(o, s), Walk[s * Ring.lines] = s
    PROVE  /\ \A i \in 0..(Ring.lines - 1) : Walk[s * Ring.lines + i] = Node(s, o[i + 1])
           /\ Walk[(s + 1) * Ring.lines] = (s + 1) % Ring.slots
<1> DEFINE n == Ring.lines
           c == Ring.slots
           e == s * n
           N == [l \in 0..(n - 1) |-> Node(s, l)]
           z == Node((s + 1) % c, 0)
<1>1. /\ n \in Nat \ {0} /\ Ring.stride \in Nat \ {0} /\ c \in 1..Ring.stride
      /\ n * Ring.stride <= Words /\ Words \in Nat
  BY RingIs
<1>2. AllLines(o, n) /\ o[1] = 0 BY OrdersAre
<1>3. \A i \in 1..n : o[i] \in 0..(n - 1) BY <1>2 DEF AllLines
<1>4. \A i \in 1..n : buffer[Node(s, o[i])] = IF i < n THEN Node(s, o[i + 1]) ELSE z
  BY DEF LinkedAlong
<1>5. Walk[0] = 0 /\ \A k \in 1..(2 * Words) : Walk[k] = buffer[Walk[k - 1]] BY <1>1, WalkIs
<1>6. Node(s, 0) = s /\ Node((s + 1) % c, 0) = (s + 1) % c
  <2>1. (s + 1) % c \in 0..(c - 1) BY <1>1
  <2> DEFINE d == Ring.stride
  <2>2. \A t : Node(t, 0) = 0 * d + t BY DEF Node
  <2>3. d \in Nat BY <1>1
  <2> HIDE DEF d
  <2> QED BY <2>1, <2>2, <2>3
<1> HIDE DEF z, n, c
<1>7. e \in Nat /\ (s + 1) * n = e + n /\ e + n <= Words
  <2>1. s \in 0..(c - 1) BY DEF c
  <2>2. s * n \in Nat /\ (s + 1) * n = s * n + n /\ s * n + n <= c * n /\ c * n <= Words
    BY <1>1, <2>1, LapsFit
  <2>3. c * n \in Nat BY <1>1
  <2> QED BY <1>1, <2>2, <2>3
<1>8. Walk[e] = s BY DEF n
<1> HIDE DEF e
<1>9. \A i \in 1..n : N[o[i]] = Node(s, o[i]) BY <1>3
<1>10. Path(buffer, N, o, n, z)
  <2> SUFFICES ASSUME NEW i \in 1..n PROVE buffer[N[o[i]]] = IF i < n THEN N[o[i + 1]] ELSE z
    BY DEF Path
  <2>1. i < n => i + 1 \in 1..n BY <1>1
  <2> QED BY <1>4, <1>9, <2>1
<1>11. Walk[e] = N[o[1]]
  <2>1. 1 \in 1..n BY <1>1
  <2> QED BY <1>2, <1>6, <1>8, <1>9, <2>1
<1>12. Loads(buffer, Walk, e, n) BY <1>1, <1>5, <1>7 DEF Loads
<1> HIDE DEF N
<1>13. (\A i \in 0..(n - 1) : Walk[e + i] = N[o[i + 1]]) /\ Walk[e + n] = z
  <2>1. n \in Nat \ {0} /\ e \in Nat BY <1>1, <1>7
  <2> QED BY <1>10, <1>11, <1>12, <2>1, SlotIsWalked
<1>14. \A i \in 0..(n - 1) : N[o[i + 1]] = Node(s, o[i + 1])
  <2>1. \A i \in 0..(n - 1) : i + 1 \in 1..n BY <1>1
  <2> QED BY <1>9, <2>1
<1> QED BY <1>6, <1>7, <1>13, <1>14 DEF e, n, c, z

\* The whole walk: lap s follows the order of slot s, and the last lap ends at word 0.
LEMMA RingIsWalked ==
    ASSUME turn \in DOMAIN Rings, NEW os,
           \A s \in 0..(Ring.slots - 1) : os[s] \in OrdersOf(turn) /\ LinkedAlong(os[s], s)
    PROVE  /\ \A s \in 0..(Ring.slots - 1), i \in 0..(Ring.lines - 1) :
                  Walk[s * Ring.lines + i] = Node(s, os[s][i + 1])
           /\ Walk[Ring.lines * Ring.slots] = 0
<1> DEFINE n == Ring.lines
           c == Ring.slots
           S == {s \in 0..c : Walk[s * n] = s % c}
<1>1. n \in Nat \ {0} /\ c \in Nat \ {0} /\ Words \in Nat BY RingIs
<1>2. \A s \in 0..(c - 1) : s % c = s BY <1>1
<1>3. ASSUME NEW s \in 0..(c - 1), Walk[s * n] = s
      PROVE  (\A i \in 0..(n - 1) : Walk[s * n + i] = Node(s, os[s][i + 1]))
             /\ Walk[(s + 1) * n] = (s + 1) % c
  BY <1>3, SlotWalk
<1>4. Walk[0] = 0 BY <1>1, WalkIs
<1> HIDE DEF n, c
<1>5. 0 \in S
  <2>1. 0 * n = 0 /\ 0 % c = 0 BY <1>1
  <2> QED BY <1>1, <1>4, <2>1
<1>6. ASSUME NEW s \in 0..c, s \in S, s < c PROVE s + 1 \in S
  <2>1. s \in 0..(c - 1) BY <1>1, <1>6
  <2>2. Walk[s * n] = s BY <1>2, <1>6, <2>1
  <2>3. Walk[(s + 1) * n] = (s + 1) % c BY <1>3, <2>1, <2>2
  <2> QED BY <1>1, <2>1, <2>3
<1> HIDE DEF S
<1>7. 0..c \subseteq S BY <1>1, <1>5, <1>6, UpTo
<1>8. \A s \in 0..c : Walk[s * n] = s % c BY <1>7 DEF S
<1>9. Walk[n * c] = 0
  <2>1. c \in 0..c /\ c % c = 0 /\ c * n = n * c BY <1>1
  <2> QED BY <1>8, <2>1
<1>10. ASSUME NEW s \in 0..(c - 1), NEW i \in 0..(n - 1)
       PROVE  Walk[s * n + i] = Node(s, os[s][i + 1])
  <2>1. s \in 0..c BY <1>1
  <2>2. Walk[s * n] = s BY <1>2, <1>8, <2>1
  <2> QED BY <1>3, <2>2
<1> QED BY <1>9, <1>10 DEF n, c

LEMMA LapAndLine ==
    ASSUME NEW n \in Nat \ {0}, NEW c \in Nat \ {0}, NEW i \in 0..(n * c - 1)
    PROVE  \E s \in 0..(c - 1), a \in 0..(n - 1) : i = s * n + a
<1> DEFINE s == i \div n
           a == i % n
<1>1. n * c \in Nat OBVIOUS
<1>2. i \in Nat /\ i < n * c BY <1>1
<1>3. s \in Nat /\ a \in 0..(n - 1) /\ i = s * n + a BY <1>2
<1> HIDE DEF s, a
<1>4. s < c
  <2> SUFFICES ASSUME s >= c PROVE FALSE BY <1>3
  <2>1. s * n >= c * n BY <1>3
  <2>2. c * n = n * c /\ s * n \in Nat BY <1>3
  <2> QED BY <1>1, <1>2, <1>3, <2>1, <2>2
<1> QED BY <1>3, <1>4

\* Lap s of the walk w goes through word s of every line, in the order os[s].
Laps(w, os, n, d, c) ==
    \A s \in 0..(c - 1) :
        AllLines(os[s], n) /\ \A i \in 0..(n - 1) : w[s * n + i] = os[s][i + 1] * d + s

LEMMA WordsDiffer ==
    ASSUME NEW n \in Nat \ {0}, NEW d \in Nat \ {0}, NEW c \in 1..d,
           NEW os, NEW w, Laps(w, os, n, d, c)
    PROVE  Cardinality({w[i] : i \in 0..(n * c - 1)}) = n * c
<1> DEFINE D == 0..(n * c - 1)
           T == {w[i] : i \in D}
           f == [i \in D |-> w[i]]
<1>1. n * c \in Nat \ {0} OBVIOUS
<1>2. IsFiniteSet(D) /\ Cardinality(D) = n * c
  <2> DEFINE m == n * c
  <2>1. m \in Nat \ {0} BY <1>1
  <2> HIDE DEF m
  <2>2. IsFiniteSet(0..(m - 1)) /\ Cardinality(0..(m - 1)) = m BY <2>1, FS_Interval
  <2> QED BY <2>2 DEF m
<1>3. ASSUME NEW i \in D, NEW j \in D, w[i] = w[j] PROVE i = j
  <2>1. c \in Nat \ {0} OBVIOUS
  <2>2. PICK s \in 0..(c - 1), a \in 0..(n - 1) : i = s * n + a BY <2>1, LapAndLine
  <2>3. PICK t \in 0..(c - 1), b \in 0..(n - 1) : j = t * n + b BY <2>1, LapAndLine
  <2> DEFINE x == os[s][a + 1]
             y == os[t][b + 1]
  <2>4. a + 1 \in 1..n /\ b + 1 \in 1..n OBVIOUS
  <2>5. x \in 0..(n - 1) /\ y \in 0..(n - 1)
    <3>1. AllLines(os[s], n) /\ AllLines(os[t], n) BY DEF Laps
    <3>2. os[s] \in [1..n -> 0..(n - 1)] /\ os[t] \in [1..n -> 0..(n - 1)] BY <3>1 DEF AllLines
    <3> QED BY <2>4, <3>2
  <2>6. w[i] = x * d + s /\ w[j] = y * d + t BY <2>2, <2>3 DEF Laps
  <2> HIDE DEF x, y
  <2>7. /\ x \in Nat /\ y \in Nat /\ s \in 0..(d - 1) /\ t \in 0..(d - 1) BY <2>5
  <2>8. (x * d + s) \div d = x /\ (x * d + s) % d = s BY <2>7, QuotientIs
  <2>9. (y * d + t) \div d = y /\ (y * d + t) % d = t BY <2>7, QuotientIs
  <2>10. x = y /\ s = t BY <1>3, <2>6, <2>8, <2>9
  <2>11. a + 1 = b + 1
    <3>1. os[s][a + 1] = os[s][b + 1] BY <2>10 DEF x, y
    <3>2. \A r \in 0..(c - 1) : AllLines(os[r], n) BY DEF Laps
    <3> QED BY <2>4, <3>1, <3>2 DEF AllLines
  <2> QED BY <2>2, <2>3, <2>10, <2>11
<1> HIDE DEF D
<1>4. f \in Injection(D, T) BY <1>3 DEF Injection, IsInjective
<1>5. f \in Surjection(D, T) BY DEF Surjection
<1> HIDE DEF f, T
<1>6. Cardinality(T) = Cardinality(D) BY <1>2, <1>4, <1>5, FS_Surjection
<1> QED BY <1>2, <1>6 DEF T, D

Along(v, o, e, n) == \A i \in 0..(n - 1) : v[e + i] = o[i + 1]

\* Turns of a lap into a page: an order that has one for each page at most.
LEMMA PageTurns ==
    ASSUME NEW n \in Nat \ {0}, NEW P \in Nat \ {0}, NEW o,
           AllLines(o, n), OneTurn(o, n, Group(n, P)),
           NEW e \in Nat, NEW v, Along(v, o, e, n)
    PROVE  Cardinality({i \in (e + 1)..(e + n - 1) : v[i] \div P # v[i - 1] \div P})
               <= Cardinality(Groups(n, P))
<1> DEFINE T == {i \in (e + 1)..(e + n - 1) : v[i] \div P # v[i - 1] \div P}
           G == Groups(n, P)
           f == [i \in T |-> v[i] \div P]
<1>1. ASSUME NEW i \in (e + 1)..(e + n - 1)
      PROVE  /\ v[i] = o[i - e + 1] /\ v[i - 1] = o[i - e] /\ i - e \in 1..(n - 1)
             /\ v[i] \in 0..(n - 1) /\ v[i - 1] \in 0..(n - 1)
  <2>1. i - e \in 1..(n - 1) /\ i = e + (i - e) /\ i - 1 = e + (i - e - 1) OBVIOUS
  <2>2. i - e \in 0..(n - 1) /\ i - e - 1 \in 0..(n - 1) /\ (i - e - 1) + 1 = i - e BY <2>1
  <2>3. v[i] = o[i - e + 1] /\ v[i - 1] = o[i - e] BY <2>1, <2>2 DEF Along
  <2>4. i - e + 1 \in 1..n /\ i - e \in 1..n BY <2>1
  <2> QED BY <2>1, <2>3, <2>4 DEF AllLines
<1>2. CASE P >= n
  <2>1. \A l \in 0..(n - 1) : l \div P = 0 BY <1>2
  <2>2. ASSUME NEW i \in (e + 1)..(e + n - 1) PROVE v[i] \div P = v[i - 1] \div P
    <3>1. v[i] \in 0..(n - 1) /\ v[i - 1] \in 0..(n - 1) BY <1>1
    <3>2. v[i] \div P = 0 /\ v[i - 1] \div P = 0 BY <2>1, <3>1
    <3> QED BY <3>2
  <2>3. T = {} BY <2>2
  <2>4. Cardinality(T) = 0 BY <2>3, FS_EmptySet
  <2>5. Cardinality(G) \in Nat
    <3>1. Group(n, P) \in 1..n BY GroupIs
    <3>2. (n - 1) \div Group(n, P) \in Nat BY <3>1
    <3>3. IsFiniteSet(G) BY <3>2, FS_Interval DEF Groups
    <3> QED BY <3>3, FS_CardinalityType
  <2> QED BY <2>4, <2>5
<1>3. CASE P < n
  <2>1. Group(n, P) = P BY <1>3, GroupIs
  <2>2. G = 0..((n - 1) \div P) BY <2>1 DEF Groups
  <2>3. \A l \in 0..(n - 1) : l \div P \in 0..((n - 1) \div P) OBVIOUS
  <2>4. f \in [T -> G] BY <1>1, <2>2, <2>3
  <2>5. ASSUME NEW i \in T, NEW j \in T, i < j, f[i] = f[j] PROVE FALSE
    <3>1. /\ v[i] \div P = v[j] \div P
          /\ v[i] \div P # v[i - 1] \div P /\ v[j] \div P # v[j - 1] \div P
      BY <2>5
    <3> DEFINE a == i - e
               b == j - e
    <3>2. /\ a \in 1..(n - 1) /\ b \in 1..(n - 1) /\ a < b
          /\ v[i] = o[a + 1] /\ v[i - 1] = o[a] /\ v[j] = o[b + 1] /\ v[j - 1] = o[b]
      BY <1>1, <2>5
    <3> HIDE DEF a, b
    <3>3. o[a] \div P = o[a + 1] \div P \/ o[b] \div P = o[b + 1] \div P
      BY <2>1, <3>1, <3>2 DEF OneTurn
    <3> QED BY <3>1, <3>2, <3>3
  <2>6. \A i, j \in T : f[i] = f[j] => i = j
    <3>1. \A i, j \in T : i < j \/ j < i \/ i = j OBVIOUS
    <3> HIDE DEF T, f
    <3> QED BY <2>5, <3>1
  <2> HIDE DEF f, T
  <2>7. f \in Injection(T, G) BY <2>4, <2>6 DEF Injection, IsInjective
  <2>8. IsFiniteSet(G)
    <3>1. (n - 1) \div P \in Int OBVIOUS
    <3> QED BY <2>2, <3>1, FS_Interval
  <2> HIDE DEF G
  <2>9. Cardinality(T) <= Cardinality(G) BY <2>7, <2>8, FS_Injection
  <2> QED BY <2>9 DEF T, G
<1> QED BY <1>2, <1>3

\* The orders of the slots that were linked lead a chase over the whole set.
LEMMA SampleFollows == RingInvariant => SampleCoversItsSet
<1> SUFFICES ASSUME RingInvariant, chase = "sample", steps > 0
             PROVE  LET n == Ring.lines
                        walk == Walk
                        line(i) == walk[i] \div Ring.stride
                        turns(lap) == {i \in (lap * n + 1)..(lap * n + n - 1) :
                                          line(i) \div PageLines # line(i - 1) \div PageLines}
                    IN  /\ steps >= n
                        /\ \A lap \in 0..(Ring.slots - 1) :
                               {line(lap * n + i) : i \in 0..(n - 1)} = 0..(n - 1)
                        /\ Cardinality({walk[i] : i \in 0..(n * Ring.slots - 1)}) = n * Ring.slots
                        /\ walk[n * Ring.slots] = 0
                        /\ byPage => \A lap \in 0..(Ring.slots - 1) :
                               Cardinality(turns(lap)) <= Cardinality(Groups(n, PageLines))
  BY DEF SampleCoversItsSet
<1> DEFINE n == Ring.lines
           c == Ring.slots
           d == Ring.stride
           walk == Walk
           line(i) == walk[i] \div d
           turns(lap) == {i \in (lap * n + 1)..(lap * n + n - 1) :
                             line(i) \div PageLines # line(i - 1) \div PageLines}
           os == [s \in 0..(c - 1) |-> CHOOSE o \in OrdersOf(turn) : LinkedAlong(o, s)]
<1>1. turn \in DOMAIN Rings /\ steps >= n /\ \A s \in 0..(c - 1) : Linked(s)
  BY DEF RingInvariant
<1>2. n \in Nat \ {0} /\ d \in Nat \ {0} /\ c \in 1..d BY <1>1, RingIs
<1>3. \A s \in 0..(c - 1) : os[s] \in OrdersOf(turn) /\ LinkedAlong(os[s], s) BY <1>1 DEF Linked
<1> HIDE DEF os
<1>4. /\ \A s \in 0..(c - 1), i \in 0..(n - 1) : walk[s * n + i] = Node(s, os[s][i + 1])
      /\ walk[n * c] = 0
  BY <1>1, <1>3, RingIsWalked
<1>5. ASSUME NEW s \in 0..(c - 1)
      PROVE  AllLines(os[s], n) /\ (byPage => OneTurn(os[s], n, Group(n, PageLines)))
  BY <1>1, <1>3, OrdersAre
<1>6. ASSUME NEW s \in 0..(c - 1), NEW i \in 0..(n - 1) PROVE line(s * n + i) = os[s][i + 1]
  <2>1. i + 1 \in 1..n BY <1>2
  <2>2. os[s][i + 1] \in 0..(n - 1) BY <1>5, <2>1 DEF AllLines
  <2>3. Node(s, os[s][i + 1]) \div d = os[s][i + 1] BY <1>1, <2>2, NodesAre
  <2> QED BY <1>4, <2>3
<1>7. Laps(walk, os, n, d, c)
  <2>1. \A s \in 0..(c - 1), i \in 0..(n - 1) : walk[s * n + i] = os[s][i + 1] * d + s
    BY <1>4 DEF Node
  <2> HIDE DEF walk, n, d, c
  <2> QED BY <1>5, <2>1 DEF Laps
<1> HIDE DEF n, c, d, walk
<1>8. ASSUME NEW lap \in 0..(c - 1) PROVE {line(lap * n + i) : i \in 0..(n - 1)} = 0..(n - 1)
  <2>1. AllLines(os[lap], n) BY <1>5
  <2>2. ASSUME NEW i \in 0..(n - 1) PROVE line(lap * n + i) \in 0..(n - 1)
    <3>1. i + 1 \in 1..n BY <1>2
    <3>2. os[lap][i + 1] \in 0..(n - 1)
      <4>1. os[lap] \in [1..n -> 0..(n - 1)] BY <2>1 DEF AllLines
      <4> QED BY <3>1, <4>1
    <3>3. line(lap * n + i) = os[lap][i + 1] BY <1>6
    <3> QED BY <3>2, <3>3
  <2>3. ASSUME NEW l \in 0..(n - 1) PROVE \E i \in 0..(n - 1) : line(lap * n + i) = l
    <3>1. PICK k \in 1..n : os[lap][k] = l BY <2>1 DEF AllLines
    <3>2. k - 1 \in 0..(n - 1) /\ (k - 1) + 1 = k BY <1>2
    <3> QED BY <1>6, <3>1, <3>2
  <2> HIDE DEF line
  <2> QED BY <2>2, <2>3
<1>9. Cardinality({walk[i] : i \in 0..(n * c - 1)}) = n * c
  BY <1>2, <1>7, WordsDiffer
<1>10. ASSUME byPage, NEW lap \in 0..(c - 1)
       PROVE  Cardinality(turns(lap)) <= Cardinality(Groups(n, PageLines))
  <2> DEFINE e == lap * n
             v == [i \in e..(e + n - 1) |-> line(i)]
             T == {i \in (e + 1)..(e + n - 1) : v[i] \div PageLines # v[i - 1] \div PageLines}
  <2>1. e \in Nat BY <1>2
  <2>2. PageLines \in Nat \ {0} BY RingAssumption
  <2>3. AllLines(os[lap], n) /\ OneTurn(os[lap], n, Group(n, PageLines)) BY <1>5, <1>10
  <2>4. Along(v, os[lap], e, n)
    <3> SUFFICES ASSUME NEW i \in 0..(n - 1) PROVE v[e + i] = os[lap][i + 1] BY DEF Along
    <3>1. line(e + i) = os[lap][i + 1] BY <1>6
    <3> HIDE DEF line, e
    <3>2. e + i \in e..(e + n - 1) BY <1>2, <2>1
    <3> QED BY <3>1, <3>2
  <2>5. T = turns(lap)
    <3>1. turns(lap) = {i \in (e + 1)..(e + n - 1) :
                            line(i) \div PageLines # line(i - 1) \div PageLines}
      OBVIOUS
    <3> HIDE DEF line, e
    <3>2. \A i \in (e + 1)..(e + n - 1) : v[i] = line(i) /\ v[i - 1] = line(i - 1)
      BY <1>2, <2>1
    <3> HIDE DEF v, turns
    <3> QED BY <3>1, <3>2
  <2> HIDE DEF v, e, turns
  <2>6. Cardinality(T) <= Cardinality(Groups(n, PageLines))
    BY <1>2, <2>1, <2>2, <2>3, <2>4, PageTurns
  <2> QED BY <2>5, <2>6
<1> QED BY <1>1, <1>4, <1>8, <1>9, <1>10 DEF n, c, d, walk

\* Every sample measures its working set, whatever was linked in the mapping
\* before it: the ring loads all its lines in each of its laps, through words of
\* its own, closes after the last, and in page-grouped order enters no page twice.
THEOREM SamplesCoverTheirSets == RingSpec => []SampleCoversItsSet
BY RingKeepsInvariant, SampleFollows, PTL

\* A sweep over linked and chased rings is a sweep of the curve: linking and
\* loading change none of its state, and a sample that is chased is a sample.
THEOREM SweepIsCurve == SweepSpec => Spec
<1>1. SweepInit => Init BY DEF SweepInit
<1>2. [SweepNext]_sweepVars => [Next]_vars
  <2> SUFFICES ASSUME [SweepNext]_sweepVars PROVE [Next]_vars OBVIOUS
  <2>1. CASE UNCHANGED sweepVars BY <2>1 DEF sweepVars, vars
  <2>2. CASE Chased BY <2>2 DEF Chased, vars
  <2>3. CASE Mapped BY <2>3 DEF Mapped, Next
  <2>4. CASE Sampled BY <2>4 DEF Sampled, Next
  <2>5. CASE Next BY <2>5
  <2> QED BY <2>1, <2>2, <2>3, <2>4, <2>5 DEF SweepNext
<1> QED BY <1>1, <1>2, PTL DEF SweepSpec, Spec

\* LevelsAreReliable of the sweep measure_cache_curve makes on its own rings.
THEOREM SweepLevelsAreReliable == SweepSpec => []LastLevelCanCap
BY SweepIsCurve, LevelsAreReliable

\* FallsAreMedians of the same sweep.
THEOREM SweepFallsAreMedians == SweepSpec => []FallsConfirmed
BY SweepIsCurve, FallsAreMedians

\* The rings of a sweep are linked and chased as they are alone: what the curve
\* takes from them changes nothing of the mapping.
THEOREM SweepIsRings == SweepSpec => RingSpec
<1>1. SweepInit => RingInit BY DEF SweepInit
<1>2. [SweepNext]_sweepVars => [RingNext]_ringVars
  <2> SUFFICES ASSUME [SweepNext]_sweepVars PROVE [RingNext]_ringVars OBVIOUS
  <2>1. CASE UNCHANGED sweepVars BY <2>1 DEF sweepVars, ringVars
  <2>2. CASE Chased BY <2>2 DEF Chased, RingNext
  <2>3. CASE Mapped BY <2>3 DEF Mapped, RingNext
  <2>4. CASE Sampled BY <2>4 DEF Sampled, RingNext
  <2>5. CASE UNCHANGED ringVars BY <2>5
  <2> QED BY <2>1, <2>2, <2>3, <2>4, <2>5 DEF SweepNext
<1> QED BY <1>1, <1>2, PTL DEF SweepSpec, RingSpec

\* SamplesCoverTheirSets of the sweep measure_cache_curve makes.
THEOREM SweepSamplesCoverTheirSets == SweepSpec => []SampleCoversItsSet
BY SweepIsRings, SamplesCoverTheirSets
=============================================================================
