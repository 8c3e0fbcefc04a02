-------------------------- MODULE MultiIssueProofs --------------------------
(***************************************************************************)
(* The program from its build to its rows, for every site: a list of       *)
(* features, a toolchain, a builder and a core (SitesAssumption), and for  *)
(* every reading of the issue probe (ReadingsAssumption).                  *)
(*                                                                         *)
(* BuildInvariant is what CMake hands to the C++ code: a list with the     *)
(* extension of each of its families.  RegistrationInvariant is what the   *)
(* order of the registrations is for: a row without a require_feature of   *)
(* its own directly follows the one whose feature it copies.  With what    *)
(* the tables say of each kind of row they give the list, and from the     *)
(* list and the guards of the other users what is executed.                *)
(*                                                                         *)
(* Within the probe, SearchInv is what the three loops of                  *)
(* search_unimodal_maximum keep: the bracket stays inside the ratios, a    *)
(* bisection stays between a ratio that is near the maximum and one that   *)
(* is not.  TopInv adds, for a peaked curve, that the top is never dropped *)
(* from what is or will be evaluated.                                      *)
(***************************************************************************)
EXTENDS MultiIssue, FiniteSetTheorems, SequenceTheorems, TLAPS

-----------------------------------------------------------------------------
(* The search.                                                             *)

Ratios == 0..LastRatio
IsNear(i) == Near(curve[i], curve[best])

BestInv ==
    /\ best \in Ratios
    /\ curve[0] <= curve[best] /\ curve[LastRatio] <= curve[best]

LeftEnd(i) == i \in 0..best /\ IsNear(i) /\ (i > 0 => ~IsNear(i - 1))

SearchInv ==
    /\ IsCurve
    /\ low \in Int /\ high \in Int /\ from \in Int
    /\ stage \in {"idle", "bracket", "left", "right", "found"}
    /\ stage = "bracket" => /\ low \in Ratios /\ high \in Ratios /\ low <= high
                            /\ known \subseteq Ratios
                            /\ 0 \in known /\ LastRatio \in known
    /\ stage \in {"left", "right", "found"} => BestInv
    /\ stage = "left" => /\ 0 <= low /\ low <= high /\ high <= best
                         /\ IsNear(high)
                         /\ high = 0 \/ (low < high /\ ~IsNear(low))
    /\ stage \in {"right", "found"} => LeftEnd(from)
    /\ stage = "right" => /\ best <= low /\ low <= high /\ high <= LastRatio
                          /\ IsNear(low)
                          /\ low = LastRatio \/ (low < high /\ ~IsNear(high))
    /\ stage = "found" => /\ best <= high /\ high <= LastRatio
                          /\ IsNear(high)
                          /\ high < LastRatio => ~IsNear(high + 1)

-----------------------------------------------------------------------------
\* The arithmetic of the comparisons.
LEMMA NearItself == ASSUME NEW x \in Nat PROVE Near(x, x)
  <1>1. Epsilon \in 0..1000
    BY PermilleAssumption
  <1>2. (1000 - Epsilon) * x <= 1000 * x
    BY <1>1
  <1> QED
    BY <1>2 DEF Near

LEMMA NearAndLarger ==
    ASSUME NEW x \in Nat, NEW y \in Nat, NEW z \in Nat, x <= y, Near(x, z)
    PROVE  Near(y, z)
  <1>1. Epsilon \in 0..1000
    BY PermilleAssumption
  <1>2. (1000 - Epsilon) * z \in Int
    BY <1>1
  <1> QED
    BY <1>2 DEF Near

LEMMA AboveIsLarger ==
    ASSUME NEW x \in Nat, NEW y \in Nat, Above(x, y)
    PROVE  x > y
  <1>1. Tolerance \in Nat
    BY PermilleAssumption
  <1>2. (1000 + Tolerance) * y >= 1000 * y
    BY <1>1
  <1>3. (1000 + Tolerance) * y \in Nat
    BY <1>1
  <1> QED
    BY <1>2, <1>3 DEF Above

\* The two probes lie strictly inside the bracket, in order.
LEMMA ProbesInside ==
    ASSUME low \in Int, high \in Int, high - low > 2
    PROVE  /\ FirstProbe \in Int /\ SecondProbe \in Int
           /\ low < FirstProbe /\ FirstProbe < SecondProbe /\ SecondProbe < high
  <1> DEFINE d == high - low
  <1>1. /\ Share(382, d) \in Int /\ Share(618, d) \in Int
        /\ Share(382, d) <= d - 2
    BY DEF Share
  <1>2. FirstProbe \in Int /\ low < FirstProbe /\ FirstProbe <= high - 2
    BY <1>1 DEF FirstProbe, Larger
  <1>3. SecondProbe \in Int /\ FirstProbe < SecondProbe /\ SecondProbe < high
    BY <1>1, <1>2 DEF SecondProbe, Smaller
  <1> QED
    BY <1>2, <1>3

\* The middle of a gap of more than one lies strictly inside it.
LEMMA MiddleInside ==
    ASSUME low \in Int, high \in Int, high - low > 1
    PROVE  Middle \in Int /\ low < Middle /\ Middle < high
  BY DEF Middle

-----------------------------------------------------------------------------
LEMMA InitSearchInv == SearchInit => SearchInv
  BY DEF SearchInit, SearchInv

LEMMA NextSearchInv == SearchInv /\ [SearchStep]_searchVars => SearchInv'
  <1> SUFFICES ASSUME SearchInv, [SearchStep]_searchVars
               PROVE  SearchInv'
    OBVIOUS
  <1>c. CASE UNCHANGED searchVars
    BY <1>c DEF SearchInv, searchVars, IsCurve, LastRatio, Ratios, IsNear, BestInv, LeftEnd
  <1>1. CASE Begin
    BY <1>1 DEF Begin, SearchInv, IsCurve, LastRatio, Ratios
  <1>2. CASE Narrow
    <2>1. /\ FirstProbe \in Int /\ SecondProbe \in Int
          /\ low < FirstProbe /\ FirstProbe < SecondProbe /\ SecondProbe < high
      BY <1>2, ProbesInside DEF Narrow, SearchInv
    <2> QED
      BY <1>2, <2>1 DEF Narrow, SearchInv, IsCurve, LastRatio, Ratios
  <1>3. CASE Settle
    <2>1. known' \subseteq Ratios /\ 0 \in known' /\ LastRatio \in known' /\ best' \in known'
      BY <1>3 DEF Settle, SearchInv, Ratios, IsCurve
    <2>2. curve' = curve /\ LastRatio' = LastRatio
      BY <1>3 DEF Settle, LastRatio
    <2>3. BestInv'
      BY <1>3, <2>1, <2>2 DEF Settle, BestInv, Ratios
    <2>4. Near(curve[best'], curve[best'])
      BY <2>1, NearItself DEF SearchInv, IsCurve, Ratios
    <2>5. /\ IsNear(high)'
          /\ high' = 0 \/ (low' < high' /\ ~IsNear(low)')
          /\ 0 <= low' /\ low' <= high' /\ high' <= best' /\ low' \in Int /\ high' \in Int
      BY <1>3, <2>1, <2>2, <2>4 DEF Settle, IsNear, Ratios, SearchInv, IsCurve
    <2> QED
      BY <1>3, <2>2, <2>3, <2>5 DEF Settle, SearchInv, IsCurve
  <1>4. CASE BisectLeft
    <2>1. Middle \in Int /\ low < Middle /\ Middle < high
      BY <1>4, MiddleInside DEF BisectLeft, SearchInv
    <2> QED
      BY <1>4, <2>1 DEF BisectLeft, SearchInv, IsCurve, LastRatio, Ratios, IsNear, BestInv
  <1>5. CASE LeftFound
    <2>1. curve' = curve /\ LastRatio' = LastRatio /\ best' = best
      BY <1>5 DEF LeftFound, LastRatio
    <2>2. LeftEnd(high)
      BY <1>5 DEF LeftFound, SearchInv, LeftEnd, BestInv, Ratios
    <2>3. LeftEnd(from)'
      BY <1>5, <2>1, <2>2 DEF LeftFound, LeftEnd, IsNear
    <2>4. IsNear(best)
      BY <1>5, NearItself DEF LeftFound, SearchInv, BestInv, IsNear, Ratios, IsCurve
    <2>5. BestInv'
      BY <1>5, <2>1 DEF LeftFound, SearchInv, BestInv, Ratios
    <2>6. /\ IsNear(low)'
          /\ low' = LastRatio \/ (low' < high' /\ ~IsNear(high)')
          /\ best <= low' /\ low' <= high' /\ high' = LastRatio /\ low' \in Int
      BY <1>5, <2>1, <2>4 DEF LeftFound, IsNear, SearchInv, BestInv, Ratios, IsCurve
    <2> QED
      BY <1>5, <2>1, <2>3, <2>5, <2>6 DEF LeftFound, SearchInv, IsCurve
  <1>6. CASE BisectRight
    <2>1. Middle \in Int /\ low < Middle /\ Middle < high
      BY <1>6, MiddleInside DEF BisectRight, SearchInv
    <2> QED
      BY <1>6, <2>1
      DEF BisectRight, SearchInv, IsCurve, LastRatio, Ratios, IsNear, BestInv, LeftEnd
  <1>7. CASE RightFound
    BY <1>7 DEF RightFound, SearchInv, IsCurve, LastRatio, Ratios, IsNear, BestInv, LeftEnd
  <1> QED
    BY <1>c, <1>1, <1>2, <1>3, <1>4, <1>5, <1>6, <1>7 DEF SearchStep

LEMMA SearchInvGivesResult == SearchInv => ResultIsConsistent
  BY DEF SearchInv, ResultIsConsistent, Found, BestInv, LeftEnd, IsNear, Ratios, IsCurve

LEMMA SearchInvariance == SearchSpec => []SearchInv
  BY InitSearchInv, NextSearchInv, PTL DEF SearchSpec

\* Whatever is measured, noise included, the result lies inside its interval,
\* no pure stream is faster, and the interval cannot be widened by one ratio.
THEOREM Consistent == SearchSpec => []ResultIsConsistent
  BY SearchInvariance, SearchInvGivesResult, PTL

-----------------------------------------------------------------------------
(* A peaked curve.                                                         *)

\* p..q is the level top.
IsTop(p, q) ==
    /\ p \in Ratios /\ q \in Ratios /\ p <= q
    /\ \A i, j \in Ratios :
           i < j => /\ j <= p => Above(curve[j], curve[i])
                    /\ q <= i => Above(curve[i], curve[j])
                    /\ p <= i /\ j <= q => curve[i] = curve[j]

\* Some ratio of the top is evaluated or still inside the bracket; once the
\* result is chosen it is of the top, and no bisection has passed a ratio by
\* on the wrong side.
TopInv(p, q) ==
    /\ stage = "bracket" => \E i \in p..q : i \in known \/ i \in low..high
    /\ stage \in {"left", "right", "found"} => best \in p..q

\* On a slope the higher ratio is nearer to the top.
LEMMA Slopes ==
    ASSUME IsCurve, NEW p, NEW q, IsTop(p, q),
           NEW i \in Ratios, NEW j \in Ratios, i <= j
    PROVE  /\ j <= q => curve[i] <= curve[j]
           /\ p <= i => curve[j] <= curve[i]
  <1>1. /\ curve[i] \in Nat /\ curve[j] \in Nat /\ curve[p] \in Nat /\ curve[q] \in Nat
        /\ p \in Int /\ q \in Int /\ LastRatio \in Nat /\ p <= q
    BY DEF IsCurve, IsTop, Ratios
  <1>2. \A k, l \in Ratios : k < l => /\ l <= p => curve[k] < curve[l]
                                      /\ q <= k => curve[l] < curve[k]
                                      /\ p <= k /\ l <= q => curve[k] = curve[l]
    BY AboveIsLarger DEF IsTop, IsCurve, Ratios
  <1>3. j <= q => curve[i] <= curve[j]
    <2> SUFFICES ASSUME j <= q, i < j PROVE curve[i] <= curve[j]
      BY <1>1 DEF Ratios
    <2>1. CASE j <= p
      BY <2>1, <1>1, <1>2
    <2>2. CASE p <= i
      BY <2>2, <1>1, <1>2
    <2>3. CASE i < p /\ p < j
      BY <2>3, <1>1, <1>2 DEF IsTop
    <2> QED
      BY <2>1, <2>2, <2>3, <1>1 DEF Ratios
  <1>4. p <= i => curve[j] <= curve[i]
    <2> SUFFICES ASSUME p <= i, i < j PROVE curve[j] <= curve[i]
      BY <1>1 DEF Ratios
    <2>1. CASE j <= q
      BY <2>1, <1>1, <1>2
    <2>2. CASE q <= i
      BY <2>2, <1>1, <1>2
    <2>3. CASE i < q /\ q < j
      BY <2>3, <1>1, <1>2 DEF IsTop
    <2> QED
      BY <2>1, <2>2, <2>3, <1>1 DEF Ratios
  <1> QED
    BY <1>3, <1>4

\* Off the top a ratio is slower than on it.
LEMMA OffTheTop ==
    ASSUME IsCurve, NEW p, NEW q, IsTop(p, q),
           NEW k \in p..q, NEW i \in Ratios, i \notin p..q
    PROVE  curve[i] < curve[k]
  <1>1. /\ p \in Int /\ q \in Int /\ LastRatio \in Nat /\ 0 <= p /\ p <= q /\ q <= LastRatio
        /\ k \in Ratios /\ p \in Ratios /\ q \in Ratios
        /\ curve[i] \in Nat /\ curve[k] \in Nat /\ curve[p] \in Nat /\ curve[q] \in Nat
    BY DEF IsCurve, IsTop, Ratios
  <1>2. CASE i < p
    <2>1. curve[i] < curve[p]
      BY <1>1, <1>2, AboveIsLarger DEF IsTop
    <2>2. curve[p] <= curve[k]
      BY <1>1, Slopes
    <2> QED
      BY <1>1, <2>1, <2>2
  <1>3. CASE q < i
    <2>1. curve[i] < curve[q]
      BY <1>1, <1>3, AboveIsLarger DEF IsTop
    <2>2. curve[q] <= curve[k]
      BY <1>1, Slopes
    <2> QED
      BY <1>1, <2>1, <2>2
  <1> QED
    BY <1>1, <1>2, <1>3 DEF Ratios

\* A bracket that held a ratio of the top still holds one when it shrinks: of
\* two probes on one slope the one nearer to the top is above the other.
LEMMA NarrowKeepsTop ==
    ASSUME SearchInv, Narrow, NEW p, NEW q, IsTop(p, q), TopInv(p, q)
    PROVE  TopInv(p, q)'
  <1> DEFINE f == FirstProbe
             s == SecondProbe
  <1>1. /\ f \in Int /\ s \in Int /\ low < f /\ f < s /\ s < high
        /\ low \in Ratios /\ high \in Ratios /\ f \in Ratios /\ s \in Ratios
    BY ProbesInside DEF Narrow, SearchInv, Ratios, IsCurve
  <1>2. /\ p \in Int /\ q \in Int /\ 0 <= p /\ p <= q /\ q <= LastRatio /\ LastRatio \in Nat
        /\ low \in Int /\ high \in Int
    BY DEF SearchInv, IsCurve, IsTop, Ratios
  <1>3. /\ curve[f] \in Nat /\ curve[s] \in Nat
        /\ ~(Above(curve[f], curve[s]) /\ Above(curve[s], curve[f]))
    BY <1>1, AboveIsLarger DEF SearchInv, IsCurve, Ratios
  <1>4. s <= p => Above(curve[s], curve[f])
    BY <1>1 DEF IsTop
  <1>5. q <= f => Above(curve[f], curve[s])
    BY <1>1 DEF IsTop
  <1>6. PICK k \in p..q : k \in known \/ k \in low..high
    BY DEF TopInv, Narrow
  <1>7. /\ stage' = "bracket" /\ known \subseteq known'
        /\ low' = IF Above(curve[f], curve[s]) THEN low ELSE f
        /\ high' = IF Above(curve[s], curve[f]) THEN high ELSE s
    BY DEF Narrow
  <1> HIDE DEF f, s
  <1>8. \E i \in p..q : i \in known' \/ i \in low'..high'
    <2>1. CASE k \in known
      BY <2>1, <1>6, <1>7
    <2>2. CASE k \in low..high /\ Above(curve[f], curve[s])
      <3>1. p < s /\ low' = low /\ high' = s
        BY <2>2, <1>1, <1>2, <1>3, <1>4, <1>7
      <3>2. IF k <= s THEN k \in p..q /\ k \in low'..high' ELSE s \in p..q /\ s \in low'..high'
        BY <2>2, <3>1, <1>1, <1>2, <1>6
      <3> QED
        BY <3>2
    <2>3. CASE k \in low..high /\ Above(curve[s], curve[f])
      <3>1. f < q /\ low' = f /\ high' = high
        BY <2>3, <1>1, <1>2, <1>3, <1>5, <1>7
      <3>2. IF f <= k THEN k \in p..q /\ k \in low'..high' ELSE f \in p..q /\ f \in low'..high'
        BY <2>3, <3>1, <1>1, <1>2, <1>6
      <3> QED
        BY <3>2
    <2>4. CASE ~Above(curve[f], curve[s]) /\ ~Above(curve[s], curve[f])
      <3>1. f < q /\ p < s /\ low' = f /\ high' = s
        BY <2>4, <1>1, <1>2, <1>4, <1>5, <1>7
      <3>2. IF f <= p THEN p \in p..q /\ p \in low'..high' ELSE f \in p..q /\ f \in low'..high'
        BY <3>1, <1>1, <1>2
      <3> QED
        BY <3>2
    <2> QED
      BY <2>1, <2>2, <2>3, <2>4, <1>6
  <1> QED
    BY <1>7, <1>8 DEF TopInv

TopKept == \A p, q \in Ratios : IsTop(p, q) => TopInv(p, q)

LEMMA NextTopKept == SearchInv /\ TopKept /\ [SearchStep]_searchVars => TopKept'
  <1> SUFFICES ASSUME SearchInv, TopKept, [SearchStep]_searchVars,
                      NEW p, NEW q, p \in Ratios', q \in Ratios', IsTop(p, q)'
               PROVE  TopInv(p, q)'
    BY DEF TopKept
  <1>1. curve' = curve /\ LastRatio' = LastRatio
    BY DEF SearchStep, Begin, Narrow, Settle, BisectLeft, LeftFound, BisectRight,
           RightFound, searchVars, LastRatio
  <1>2. IsTop(p, q) /\ p \in Ratios /\ q \in Ratios
    BY <1>1 DEF IsTop, Ratios
  <1>3. TopInv(p, q)
    BY <1>2 DEF TopKept
  <1>4. CASE Begin
    <2>1. p \in p..q /\ p \in low'..high' /\ stage' = "bracket"
      BY <1>2, <1>4 DEF Begin, IsTop, Ratios, SearchInv, IsCurve
    <2> QED
      BY <2>1 DEF TopInv
  <1>5. CASE Narrow
    BY <1>2, <1>3, <1>5, NarrowKeepsTop
  <1>6. CASE Settle
    <2>1. PICK k \in p..q : k \in known'
      BY <1>3, <1>6 DEF TopInv, Settle
    <2>2. /\ best' \in Ratios /\ curve[k] <= curve[best'] /\ stage' = "left"
          /\ curve[k] \in Nat /\ curve[best'] \in Nat
      BY <1>2, <1>6, <2>1 DEF Settle, SearchInv, Ratios, IsCurve
    <2>3. best' \in p..q
      BY <1>2, <2>1, <2>2, OffTheTop DEF SearchInv
    <2> QED
      BY <2>2, <2>3 DEF TopInv
  <1>7. CASE BisectLeft \/ LeftFound \/ BisectRight \/ RightFound
    BY <1>3, <1>7 DEF TopInv, BisectLeft, LeftFound, BisectRight, RightFound
  <1>8. CASE UNCHANGED searchVars
    BY <1>3, <1>8 DEF TopInv, searchVars
  <1> QED
    BY <1>4, <1>5, <1>6, <1>7, <1>8 DEF SearchStep

LEMMA TopFound == SearchInv /\ TopKept => MaximumFound
  <1> SUFFICES ASSUME SearchInv, TopKept, Found, Peaked(curve, LastRatio)
               PROVE  /\ \A i \in 0..LastRatio : curve[i] <= curve[best]
                      /\ {i \in 0..LastRatio : Near(curve[i], curve[best])} = from..high
    BY DEF MaximumFound
  <1>1. PICK p, q \in Ratios : IsTop(p, q)
    BY DEF Peaked, IsTop, Ratios
  <1>2. /\ best \in p..q /\ best \in Ratios /\ IsCurve /\ LastRatio \in Nat
        /\ p \in Int /\ q \in Int /\ \A i \in Ratios : curve[i] \in Nat
    BY <1>1 DEF TopKept, TopInv, Found, SearchInv, BestInv, IsCurve, Ratios
  <1>3. /\ from \in Int /\ high \in Int /\ 0 <= from /\ from <= best
        /\ best <= high /\ high <= LastRatio /\ IsNear(from) /\ IsNear(high)
        /\ from > 0 => ~IsNear(from - 1)
        /\ high < LastRatio => ~IsNear(high + 1)
    BY DEF SearchInv, Found, LeftEnd
  <1>4. ASSUME NEW i \in Ratios PROVE curve[i] <= curve[best]
    <2>1. CASE i <= best
      BY <2>1, <1>1, <1>2, Slopes DEF Ratios
    <2>2. CASE best <= i
      BY <2>2, <1>1, <1>2, Slopes DEF Ratios
    <2> QED
      BY <2>1, <2>2, <1>2 DEF Ratios
  <1>5. ASSUME NEW i \in Ratios, i \in from..high PROVE IsNear(i)
    <2>1. CASE i <= best
      <3>1. from \in Ratios /\ curve[from] <= curve[i]
        BY <2>1, <1>1, <1>2, <1>3, <1>5, Slopes DEF Ratios
      <3> QED
        BY <3>1, <1>2, <1>3, NearAndLarger DEF IsNear
    <2>2. CASE best <= i
      <3>1. high \in Ratios /\ curve[high] <= curve[i]
        BY <2>2, <1>1, <1>2, <1>3, <1>5, Slopes DEF Ratios
      <3> QED
        BY <3>1, <1>2, <1>3, NearAndLarger DEF IsNear
    <2> QED
      BY <2>1, <2>2, <1>2 DEF Ratios
  <1>6. ASSUME NEW i \in Ratios, i \notin from..high PROVE ~IsNear(i)
    <2>1. CASE i < from
      <3>1. from - 1 \in Ratios /\ curve[i] <= curve[from - 1] /\ ~IsNear(from - 1)
        BY <2>1, <1>1, <1>2, <1>3, Slopes DEF Ratios
      <3> QED
        BY <3>1, <1>2, NearAndLarger DEF IsNear
    <2>2. CASE high < i
      <3>1. high + 1 \in Ratios /\ curve[i] <= curve[high + 1] /\ ~IsNear(high + 1)
        BY <2>2, <1>1, <1>2, <1>3, Slopes DEF Ratios
      <3> QED
        BY <3>1, <1>2, NearAndLarger DEF IsNear
    <2> QED
      BY <2>1, <2>2, <1>3, <1>6 DEF Ratios
  <1>7. from..high \subseteq 0..LastRatio
    BY <1>2, <1>3
  <1> QED
    BY <1>4, <1>5, <1>6, <1>7 DEF Ratios, IsNear

\* On a curve that rises and falls by more than the noise the search finds the
\* maximum and all of the near-optimal ratios, without evaluating the grid.
THEOREM Maximum == SearchSpec => []MaximumFound
  <1>1. SearchInit => TopKept
    BY DEF SearchInit, TopKept, TopInv
  <1>2. SearchSpec => []TopKept
    BY <1>1, NextTopKept, SearchInvariance, PTL DEF SearchSpec
  <1> QED
    BY <1>2, SearchInvariance, TopFound, PTL

-----------------------------------------------------------------------------
(* The tables.                                                             *)

SmeSplit == {"_SME_B16F32_", "_SME_F32F32_", "_SME_F16F32_", "_SME_I8I32_"}
SmeOuter == {"_SME_F16F16_", "_SME_B16B16_", "_SME_I16I32_"}
DoubleTokens == {"_SME_F64F64_", "_SME2_F64F64_"}

Outers == {Outer(16, 2), Outer(32, 4)}

\* Everything that is registered on AArch64.
AsimdRows == {Family(f, Fixed) : f \in AsimdFamilies}
HalfRows == {Half(f) : f \in MixedFamilies}
SveRows == {Family(f, Sve) : f \in {"_SVE_"} \cup SveFamilies}
OuterRows == {Family(f, w) : f \in SmeOuter, w \in Outers} \cup {Family("_SME2_", Sme)}
SplitRows == {Row({"_SME_"}, f, SmeBits(f), Outer(32, 4)) : f \in SmeSplit}
CopyOfDouble == Keep(DoubleRow(Outer(64, 8)))
DoubleRows == {Latency(DoubleRow(OuterTwo(8))), CopyOfDouble,
               Row({"_SMEf64_", "_SME2_"}, "_SME2_F64F64_", {"sme", "sme2", "sme_f64f64"}, Sme)}
VectorLoads == {Load(Family("_SVE_", Sve)), Load(Family("_SME_", Sme)), Load(Family("_SME2_", Sme))}
PairRows == {Load(Row({}, "_LDP_", {"asimd"}, Fixed))}
MatrixRows == {AmxRows, Load(AmxRows)}
ArmRows == AsimdRows \cup HalfRows \cup SveRows \cup OuterRows \cup SplitRows \cup DoubleRows
               \cup VectorLoads \cup PairRows \cup MatrixRows

LEMMA SplitNeeds ==
    /\ SmeBits("_SME_B16F32_") = {"sme", "sme_b16f32"}
    /\ SmeBits("_SME_F32F32_") = {"sme", "sme_f32f32"}
    /\ SmeBits("_SME_F16F32_") = {"sme", "sme_f16f32"}
    /\ SmeBits("_SME_I8I32_") = {"sme", "sme_i8i32"}
BY DEF SmeBits

LEMMA ArmParts ==
    /\ ArmAsimd \in Seq(ArmRows) /\ ArmMixed \in Seq(ArmRows) /\ ArmSve \in Seq(ArmRows)
    /\ ArmSme \in Seq(ArmRows) /\ ArmSme2 \in Seq(ArmRows) /\ ArmLoadRest \in Seq(ArmRows)
    /\ <<AmxRows>> \in Seq(ArmRows) /\ << Load(Row({}, "_LDP_", {"asimd"}, Fixed)) >> \in Seq(ArmRows)
<1>1. \A f \in AsimdFamilies : Family(f, Fixed) \in ArmRows BY DEF ArmRows, AsimdRows
<1>2. \A f \in MixedFamilies : Half(f) \in ArmRows BY DEF ArmRows, HalfRows
<1>3. \A f \in {"_SVE_"} \cup SveFamilies : Family(f, Sve) \in ArmRows BY DEF ArmRows, SveRows
<1>4. /\ \A f \in SmeOuter, w \in Outers : Family(f, w) \in ArmRows
      /\ Family("_SME2_", Sme) \in ArmRows
  BY DEF ArmRows, OuterRows
<1>5. \A f \in SmeSplit : Row({"_SME_"}, f, SmeBits(f), Outer(32, 4)) \in ArmRows
  BY DEF ArmRows, SplitRows
<1>6. DoubleRows \cup VectorLoads \cup PairRows \cup MatrixRows \subseteq ArmRows
  BY DEF ArmRows
<1>7. ArmAsimd \in Seq(ArmRows)
  <2> HIDE DEF ArmRows
  <2>1. {"_I8MM_", "_ASIMD_DP_", "_BF16_", "_FHM_", "_ASIMD_HP_", "_ASIMD_"} \subseteq AsimdFamilies
    BY DEF AsimdFamilies
  <2> QED BY <1>1, <2>1 DEF ArmAsimd
<1>8. ArmMixed \in Seq(ArmRows)
  <2>1. {"_ASIMD_FCMA_", "_ASIMD_REDUCE_", "_ASIMD_RECIP_", "_ASIMD_INT_MAC_", "_ASIMD_TBL_"} \subseteq AsimdFamilies
    BY DEF AsimdFamilies
  <2>2. MixedFamilies = {"_ASIMD_FCMA_", "_ASIMD_REDUCE_", "_ASIMD_RECIP_"} BY DEF MixedFamilies
  <2> QED BY <1>1, <1>2, <1>3, <2>1, <2>2 DEF ArmMixed
<1>9. ArmSve \in Seq(ArmRows)
  <2>1. SveFamilies = {"_SVE_I8MM_", "_SVE_BF16_", "_SVE_F32MM_", "_SVE_F64MM_", "_SVE_FP16_FMLA_", "_SVE2_"}
    BY DEF SveFamilies
  <2> QED BY <1>3, <2>1 DEF ArmSve
<1>10. ArmSme \in Seq(ArmRows)
  BY <1>4, <1>5, SplitNeeds DEF ArmSme, SmeSplit, SmeOuter, Outers
<1>11. ArmSme2 \in Seq(ArmRows)
  BY <1>4, <1>6 DEF ArmSme2, DoubleRows, CopyOfDouble
<1>12. ArmLoadRest \in Seq(ArmRows)
  BY <1>6 DEF ArmLoadRest, VectorLoads, MatrixRows
<1>13. <<AmxRows>> \in Seq(ArmRows) /\ << Load(Row({}, "_LDP_", {"asimd"}, Fixed)) >> \in Seq(ArmRows)
  BY <1>6 DEF MatrixRows, PairRows
<1> QED BY <1>7, <1>8, <1>9, <1>10, <1>11, <1>12, <1>13

LEMMA ArmTableRows ==
    /\ ArmCompute \in Seq(ArmRows) /\ ArmLoad \in Seq(ArmRows) /\ ArmTable \in Seq(ArmRows)
BY ArmParts DEF ArmCompute, ArmLoad, ArmTable

\* A half follows the family whose feature it copies.
FollowsItsGroup(table) ==
    \A k \in DOMAIN table :
        table[k].require # table[k].group =>
            /\ k > 1
            /\ table[k - 1].require = table[k].group
            /\ table[k - 1].guards \subseteq table[k].guards
            /\ table[k - 1].when = {}

LEMMA FollowsInBoth ==
    ASSUME NEW s \in Seq(ArmRows), NEW t \in Seq(ArmRows), FollowsItsGroup(s), FollowsItsGroup(t)
    PROVE  FollowsItsGroup(s \o t)
<1>1. /\ Len(s) \in Nat /\ Len(t) \in Nat /\ DOMAIN (s \o t) = 1 .. Len(s) + Len(t)
      /\ \A k \in 1 .. Len(s) : (s \o t)[k] = s[k]
      /\ \A k \in Len(s) + 1 .. Len(s) + Len(t) : (s \o t)[k] = t[k - Len(s)]
      /\ DOMAIN s = 1 .. Len(s) /\ DOMAIN t = 1 .. Len(t)
  OBVIOUS
<1> SUFFICES ASSUME NEW k \in DOMAIN (s \o t), (s \o t)[k].require # (s \o t)[k].group
             PROVE  /\ k > 1
                    /\ (s \o t)[k - 1].require = (s \o t)[k].group
                    /\ (s \o t)[k - 1].guards \subseteq (s \o t)[k].guards
                    /\ (s \o t)[k - 1].when = {}
  BY DEF FollowsItsGroup
<1>2. CASE k <= Len(s)
  <2>1. k \in DOMAIN s /\ (s \o t)[k] = s[k] BY <1>1, <1>2
  <2>2. k > 1 BY <2>1 DEF FollowsItsGroup
  <2>3. (s \o t)[k - 1] = s[k - 1] BY <1>1, <1>2, <2>2
  <2> QED BY <2>1, <2>2, <2>3 DEF FollowsItsGroup
<1>3. CASE k > Len(s)
  <2> DEFINE i == k - Len(s)
  <2>1. i \in DOMAIN t /\ (s \o t)[k] = t[i] BY <1>1, <1>3
  <2>2. i > 1 BY <2>1 DEF FollowsItsGroup
  <2>3. (s \o t)[k - 1] = t[i - 1] BY <1>1, <1>3, <2>2
  <2>4. k > 1 BY <1>1, <2>2
  <2> HIDE DEF i
  <2> QED BY <2>1, <2>2, <2>3, <2>4 DEF FollowsItsGroup
<1> QED BY <1>1, <1>2, <1>3

-----------------------------------------------------------------------------
(* What the groups of the rows need.                                       *)

ArmGroups == AsimdFamilies \cup {"_SVE_"} \cup SveFamilies \cup SmeOuter \cup SmeSplit
                 \cup DoubleTokens \cup {"_SME_", "_SME2_", "_LDP_", "_AMX_"}

\* The needs of all rows of a group.
GroupBits(group) ==
    IF group \in SmeTokens THEN SmeBits(group)
    ELSE ArmNeeds(group) \cup (IF group \in MixedFamilies THEN {"fp16"} ELSE {})

LEMMA TokensOfSme ==
    SmeTokens = {"_SME_", "_SME2_", "_SMEf64_"} \cup SmeOuter \cup SmeSplit \cup DoubleTokens
<1>1. SmeFamilies = {"_SME_", "_SME2_", "_SMEf64_", "_SME_F16F16_", "_SME_B16B16_", "_SME_I16I32_"}
  BY DEF SmeFamilies, Sme2Families
<1>2. /\ AnnouncedBy("_SME_") = {"_SME_"} \cup SmeSplit
      /\ AnnouncedBy("_SME2_") = {"_SME2_", "_SME2_F64F64_"}
      /\ AnnouncedBy("_SMEf64_") = {"_SMEf64_", "_SME_F64F64_"}
  BY DEF AnnouncedBy, SmeSplit, AsimdFamilies, Infrastructure, SveFamilies, Sme2Families
<1>3. \A f \in SmeOuter : AnnouncedBy(f) = {f}
  BY DEF AnnouncedBy, SmeOuter, Sme2Families
<1> QED BY <1>1, <1>2, <1>3 DEF SmeTokens, SmeOuter, DoubleTokens

LEMMA OuterNeeds ==
    /\ \A f \in SmeOuter \cup {"_SME_", "_SME2_"} : SmeBits(f) = ArmNeeds(f)
    /\ SmeBits("_SME_F64F64_") = {"sme", "sme_f64f64"}
    /\ SmeBits("_SME2_F64F64_") = {"sme", "sme2", "sme_f64f64"}
    /\ ArmNeeds("_SMEf64_") = {"sme", "sme_f64f64"}
    /\ ArmNeeds("_SME_") = {"sme"} /\ ArmNeeds("_SME2_") = {"sme", "sme2"}
    /\ ArmNeeds("_SVE_") = {"sve"} /\ ArmNeeds("_LDP_") = {"asimd"} /\ ArmNeeds("_AMX_") = {"amx"}
BY DEF SmeBits, ArmNeeds, SmeOuter

\* The tokens that are not of SME.
LEMMA PlainGroups ==
    ASSUME NEW f \in AsimdFamilies \cup {"_SVE_"} \cup SveFamilies \cup Infrastructure \cup {"_AMX_"}
    PROVE  f \notin SmeTokens
BY TokensOfSme DEF AsimdFamilies, SveFamilies, Infrastructure, SmeOuter, SmeSplit, DoubleTokens

\* Arm64RuntimeFeatures::supports asks for all a group needs.
LEMMA SupportsGroup ==
    ASSUME NEW g \in ArmGroups \ {"_AMX_"}
    PROVE  Supports(g) <=> OnCore(GroupBits(g))
<1>1. CASE g \in SmeTokens
  <2>1. Supports(g) = OnCore(SmeBits(g)) 
    BY <1>1, TokensOfSme DEF Supports, MixedFamilies, AsimdFamilies, Infrastructure, SveFamilies,
       SmeOuter, SmeSplit, DoubleTokens
  <2> QED BY <1>1, <2>1 DEF GroupBits
<1>2. CASE g \in MixedFamilies
  <2>1. g \notin SmeTokens /\ g \notin (AsimdFamilies \ MixedFamilies) \cup Infrastructure \cup {"_SVE_"} \cup SveFamilies
    BY <1>2, PlainGroups DEF MixedFamilies, AsimdFamilies, Infrastructure, SveFamilies
  <2>2. Supports(g) = OnCore(ArmNeeds(g) \cup {"fp16"}) BY <1>2, <2>1 DEF Supports
  <2> QED BY <1>2, <2>1, <2>2 DEF GroupBits
<1>3. CASE g \notin SmeTokens /\ g \notin MixedFamilies
  <2>1. g \in (AsimdFamilies \ MixedFamilies) \cup Infrastructure \cup {"_SVE_"} \cup SveFamilies
    BY <1>3, TokensOfSme DEF ArmGroups, Infrastructure
  <2>2. Supports(g) = OnCore(ArmNeeds(g)) BY <1>3, <2>1 DEF Supports
  <2> QED BY <1>3, <2>1, <2>2 DEF GroupBits
<1> QED BY <1>1, <1>2, <1>3

\* AMX has no group of Linux.
LEMMA NoMatrixUnit == ~Supports("_AMX_")
BY PlainGroups DEF Supports, MixedFamilies, AsimdFamilies, Infrastructure, SveFamilies

\* The rows for doubles.
LEMMA CopyFields ==
    /\ CopyOfDouble.guards = {"_SMEf64_"} /\ CopyOfDouble.when = {}
    /\ CopyOfDouble.require = "" /\ CopyOfDouble.group = "_SME_F64F64_"
    /\ CopyOfDouble.needs = {"sme", "sme_f64f64"} /\ CopyOfDouble.kernel = Outer(64, 8)
BY Zenon DEF CopyOfDouble, Keep, DoubleRow, Row

LEMMA LatencyFields ==
    LET r == Latency(DoubleRow(OuterTwo(8))) IN
    /\ r.guards = {"_SMEf64_"} /\ r.when = {} /\ r.latency
    /\ r.require = "_SME_F64F64_" /\ r.group = "_SME_F64F64_"
    /\ r.needs = {"sme", "sme_f64f64"}
BY Zenon DEF Latency, DoubleRow, Row

LEMMA DoubleFields ==
    ASSUME NEW r \in DoubleRows
    PROVE  /\ r.when = {} /\ "_SMEf64_" \in r.guards /\ r.group \in DoubleTokens
           /\ r.group = "_SME_F64F64_" => r.needs = {"sme", "sme_f64f64"}
           /\ r.group = "_SME2_F64F64_" =>
                 "_SME2_" \in r.guards /\ r.needs = {"sme", "sme2", "sme_f64f64"}
           /\ r.needs # {}
           /\ ~r.latency => r.kernel \in {Outer(64, 8), Sme}
           /\ r.require # r.group => r.require = ""
<1>1. CASE r = CopyOfDouble
  BY <1>1, CopyFields DEF DoubleTokens
<1>2. CASE r = Latency(DoubleRow(OuterTwo(8)))
  BY <1>2, LatencyFields DEF DoubleTokens
<1>3. CASE r = Row({"_SMEf64_", "_SME2_"}, "_SME2_F64F64_", {"sme", "sme2", "sme_f64f64"}, Sme)
  BY <1>3 DEF Row, DoubleTokens
<1> QED BY <1>1, <1>2, <1>3 DEF DoubleRows

\* Every kind of row.
LEMMA ArmKinds ==
    ASSUME NEW r \in ArmRows
    PROVE  \/ \E f \in AsimdFamilies : r = Family(f, Fixed)
           \/ \E f \in MixedFamilies : r = Half(f)
           \/ \E f \in {"_SVE_"} \cup SveFamilies : r = Family(f, Sve)
           \/ \E f \in SmeOuter, w \in Outers : r = Family(f, w)
           \/ \E f \in SmeSplit : r = Row({"_SME_"}, f, SmeBits(f), Outer(32, 4))
           \/ r \in {Family("_SME2_", Sme)} \cup DoubleRows \cup VectorLoads \cup PairRows \cup MatrixRows
BY DEF ArmRows, AsimdRows, HalfRows, SveRows, OuterRows, SplitRows

LEMMA NeedsOfGroup ==
    ASSUME NEW r \in ArmRows
    PROVE  /\ r.group \in ArmGroups
           /\ r.needs \subseteq GroupBits(r.group)
           /\ r.group \notin MixedFamilies => r.needs = GroupBits(r.group)
<1>1. CASE \E f \in AsimdFamilies \cup {"_SVE_"} \cup SveFamilies, w \in {Fixed, Sve} : r = Family(f, w)
  <2> PICK f \in AsimdFamilies \cup {"_SVE_"} \cup SveFamilies, w \in {Fixed, Sve} : r = Family(f, w)
    BY <1>1
  <2>1. r.group = f /\ r.needs = ArmNeeds(f) BY DEF Family, Row
  <2> QED BY <2>1, PlainGroups DEF GroupBits, ArmGroups
<1>2. CASE \E f \in MixedFamilies : r = Half(f)
  <2> PICK f \in MixedFamilies : r = Half(f) BY <1>2
  <2>1. r.group = f /\ r.needs = ArmNeeds(f) \cup {"fp16"} BY DEF Half, Keep, Row
  <2>2. f \in AsimdFamilies BY DEF MixedFamilies, AsimdFamilies
  <2> QED BY <2>1, <2>2, PlainGroups DEF GroupBits, ArmGroups
<1>3. CASE \E f \in SmeOuter \cup {"_SME2_"}, w \in Outers \cup {Sme} : r = Family(f, w)
  <2> PICK f \in SmeOuter \cup {"_SME2_"}, w \in Outers \cup {Sme} : r = Family(f, w) BY <1>3
  <2>1. r.group = f /\ r.needs = ArmNeeds(f) BY DEF Family, Row
  <2> QED BY <2>1, OuterNeeds, TokensOfSme DEF GroupBits, ArmGroups
<1>4. CASE \E f \in SmeSplit : r = Row({"_SME_"}, f, SmeBits(f), Outer(32, 4))
  <2> PICK f \in SmeSplit : r = Row({"_SME_"}, f, SmeBits(f), Outer(32, 4)) BY <1>4
  <2>1. r.group = f /\ r.needs = SmeBits(f) BY DEF Row
  <2> QED BY <2>1, TokensOfSme DEF GroupBits, ArmGroups
<1>5. CASE r \in DoubleRows
  <2>1. r.group \in DoubleTokens /\ r.needs = SmeBits(r.group)
    BY <1>5, OuterNeeds, DoubleFields DEF DoubleTokens
  <2> QED BY <2>1, TokensOfSme DEF GroupBits, ArmGroups
<1>6. CASE r \in VectorLoads \cup PairRows \cup MatrixRows
  <2>1. /\ r.group \in {"_SVE_", "_SME_", "_SME2_", "_LDP_", "_AMX_"}
        /\ r.needs = ArmNeeds(r.group)
    BY <1>6, OuterNeeds DEF VectorLoads, PairRows, MatrixRows, AmxRows, If, Load, Family, Row
  <2>2. CASE r.group \in {"_SME_", "_SME2_"}
    BY <2>1, <2>2, OuterNeeds, TokensOfSme DEF GroupBits, ArmGroups
  <2>3. CASE r.group \in {"_SVE_", "_LDP_", "_AMX_"}
    BY <2>1, <2>3, PlainGroups DEF GroupBits, ArmGroups, MixedFamilies, Infrastructure
  <2> QED BY <2>1, <2>2, <2>3
<1> QED BY ArmKinds, <1>1, <1>2, <1>3, <1>4, <1>5, <1>6

\* Only AMX is asked for before its rows are registered.
LEMMA AskedForFirst ==
    ASSUME NEW r \in ArmRows
    PROVE  r.when = (IF r.group = "_AMX_" THEN {"amx"} ELSE {})
<1>1. CASE \E f \in AsimdFamilies \cup {"_SVE_"} \cup SveFamilies \cup SmeOuter \cup {"_SME2_"},
              w \in {Fixed, Sve, Sme} \cup Outers : r = Family(f, w)
  <2>1. r.when = {} /\ r.group \in AsimdFamilies \cup {"_SVE_"} \cup SveFamilies \cup SmeOuter \cup {"_SME2_"}
    BY <1>1 DEF Family, Row
  <2>2. r.group # "_AMX_" BY <2>1 DEF AsimdFamilies, SveFamilies, SmeOuter
  <2> QED BY <2>1, <2>2
<1>2. CASE \E f \in MixedFamilies : r = Half(f)
  BY <1>2 DEF Half, Keep, Row, MixedFamilies
<1>3. CASE \E f \in SmeSplit : r = Row({"_SME_"}, f, SmeBits(f), Outer(32, 4))
  BY <1>3 DEF Row, SmeSplit
<1>4. CASE r \in DoubleRows \cup VectorLoads \cup PairRows
  <2>1. r.when = {} /\ r.group \in DoubleTokens \cup {"_SVE_", "_SME_", "_SME2_", "_LDP_"}
    <3>1. CASE r \in DoubleRows BY <3>1, DoubleFields
    <3>2. CASE r \in VectorLoads BY <3>2 DEF VectorLoads, Load, Family, Row
    <3>3. CASE r \in PairRows BY <3>3 DEF PairRows, Load, Row
    <3> QED BY <1>4, <3>1, <3>2, <3>3
  <2> QED BY <2>1 DEF DoubleTokens
<1>5. CASE r \in MatrixRows
  BY <1>5 DEF MatrixRows, AmxRows, If, Load, Family, Row
<1> QED BY ArmKinds, <1>1, <1>2, <1>3, <1>4, <1>5

\* A row asks for its own feature or keeps the last.
LEMMA AsksOrCopies ==
    ASSUME NEW r \in ArmRows, r.require # r.group PROVE r.require = ""
<1>1. \A f, w : Family(f, w).require = Family(f, w).group BY DEF Family, Row
<1>2. \A f : Half(f).require = "" BY DEF Half, Keep, Row
<1>3. \A f : Row({"_SME_"}, f, SmeBits(f), Outer(32, 4)).require = Row({"_SME_"}, f, SmeBits(f), Outer(32, 4)).group
  BY DEF Row
<1>4. r \in DoubleRows => r.require = "" BY DoubleFields
<1>5. r \notin VectorLoads BY DEF VectorLoads, Family, Row, Load
<1>6. r \notin PairRows \cup MatrixRows BY DEF PairRows, MatrixRows, AmxRows, Family, Row, Load, If
<1>7. \/ \E f, w : r = Family(f, w)
      \/ \E f : r = Half(f)
      \/ \E f : r = Row({"_SME_"}, f, SmeBits(f), Outer(32, 4))
      \/ r \in DoubleRows
  BY <1>5, <1>6, ArmKinds
<1> QED BY <1>1, <1>2, <1>3, <1>4, <1>7

\* A list that has a family of an extension has the extension.
Closed(list) ==
    /\ list \cap SveFamilies # {} => "_SVE_" \in list
    /\ list \cap SmeFamilies # {} => "_SME_" \in list

\* What classify_vector_scale finds in the names.
LEMMA NamesClassified ==
    /\ Classified(Fixed) = Fixed.work /\ Fixed.work = Unscaled
    /\ Classified(Sve) = Sve.work /\ Sve.work = Scale(TRUE, "none", 0)
    /\ \A kernel \in Outers \cup {Outer(64, 8), Sme} :
          Classified(kernel) = kernel.work /\ kernel.work.sve = FALSE
<1>1. /\ \A kernel : "opa.vv" \notin kernel.found => ElementBytes(kernel) = 0
      /\ ElementBytes(Outer(16, 2)) = 2 /\ ElementBytes(Outer(32, 4)) = 4
      /\ ElementBytes(Outer(64, 8)) = 8
  BY DEF ElementBytes, Outer, Kernel
<1>2. Classified(Fixed) = Fixed.work /\ Fixed.work = Unscaled
  <2>1. Fixed.found = {} /\ Fixed.work = Unscaled BY DEF Fixed, Kernel
  <2>2. ElementBytes(Fixed) = 0 BY <1>1, <2>1
  <2>3. ("sve" \in Fixed.found) = FALSE BY <2>1
  <2>4. Classified(Fixed) = Scale("sve" \in Fixed.found, "none", 0)
    BY <2>1, <2>2 DEF Classified
  <2> QED BY <2>1, <2>3, <2>4, Zenon DEF Unscaled
<1>3. Classified(Sve) = Sve.work /\ Sve.work = Scale(TRUE, "none", 0)
  <2>1. Sve.found = {"sve"} /\ Sve.work = Scale(TRUE, "none", 0) BY DEF Sve, Kernel
  <2>2. ElementBytes(Sve) = 0 BY <1>1, <2>1
  <2>3. ("sve" \in Sve.found) = TRUE BY <2>1
  <2>4. Classified(Sve) = Scale("sve" \in Sve.found, "none", 0)
    BY <2>1, <2>2 DEF Classified
  <2> QED BY <2>1, <2>3, <2>4, Zenon
<1>4. Classified(Sme) = Sme.work /\ Sme.work.sve = FALSE
  <2>1. Sme.found = {"sme"} /\ Sme.work = Scale(FALSE, "vector", 0) BY DEF Sme, Kernel
  <2>2. ElementBytes(Sme) = 0 BY <1>1, <2>1
  <2>3. ("sve" \in Sme.found) = FALSE BY <2>1
  <2>4. Classified(Sme) = Scale("sve" \in Sme.found, "vector", 0)
    BY <2>1, <2>2 DEF Classified
  <2>5. Classified(Sme) = Scale(FALSE, "vector", 0) BY <2>3, <2>4, Zenon
  <2> QED BY <2>1, <2>5 DEF Scale
<1>5. ASSUME NEW bits, NEW bytes \in {2, 4, 8}, ElementBytes(Outer(bits, bytes)) = bytes
      PROVE  /\ Classified(Outer(bits, bytes)) = Outer(bits, bytes).work
             /\ Outer(bits, bytes).work.sve = FALSE
  <2>1. /\ Outer(bits, bytes).found = {"sme", "opa.vv"}
        /\ Outer(bits, bytes).work = Scale(FALSE, "outer", bytes)
    BY DEF Outer, Kernel
  <2>2. ("sve" \in Outer(bits, bytes).found) = FALSE BY <2>1
  <2>3. Classified(Outer(bits, bytes)) = Scale("sve" \in Outer(bits, bytes).found, "outer", bytes)
    BY <1>5 DEF Classified
  <2>4. Classified(Outer(bits, bytes)) = Scale(FALSE, "outer", bytes) BY <2>2, <2>3, Zenon
  <2> QED BY <2>1, <2>4 DEF Scale
<1> QED BY <1>1, <1>2, <1>3, <1>4, <1>5 DEF Outers

\* Which macro the scale of a kernel is applied under.
LEMMA CreditOfKind ==
    /\ Credited(Fixed) = Fixed.work
    /\ Defined("_SVE_") => Credited(Sve) = Sve.work
    /\ Defined("_SME_") => \A kernel \in Outers \cup {Outer(64, 8), Sme} : Credited(kernel) = kernel.work
<1>1. /\ Unscaled.sve = FALSE /\ Unscaled.sme = "none" /\ Unscaled.bytes = 0
      /\ Unscaled = Scale(FALSE, "none", 0)
  BY DEF Unscaled, Scale
<1>2. Credited(Fixed) = Fixed.work
  <2>1. (Defined("_SVE_") /\ Classified(Fixed).sve) = FALSE BY <1>1, NamesClassified, Zenon
  <2> QED BY <1>1, <2>1, NamesClassified DEF Credited
<1>3. ASSUME Defined("_SVE_") PROVE Credited(Sve) = Sve.work
  <2>1. Classified(Sve).sve = TRUE /\ Classified(Sve).sme = "none" /\ Classified(Sve).bytes = 0
    BY NamesClassified DEF Scale
  <2>2. (Defined("_SVE_") /\ Classified(Sve).sve) = TRUE BY <1>3, <2>1, Zenon
  <2> QED BY <1>1, <2>1, <2>2, NamesClassified DEF Credited
<1>4. ASSUME Defined("_SME_"), NEW kernel \in Outers \cup {Outer(64, 8), Sme}
      PROVE  Credited(kernel) = kernel.work
  <2>1. Classified(kernel) = kernel.work /\ kernel.work.sve = FALSE BY NamesClassified
  <2>2. (Defined("_SVE_") /\ Classified(kernel).sve) = FALSE BY <2>1, Zenon
  <2>3. Credited(kernel) = Scale(FALSE, Classified(kernel).sme, Classified(kernel).bytes)
    BY <1>4, <2>2 DEF Credited
  <2>4. kernel.work = Scale(FALSE, kernel.work.sme, kernel.work.bytes)
    BY <2>1 DEF Classified, Scale
  <2> QED BY <2>1, <2>3, <2>4
<1> QED BY <1>2, <1>3, <1>4

LEMMA WorkOfRow ==
    ASSUME NEW r \in ArmRows, ~r.load, ~r.latency, r.guards \subseteq features, Closed(features)
    PROVE  Credited(r.kernel) = r.kernel.work
<1>1. CASE \E f \in AsimdFamilies : r = Family(f, Fixed)
  BY <1>1, CreditOfKind DEF Family, Row
<1>2. CASE \E f \in MixedFamilies : r = Half(f)
  BY <1>2, CreditOfKind DEF Half, Keep, Row
<1>3. CASE \E f \in {"_SVE_"} \cup SveFamilies : r = Family(f, Sve)
  <2> PICK f \in {"_SVE_"} \cup SveFamilies : r = Family(f, Sve) BY <1>3
  <2>1. r.kernel = Sve /\ r.guards = {f} BY DEF Family, Row
  <2>2. Defined("_SVE_") BY <2>1 DEF Closed, Defined
  <2> QED BY <2>1, <2>2, CreditOfKind
<1>4. CASE \E f \in SmeFamilies : f \in r.guards /\ r.kernel \in Outers \cup {Outer(64, 8), Sme}
  <2>1. Defined("_SME_") BY <1>4 DEF Closed, Defined
  <2> QED BY <1>4, <2>1, CreditOfKind
<1>5. CASE \E f \in SmeOuter, w \in Outers : r = Family(f, w)
  <2> PICK f \in SmeOuter, w \in Outers : r = Family(f, w) BY <1>5
  <2>1. r.guards = {f} /\ r.kernel = w BY DEF Family, Row
  <2>2. f \in SmeFamilies BY DEF SmeFamilies, Sme2Families, SmeOuter
  <2> QED BY <1>4, <2>1, <2>2
<1>6. CASE \E f \in SmeSplit : r = Row({"_SME_"}, f, SmeBits(f), Outer(32, 4))
  <2>1. r.guards = {"_SME_"} /\ r.kernel = Outer(32, 4) BY <1>6 DEF Row
  <2>2. "_SME_" \in SmeFamilies BY DEF SmeFamilies
  <2> QED BY <1>4, <2>1, <2>2 DEF Outers
<1>7. CASE r = Family("_SME2_", Sme)
  <2>1. r.guards = {"_SME2_"} /\ r.kernel = Sme BY <1>7 DEF Family, Row
  <2>2. "_SME2_" \in SmeFamilies BY DEF SmeFamilies
  <2> QED BY <1>4, <2>1, <2>2
<1>8. CASE r \in DoubleRows
  <2>1. "_SMEf64_" \in r.guards /\ r.kernel \in {Outer(64, 8), Sme}
    BY <1>8, DoubleFields
  <2>2. "_SMEf64_" \in SmeFamilies BY DEF SmeFamilies, Sme2Families
  <2> QED BY <1>4, <2>1, <2>2
<1>9. CASE r \in VectorLoads \cup PairRows
  BY <1>9 DEF VectorLoads, PairRows, Load, Family, Row
<1>10. CASE r \in MatrixRows
  BY <1>10, CreditOfKind DEF MatrixRows, AmxRows, Load, If, Family, Row
<1> QED BY ArmKinds, <1>1, <1>2, <1>3, <1>5, <1>6, <1>7, <1>8, <1>9, <1>10

\* A list whose families all run on the core has only rows that run.
LEMMA TrustedRow ==
    ASSUME NEW r \in ArmRows, r.guards \subseteq features, r.when \subseteq site.core,
           \A f \in features : ArmNeeds(f) \subseteq site.core,
           {"asimd", "fp16"} \subseteq site.core,
           "sme" \in site.core =>
               {"sme_i8i32", "sme_f16f32", "sme_b16f32", "sme_f32f32"} \subseteq site.core
    PROVE  GroupBits(r.group) \subseteq site.core
<1>1. CASE \E f \in AsimdFamilies \cup {"_SVE_"} \cup SveFamilies, w \in {Fixed, Sve} : r = Family(f, w)
  <2> PICK f \in AsimdFamilies \cup {"_SVE_"} \cup SveFamilies, w \in {Fixed, Sve} : r = Family(f, w)
    BY <1>1
  <2>1. r.group = f /\ r.guards = {f} BY DEF Family, Row
  <2> QED BY <2>1, PlainGroups DEF GroupBits
<1>2. CASE \E f \in MixedFamilies : r = Half(f)
  <2> PICK f \in MixedFamilies : r = Half(f) BY <1>2
  <2>1. r.group = f /\ f \in r.guards BY DEF Half, Keep, Row
  <2>2. f \in AsimdFamilies BY DEF MixedFamilies, AsimdFamilies
  <2> QED BY <2>1, <2>2, PlainGroups DEF GroupBits
<1>3. CASE \E f \in SmeOuter \cup {"_SME2_"}, w \in Outers \cup {Sme} : r = Family(f, w)
  <2> PICK f \in SmeOuter \cup {"_SME2_"}, w \in Outers \cup {Sme} : r = Family(f, w) BY <1>3
  <2>1. r.group = f /\ r.guards = {f} BY DEF Family, Row
  <2> QED BY <2>1, OuterNeeds, TokensOfSme DEF GroupBits
<1>4. CASE \E f \in SmeSplit : r = Row({"_SME_"}, f, SmeBits(f), Outer(32, 4))
  <2> PICK f \in SmeSplit : r = Row({"_SME_"}, f, SmeBits(f), Outer(32, 4)) BY <1>4
  <2>1. r.group = f /\ r.guards = {"_SME_"} BY DEF Row
  <2>2. GroupBits(f) = SmeBits(f) BY TokensOfSme DEF GroupBits
  <2>3. "sme" \in site.core BY <2>1, OuterNeeds
  <2> QED BY <2>1, <2>2, <2>3, SplitNeeds DEF SmeSplit
<1>5. CASE r \in DoubleRows
  <2>1. GroupBits(r.group) = SmeBits(r.group) /\ r.group \in DoubleTokens
    BY <1>5, TokensOfSme, DoubleFields DEF GroupBits
  <2>2. /\ "_SMEf64_" \in r.guards
        /\ r.group = "_SME2_F64F64_" => "_SME2_" \in r.guards
    BY <1>5, DoubleFields
  <2>3. {"sme", "sme_f64f64"} \subseteq site.core BY <2>2, OuterNeeds
  <2>4. r.group = "_SME2_F64F64_" => "sme2" \in site.core BY <2>2, OuterNeeds
  <2> QED BY <2>1, <2>3, <2>4, OuterNeeds DEF DoubleTokens
<1>6. CASE r \in VectorLoads
  <2>1. r.group \in {"_SVE_", "_SME_", "_SME2_"} /\ r.guards = {r.group}
    BY <1>6 DEF VectorLoads, Load, Family, Row
  <2>2. GroupBits(r.group) = ArmNeeds(r.group)
    BY <2>1, OuterNeeds, TokensOfSme, PlainGroups DEF GroupBits, MixedFamilies
  <2> QED BY <2>1, <2>2
<1>7. CASE r \in PairRows
  <2>1. r.group = "_LDP_" BY <1>7 DEF PairRows, Load, Row
  <2>2. GroupBits("_LDP_") = {"asimd"} BY OuterNeeds, PlainGroups DEF GroupBits, MixedFamilies, Infrastructure
  <2> QED BY <2>1, <2>2
<1>8. CASE r \in MatrixRows
  <2>1. r.group = "_AMX_" BY <1>8 DEF MatrixRows, AmxRows, If, Load, Family, Row
  <2>2. GroupBits("_AMX_") = {"amx"} BY OuterNeeds, PlainGroups DEF GroupBits, MixedFamilies
  <2>3. r.when = {"amx"} BY <2>1, AskedForFirst
  <2> QED BY <2>1, <2>2, <2>3
<1> QED BY ArmKinds, <1>1, <1>2, <1>3, <1>4, <1>5, <1>6, <1>7, <1>8

\* A row in the list has its feature announced: the macro of its file names it.
LEMMA NamedRow ==
    ASSUME NEW r \in ArmRows, r.guards \subseteq features, "_LDP_" \in features,
           r.group # "_AMX_"
    PROVE  \E f \in features : r.group \in AnnouncedBy(f)
<1>1. \A f \in AsimdFamilies \cup Infrastructure \cup {"_SVE_"} \cup SveFamilies \cup SmeOuter :
          AnnouncedBy(f) = {f}
  BY DEF AnnouncedBy, AsimdFamilies, Infrastructure, SveFamilies, Sme2Families, SmeOuter
<1>2. /\ AnnouncedBy("_SME_") = {"_SME_"} \cup SmeSplit
      /\ AnnouncedBy("_SME2_") = {"_SME2_", "_SME2_F64F64_"}
      /\ AnnouncedBy("_SMEf64_") = {"_SMEf64_", "_SME_F64F64_"}
  BY DEF AnnouncedBy, SmeSplit, AsimdFamilies, Infrastructure, SveFamilies, Sme2Families
<1>3. CASE \E f \in AsimdFamilies \cup {"_SVE_"} \cup SveFamilies \cup SmeOuter :
               f \in r.guards /\ r.group = f
  BY <1>1, <1>3
<1>4. CASE \E f \in AsimdFamilies \cup {"_SVE_"} \cup SveFamilies \cup SmeOuter,
              w \in {Fixed, Sve} \cup Outers : r = Family(f, w)
  BY <1>3, <1>4 DEF Family, Row
<1>5. CASE \E f \in MixedFamilies : r = Half(f)
  <2> PICK f \in MixedFamilies : r = Half(f) BY <1>5
  <2>1. f \in r.guards /\ r.group = f BY DEF Half, Keep, Row
  <2>2. f \in AsimdFamilies BY DEF MixedFamilies, AsimdFamilies
  <2> QED BY <1>3, <2>1, <2>2
<1>6. CASE \E f \in SmeSplit : r = Row({"_SME_"}, f, SmeBits(f), Outer(32, 4))
  BY <1>2, <1>6 DEF Row
<1>7. CASE r \in {Family("_SME2_", Sme)} \cup DoubleRows
  <2>1. \/ r.group = "_SME2_" /\ "_SME2_" \in r.guards
        \/ r.group = "_SME_F64F64_" /\ "_SMEf64_" \in r.guards
        \/ r.group = "_SME2_F64F64_" /\ "_SME2_" \in r.guards
    <3>1. CASE r = Family("_SME2_", Sme) BY <3>1 DEF Family, Row
    <3>2. CASE r \in DoubleRows BY <3>2, DoubleFields DEF DoubleTokens
    <3> QED BY <1>7, <3>1, <3>2
  <2> QED BY <1>2, <2>1
<1>8. CASE r \in VectorLoads
  <2>1. r.group \in {"_SVE_", "_SME_", "_SME2_"} /\ r.guards = {r.group}
    BY <1>8 DEF VectorLoads, Load, Family, Row
  <2> QED BY <1>1, <1>2, <2>1
<1>9. CASE r \in PairRows
  <2>1. r.group = "_LDP_" BY <1>9 DEF PairRows, Load, Row
  <2> QED BY <1>1, <2>1 DEF Infrastructure
<1>10. CASE r \in MatrixRows
  BY <1>10 DEF MatrixRows, AmxRows, If, Load, Family, Row
<1> QED BY ArmKinds, <1>4, <1>5, <1>6, <1>7, <1>8, <1>9, <1>10

-----------------------------------------------------------------------------
(* The table of AArch64 as a whole.                                        *)

LEMMA MixedFollow == FollowsItsGroup(ArmMixed)
<1>1. Len(ArmMixed) = 9 /\ DOMAIN ArmMixed = 1 .. 9 BY DEF ArmMixed
<1>2. /\ ArmMixed[2] = Family("_ASIMD_FCMA_", Fixed) /\ ArmMixed[3] = Half("_ASIMD_FCMA_")
      /\ ArmMixed[4] = Family("_ASIMD_REDUCE_", Fixed) /\ ArmMixed[5] = Half("_ASIMD_REDUCE_")
      /\ ArmMixed[6] = Family("_ASIMD_RECIP_", Fixed) /\ ArmMixed[7] = Half("_ASIMD_RECIP_")
      /\ ArmMixed[1] = Family("_SVE_", Sve)
      /\ ArmMixed[8] = Family("_ASIMD_INT_MAC_", Fixed) /\ ArmMixed[9] = Family("_ASIMD_TBL_", Fixed)
  BY DEF ArmMixed
<1>3. /\ Half("_ASIMD_FCMA_").group = "_ASIMD_FCMA_" /\ Half("_ASIMD_FCMA_").guards = {"_ASIMD_FCMA_", "_ASIMD_HP_"}
      /\ Half("_ASIMD_REDUCE_").group = "_ASIMD_REDUCE_" /\ Half("_ASIMD_REDUCE_").guards = {"_ASIMD_REDUCE_", "_ASIMD_HP_"}
      /\ Half("_ASIMD_RECIP_").group = "_ASIMD_RECIP_" /\ Half("_ASIMD_RECIP_").guards = {"_ASIMD_RECIP_", "_ASIMD_HP_"}
  BY DEF Half, Keep, Row
<1>4. \A f, w : /\ Family(f, w).require = f /\ Family(f, w).group = f
                /\ Family(f, w).guards = {f} /\ Family(f, w).when = {}
  BY DEF Family, Row
<1> SUFFICES ASSUME NEW k \in 1 .. 9, ArmMixed[k].require # ArmMixed[k].group
             PROVE  /\ k > 1
                    /\ ArmMixed[k - 1].require = ArmMixed[k].group
                    /\ ArmMixed[k - 1].guards \subseteq ArmMixed[k].guards
                    /\ ArmMixed[k - 1].when = {}
  BY <1>1 DEF FollowsItsGroup
<1>5. k \in {3, 5, 7} BY <1>2, <1>4
<1>6. CASE k = 3 BY <1>2, <1>3, <1>4, <1>6
<1>7. CASE k = 5 BY <1>2, <1>3, <1>4, <1>7
<1>8. CASE k = 7 BY <1>2, <1>3, <1>4, <1>8
<1> QED BY <1>5, <1>6, <1>7, <1>8

\* Every other row asks for its own feature.
LEMMA OwnFeature ==
    /\ \A g, f, n, w : Row(g, f, n, w).require = Row(g, f, n, w).group
    /\ \A f, w : Family(f, w).require = Family(f, w).group
    /\ AmxRows.require = AmxRows.group
    /\ \A f, w : Load(Family(f, w)).require = Load(Family(f, w)).group
    /\ \A g, f, n, w : Load(Row(g, f, n, w)).require = Load(Row(g, f, n, w)).group
    /\ Load(AmxRows).require = Load(AmxRows).group
BY DEF Row, Family, AmxRows, If, Load

\* The row of the outer product of doubles copies the feature of the latency
\* kernel before it.
LEMMA DoubleFollows == FollowsItsGroup(ArmSme2)
<1>1. Len(ArmSme2) = 4 /\ DOMAIN ArmSme2 = 1 .. 4 BY DEF ArmSme2
<1>2. /\ ArmSme2[1].require = ArmSme2[1].group
      /\ ArmSme2[2].require = ArmSme2[2].group
      /\ ArmSme2[4].require = ArmSme2[4].group
      /\ ArmSme2[2].require = ArmSme2[3].group
      /\ ArmSme2[2].guards = ArmSme2[3].guards
      /\ ArmSme2[2].when = {}
  BY DEF ArmSme2, DoubleRow, Keep, Latency, Family, Row
<1> SUFFICES ASSUME NEW k \in 1 .. 4, ArmSme2[k].require # ArmSme2[k].group
             PROVE  /\ k > 1
                    /\ ArmSme2[k - 1].require = ArmSme2[k].group
                    /\ ArmSme2[k - 1].guards \subseteq ArmSme2[k].guards
                    /\ ArmSme2[k - 1].when = {}
  BY <1>1 DEF FollowsItsGroup
<1>3. k = 3
  <2>1. k # 1 /\ k # 2 /\ k # 4 BY <1>2
  <2> QED BY <2>1
<1> QED BY <1>2, <1>3

LEMMA PartsFollow ==
    /\ FollowsItsGroup(ArmAsimd) /\ FollowsItsGroup(ArmSve) /\ FollowsItsGroup(ArmSme)
    /\ FollowsItsGroup(ArmSme2) /\ FollowsItsGroup(ArmLoadRest)
    /\ FollowsItsGroup(<<AmxRows>>)
    /\ FollowsItsGroup(<< Load(Row({}, "_LDP_", {"asimd"}, Fixed)) >>)
<1>1. FollowsItsGroup(ArmAsimd) BY OwnFeature DEF FollowsItsGroup, ArmAsimd
<1>2. FollowsItsGroup(ArmSve) BY OwnFeature DEF FollowsItsGroup, ArmSve
<1>3. FollowsItsGroup(ArmSme) BY OwnFeature DEF FollowsItsGroup, ArmSme
<1>4. FollowsItsGroup(ArmSme2) BY DoubleFollows
<1>5. FollowsItsGroup(ArmLoadRest) BY OwnFeature DEF FollowsItsGroup, ArmLoadRest
<1>6. FollowsItsGroup(<<AmxRows>>) BY OwnFeature DEF FollowsItsGroup
<1>7. FollowsItsGroup(<< Load(Row({}, "_LDP_", {"asimd"}, Fixed)) >>)
  BY OwnFeature DEF FollowsItsGroup
<1> QED BY <1>1, <1>2, <1>3, <1>4, <1>5, <1>6, <1>7

LEMMA TableFollows == FollowsItsGroup(ArmTable)
<1> DEFINE Following == {s \in Seq(ArmRows) : FollowsItsGroup(s)}
<1>1. \A s, t \in Following : s \o t \in Following BY FollowsInBoth, ConcatProperties
<1>2. /\ ArmAsimd \in Following /\ ArmMixed \in Following /\ ArmSve \in Following
      /\ ArmSme \in Following /\ ArmSme2 \in Following /\ ArmLoadRest \in Following
      /\ <<AmxRows>> \in Following
      /\ << Load(Row({}, "_LDP_", {"asimd"}, Fixed)) >> \in Following
  BY ArmParts, PartsFollow, MixedFollow
<1> HIDE DEF Following
<1>3. ArmCompute \in Following BY <1>1, <1>2, Zenon DEF ArmCompute
<1>4. ArmLoad \in Following BY <1>1, <1>2, Zenon DEF ArmLoad
<1>5. ArmTable \in Following BY <1>1, <1>2, <1>3, <1>4, Zenon DEF ArmTable
<1> QED BY <1>5 DEF Following

\* The rows for half precision are there, so a mixed group needs it.
LEMMA HalvesListed ==
    ASSUME NEW f \in MixedFamilies
    PROVE  \E k \in DOMAIN ArmTable : ArmTable[k] = Half(f)
<1> DEFINE Holding == {s \in Seq(ArmRows) : \E k \in DOMAIN s : s[k] = Half(f)}
<1>1. ASSUME NEW s \in Seq(ArmRows), NEW t \in Holding PROVE s \o t \in Holding
  <2>1. PICK k \in DOMAIN t : t[k] = Half(f) OBVIOUS
  <2>2. Len(s) + k \in DOMAIN (s \o t) /\ (s \o t)[Len(s) + k] = Half(f)
    BY <2>1, LenProperties, ConcatProperties
  <2> QED BY <2>2, ConcatProperties
<1>2. ASSUME NEW s \in Seq(ArmRows), NEW t \in Holding PROVE t \o s \in Holding
  <2>1. PICK k \in DOMAIN t : t[k] = Half(f) OBVIOUS
  <2>2. k \in DOMAIN (t \o s) /\ (t \o s)[k] = Half(f)
    BY <2>1, LenProperties, ConcatProperties
  <2> QED BY <2>2, ConcatProperties
<1>3. ArmMixed \in Holding
  <2>1. /\ ArmMixed[3] = Half("_ASIMD_FCMA_") /\ ArmMixed[5] = Half("_ASIMD_REDUCE_")
        /\ ArmMixed[7] = Half("_ASIMD_RECIP_") /\ {3, 5, 7} \subseteq DOMAIN ArmMixed
    BY DEF ArmMixed
  <2> QED BY <2>1, ArmParts DEF MixedFamilies
<1> HIDE DEF Holding
<1>4. ArmAsimd \o ArmMixed \in Holding BY <1>1, <1>3, ArmParts
<1>5. ArmAsimd \o ArmMixed \o ArmSve \in Holding BY <1>2, <1>4, ArmParts, Zenon
<1>6. ArmAsimd \o ArmMixed \o ArmSve \o ArmSme \in Holding BY <1>2, <1>5, ArmParts, Zenon
<1>7. ArmCompute \in Holding BY <1>2, <1>6, ArmParts, Zenon DEF ArmCompute
<1>8. ArmCompute \o ArmLoad \in Holding BY <1>2, <1>7, ArmTableRows, Zenon
<1>9. ArmCompute \o ArmLoad \o ArmLoad \in Holding BY <1>2, <1>8, ArmTableRows, Zenon
<1>10. ArmTable \in Holding BY <1>2, <1>9, ArmParts, Zenon DEF ArmTable
<1> QED BY <1>10 DEF Holding

LEMMA NeedsOfTable ==
    ASSUME NEW k \in DOMAIN ArmTable
    PROVE  UNION {ArmTable[i].needs : i \in {j \in DOMAIN ArmTable : ArmTable[j].group = ArmTable[k].group}}
               = GroupBits(ArmTable[k].group)
<1> DEFINE g == ArmTable[k].group
           Same == {j \in DOMAIN ArmTable : ArmTable[j].group = g}
<1>1. \A i \in DOMAIN ArmTable : ArmTable[i] \in ArmRows BY ArmTableRows
<1>2. \A i \in Same : ArmTable[i].needs \subseteq GroupBits(g) BY <1>1, NeedsOfGroup
<1>3. CASE g \notin MixedFamilies
  <2>1. ArmTable[k].needs = GroupBits(g) /\ k \in Same BY <1>1, <1>3, NeedsOfGroup
  <2> QED BY <1>2, <2>1
<1>4. CASE g \in MixedFamilies
  <2>1. PICK i \in DOMAIN ArmTable : ArmTable[i] = Half(g) BY <1>4, HalvesListed
  <2>2. Half(g).group = g /\ Half(g).needs = ArmNeeds(g) \cup {"fp16"} BY DEF Half, Keep, Row
  <2>3. GroupBits(g) = ArmNeeds(g) \cup {"fp16"}
    <3>1. g \in AsimdFamilies BY <1>4 DEF MixedFamilies, AsimdFamilies
    <3> QED BY <1>4, <3>1, PlainGroups DEF GroupBits
  <2>4. i \in Same /\ ArmTable[i].needs = GroupBits(g) BY <2>1, <2>2, <2>3
  <2> QED BY <1>2, <2>4
<1> QED BY <1>3, <1>4

-----------------------------------------------------------------------------
(* The build.                                                              *)

Phases == {"detect", "assemble", "link", "unlinked", "register", "banner", "frequency",
           "stream", "issue", "rows", "done"}
Linked == phase \notin {"detect", "assemble", "link", "unlinked"}

BuildInvariant ==
    /\ site \in Sites /\ phase \in Phases
    /\ phase # "detect" /\ site.arch = "arm64" =>
          /\ Closed(features)
          /\ site.system = "Darwin" => \A f \in features : ArmNeeds(f) \subseteq site.core
    /\ phase = "link" /\ site.arch = "arm64" => assembled = features
    /\ Linked /\ site.arch = "arm64" => "_LDP_" \in features

LEMMA ClosureIsClosed ==
    ASSUME NEW list PROVE Closed(Closure(list))
<1> DEFINE c == Closure(list)
           sme2 == IF list \cap Sme2Families # {} THEN {"_SME2_"} ELSE {}
<1>1. c = list \cup {"_ASIMD_"} \cup Infrastructure
             \cup (IF list \cap SveFamilies # {} THEN {"_SVE_"} ELSE {})
             \cup sme2 \cup (IF "_SME2_" \in list \cup sme2 THEN {"_SME_"} ELSE {})
  BY DEF Closure
<1>2. \A f \in SveFamilies : f \notin {"_ASIMD_", "_LDP_", "_ISSUE_", "_SVE_", "_SME2_", "_SME_"}
  BY DEF SveFamilies
<1>3. \A f \in Sme2Families : f \notin {"_ASIMD_", "_LDP_", "_ISSUE_", "_SVE_", "_SME2_", "_SME_"}
  BY DEF Sme2Families
<1> HIDE DEF c
<1>4. c \cap SveFamilies # {} => "_SVE_" \in c
  BY <1>1, <1>2 DEF Infrastructure
<1>5. ASSUME NEW f \in c \cap Sme2Families PROVE "_SME2_" \in c /\ "_SME_" \in c
  <2>1. f \in list BY <1>1, <1>3, <1>5 DEF Infrastructure
  <2>2. sme2 = {"_SME2_"} BY <1>5, <2>1
  <2> QED BY <1>1, <2>2
<1>6. "_SME2_" \in c => "_SME_" \in c
  BY <1>1 DEF Infrastructure
<1>7. c \cap SmeFamilies # {} => "_SME_" \in c
  BY <1>5, <1>6 DEF SmeFamilies
<1> HIDE DEF sme2
<1> QED BY <1>4, <1>7 DEF Closed, c

\* What a detector finds is closed and runs where it was found.
LEMMA DetectedIsClosed == Closed(ArmDetected)
<1>1. \A f \in SveFamilies :
          /\ f \notin {"_ASIMD_", "_ASIMD_HP_", "_ASIMD_DP_", "_I8MM_", "_BF16_", "_FHM_",
                       "_ASIMD_FCMA_", "_SVE_", "_AMX_", "_SME_"}
          /\ f \notin {"_LDP_", "_ISSUE_", "_ASIMD_REDUCE_", "_ASIMD_RECIP_", "_ASIMD_INT_MAC_",
                       "_ASIMD_TBL_"}
          /\ f \notin SmeFamilies
  BY DEF SveFamilies, SmeFamilies, Sme2Families
<1>2. \A f \in SmeFamilies \ {"_SME_"} :
          /\ f \notin {"_ASIMD_", "_ASIMD_HP_", "_ASIMD_DP_", "_I8MM_", "_BF16_", "_FHM_",
                       "_ASIMD_FCMA_", "_SVE_", "_AMX_", "_SME_"}
          /\ f \notin {"_LDP_", "_ISSUE_", "_ASIMD_REDUCE_", "_ASIMD_RECIP_", "_ASIMD_INT_MAC_",
                       "_ASIMD_TBL_"}
          /\ f \notin SveFamilies
  BY DEF SveFamilies, SmeFamilies, Sme2Families
<1>3. "_SMEf64_" \in SmeFamilies \ {"_SME_"} BY DEF SmeFamilies, Sme2Families
<1>4. ASSUME NEW f \in SveFamilies, f \in ArmDetected PROVE "_SVE_" \in ArmDetected
  <2>1. Survives("_SVE_") BY <1>1, <1>3, <1>4 DEF ArmDetected, Infrastructure
  <2> QED BY <2>1 DEF ArmDetected
<1>5. ASSUME NEW f \in SmeFamilies \ {"_SME_"}, f \in ArmDetected PROVE "_SME_" \in ArmDetected
  <2>1. Survives("_SME_") BY <1>2, <1>5 DEF ArmDetected, Infrastructure
  <2> QED BY <2>1 DEF ArmDetected
<1> QED BY <1>4, <1>5 DEF Closed

LEMMA DetectedRuns ==
    ASSUME {"asimd", "fp16"} \subseteq site.builder, NEW f \in ArmDetected
    PROVE  ArmNeeds(f) \subseteq site.builder
<1>1. CASE Survives(f)
  <2>1. f = "_ASIMD_HP_" => ArmNeeds(f) = {"asimd", "fp16"} BY DEF ArmNeeds
  <2> QED BY <1>1, <2>1 DEF Survives, Exercises
<1>2. CASE f \in Infrastructure \cup {"_ASIMD_REDUCE_", "_ASIMD_RECIP_", "_ASIMD_INT_MAC_", "_ASIMD_TBL_"}
  <2>1. ArmNeeds(f) = {"asimd"} BY <1>2 DEF ArmNeeds, Infrastructure
  <2> QED BY <2>1
<1> QED BY <1>1, <1>2 DEF ArmDetected

\* The toolchain that accepts a family of an extension accepts the extension.
LEMMA AcceptsExtension ==
    ASSUME site \in Sites, site.arch = "arm64", NEW list, NEW f, Accepted(f, list)
    PROVE  /\ f \in SveFamilies => Accepted("_SVE_", list)
           /\ f \in SmeFamilies => Accepted("_SME_", list)
<1> USE SitesAssumption
<1>1. MarchOf(f, list) \subseteq site.accepts BY DEF Accepted
<1>2. MarchOf("_SVE_", list) = {"sve"} /\ MarchOf("_SME_", list) = {"armv9-a", "sme"}
  BY DEF MarchOf
<1>3. ASSUME f \in SveFamilies PROVE Accepted("_SVE_", list)
  <2>1. "sve" \in MarchOf(f, list) \/ "sve2" \in MarchOf(f, list)
    BY <1>3 DEF SveFamilies, MarchOf
  <2>2. "sve" \in site.accepts BY <1>1, <2>1
  <2> QED BY <1>2, <2>2 DEF Accepted
<1>4. ASSUME f \in SmeFamilies PROVE Accepted("_SME_", list)
  <2>1. f # "_SME_" => "sme2" \in MarchOf(f, list)
    BY <1>4 DEF SmeFamilies, Sme2Families, MarchOf
  <2>2. f = "_SME_" \/ {"armv9-a", "sme"} \subseteq site.accepts BY <1>1, <2>1
  <2> QED BY <1>2, <2>2 DEF Accepted
<1> QED BY <1>3, <1>4

LEMMA DetectHolds == BuildInvariant /\ Detect => BuildInvariant'
<1> USE SitesAssumption
<1> SUFFICES ASSUME BuildInvariant, Detect PROVE BuildInvariant' OBVIOUS
<1>1. /\ phase = "detect" /\ phase' = "assemble" /\ site' = site /\ site \in Sites
      /\ features' =
            IF MultiIsa THEN Closure(IF site.override # {} THEN site.override ELSE DefaultList)
            ELSE IF site.override # {} THEN site.override
            ELSE IF site.cross THEN CrossDefault
            ELSE IF site.arch = "arm64" THEN ArmDetected ELSE X86Detected
  BY DEF BuildInvariant, Detect
<1>2. CASE MultiIsa
  <2>1. PICK list : features' = Closure(list) BY <1>1, <1>2
  <2>2. Closed(features') BY <2>1, ClosureIsClosed
  <2>3. site.system # "Darwin" BY <1>2 DEF MultiIsa
  <2> QED BY <1>1, <2>2, <2>3 DEF BuildInvariant, Phases, Linked, Closed
<1>3. CASE ~MultiIsa /\ site.arch = "arm64"
  <2>1. site.system = "Darwin" BY <1>3 DEF MultiIsa
  <2>2. /\ ~site.cross /\ site.override = {} /\ site.builder = site.core
        /\ {"asimd", "fp16"} \subseteq site.core
    BY <1>1, <1>3, <2>1
  <2>3. features' = ArmDetected BY <1>1, <1>3, <2>2
  <2>4. Closed(features') BY <2>3, DetectedIsClosed
  <2>5. \A f \in features' : ArmNeeds(f) \subseteq site.core BY <2>2, <2>3, DetectedRuns
  <2> QED BY <1>1, <2>4, <2>5 DEF BuildInvariant, Phases, Linked, Closed
<1>4. CASE site.arch # "arm64"
  BY <1>1, <1>4 DEF BuildInvariant, Phases
<1> QED BY <1>2, <1>3, <1>4

LEMMA AssembleHolds == BuildInvariant /\ Assemble => BuildInvariant'
<1> SUFFICES ASSUME BuildInvariant, Assemble PROVE BuildInvariant' OBVIOUS
<1>1. /\ phase = "assemble" /\ phase' = "link" /\ site' = site /\ site \in Sites
      /\ features' = {f \in features : Accepted(f, features)}
      /\ site.arch = "arm64" => assembled' = features'
  <2>1. /\ phase = "assemble" /\ phase' = "link" /\ site' = site /\ site \in Sites
        /\ features' = features \ {f \in features : ~Accepted(f, features)}
        /\ site.arch # "x64" => assembled' = features'
    BY SitesAssumption DEF BuildInvariant, Assemble
  <2> QED BY <2>1
<1>2. CASE site.arch = "arm64"
  <2>1. Closed(features) BY <1>1, <1>2 DEF BuildInvariant
  <2>2. Closed(features')
    <3>1. ASSUME NEW f \in features' \cap SveFamilies PROVE "_SVE_" \in features'
      <4>1. "_SVE_" \in features BY <1>1, <2>1, <3>1 DEF Closed
      <4> QED BY <1>1, <1>2, <4>1, AcceptsExtension
    <3>2. ASSUME NEW f \in features' \cap SmeFamilies PROVE "_SME_" \in features'
      <4>1. "_SME_" \in features BY <1>1, <2>1, <3>2 DEF Closed
      <4> QED BY <1>1, <1>2, <4>1, AcceptsExtension
    <3> QED BY <3>1, <3>2 DEF Closed
  <2>3. site.system = "Darwin" => \A f \in features' : ArmNeeds(f) \subseteq site.core
    BY <1>1, <1>2 DEF BuildInvariant
  <2> QED BY <1>1, <1>2, <2>2, <2>3 DEF BuildInvariant, Phases, Linked, Closed
<1>3. CASE site.arch # "arm64"
  BY <1>1, <1>3 DEF BuildInvariant, Phases
<1> QED BY <1>2, <1>3

LEMMA LinkHolds == BuildInvariant /\ Link => BuildInvariant'
<1> SUFFICES ASSUME BuildInvariant, Link PROVE BuildInvariant' OBVIOUS
<1>1. /\ phase = "link" /\ phase' = (IF Unconditional \subseteq assembled THEN "register" ELSE "unlinked")
      /\ UNCHANGED <<site, features, assembled>>
  BY DEF Link
<1>2. phase' = "register" /\ site.arch = "arm64" => "_LDP_" \in features
  BY <1>1 DEF BuildInvariant, Unconditional, Infrastructure
<1> QED BY <1>1, <1>2 DEF BuildInvariant, Phases, Linked, Closed

LEMMA BuildKept ==
    ASSUME BuildInvariant, UNCHANGED <<site, features, assembled>>, Linked, phase' \in Phases, Linked'
    PROVE  BuildInvariant'
BY DEF BuildInvariant, Phases, Linked, Closed

-----------------------------------------------------------------------------
(* The rows of x64.                                                        *)

X86Rows ==
    {X86Row(b, Ymm({b})) : b \in {"avx2", "fma"}}
    \cup {X86Row(b, Ymm({b, "avx2"})) : b \in {"avx_vnni", "avx_vnni_int8"}}
    \cup {X86Row(b, Zmm({b})) : b \in {"avx512_ifma", "avx512_vbmi", "avx512_vpopcntdq",
                                       "avx512_vnni", "avx512_bf16", "avx512_fp16"}}
    \cup {X86Tile(b) : b \in {"amx_int8", "amx_bf16"}}
    \cup {X86Row(b, {b}) : b \in {"sse", "sse2"}}
    \cup {X86Row("avx", Ymm({})), X86Row("avx512f", Zmm({})), X86Zmm,
          X86Load({"avx"}, Ymm({})), X86Load({}, {"sse"})}

LEMMA X86TableRows == X86Table \in Seq(X86Rows)
<1>1. /\ \A b \in {"avx2", "fma"} : X86Row(b, Ymm({b})) \in X86Rows
      /\ \A b \in {"avx_vnni", "avx_vnni_int8"} : X86Row(b, Ymm({b, "avx2"})) \in X86Rows
      /\ \A b \in {"avx512_ifma", "avx512_vbmi", "avx512_vpopcntdq", "avx512_vnni", "avx512_bf16",
                   "avx512_fp16"} : X86Row(b, Zmm({b})) \in X86Rows
      /\ \A b \in {"amx_int8", "amx_bf16"} : X86Tile(b) \in X86Rows
      /\ \A b \in {"sse", "sse2"} : X86Row(b, {b}) \in X86Rows
  BY DEF X86Rows
<1>2. {X86Row("avx", Ymm({})), X86Row("avx512f", Zmm({})), X86Zmm, X86Load({"avx"}, Ymm({})),
       X86Load({}, {"sse"})} \subseteq X86Rows
  BY DEF X86Rows
<1> HIDE DEF X86Rows
<1>3. X86Wide \in Seq(X86Rows) BY <1>1 DEF X86Wide
<1>4. X86Base \in Seq(X86Rows) BY <1>1, <1>2 DEF X86Base
<1>5. X86Level \in Seq(X86Rows) BY <1>2 DEF X86Level
<1> QED BY <1>3, <1>4, <1>5 DEF X86Table

\* A register state counts where the system enables it.
LEMMA X86Bits ==
    /\ "sse" \in X86Features(site.core) <=> "sse" \in site.core
    /\ "sse2" \in X86Features(site.core) <=> "sse2" \in site.core
    /\ \A b \in {"avx", "fma", "avx2", "avx_vnni", "avx_vnni_int8"} :
          b \in X86Features(site.core) <=> Ymm({b}) \subseteq site.core
    /\ \A b \in {"avx512f", "avx512_ifma", "avx512_vbmi", "avx512_vpopcntdq",
                 "avx512_vnni", "avx512_bf16", "avx512_fp16"} :
          b \in X86Features(site.core) <=> Zmm({b}) \subseteq site.core
    /\ \A b \in {"amx_tile", "amx_int8", "amx_bf16"} :
          b \in X86Features(site.core) <=> {"osxsave", "tiles", "amx_tile", b} \subseteq site.core
    /\ "permission" \notin X86Features(site.core)
BY DEF X86Features, Ymm, Zmm

\* What a registration tests is what its kernels need.
LEMMA X86RowRuns ==
    ASSUME site \in Sites, site.arch = "x64", NEW r \in X86Rows
    PROVE  r.when \subseteq RuntimeBits <=> r.needs \subseteq site.core
<1> USE SitesAssumption
<1> DEFINE bits == X86Features(site.core)
<1>1. RuntimeBits = bits \cup (IF Linux THEN site.core \cap {"permission"} ELSE {})
  BY DEF RuntimeBits
<1>2. "permission" \in RuntimeBits <=> "permission" \in site.core
  BY <1>1, X86Bits DEF Linux
<1>3. \A b : b # "permission" => (b \in RuntimeBits <=> b \in bits)
  BY <1>1
<1> HIDE DEF bits
<1>4. \A b \in {"avx2", "fma", "avx"} : b \in RuntimeBits <=> Ymm({b}) \subseteq site.core
  BY <1>3, X86Bits DEF bits
<1>5. \A b \in {"avx_vnni", "avx_vnni_int8"} : b \in RuntimeBits <=> Ymm({b, "avx2"}) \subseteq site.core
  <2>1. \A b \in {"avx_vnni", "avx_vnni_int8"} : b \in RuntimeBits <=> Ymm({b}) \subseteq site.core
    BY <1>3, X86Bits DEF bits
  <2>2. \A b \in {"avx_vnni", "avx_vnni_int8"} : b \in site.core => "avx2" \in site.core
    OBVIOUS
  <2> QED BY <2>1, <2>2 DEF Ymm
<1>6. \A b \in {"avx512_ifma", "avx512_vbmi", "avx512_vpopcntdq", "avx512_vnni", "avx512_bf16",
                "avx512_fp16", "avx512f"} : b \in RuntimeBits <=> Zmm({b}) \subseteq site.core
  BY <1>3, X86Bits DEF bits
<1>7. \A b \in {"sse", "sse2"} : b \in RuntimeBits <=> {b} \subseteq site.core
  BY <1>3, X86Bits DEF bits
<1>8. \A b \in {"amx_int8", "amx_bf16"} :
          {"amx_tile", "permission", b} \subseteq RuntimeBits <=> Tmm({b}) \subseteq site.core
  BY <1>2, <1>3, X86Bits DEF bits, Tmm
<1>9. ASSUME NEW b, NEW needs
      PROVE  X86Row(b, needs).when = {b} /\ X86Row(b, needs).needs = needs
  BY DEF X86Row, If, Row
<1>10. CASE \E b \in {"avx2", "fma"} : r = X86Row(b, Ymm({b}))
  BY <1>4, <1>9, <1>10
<1>11. CASE \E b \in {"avx_vnni", "avx_vnni_int8"} : r = X86Row(b, Ymm({b, "avx2"}))
  <2> PICK b \in {"avx_vnni", "avx_vnni_int8"} : r = X86Row(b, Ymm({b, "avx2"})) BY <1>11
  <2>1. r.when = {b} /\ r.needs = Ymm({b, "avx2"}) BY <1>9
  <2> QED BY <1>5, <2>1
<1>12. CASE \E b \in {"avx512_ifma", "avx512_vbmi", "avx512_vpopcntdq", "avx512_vnni", "avx512_bf16",
                      "avx512_fp16"} : r = X86Row(b, Zmm({b}))
  <2> PICK b \in {"avx512_ifma", "avx512_vbmi", "avx512_vpopcntdq", "avx512_vnni", "avx512_bf16",
                  "avx512_fp16"} : r = X86Row(b, Zmm({b}))
    BY <1>12
  <2>1. r.when = {b} /\ r.needs = Zmm({b}) BY <1>9
  <2>2. b \in RuntimeBits <=> Zmm({b}) \subseteq site.core BY <1>6
  <2> QED BY <2>1, <2>2
<1>13. CASE \E b \in {"amx_int8", "amx_bf16"} : r = X86Tile(b)
  <2> PICK b \in {"amx_int8", "amx_bf16"} : r = X86Tile(b) BY <1>13
  <2>1. r.when = {"amx_tile", "permission", b} /\ r.needs = Tmm({b})
    BY DEF X86Tile, X86Row, If, Row
  <2> QED BY <1>8, <2>1
<1>14. CASE \E b \in {"sse", "sse2"} : r = X86Row(b, {b})
  BY <1>7, <1>9, <1>14
<1>15. Ymm({}) = Ymm({"avx"}) /\ Zmm({}) = Zmm({"avx512f"})
  BY DEF Ymm, Zmm
<1>16. CASE r \in {X86Row("avx", Ymm({})), X86Row("avx512f", Zmm({}))}
  BY <1>4, <1>6, <1>9, <1>15, <1>16
<1>17. CASE r = X86Zmm
  <2>1. r.when = {"avx512f"} /\ r.needs = Zmm({}) BY <1>17 DEF X86Zmm, X86Row, If, Row, Load
  <2> QED BY <1>6, <1>15, <2>1
<1>18. CASE r = X86Load({"avx"}, Ymm({}))
  <2>1. r.when = {"avx"} /\ r.needs = Ymm({}) BY <1>18 DEF X86Load, If, Row, Load
  <2> QED BY <1>4, <1>15, <2>1
<1>19. CASE r = X86Load({}, {"sse"})
  <2>1. r.when = {} /\ r.needs = {"sse"} BY <1>19 DEF X86Load, If, Row, Load
  <2> QED BY <2>1
<1> QED BY <1>10, <1>11, <1>12, <1>13, <1>14, <1>16, <1>17, <1>18, <1>19 DEF X86Rows

LEMMA X86Fixed == ASSUME NEW r \in X86Rows PROVE r.kernel = Fixed
<1>1. ASSUME NEW b, NEW needs PROVE X86Row(b, needs).kernel = Fixed
  BY DEF X86Row, If, Row
<1>2. ASSUME NEW b PROVE X86Tile(b).kernel = Fixed
  BY DEF X86Tile, X86Row, If, Row
<1>3. ASSUME NEW b, NEW needs PROVE X86Load(b, needs).kernel = Fixed /\ X86Zmm.kernel = Fixed
  BY DEF X86Load, X86Zmm, X86Row, Load, If, Row
<1> QED BY <1>1, <1>2, <1>3 DEF X86Rows

-----------------------------------------------------------------------------
(* The registrations.                                                      *)

Compiled(k) == Table[k].guards \subseteq features /\ Table[k].when \subseteq RuntimeBits

RegistrationInvariant ==
    /\ at \in 1 .. Len(Table) + 1
    /\ ~Linked => at = 1 /\ bm_list = {}
    /\ phase = "register" =>
          /\ \A item \in bm_list :
                /\ item.row \in 1 .. at - 1 /\ Compiled(item.row)
                /\ site.arch = "arm64" => item.feature = Table[item.row].group
          /\ \A k \in 1 .. at - 1 : Compiled(k) => k \in Listed
          \* what the next row may copy
          /\ at > 1 => (Compiled(at - 1) /\ Table[at - 1].require # "" =>
                             required = Table[at - 1].require)
    /\ Started =>
          /\ Listed = {k \in DOMAIN Table : Compiled(k) /\ (MultiIsa => Supports(Table[k].group))}
          /\ MultiIsa => \A item \in bm_list : item.feature \in announced

LEMMA TableOfSite ==
    ASSUME site \in Sites
    PROVE  /\ site.arch = "arm64" => Table = ArmTable
           /\ site.arch # "arm64" => site.arch = "x64" /\ Table = X86Table
           /\ Len(Table) \in Nat /\ DOMAIN Table = 1 .. Len(Table)
<1>1. Len(ArmTable) \in Nat /\ DOMAIN ArmTable = 1 .. Len(ArmTable)
  BY ArmTableRows, LenProperties
<1>2. Len(X86Table) \in Nat /\ DOMAIN X86Table = 1 .. Len(X86Table)
  BY X86TableRows, LenProperties
<1> QED BY <1>1, <1>2, SitesAssumption DEF Table

\* The site and the list of features are all that the registrations depend on.
LEMMA SameProgram ==
    ASSUME UNCHANGED <<site, features>>
    PROVE  /\ Table' = Table /\ RuntimeBits' = RuntimeBits /\ MultiIsa' = MultiIsa
           /\ \A k : Compiled(k)' <=> Compiled(k)
           /\ \A token : Supports(token)' <=> Supports(token)
<1>1. Table' = Table /\ MultiIsa' = MultiIsa BY DEF Table, MultiIsa
<1>2. RuntimeBits' = RuntimeBits BY DEF RuntimeBits, X86Features, Linux
<1>3. \A k : Compiled(k)' <=> Compiled(k) BY <1>1, <1>2 DEF Compiled
<1>4. \A token : Supports(token)' <=> Supports(token) BY DEF Supports, OnCore
<1> QED BY <1>1, <1>2, <1>3, <1>4

LEMMA BuildRegisters ==
    ASSUME RegistrationInvariant, BuildInvariant, BuildNext,
           UNCHANGED <<at, required, bm_list, announced, classes, executed>>
    PROVE  RegistrationInvariant'
<1>1. /\ phase \in {"detect", "assemble", "link"} /\ site' = site
      /\ phase' \in {"assemble", "link", "register", "unlinked"}
  BY DEF BuildNext, Detect, Assemble, Link
<1>2. at = 1 /\ bm_list = {} BY <1>1 DEF RegistrationInvariant, Linked
<1>3. Table' = Table BY <1>1 DEF Table
<1>4. Listed' = {} /\ 1 .. (at - 1) = {} BY <1>2 DEF Listed
<1>5. ~Started' BY <1>1 DEF Started
<1>6. at' = 1 /\ bm_list' = {} BY <1>2
<1> QED BY <1>2, <1>3, <1>5, <1>6 DEF RegistrationInvariant

LEMMA RegisterHolds ==
    ASSUME RegistrationInvariant, BuildInvariant, Register
    PROVE  RegistrationInvariant'
<1> DEFINE row == Table[at]
           feature == IF row.require = "" THEN required ELSE row.require
<1>1. /\ phase = "register" /\ phase' = "register" /\ UNCHANGED <<site, features>>
      /\ at <= Len(Table) /\ at' = at + 1
      /\ IF Compiled(at)
         THEN required' = feature /\ bm_list' = bm_list \cup {[row |-> at, feature |-> feature]}
         ELSE required' = required /\ bm_list' = bm_list
  BY DEF Register, buildVars, Compiled
<1>2. at \in 1 .. Len(Table) /\ Len(Table) \in Nat /\ DOMAIN Table = 1 .. Len(Table) /\ site \in Sites
  <2>1. site \in Sites BY DEF BuildInvariant
  <2>2. Len(Table) \in Nat /\ DOMAIN Table = 1 .. Len(Table) BY <2>1, TableOfSite
  <2>3. at \in 1 .. Len(Table) + 1 BY DEF RegistrationInvariant
  <2> HIDE DEF row, feature
  <2> QED BY <1>1, <2>1, <2>2, <2>3
<1>3. /\ Table' = Table /\ RuntimeBits' = RuntimeBits
      /\ \A k : Compiled(k)' <=> Compiled(k)
  BY <1>1, SameProgram
<1>4. at' \in 1 .. Len(Table') + 1 /\ at' - 1 = at /\ 1 .. (at' - 1) = (1 .. (at - 1)) \cup {at} /\ at' > 1
  <2>1. at' = at + 1 /\ at \in 1 .. Len(Table) /\ Len(Table) \in Nat BY <1>1, <1>2
  <2>2. at' \in 1 .. Len(Table) + 1 /\ at' - 1 = at /\ at' > 1 BY <2>1
  <2>3. 1 .. (at' - 1) = (1 .. (at - 1)) \cup {at} BY <2>1, <2>2
  <2> QED BY <1>3, <2>2, <2>3
<1>5. /\ \A item \in bm_list : /\ item.row \in 1 .. at - 1 /\ Compiled(item.row)
                               /\ site.arch = "arm64" => item.feature = Table[item.row].group
      /\ \A k \in 1 .. at - 1 : Compiled(k) => k \in Listed
      /\ at > 1 => (Compiled(at - 1) /\ Table[at - 1].require # "" => required = Table[at - 1].require)
  BY <1>1 DEF RegistrationInvariant
<1>6. ASSUME Compiled(at), site.arch = "arm64" PROVE feature = row.group
  <2>1. Table = ArmTable /\ row \in ArmRows BY <1>2, <1>6, TableOfSite, ArmTableRows
  <2>2. CASE row.require = row.group
    <3>1. row.group # "" BY <2>1, NeedsOfGroup DEF ArmGroups, AsimdFamilies, SveFamilies, SmeOuter, SmeSplit, DoubleTokens
    <3> QED BY <2>2, <3>1
  <2>3. CASE row.require # row.group
    <3>1. /\ at > 1 /\ Table[at - 1].require = row.group
          /\ Table[at - 1].guards \subseteq row.guards /\ Table[at - 1].when = {}
      BY <1>2, <2>1, <2>3, TableFollows DEF FollowsItsGroup
    <3>2. Compiled(at - 1) BY <1>6, <3>1 DEF Compiled
    <3>3. row.group # "" BY <2>1, NeedsOfGroup DEF ArmGroups, AsimdFamilies, SveFamilies, SmeOuter, SmeSplit, DoubleTokens
    <3>4. required = row.group BY <1>5, <3>1, <3>2, <3>3
    <3>5. row.require = "" BY <2>1, <2>3, AsksOrCopies
    <3> QED BY <3>4, <3>5
  <2> QED BY <2>2, <2>3
<1> HIDE DEF feature
<1>7. ASSUME NEW item \in bm_list'
      PROVE  /\ item.row \in 1 .. (at' - 1) /\ Compiled(item.row)'
             /\ (site.arch)' = "arm64" => item.feature = Table'[item.row].group
  <2>1. CASE item \in bm_list BY <1>1, <1>3, <1>4, <1>5, <2>1
  <2>2. CASE Compiled(at) /\ item = [row |-> at, feature |-> feature]
    <3>1. item.row = at /\ item.feature = feature BY <2>2
    <3> QED BY <1>1, <1>3, <1>4, <1>6, <2>2, <3>1
  <2> QED BY <1>1, <2>1, <2>2
<1>8. ASSUME NEW k \in 1 .. (at' - 1), Compiled(k)' PROVE k \in Listed'
  <2>1. CASE k = at
    <3>1. [row |-> at, feature |-> feature] \in bm_list' BY <1>1, <1>3, <1>8, <2>1
    <3> QED BY <2>1, <3>1 DEF Listed
  <2>2. CASE k \in 1 .. at - 1
    <3>1. k \in Listed BY <1>3, <1>5, <1>8, <2>2
    <3>2. bm_list \subseteq bm_list' BY <1>1
    <3> QED BY <3>1, <3>2 DEF Listed
  <2> QED BY <1>4, <2>1, <2>2
<1>9. ASSUME Compiled(at - 1)', Table'[at' - 1].require # "" PROVE required' = Table'[at' - 1].require
  <2>1. Compiled(at) BY <1>1, <1>3, <1>4, <1>9 DEF Compiled
  <2> QED BY <1>1, <1>3, <1>4, <1>9, <2>1 DEF feature
<1>10. Linked' /\ ~Started' BY <1>1 DEF Linked, Started
<1> QED BY <1>4, <1>7, <1>8, <1>9, <1>10 DEF RegistrationInvariant

LEMMA FilterHolds ==
    ASSUME RegistrationInvariant, BuildInvariant, Filter
    PROVE  RegistrationInvariant'
<1>1. /\ phase = "register" /\ phase' = "banner" /\ UNCHANGED <<site, features, at>>
      /\ at > Len(Table)
      /\ IF MultiIsa
         THEN /\ bm_list' = {item \in bm_list : Supports(item.feature)}
              /\ announced' = {t \in UNION {AnnouncedBy(f) : f \in features} : Supports(t)}
         ELSE bm_list' = bm_list
  BY DEF Filter
<1>2. /\ site \in Sites /\ Len(Table) \in Nat /\ DOMAIN Table = 1 .. Len(Table)
      /\ at = Len(Table) + 1 /\ at - 1 = Len(Table)
  <2>1. site \in Sites BY DEF BuildInvariant
  <2>2. Len(Table) \in Nat /\ DOMAIN Table = 1 .. Len(Table) BY <2>1, TableOfSite
  <2>3. at \in 1 .. Len(Table) + 1 BY DEF RegistrationInvariant
  <2> QED BY <1>1, <2>1, <2>2, <2>3
<1>3. /\ Table' = Table /\ MultiIsa' = MultiIsa
      /\ \A k : Compiled(k)' <=> Compiled(k)
      /\ \A token : Supports(token)' <=> Supports(token)
  BY <1>1, SameProgram
<1>4. /\ \A item \in bm_list : /\ item.row \in DOMAIN Table /\ Compiled(item.row)
                               /\ MultiIsa => item.feature = Table[item.row].group
      /\ \A k \in DOMAIN Table : Compiled(k) => k \in Listed
  BY <1>1, <1>2 DEF RegistrationInvariant, MultiIsa
<1>5. \A item \in bm_list' : item \in bm_list /\ (MultiIsa => Supports(item.feature))
  BY <1>1
<1>6. \A item \in bm_list : (MultiIsa => Supports(item.feature)) => item \in bm_list'
  BY <1>1
<1>7. ASSUME NEW k
      PROVE  k \in Listed' <=> k \in DOMAIN Table /\ Compiled(k) /\ (MultiIsa => Supports(Table[k].group))
  <2>1. ASSUME k \in Listed'
        PROVE  k \in DOMAIN Table /\ Compiled(k) /\ (MultiIsa => Supports(Table[k].group))
    <3>1. PICK item \in bm_list' : item.row = k BY <2>1 DEF Listed
    <3> QED BY <1>4, <1>5, <3>1
  <2>2. ASSUME k \in DOMAIN Table, Compiled(k), MultiIsa => Supports(Table[k].group)
        PROVE  k \in Listed'
    <3>1. PICK item \in bm_list : item.row = k BY <1>4, <2>2 DEF Listed
    <3>2. item \in bm_list' BY <1>4, <1>6, <2>2, <3>1
    <3> QED BY <3>1, <3>2 DEF Listed
  <2> QED BY <2>1, <2>2
<1>8. ASSUME NEW item \in bm_list', MultiIsa PROVE item.feature \in announced'
  <2>1. item \in bm_list /\ Supports(item.feature) BY <1>5, <1>8
  <2>2. item.row \in DOMAIN Table /\ Compiled(item.row) /\ item.feature = Table[item.row].group
    BY <1>4, <1>8, <2>1
  <2>3. site.arch = "arm64" BY <1>8 DEF MultiIsa
  <2>4. Table[item.row] \in ArmRows BY <1>2, <2>2, <2>3, TableOfSite, ArmTableRows
  <2>5. item.feature # "_AMX_" BY <2>1, NoMatrixUnit
  <2>6. "_LDP_" \in features BY <1>1, <2>3 DEF BuildInvariant, Linked
  <2>7. Table[item.row].guards \subseteq features BY <2>2 DEF Compiled
  <2>8. \E f \in features : item.feature \in AnnouncedBy(f) BY <2>2, <2>4, <2>5, <2>6, <2>7, NamedRow
  <2> QED BY <1>1, <1>8, <2>1, <2>8
<1>9. at' \in 1 .. Len(Table') + 1 BY <1>1, <1>2, <1>3
<1>10. Linked' /\ phase' # "register" BY <1>1 DEF Linked
<1> QED BY <1>3, <1>7, <1>8, <1>9, <1>10 DEF RegistrationInvariant

\* After the filter nothing changes the list.
LEMMA ListKept ==
    ASSUME RegistrationInvariant, Started, Started',
           UNCHANGED <<site, features, at, bm_list, announced>>
    PROVE  RegistrationInvariant'
<1>1. /\ Table' = Table /\ MultiIsa' = MultiIsa
      /\ \A k : Compiled(k)' <=> Compiled(k)
      /\ \A token : Supports(token)' <=> Supports(token)
  BY SameProgram
<1>2. Linked' /\ phase' # "register" BY DEF Linked, Started
<1>3. Listed' = Listed BY DEF Listed
<1>4. at' \in 1 .. Len(Table') + 1 BY <1>1 DEF RegistrationInvariant
<1>5. /\ \A k : k \in Listed <=> /\ k \in DOMAIN Table /\ Compiled(k)
                                 /\ MultiIsa => Supports(Table[k].group)
      /\ MultiIsa => \A item \in bm_list : item.feature \in announced
  BY DEF RegistrationInvariant
<1> QED BY <1>1, <1>2, <1>3, <1>4, <1>5 DEF RegistrationInvariant

-----------------------------------------------------------------------------
(* What the rows of the list need the core has.                            *)

LEMMA ListMatches == BuildInvariant /\ RegistrationInvariant => RowsMatchCore
<1> SUFFICES ASSUME BuildInvariant, RegistrationInvariant, Started PROVE RowsMatchCore
  BY DEF RowsMatchCore
<1> USE SitesAssumption
<1>1. /\ \A k : k \in Listed <=> /\ k \in DOMAIN Table /\ Compiled(k)
                                 /\ MultiIsa => Supports(Table[k].group)
      /\ MultiIsa => \A item \in bm_list : item.feature \in announced
  BY DEF RegistrationInvariant
<1>2. site \in Sites BY DEF BuildInvariant
<1> SUFFICES ASSUME NEW k \in DOMAIN Table
             PROVE  k \in Listed <=> /\ Table[k].guards \subseteq features
                                     /\ GroupNeeds(Table[k]) \subseteq site.core
  BY <1>1 DEF RowsMatchCore
<1> DEFINE row == Table[k]
<1>3. CASE site.arch = "arm64"
  <2>1. Table = ArmTable /\ row \in ArmRows BY <1>2, <1>3, TableOfSite, ArmTableRows
  <2>2. GroupNeeds(row) = GroupBits(row.group) BY <1>3, <2>1, NeedsOfTable DEF GroupNeeds
  <2>3. RuntimeBits = site.core \cap {"amx"} BY <1>3 DEF RuntimeBits
  <2>4. row.when = (IF row.group = "_AMX_" THEN {"amx"} ELSE {}) BY <2>1, AskedForFirst
  <2>5. GroupBits("_AMX_") = {"amx"} BY OuterNeeds, PlainGroups DEF GroupBits, MixedFamilies
  <2>6. row.when \subseteq RuntimeBits <=> (row.group = "_AMX_" => GroupBits(row.group) \subseteq site.core)
    BY <2>3, <2>4, <2>5
  <2>7. CASE MultiIsa
    <3>1. CASE row.group = "_AMX_"
      <4>1. "amx" \notin site.core BY <1>2, <2>7 DEF MultiIsa
      <4>2. k \notin Listed BY <1>1, <2>7, <3>1, NoMatrixUnit
      <4> QED BY <2>2, <2>5, <3>1, <4>1, <4>2
    <3>2. CASE row.group # "_AMX_"
      <4>1. Supports(row.group) <=> GroupBits(row.group) \subseteq site.core
        BY <2>1, <3>2, NeedsOfGroup, SupportsGroup DEF OnCore
      <4> QED BY <1>1, <2>2, <2>6, <2>7, <3>2, <4>1 DEF Compiled
    <3> QED BY <3>1, <3>2
  <2>8. CASE ~MultiIsa
    <3>1. site.system = "Darwin" BY <1>3, <2>8 DEF MultiIsa
    <3>2. ASSUME row.guards \subseteq features, row.when \subseteq RuntimeBits
          PROVE  GroupBits(row.group) \subseteq site.core
      <4>1. \A f \in features : ArmNeeds(f) \subseteq site.core
        BY <1>3, <3>1 DEF BuildInvariant, Started
      <4>2. {"asimd", "fp16"} \subseteq site.core BY <1>2, <1>3, <3>1
      <4>3. "sme" \in site.core =>
               {"sme_i8i32", "sme_f16f32", "sme_b16f32", "sme_f32f32"} \subseteq site.core
        BY <1>2, <3>1
      <4>4. row.when \subseteq site.core BY <2>3, <3>2
      <4> HIDE DEF row
      <4> QED BY <2>1, <3>2, <4>1, <4>2, <4>3, <4>4, TrustedRow
    <3> QED BY <1>1, <2>2, <2>6, <2>8, <3>2 DEF Compiled
  <2> QED BY <2>7, <2>8
<1>4. CASE site.arch # "arm64"
  <2>1. site.arch = "x64" /\ Table = X86Table /\ ~MultiIsa BY <1>2, <1>4, TableOfSite DEF MultiIsa
  <2>2. row \in X86Rows BY <2>1, X86TableRows
  <2>3. GroupNeeds(row) = row.needs BY <2>1 DEF GroupNeeds
  <2>4. row.when \subseteq RuntimeBits <=> row.needs \subseteq site.core
    BY <1>2, <2>1, <2>2, X86RowRuns
  <2> QED BY <1>1, <2>1, <2>3, <2>4 DEF Compiled
<1> QED BY <1>3, <1>4

LEMMA ListRuns ==
    ASSUME BuildInvariant, RegistrationInvariant, Started, NEW k \in Listed
    PROVE  Table[k].needs \subseteq site.core
<1>1. k \in DOMAIN Table BY DEF RegistrationInvariant
<1>2. GroupNeeds(Table[k]) \subseteq site.core BY <1>1, ListMatches DEF RowsMatchCore
<1>3. Table[k].needs \subseteq GroupNeeds(Table[k]) BY <1>1 DEF GroupNeeds
<1> QED BY <1>2, <1>3

LEMMA ListedIsCompiled ==
    ASSUME BuildInvariant, RegistrationInvariant, NEW k \in Listed
    PROVE  Linked /\ k \in DOMAIN Table /\ Compiled(k)
<1>1. site \in Sites BY DEF BuildInvariant
<1>2. DOMAIN Table = 1 .. Len(Table) /\ Len(Table) \in Nat BY <1>1, TableOfSite
<1>3. PICK item \in bm_list : item.row = k BY DEF Listed
<1>4. Linked BY <1>3 DEF RegistrationInvariant
<1>5. CASE phase = "register"
  <2>1. k \in 1 .. at - 1 /\ Compiled(k) BY <1>3, <1>5 DEF RegistrationInvariant
  <2>2. at \in 1 .. Len(Table) + 1 BY DEF RegistrationInvariant
  <2>3. k \in 1 .. Len(Table) BY <1>2, <2>1, <2>2
  <2> QED BY <1>2, <1>4, <2>1, <2>3
<1>6. CASE phase # "register"
  <2>1. Started BY <1>4, <1>6 DEF BuildInvariant, Phases, Linked, Started
  <2> QED BY <1>4, <2>1 DEF RegistrationInvariant
<1> QED BY <1>5, <1>6

LEMMA ListScales == BuildInvariant /\ RegistrationInvariant => WorkIsScaled
<1> SUFFICES ASSUME BuildInvariant, RegistrationInvariant, NEW k \in Listed,
                    ~Table[k].load, ~Table[k].latency
             PROVE  Credited(Table[k].kernel) = Table[k].kernel.work
  BY DEF WorkIsScaled
<1>1. site \in Sites /\ Linked /\ k \in DOMAIN Table /\ Compiled(k)
  BY ListedIsCompiled DEF BuildInvariant
<1>2. CASE site.arch = "arm64"
  <2>1. Table[k] \in ArmRows BY <1>1, <1>2, TableOfSite, ArmTableRows
  <2>2. Closed(features) BY <1>1, <1>2 DEF BuildInvariant, Linked
  <2>3. Table[k].guards \subseteq features BY <1>1 DEF Compiled
  <2> QED BY <2>1, <2>2, <2>3, WorkOfRow
<1>3. CASE site.arch # "arm64"
  <2>1. Table[k] \in X86Rows BY <1>1, <1>3, TableOfSite, X86TableRows
  <2>2. Table[k].kernel = Fixed BY <2>1, X86Fixed
  <2> QED BY <2>2, CreditOfKind
<1> QED BY <1>2, <1>3

-----------------------------------------------------------------------------
(* What is executed.                                                       *)

ExecutionInvariant ==
    /\ executed \subseteq site.core
    \* a program with a row to run is on a core with the baseline
    /\ phase \in {"frequency", "stream", "issue", "rows"} /\ site.arch = "arm64" =>
          "asimd" \in site.core

DispatchInvariant == BuildInvariant /\ RegistrationInvariant /\ ExecutionInvariant

LEMMA RowNeedsSomething == ASSUME NEW r \in ArmRows PROVE r.needs # {}
<1>1. \A f \in AsimdFamilies \cup {"_SVE_"} \cup SveFamilies \cup SmeOuter \cup {"_SME_", "_SME2_", "_AMX_"} :
          ArmNeeds(f) # {}
  <2>1. \A f \in AsimdFamilies : ArmNeeds(f) # {} BY DEF AsimdFamilies, ArmNeeds
  <2>2. \A f \in SveFamilies : ArmNeeds(f) # {} BY DEF SveFamilies, ArmNeeds
  <2>3. \A f \in SmeOuter : ArmNeeds(f) # {} BY DEF SmeOuter, ArmNeeds
  <2> QED BY <2>1, <2>2, <2>3, OuterNeeds
<1>2. \A f, w : Family(f, w).needs = ArmNeeds(f) BY DEF Family, Row
<1>3. \A f : Half(f).needs # {} BY DEF Half, Keep, Row
<1>4. \A f \in SmeSplit : Row({"_SME_"}, f, SmeBits(f), Outer(32, 4)).needs # {}
  BY SplitNeeds DEF Row, SmeSplit
<1>5. CASE r \in DoubleRows BY <1>5, DoubleFields
<1>6. CASE r \in VectorLoads \cup PairRows \cup MatrixRows
  <2>1. r.needs \in {ArmNeeds("_SVE_"), ArmNeeds("_SME_"), ArmNeeds("_SME2_"), {"asimd"}, ArmNeeds("_AMX_")}
    BY <1>6 DEF VectorLoads, PairRows, MatrixRows, AmxRows, If, Load, Family, Row
  <2> QED BY <1>1, <2>1
<1> QED BY ArmKinds, <1>1, <1>2, <1>3, <1>4, <1>5, <1>6

\* Darwin trusts the machine it was built on.
LEMMA FeatureRuns ==
    ASSUME BuildInvariant, Linked, site.arch = "arm64", NEW f \in features,
           NEW bit, bit \in ArmNeeds(f), Usable(f, bit)
    PROVE  bit \in site.core
BY DEF BuildInvariant, Linked, Usable, OnCore

LEMMA BannerRuns ==
    ASSUME DispatchInvariant, Banner
    PROVE  ExecutionInvariant'
<1> USE SitesAssumption
<1>1. /\ phase = "banner" /\ phase' = "frequency" /\ bm_list # {} /\ UNCHANGED site
      /\ executed' = executed
             \cup (IF site.arch = "arm64" /\ Usable("_SVE_", "sve") THEN {"sve"} ELSE {})
             \cup (IF site.arch = "arm64" /\ Usable("_SME_", "sme") THEN {"sme"} ELSE {})
  BY DEF Banner, Execute
<1>2. /\ BuildInvariant /\ RegistrationInvariant /\ executed \subseteq site.core /\ site \in Sites
      /\ Linked /\ Started
  BY <1>1 DEF DispatchInvariant, ExecutionInvariant, BuildInvariant, Linked, Started
<1>3. site.arch = "arm64" /\ Usable("_SVE_", "sve") => "sve" \in site.core
  BY <1>2, FeatureRuns, OuterNeeds DEF Usable, Defined
<1>4. site.arch = "arm64" /\ Usable("_SME_", "sme") => "sme" \in site.core
  BY <1>2, FeatureRuns, OuterNeeds DEF Usable, Defined
<1>5. executed' \subseteq site.core BY <1>1, <1>2, <1>3, <1>4
<1>6. ASSUME site.arch = "arm64" PROVE "asimd" \in site.core
  <2>1. PICK k : k \in Listed BY <1>1 DEF Listed
  <2>2. k \in DOMAIN Table /\ Table[k].needs \subseteq site.core
    BY <1>2, <2>1, ListRuns, ListedIsCompiled
  <2>3. Table[k].needs # {} BY <1>2, <1>6, <2>2, TableOfSite, ArmTableRows, RowNeedsSomething
  <2>4. site.core # {} BY <2>2, <2>3
  <2> QED BY <1>2, <1>6, <2>4
<1> QED BY <1>1, <1>5, <1>6 DEF ExecutionInvariant

LEMMA FrequencyRuns ==
    ASSUME DispatchInvariant, Frequency
    PROVE  ExecutionInvariant'
<1> USE SitesAssumption
<1>1. /\ phase = "frequency" /\ phase' = "stream" /\ UNCHANGED site
      /\ executed' = executed \cup (IF site.arch = "x64" THEN {"sse", "sse2"}
            ELSE {"asimd"} \cup (IF Defined("_SVE_") /\ OnCore({"sve"}) THEN {"sve"} ELSE {}))
  BY DEF Frequency, Execute
<1>2. /\ executed \subseteq site.core /\ site \in Sites
      /\ site.arch = "arm64" => "asimd" \in site.core
  BY <1>1 DEF DispatchInvariant, ExecutionInvariant, BuildInvariant
<1>3. site.arch = "x64" => {"sse", "sse2"} \subseteq site.core BY <1>2
<1>4. site.arch # "x64" => site.arch = "arm64" BY <1>2
<1>5. executed' \subseteq site.core BY <1>1, <1>2, <1>3, <1>4 DEF OnCore
<1> QED BY <1>1, <1>2, <1>5 DEF ExecutionInvariant

LEMMA StreamRuns ==
    ASSUME DispatchInvariant, Stream
    PROVE  ExecutionInvariant'
<1> USE SitesAssumption
<1>1. /\ phase = "stream" /\ phase' = "issue" /\ UNCHANGED site
      /\ executed' = executed \cup
            (IF site.arch = "arm64"
             THEN {"asimd"} \cup (IF Linux /\ Usable("_SVE_", "sve") THEN {"sve"} ELSE {})
             ELSE IF "avx512f" \in X86Features(site.core) THEN Zmm({})
             ELSE IF "avx" \in X86Features(site.core) THEN Ymm({}) ELSE {"sse"})
  BY DEF Stream, Execute
<1>2. /\ executed \subseteq site.core /\ site \in Sites
      /\ site.arch = "arm64" => "asimd" \in site.core
  BY <1>1 DEF DispatchInvariant, ExecutionInvariant, BuildInvariant
<1>3. Linux /\ Usable("_SVE_", "sve") => "sve" \in site.core
  BY DEF Linux, Usable, OnCore
<1>4. "avx512f" \in X86Features(site.core) => Zmm({}) \subseteq site.core BY X86Bits DEF Zmm
<1>5. "avx" \in X86Features(site.core) => Ymm({}) \subseteq site.core BY X86Bits DEF Ymm
<1>6. site.arch # "arm64" => "sse" \in site.core BY <1>2
<1>7. executed' \subseteq site.core BY <1>1, <1>2, <1>3, <1>4, <1>5, <1>6
<1> QED BY <1>1, <1>2, <1>7 DEF ExecutionInvariant

\* A class of the issue probe that is selected runs.
LEMMA ClassRuns ==
    ASSUME DispatchInvariant, phase = "issue", NEW c \in IssueClasses,
           c.guards \subseteq features, IssueFeature(c.feature)
    PROVE  c.needs \subseteq site.core
<1> USE SitesAssumption
<1>1. /\ BuildInvariant /\ Linked /\ site \in Sites
      /\ site.arch = "arm64" => "asimd" \in site.core
  BY DEF DispatchInvariant, ExecutionInvariant, BuildInvariant, Linked
<1>2. CASE site.arch = "arm64"
  <2>1. \/ c.needs = {"asimd"}
        \/ c.feature = "_SVE_" /\ "_SVE_" \in c.guards /\ c.needs = {"sve"}
        \/ c.feature = "_SME_" /\ "_SME_" \in c.guards /\ c.needs = {"sme"}
        \/ c.feature = "_SME_F64F64_" /\ "_SMEf64_" \in c.guards /\ c.needs = {"sme", "sme_f64f64"}
        \/ c.feature = "_SME_" /\ "_SMEf64_" \in c.guards /\ c.needs = {"sme"}
    <3>1. PICK n : \/ c = Class(n, {}, "", {"asimd"})
                 \/ c = Class(n, {"_SVE_"}, "_SVE_", {"sve"})
                 \/ c = Class(n, {"_SME_"}, "_SME_", {"sme"})
                 \/ c = Class(n, {"_SMEf64_"}, "_SME_F64F64_", {"sme", "sme_f64f64"})
                 \/ c = Class(n, {"_SMEf64_"}, "_SME_", {"sme"})
      BY <1>2 DEF IssueClasses
    <3>2. CASE c = Class(n, {}, "", {"asimd"}) BY <3>2 DEF Class
    <3>3. CASE c = Class(n, {"_SVE_"}, "_SVE_", {"sve"}) BY <3>3 DEF Class
    <3>4. CASE c = Class(n, {"_SME_"}, "_SME_", {"sme"}) BY <3>4 DEF Class
    <3>5. CASE c = Class(n, {"_SMEf64_"}, "_SME_F64F64_", {"sme", "sme_f64f64"})
      BY <3>5 DEF Class
    <3>6. CASE c = Class(n, {"_SMEf64_"}, "_SME_", {"sme"}) BY <3>6 DEF Class
    <3> QED BY <3>1, <3>2, <3>3, <3>4, <3>5, <3>6
  <2>2. CASE c.needs = {"asimd"} BY <1>1, <1>2, <2>2
  <2>3. CASE MultiIsa /\ c.feature \in {"_SVE_", "_SME_", "_SME_F64F64_"}
    <3>1. Supports(c.feature) BY <2>3 DEF IssueFeature
    <3>2. c.feature \in ArmGroups \ {"_AMX_"} BY <2>3 DEF ArmGroups, DoubleTokens
    <3>3. GroupBits(c.feature) \subseteq site.core BY <3>1, <3>2, SupportsGroup DEF OnCore
    <3>4. /\ GroupBits("_SVE_") = {"sve"} /\ GroupBits("_SME_") = {"sme"}
          /\ GroupBits("_SME_F64F64_") = {"sme", "sme_f64f64"}
      <4>1. "_SVE_" \notin SmeTokens /\ "_SVE_" \notin MixedFamilies
        BY PlainGroups DEF MixedFamilies
      <4>2. "_SME_" \in SmeTokens /\ "_SME_F64F64_" \in SmeTokens
        BY TokensOfSme DEF DoubleTokens
      <4> QED BY <4>1, <4>2, OuterNeeds DEF GroupBits
    <3> QED BY <1>1, <1>2, <2>1, <2>3, <3>3, <3>4
  <2>4. CASE ~MultiIsa /\ c.feature \in {"_SVE_", "_SME_", "_SME_F64F64_"}
    <3>1. site.system = "Darwin" BY <1>2, <2>4 DEF MultiIsa
    <3>2. \A f \in features : ArmNeeds(f) \subseteq site.core
      BY <1>1, <1>2, <3>1 DEF BuildInvariant, Linked
    <3>3. \A f \in c.guards : ArmNeeds(f) \subseteq site.core BY <3>2
    <3> QED BY <1>1, <1>2, <2>1, <3>3, OuterNeeds
  <2> QED BY <2>1, <2>2, <2>3, <2>4
<1>3. CASE site.arch = "x64"
  <2>1. \/ c.needs = {"sse"}
        \/ c.feature = "fma" /\ c.needs = Ymm({"fma"})
        \/ c.feature = "avx" /\ c.needs = Ymm({})
        \/ c.feature = "avx512f" /\ c.needs = Zmm({})
    <3>1. PICK n : \/ c = Class(n, {}, "", {"sse"})
                 \/ c = Class(n, {}, "fma", Ymm({"fma"}))
                 \/ c = Class(n, {}, "avx", Ymm({}))
                 \/ c = Class(n, {}, "avx512f", Zmm({}))
      BY <1>3 DEF IssueClasses
    <3>2. \A g, f, b : c = Class(n, g, f, b) => c.feature = f /\ c.needs = b
      BY DEF Class
    <3>3. CASE c = Class(n, {}, "", {"sse"}) BY <3>2, <3>3
    <3>4. CASE c = Class(n, {}, "fma", Ymm({"fma"})) BY <3>2, <3>4
    <3>5. CASE c = Class(n, {}, "avx", Ymm({})) BY <3>2, <3>5
    <3>6. CASE c = Class(n, {}, "avx512f", Zmm({})) BY <3>2, <3>6
    <3> QED BY <3>1, <3>3, <3>4, <3>5, <3>6
  <2>2. c.feature \in {"fma", "avx", "avx512f"} => c.feature \in X86Features(site.core)
    BY <1>3 DEF IssueFeature, MultiIsa
  <2>3. "avx512f" \in X86Features(site.core) => Zmm({}) \subseteq site.core BY X86Bits DEF Zmm
  <2>4. "avx" \in X86Features(site.core) => Ymm({}) \subseteq site.core BY X86Bits DEF Ymm
  <2>5. "fma" \in X86Features(site.core) => Ymm({"fma"}) \subseteq site.core BY X86Bits
  <2>6. "sse" \in site.core BY <1>1, <1>3
  <2> QED BY <2>1, <2>2, <2>3, <2>4, <2>5, <2>6
<1> QED BY <1>1, <1>2, <1>3

LEMMA ClassesRun ==
    ASSUME DispatchInvariant, SelectClasses
    PROVE  ExecutionInvariant'
<1>1. /\ phase = "issue" /\ phase' = "rows" /\ UNCHANGED site
      /\ executed' = executed \cup
            UNION {c.needs : c \in {x \in IssueClasses : x.guards \subseteq features /\ IssueFeature(x.feature)}}
  BY DEF SelectClasses, Execute
<1>2. /\ executed \subseteq site.core
      /\ site.arch = "arm64" => "asimd" \in site.core
  BY <1>1 DEF DispatchInvariant, ExecutionInvariant
<1>3. executed' \subseteq site.core BY <1>1, <1>2, ClassRuns
<1> QED BY <1>1, <1>2, <1>3 DEF ExecutionInvariant

LEMMA RowsRun ==
    ASSUME DispatchInvariant, RunRows
    PROVE  ExecutionInvariant'
<1>1. /\ phase = "rows" /\ phase' = "done" /\ UNCHANGED site
      /\ executed' = executed \cup UNION {Table[k].needs : k \in Listed}
  BY DEF RunRows, Execute
<1>2. executed \subseteq site.core /\ BuildInvariant /\ RegistrationInvariant /\ Started
  BY <1>1 DEF DispatchInvariant, ExecutionInvariant, Started
<1>3. executed' \subseteq site.core BY <1>1, <1>2, ListRuns
<1> QED BY <1>1, <1>3 DEF ExecutionInvariant

LEMMA DispatchInitially == DispatchInit => DispatchInvariant
<1> SUFFICES ASSUME DispatchInit PROVE DispatchInvariant OBVIOUS
<1>1. /\ site \in Sites /\ phase = "detect" /\ features = {} /\ assembled = {}
      /\ at = 1 /\ bm_list = {} /\ executed = {}
  BY DEF DispatchInit, BuildInit
<1>2. BuildInvariant BY <1>1 DEF BuildInvariant, Phases, Linked
<1>3. at \in 1 .. Len(Table) + 1 BY <1>1, TableOfSite
<1>4. RegistrationInvariant BY <1>1, <1>3 DEF RegistrationInvariant, Linked, Started
<1>5. ExecutionInvariant BY <1>1 DEF ExecutionInvariant
<1> QED BY <1>2, <1>4, <1>5 DEF DispatchInvariant

LEMMA DispatchStep == DispatchInvariant /\ DispatchNext => DispatchInvariant'
<1> SUFFICES ASSUME DispatchInvariant, DispatchNext PROVE DispatchInvariant' OBVIOUS
<1>1. BuildInvariant /\ RegistrationInvariant /\ ExecutionInvariant BY DEF DispatchInvariant
<1>2. CASE BuildNext /\ UNCHANGED <<at, required, bm_list, announced, classes, executed>>
  <2>1. BuildInvariant' BY <1>1, <1>2, DetectHolds, AssembleHolds, LinkHolds DEF BuildNext
  <2>2. RegistrationInvariant' BY <1>1, <1>2, BuildRegisters
  <2>3. /\ phase' \in {"assemble", "link", "register", "unlinked"} /\ site' = site
        /\ executed' = executed
    BY <1>2 DEF BuildNext, Detect, Assemble, Link
  <2>4. ExecutionInvariant' BY <1>1, <2>3 DEF ExecutionInvariant
  <2> QED BY <2>1, <2>2, <2>4 DEF DispatchInvariant
<1>3. CASE Register
  <2>1. /\ phase = "register" /\ phase' = "register"
        /\ UNCHANGED <<site, features, assembled, executed>>
    BY <1>3 DEF Register, buildVars
  <2>2. BuildInvariant' BY <1>1, <2>1, BuildKept DEF Phases, Linked
  <2>3. RegistrationInvariant' BY <1>1, <1>3, RegisterHolds
  <2>4. ExecutionInvariant' BY <1>1, <2>1 DEF ExecutionInvariant
  <2> QED BY <2>2, <2>3, <2>4 DEF DispatchInvariant
<1>4. CASE Filter
  <2>1. /\ phase = "register" /\ phase' = "banner"
        /\ UNCHANGED <<site, features, assembled, executed>>
    BY <1>4 DEF Filter
  <2>2. BuildInvariant' BY <1>1, <2>1, BuildKept DEF Phases, Linked
  <2>3. RegistrationInvariant' BY <1>1, <1>4, FilterHolds
  <2>4. ExecutionInvariant' BY <1>1, <2>1 DEF ExecutionInvariant
  <2> QED BY <2>2, <2>3, <2>4 DEF DispatchInvariant
<1>5. CASE Nothing \/ Banner \/ Frequency \/ Stream \/ SelectClasses \/ RunRows
  <2>1. /\ phase \in {"banner", "frequency", "stream", "issue", "rows"}
        /\ phase' \in {"frequency", "stream", "issue", "rows", "done"}
        /\ UNCHANGED <<site, features, assembled, at, bm_list, announced>>
    BY <1>5 DEF Nothing, Banner, Frequency, Stream, SelectClasses, RunRows, Execute
  <2>2. BuildInvariant' BY <1>1, <2>1, BuildKept DEF Phases, Linked
  <2>3. RegistrationInvariant' BY <1>1, <2>1, ListKept DEF Started
  <2>4. ASSUME Nothing PROVE ExecutionInvariant'
    BY <1>1, <2>4 DEF Nothing, ExecutionInvariant
  <2>5. ExecutionInvariant'
    BY <1>5, <2>4, BannerRuns, FrequencyRuns, StreamRuns, ClassesRun, RowsRun
  <2> QED BY <2>2, <2>3, <2>5 DEF DispatchInvariant
<1> QED BY <1>2, <1>3, <1>4, <1>5 DEF DispatchNext

LEMMA DispatchStutters ==
    ASSUME DispatchInvariant, UNCHANGED dispatchVars PROVE DispatchInvariant'
<1>1. UNCHANGED <<site, phase, features, assembled, at, required, bm_list, announced, executed>>
  BY DEF dispatchVars, buildVars
<1>2. BuildInvariant' BY <1>1 DEF DispatchInvariant, BuildInvariant, Phases, Linked, Closed
<1>3. ExecutionInvariant' BY <1>1 DEF DispatchInvariant, ExecutionInvariant
<1>4. RegistrationInvariant'
  <2>1. /\ Table' = Table /\ MultiIsa' = MultiIsa
        /\ \A k : Compiled(k)' <=> Compiled(k)
        /\ \A token : Supports(token)' <=> Supports(token)
    BY <1>1, SameProgram
  <2>2. Listed' = Listed BY <1>1 DEF Listed
  <2>3. Compiled(at - 1)' <=> Compiled(at - 1) BY <1>1, <2>1 DEF Compiled
  <2> QED BY <1>1, <2>1, <2>2 DEF DispatchInvariant, RegistrationInvariant, Linked, Started
<1> QED BY <1>2, <1>3, <1>4 DEF DispatchInvariant

-----------------------------------------------------------------------------
(* The program with the probe between the selection and the rows.          *)

LEMMA ProgramStep ==
    ASSUME DispatchInvariant, [MultiIssueNext]_multiIssueVars PROVE DispatchInvariant'
<1>1. DispatchNext \/ UNCHANGED dispatchVars
  BY DEF MultiIssueNext, BeforeProbe, HandOver, Probe, AfterProbe, DispatchNext, multiIssueVars
<1> QED BY <1>1, DispatchStep, DispatchStutters

LEMMA ProgramInvariant == MultiIssueSpec => []DispatchInvariant
<1>1. MultiIssueInit => DispatchInvariant BY DispatchInitially DEF MultiIssueInit
<1>2. DispatchInvariant /\ [MultiIssueNext]_multiIssueVars => DispatchInvariant' BY ProgramStep
<1> QED BY <1>1, <1>2, PTL DEF MultiIssueSpec

\* Whatever the toolchain accepted, a user forced or another machine detected, the
\* program executes no instruction the core lacks (arm64/cpufb.cpp, x64/cpufb.cpp,
\* issue_probe.cpp and memory_bandwidth.cpp each decide for themselves).
THEOREM OnlyRunnable == MultiIssueSpec => []OnlyRunnableExecuted
<1>1. DispatchInvariant => OnlyRunnableExecuted
  BY DEF DispatchInvariant, ExecutionInvariant, OnlyRunnableExecuted
<1> QED BY <1>1, ProgramInvariant, PTL

\* The list holds the compiled rows the core can execute and no other, although a
\* row of AArch64 carries the feature of the last require_feature before it.
THEOREM ListMatchesCore == MultiIssueSpec => []RowsMatchCore
<1>1. DispatchInvariant => RowsMatchCore BY ListMatches DEF DispatchInvariant
<1> QED BY <1>1, ProgramInvariant, PTL

\* classify_vector_scale finds in the name of every displayed row the vector length
\* its kernel was counted with, and where a family of SVE or SME is compiled its
\* base is, so the macro the scale is applied under is defined.
THEOREM WorkFollowsVectors == MultiIssueSpec => []WorkIsScaled
<1>1. DispatchInvariant => WorkIsScaled BY ListScales DEF DispatchInvariant
<1> QED BY <1>1, ProgramInvariant, PTL

-----------------------------------------------------------------------------
(* The table of the probe.                                                 *)

PairVerdicts == {"missing", "shared", "independent", "partial"}
TripleVerdicts == {"missing", "sum of peaks", "below the sum"}
RowsSaid(mix, verdicts, blocking) ==
    {Entry(mix, total, verdict, blocking) : total \in Nat, verdict \in verdicts}
DeferredRows ==
    RowsSaid(Mixes[1], PairVerdicts, TRUE) \cup RowsSaid(Mixes[1], PairVerdicts, FALSE)
    \cup RowsSaid(Mixes[2], TripleVerdicts, FALSE)
PlainRows == {Plain(item) : item \in {"not measured", "peak", "anchored", "source"}}

TableInvariant ==
    /\ pc \in {"start", "mix", "done"}
    /\ core.triple \in Nat /\ IsFiniteSet(core.available)
    /\ deferred \in Seq(DeferredRows) /\ Len(deferred) <= Len(Mixes)
    /\ pc = "start" => deferred = << >>
    /\ pc # "done" => rows \in Seq(PlainRows)
    /\ FrontEndIsWidest

\* The probe runs once, when its classes are selected.
ProbeInvariant ==
    /\ SearchInv /\ TopKept /\ TableInvariant
    /\ phase \notin {"rows", "done"} => stage = "idle" /\ pc = "start"

LEMMA MixLengths ==
    /\ Len(Mixes) = 2 /\ Len(Mixes[1]) = 2 /\ Len(Mixes[2]) = 3
    /\ Mixes[1] = <<"A", "B">> /\ Mixes[2] = <<"A", "B", "C">>
BY DEF Mixes

LEMMA PlainIsOne == ASSUME NEW row \in PlainRows PROVE Len(row.mix) = 1
<1>1. PICK item : row = Plain(item) BY DEF PlainRows
<1>2. row.mix = <<item>> BY <1>1 DEF Plain, Entry
<1> QED BY <1>2

\* A table without mixes says nothing of the width.
LEMMA PlainSaysNothing == ASSUME rows' \in Seq(PlainRows) PROVE FrontEndIsWidest'
<1>1. \A k \in DOMAIN rows' : Len(rows'[k].mix) = 1
  <2>1. \A k \in DOMAIN rows' : rows'[k] \in PlainRows OBVIOUS
  <2> QED BY <2>1, PlainIsOne
<1>2. \A k \in DOMAIN rows' : ~(Len(rows'[k].mix) > 1)
  <2>1. TAKE k \in DOMAIN rows'
  <2>2. Len(rows'[k].mix) = 1 BY <1>1
  <2> DEFINE length == Len(rows'[k].mix)
  <2>3. length = 1 BY <2>2
  <2> HIDE DEF length
  <2>4. ~(length > 1) BY <2>3
  <2> QED BY <2>4 DEF length
<1>3. {k \in DOMAIN rows' : Len(rows'[k].mix) > 1} = {} BY <1>2
<1>4. MixRows' = {} BY <1>3 DEF MixRows
<1> QED BY <1>4 DEF FrontEndIsWidest

LEMMA SearchIdles ==
    ASSUME SearchInv, curve' = curve, low' = low, high' = high, from' = from, stage' = "idle"
    PROVE  SearchInv' /\ TopKept'
<1>1. SearchInv' BY DEF SearchInv, IsCurve, LastRatio
<1>2. TopKept' BY DEF TopKept, TopInv
<1> QED BY <1>1, <1>2

LEMMA OtherMixes ==
    ASSUME TableInvariant, pc = "mix", UNCHANGED <<pc, core>>, rows' \in Seq(PlainRows),
           Len(deferred) < Len(Mixes), NEW entry \in DeferredRows,
           deferred' = Append(deferred, entry)
    PROVE  TableInvariant'
<1>1. deferred' \in Seq(DeferredRows) /\ Len(deferred') = Len(deferred) + 1 /\ Len(deferred) \in Nat
  BY DEF TableInvariant
<1>2. Len(deferred') <= Len(Mixes') BY <1>1, MixLengths
<1>3. FrontEndIsWidest' BY PlainSaysNothing
  DEF FrontEndIsWidest, MixRows
<1> QED BY <1>1, <1>2, <1>3 DEF TableInvariant

LEMMA MixIsNext ==
    ASSUME TableInvariant, Len(deferred) < Len(Mixes)
    PROVE  (Mix = Mixes[1] /\ IsPair) \/ (Mix = Mixes[2] /\ ~IsPair)
<1> DEFINE n == Len(deferred)
<1>1. n \in Nat BY DEF TableInvariant
<1>2. n < 2
  <2>1. n < Len(Mixes) OBVIOUS
  <2> HIDE DEF n
  <2> QED BY <2>1, MixLengths
<1>3. Mix = Mixes[n + 1] /\ (IsPair <=> Len(Mix) = 2) BY DEF Mix, IsPair
<1> HIDE DEF n
<1>4. n = 0 \/ n = 1 BY <1>1, <1>2
<1>5. CASE n = 0
  <2>1. Mix = Mixes[1] BY <1>3, <1>5
  <2> QED BY <1>3, <2>1, MixLengths
<1>6. CASE n = 1
  <2>1. Mix = Mixes[2] BY <1>3, <1>6
  <2> QED BY <1>3, <2>1, MixLengths
<1> QED BY <1>4, <1>5, <1>6

-----------------------------------------------------------------------------
\* The last step of the probe: the widest stream of all deferred rows.
LEMMA MaxOfTwo ==
    ASSUME NEW x \in Nat, NEW y \in Nat
    PROVE  LET m == Max({x, y, 0}) IN m \in {x, y, 0} /\ x <= m /\ y <= m
<1> DEFINE S == {x, y, 0}
<1>1. \E m \in S : \A z \in S : m >= z
  <2>1. CASE x >= y BY <2>1
  <2>2. CASE y >= x BY <2>2
  <2> QED BY <2>1, <2>2
<1>2. Max(S) \in S /\ \A z \in S : Max(S) >= z BY <1>1 DEF Max
<1>3. Max(S) \in Nat BY <1>2
<1> QED BY <1>2, <1>3

LEMMA SaidFields ==
    ASSUME NEW mix, NEW verdicts, NEW blocking,
           NEW row \in RowsSaid(mix, verdicts, blocking)
    PROVE  \E total \in Nat, verdict \in verdicts :
              /\ row = [mix |-> mix, total |-> total, verdict |-> verdict,
                        blocking |-> blocking, atWidth |-> FALSE]
              /\ row.total = total /\ row.mix = mix /\ row.verdict = verdict
              /\ row.atWidth = FALSE
<1>1. PICK total \in Nat, verdict \in verdicts : row = Entry(mix, total, verdict, blocking)
  BY DEF RowsSaid
<1>2. /\ row.total = total /\ row.mix = mix /\ row.verdict = verdict
      /\ row.atWidth = FALSE
  BY <1>1 DEF Entry
<1> QED BY <1>1, <1>2 DEF Entry

LEMMA DeferredFields ==
    ASSUME NEW row \in DeferredRows
    PROVE  /\ row.total \in Nat /\ Len(row.mix) \in {2, 3}
           /\ row.verdict # "front end" /\ row.atWidth = FALSE
           /\ row.verdict = "shared" => Len(row.mix) = 2
           /\ \E mix, total, verdict, blocking :
                 row = [mix |-> mix, total |-> total, verdict |-> verdict,
                        blocking |-> blocking, atWidth |-> FALSE]
<1>1. ASSUME NEW blocking, row \in RowsSaid(Mixes[1], PairVerdicts, blocking)
      PROVE  /\ row.total \in Nat /\ row.mix = Mixes[1]
             /\ row.verdict # "front end" /\ row.atWidth = FALSE
             /\ \E mix, total, verdict, b :
                   row = [mix |-> mix, total |-> total, verdict |-> verdict,
                          blocking |-> b, atWidth |-> FALSE]
  <2>1. \E total \in Nat, verdict \in PairVerdicts :
           /\ row = [mix |-> Mixes[1], total |-> total, verdict |-> verdict,
                     blocking |-> blocking, atWidth |-> FALSE]
           /\ row.total = total /\ row.mix = Mixes[1] /\ row.verdict = verdict
           /\ row.atWidth = FALSE
    BY <1>1, SaidFields
  <2> QED BY <2>1 DEF PairVerdicts
<1>2. ASSUME NEW blocking, row \in RowsSaid(Mixes[2], TripleVerdicts, blocking)
      PROVE  /\ row.total \in Nat /\ row.mix = Mixes[2]
             /\ row.verdict \notin {"front end", "shared"} /\ row.atWidth = FALSE
             /\ \E mix, total, verdict, b :
                   row = [mix |-> mix, total |-> total, verdict |-> verdict,
                          blocking |-> b, atWidth |-> FALSE]
  <2>1. \E total \in Nat, verdict \in TripleVerdicts :
           /\ row = [mix |-> Mixes[2], total |-> total, verdict |-> verdict,
                     blocking |-> blocking, atWidth |-> FALSE]
           /\ row.total = total /\ row.mix = Mixes[2] /\ row.verdict = verdict
           /\ row.atWidth = FALSE
    BY <1>2, SaidFields
  <2> QED BY <2>1 DEF TripleVerdicts
<1>3. \/ row \in RowsSaid(Mixes[1], PairVerdicts, TRUE)
      \/ row \in RowsSaid(Mixes[1], PairVerdicts, FALSE)
      \/ row \in RowsSaid(Mixes[2], TripleVerdicts, FALSE)
  BY DEF DeferredRows
<1> QED BY <1>1, <1>2, <1>3, MixLengths

Widest(row) == row.total > 0 /\ 100 * row.total >= 95 * IssueWidth

\* What a deferred row becomes: its mix and total stay, and only a row at the
\* width is said to be bounded by the front end.
LEMMA AgainstFields ==
    ASSUME NEW row \in DeferredRows
    PROVE  LET said == AgainstWidth(row)
           IN  /\ said.mix = row.mix /\ said.total = row.total
               /\ said.verdict = "front end" \/ said.atWidth => Widest(row)
               /\ said.verdict = "shared" /\ ~said.blocking => ~Widest(row)
<1> DEFINE said == AgainstWidth(row)
<1>1. /\ row.verdict # "front end" /\ row.atWidth = FALSE
      /\ row.verdict = "shared" => Len(row.mix) = 2
  BY DeferredFields
<1>2. PICK mix, total, verdict, blocking :
         row = [mix |-> mix, total |-> total, verdict |-> verdict,
                blocking |-> blocking, atWidth |-> FALSE]
  BY DeferredFields
<1>3. CASE ~Widest(row)
  <2>1. said = row BY <1>3 DEF AgainstWidth, Widest
  <2> QED BY <1>1, <1>3, <2>1
<1>4. CASE Widest(row) /\ Len(row.mix) = 2 /\ row.verdict = "shared" /\ ~row.blocking
  <2>1. said = [row EXCEPT !.verdict = "front end"] BY <1>4 DEF AgainstWidth, Widest
  <2> QED BY <1>2, <1>4, <2>1
<1>5. CASE Widest(row) /\ ~(Len(row.mix) = 2 /\ row.verdict = "shared" /\ ~row.blocking)
  <2>1. said = [row EXCEPT !.atWidth = Len(row.mix) = 2 \/ row.verdict = "below the sum"]
    BY <1>5 DEF AgainstWidth, Widest
  <2>2. /\ said.mix = row.mix /\ said.total = row.total /\ said.verdict = row.verdict
        /\ said.blocking = row.blocking
    BY <1>2, <2>1
  <2> QED BY <1>1, <1>5, <2>2
<1> QED BY <1>3, <1>4, <1>5

LEMMA WidthBounds ==
    ASSUME deferred \in Seq(DeferredRows), Len(deferred) = 2
    PROVE  /\ IssueWidth \in Nat
           /\ \A i \in {1, 2} : deferred[i] \in DeferredRows /\ deferred[i].total <= IssueWidth
           /\ IssueWidth = 0 \/ \E i \in {1, 2} : deferred[i].total = IssueWidth
<1>1. DOMAIN deferred = {1, 2}
  <2>1. DOMAIN deferred = 1..2 OBVIOUS
  <2> QED BY <2>1
<1>2. \A i \in {1, 2} : deferred[i] \in DeferredRows BY <1>1
<1>3. \A i \in {1, 2} : deferred[i].total \in Nat BY <1>2, DeferredFields
<1>4. Totals \cup {0} = {deferred[1].total, deferred[2].total, 0} BY <1>1 DEF Totals
<1>5. IssueWidth = Max({deferred[1].total, deferred[2].total, 0}) BY <1>4 DEF IssueWidth
<1> QED BY <1>2, <1>3, <1>5, MaxOfTwo

IsMix(row) == Len(row.mix) > 1

LEMMA PlainIsNoMix == ASSUME NEW row \in PlainRows PROVE ~IsMix(row)
<1> DEFINE length == Len(row.mix)
<1>1. length = 1 BY PlainIsOne
<1> HIDE DEF length
<1>2. ~(length > 1) BY <1>1
<1> QED BY <1>2 DEF length, IsMix

LEMMA DeferredIsMix == ASSUME NEW row \in DeferredRows PROVE IsMix(AgainstWidth(row))
<1> DEFINE length == Len(AgainstWidth(row).mix)
<1>1. length \in {2, 3} BY DeferredFields, AgainstFields
<1> HIDE DEF length
<1>2. length > 1 BY <1>1
<1> QED BY <1>2 DEF length, IsMix

LEMMA OneLong == ASSUME NEW T, NEW e \in T PROVE <<e>> \in Seq(T)
OBVIOUS

LEMMA TwoLong == ASSUME NEW T, NEW f \in [1..2 -> T] PROVE f \in Seq(T) /\ Len(f) = 2
<1>1. f \in UNION {[1..n -> T] : n \in Nat} OBVIOUS
<1>2. f \in Seq(T) BY <1>1, SeqDef
<1>3. DOMAIN f = 1..Len(f) /\ Len(f) \in Nat BY <1>2, LenProperties
<1>4. DOMAIN f = 1..2 OBVIOUS
<1>5. Len(f) = 2
  <2> DEFINE length == Len(f)
  <2>1. 1..2 = 1..length /\ length \in Nat BY <1>3, <1>4
  <2> HIDE DEF length
  <2>2. 2 \in 1..2 /\ ~(3 \in 1..2) OBVIOUS
  <2>3. 2 \in 1..length /\ ~(3 \in 1..length) BY <2>1, <2>2
  <2>4. length = 2 BY <2>1, <2>3
  <2> QED BY <2>4 DEF length
<1> QED BY <1>2, <1>5

LEMMA ThreeParts ==
    ASSUME NEW T, NEW front \in Seq(T), NEW middle \in Seq(T), Len(middle) = 2, NEW end \in T
    PROVE  LET n == Len(front)
               whole == front \o middle \o <<end>>
           IN  /\ n \in Nat /\ DOMAIN whole = 1..(n + 3)
               /\ \A k \in 1..n : whole[k] = front[k]
               /\ whole[n + 1] = middle[1] /\ whole[n + 2] = middle[2] /\ whole[n + 3] = end
<1> DEFINE n == Len(front)
           start == front \o middle
           whole == start \o <<end>>
<1>1. n \in Nat OBVIOUS
<1>2. /\ start \in Seq(T) /\ Len(start) = n + Len(middle)
      /\ \A k \in 1..(n + Len(middle)) : start[k] = IF k <= n THEN front[k] ELSE middle[k - n]
  BY ConcatProperties
<1>3. /\ Len(start) = n + 2
      /\ \A k \in 1..(n + 2) : start[k] = IF k <= n THEN front[k] ELSE middle[k - n]
  BY <1>2
<1>4. <<end>> \in Seq(T) /\ Len(<<end>>) = 1 /\ <<end>>[1] = end OBVIOUS
<1>5. /\ whole \in Seq(T) /\ Len(whole) = n + 3
      /\ \A k \in 1..(n + 3) : whole[k] = IF k <= n + 2 THEN start[k] ELSE <<end>>[k - (n + 2)]
  <2> HIDE DEF start
  <2>1. /\ whole \in Seq(T) /\ Len(whole) = Len(start) + Len(<<end>>)
        /\ \A k \in 1..(Len(start) + Len(<<end>>)) :
              whole[k] = IF k <= Len(start) THEN start[k] ELSE <<end>>[k - Len(start)]
    BY <1>2, <1>4, ConcatProperties
  <2>2. (n + 2) + 1 = n + 3 BY <1>1
  <2>3. Len(start) = n + 2 BY <1>3
  <2> QED BY <1>4, <2>1, <2>2, <2>3
<1>6. DOMAIN whole = 1..(n + 3) BY <1>5
<1> HIDE DEF n, start, whole
<1>7. \A k \in 1..n : whole[k] = front[k] BY <1>1, <1>3, <1>5
<1>8. whole[n + 1] = middle[1] /\ whole[n + 2] = middle[2]
  <2>1. (n + 1) - n = 1 /\ (n + 2) - n = 2 BY <1>1
  <2> QED BY <1>1, <1>3, <1>5, <2>1
<1>9. whole[n + 3] = end
  <2>1. (n + 3) - (n + 2) = 1 BY <1>1
  <2> QED BY <1>1, <1>4, <1>5, <2>1
<1> QED BY <1>1, <1>6, <1>7, <1>8, <1>9 DEF n, start, whole

\* The two mixes are the mixes of the table that is printed.
LEMMA FinalMixes ==
    ASSUME rows \in Seq(PlainRows), deferred \in Seq(DeferredRows), Len(deferred) = 2,
           rows' = rows \o [i \in DOMAIN deferred |-> AgainstWidth(deferred[i])]
                        \o <<Plain("source")>>
    PROVE  MixRows' = {AgainstWidth(deferred[1]), AgainstWidth(deferred[2])}
<1> DEFINE said == [i \in DOMAIN deferred |-> AgainstWidth(deferred[i])]
           T == PlainRows \cup {AgainstWidth(deferred[1]), AgainstWidth(deferred[2])}
           n == Len(rows)
<1>1. /\ DOMAIN deferred = 1..2 /\ 1 \in 1..2 /\ 2 \in 1..2
      /\ deferred[1] \in DeferredRows /\ deferred[2] \in DeferredRows
  <2>1. DOMAIN deferred = 1..2 OBVIOUS
  <2>2. deferred \in [1..2 -> DeferredRows] BY LenProperties
  <2> QED BY <2>1, <2>2
<1>2. /\ said \in Seq(T) /\ Len(said) = 2
      /\ said[1] = AgainstWidth(deferred[1]) /\ said[2] = AgainstWidth(deferred[2])
  <2>1. \A i \in 1..2 : said[i] \in T
    <3>1. \A i \in 1..2 : i = 1 \/ i = 2 OBVIOUS
    <3> QED BY <1>1, <3>1
  <2>2. said \in [1..2 -> T] BY <1>1, <2>1
  <2>3. said[1] = AgainstWidth(deferred[1]) /\ said[2] = AgainstWidth(deferred[2]) BY <1>1
  <2> HIDE DEF said, T
  <2>4. said \in Seq(T) /\ Len(said) = 2 BY <2>2, TwoLong
  <2> QED BY <2>3, <2>4
<1>3. rows \in Seq(T) /\ Plain("source") \in T
  <2>1. PlainRows \subseteq T /\ Plain("source") \in PlainRows BY DEF PlainRows
  <2> HIDE DEF T
  <2> QED BY <2>1, SeqMonotonic
<1> HIDE DEF said
<1>4. /\ n \in Nat /\ DOMAIN rows' = 1..(n + 3)
      /\ \A k \in 1..n : rows'[k] = rows[k]
      /\ rows'[n + 1] = said[1] /\ rows'[n + 2] = said[2] /\ rows'[n + 3] = Plain("source")
  <2> HIDE DEF T
  <2>1. rows' = rows \o said \o <<Plain("source")>> BY DEF said
  <2> QED BY <1>2, <1>3, <2>1, ThreeParts
<1>5. \A k \in 1..n : ~IsMix(rows'[k])
  <2>1. \A k \in 1..n : rows[k] \in PlainRows BY <1>4
  <2> QED BY <1>4, <2>1, PlainIsNoMix
<1>6. ~IsMix(rows'[n + 3]) BY <1>4, PlainIsNoMix DEF PlainRows
<1>7. IsMix(said[1]) /\ IsMix(said[2])
  <2>1. IsMix(AgainstWidth(deferred[1])) /\ IsMix(AgainstWidth(deferred[2]))
    BY <1>1, DeferredIsMix
  <2> QED BY <1>2, <2>1
<1> HIDE DEF n
<1>8. {k \in DOMAIN rows' : IsMix(rows'[k])} = {n + 1, n + 2}
  <2>1. \A k \in 1..(n + 3) : k \in 1..n \/ k = n + 1 \/ k = n + 2 \/ k = n + 3 BY <1>4
  <2>2. n + 1 \in 1..(n + 3) /\ n + 2 \in 1..(n + 3) BY <1>4
  <2>3. DOMAIN rows' = 1..(n + 3) BY <1>4
  <2>4. IsMix(rows'[n + 1]) /\ IsMix(rows'[n + 2]) BY <1>4, <1>7
  <2> QED BY <1>5, <1>6, <2>1, <2>2, <2>3, <2>4
<1>9. MixRows' = {rows'[k] : k \in {j \in DOMAIN rows' : IsMix(rows'[j])}} BY DEF MixRows, IsMix
<1>10. rows'[n + 1] = said[1] /\ rows'[n + 2] = said[2] BY <1>4
<1> QED BY <1>2, <1>8, <1>9, <1>10

LEMMA FinishHolds == ASSUME TableInvariant, Finish PROVE TableInvariant'
<1>1. /\ Len(deferred) = 2 /\ deferred \in Seq(DeferredRows) /\ rows \in Seq(PlainRows)
  BY MixLengths DEF TableInvariant, Finish
<1>2. MixRows' = {AgainstWidth(deferred[1]), AgainstWidth(deferred[2])}
  BY <1>1, FinalMixes DEF Finish
<1>3. ASSUME NEW row \in MixRows'
      PROVE  /\ row.total \in Nat /\ row.total <= IssueWidth
             /\ row.verdict = "front end" \/ row.atWidth => Widest(row)
             /\ row.verdict = "shared" /\ ~row.blocking => ~Widest(row)
  <2>1. PICK i \in {1, 2} : row = AgainstWidth(deferred[i]) BY <1>2, <1>3
  <2>2. deferred[i] \in DeferredRows /\ deferred[i].total <= IssueWidth BY <1>1, WidthBounds
  <2>3. deferred[i].total \in Nat BY <2>2, DeferredFields
  <2>4. /\ row.total = deferred[i].total
        /\ row.verdict = "front end" \/ row.atWidth => Widest(deferred[i])
        /\ row.verdict = "shared" /\ ~row.blocking => ~Widest(deferred[i])
    BY <2>1, <2>2, AgainstFields
  <2> QED BY <2>2, <2>3, <2>4 DEF Widest
<1>4. IssueWidth \in Nat /\ (IssueWidth = 0 \/ \E wider \in MixRows' : wider.total = IssueWidth)
  BY <1>1, <1>2, WidthBounds, AgainstFields
<1>5. FrontEndIsWidest'
  <2>1. SUFFICES ASSUME NEW row \in MixRows', NEW other \in MixRows'
        PROVE  /\ row.verdict = "front end" \/ row.atWidth => 100 * row.total >= 95 * other.total
               /\ row.verdict = "shared" /\ ~row.blocking /\ row.total > 0 =>
                     \E wider \in MixRows' : 100 * row.total < 95 * wider.total
    BY DEF FrontEndIsWidest
  <2> DEFINE width == IssueWidth
             mine == row.total
             theirs == other.total
  <2>2. /\ width \in Nat /\ mine \in Nat /\ mine <= width
        /\ theirs \in Nat /\ theirs <= width
    BY <1>3, <1>4
  <2>3. ASSUME row.verdict = "front end" \/ row.atWidth
        PROVE  100 * row.total >= 95 * other.total
    <3>1. 100 * mine >= 95 * width BY <1>3, <2>3 DEF Widest
    <3> HIDE DEF width, mine, theirs
    <3>2. 100 * mine >= 95 * theirs BY <2>2, <3>1
    <3> QED BY <3>2 DEF mine, theirs
  <2>4. ASSUME row.verdict = "shared", ~row.blocking, row.total > 0
        PROVE  \E wider \in MixRows' : 100 * row.total < 95 * wider.total
    <3>1. mine > 0 /\ ~(100 * mine >= 95 * width) BY <1>3, <2>4 DEF Widest
    <3>2. 100 * mine < 95 * width /\ width # 0
      <4> HIDE DEF width, mine, theirs
      <4> QED BY <2>2, <3>1
    <3>3. PICK wider \in MixRows' : wider.total = width BY <1>4, <3>2
    <3> QED BY <3>2, <3>3
  <2> QED BY <2>3, <2>4
<1> QED BY <1>5 DEF TableInvariant, Finish

-----------------------------------------------------------------------------
(* The steps of the probe.                                                 *)

LEMMA SaidRow ==
    ASSUME NEW mix, NEW verdicts, NEW blocking, NEW total \in Nat, NEW verdict \in verdicts
    PROVE  Entry(mix, total, verdict, blocking) \in RowsSaid(mix, verdicts, blocking)
BY DEF RowsSaid

LEMMA PeaksHold == ASSUME TableInvariant, MeasurePeaks PROVE TableInvariant'
<1> DEFINE n == Cardinality(core.available)
<1>1. n \in Nat BY FS_CardinalityType DEF TableInvariant
<1>2. rows' = [i \in 1..n |-> Plain("peak")] BY DEF MeasurePeaks
<1>3. Plain("peak") \in PlainRows BY DEF PlainRows
<1>4. rows' \in Seq(PlainRows)
  <2> HIDE DEF n
  <2> QED BY <1>1, <1>2, <1>3
<1>5. FrontEndIsWidest' BY <1>4, PlainSaysNothing
<1>6. deferred = << >> /\ deferred' = << >> /\ core' = core /\ pc' = "mix"
  BY DEF TableInvariant, MeasurePeaks
<1> QED BY <1>4, <1>5, <1>6, MixLengths DEF TableInvariant

LEMMA StartHolds == ASSUME TableInvariant, Unusable \/ NoBuffer PROVE TableInvariant'
<1>1. /\ UNCHANGED <<core, deferred>> /\ pc' = "done"
      /\ rows' = rows \/ rows' = <<Plain("not measured")>>
      /\ rows \in Seq(PlainRows)
  BY DEF Unusable, NoBuffer, TableInvariant
<1>2. <<Plain("not measured")>> \in Seq(PlainRows)
  <2>1. Plain("not measured") \in PlainRows BY DEF PlainRows
  <2> QED BY <2>1, OneLong
<1>3. FrontEndIsWidest' BY <1>1, <1>2, PlainSaysNothing
<1> QED BY <1>1, <1>3 DEF TableInvariant

LEMMA MissingHolds == ASSUME TableInvariant, MissingClass PROVE TableInvariant'
<1>1. PICK entry \in DeferredRows : deferred' = Append(deferred, entry)
  <2>1. deferred' = Append(deferred, Entry(Mix, 0, "missing", FALSE)) BY DEF MissingClass
  <2>2. Mix = Mixes[1] \/ Mix = Mixes[2] BY MixIsNext DEF MissingClass
  <2>3. "missing" \in PairVerdicts /\ "missing" \in TripleVerdicts /\ 0 \in Nat
    BY DEF PairVerdicts, TripleVerdicts
  <2>4. Entry(Mix, 0, "missing", FALSE) \in DeferredRows
    <3>1. /\ Entry(Mixes[1], 0, "missing", FALSE) \in RowsSaid(Mixes[1], PairVerdicts, FALSE)
          /\ Entry(Mixes[2], 0, "missing", FALSE) \in RowsSaid(Mixes[2], TripleVerdicts, FALSE)
      BY <2>3, SaidRow
    <3> QED BY <2>2, <3>1 DEF DeferredRows
  <2> QED BY <2>1, <2>4
<1>2. rows' \in Seq(PlainRows) BY DEF TableInvariant, MissingClass
<1> QED BY <1>1, <1>2, OtherMixes DEF MissingClass

LEMMA TripleHolds == ASSUME TableInvariant, Triple PROVE TableInvariant'
<1>1. PICK verdict \in TripleVerdicts :
         deferred' = Append(deferred, Entry(Mix, core.triple, verdict, FALSE))
  <2> DEFINE verdict ==
          IF 100 * core.triple >= 95 * (Peak("A") + Peak("B") + Peak("C"))
          THEN "sum of peaks" ELSE "below the sum"
  <2>1. deferred' = Append(deferred, Entry(Mix, core.triple, verdict, FALSE)) BY DEF Triple
  <2>2. verdict \in TripleVerdicts BY DEF TripleVerdicts
  <2> QED BY <2>1, <2>2
<1>2. Mix = Mixes[2] BY MixIsNext DEF Triple
<1>3. Entry(Mix, core.triple, verdict, FALSE) \in DeferredRows
  <2>1. core.triple \in Nat BY DEF TableInvariant
  <2>2. Entry(Mixes[2], core.triple, verdict, FALSE) \in RowsSaid(Mixes[2], TripleVerdicts, FALSE)
    BY <2>1, SaidRow
  <2> QED BY <1>2, <2>2 DEF DeferredRows
<1>4. rows' \in Seq(PlainRows) BY DEF TableInvariant, Triple
<1> QED BY <1>1, <1>3, <1>4, OtherMixes DEF Triple

LEMMA PairHolds == ASSUME SearchInv, TableInvariant, PairDone PROVE TableInvariant'
<1> DEFINE pure == best \in {0, LastRatio} /\ from = high
           verdict == Sharing(Peak("A"), Peak("B"), curve[best])
           entry == Entry(Mix, curve[best], verdict, pure)
<1>1. deferred' = Append(deferred, entry) BY DEF PairDone
<1>2. Mix = Mixes[1] BY MixIsNext DEF PairDone
<1>3. curve[best] \in Nat
  BY DEF PairDone, Found, SearchInv, BestInv, Ratios, IsCurve
<1>4. verdict \in PairVerdicts BY DEF Sharing, PairVerdicts
<1>5. entry \in DeferredRows
  <2> HIDE DEF verdict
  <2>1. CASE pure
    <3>1. entry = Entry(Mixes[1], curve[best], verdict, TRUE) BY <1>2, <2>1
    <3> HIDE DEF entry, pure
    <3>2. entry \in RowsSaid(Mixes[1], PairVerdicts, TRUE) BY <1>3, <1>4, <3>1, SaidRow
    <3> QED BY <3>2 DEF DeferredRows
  <2>2. CASE ~pure
    <3>1. entry = Entry(Mixes[1], curve[best], verdict, FALSE) BY <1>2, <2>2
    <3> HIDE DEF entry, pure
    <3>2. entry \in RowsSaid(Mixes[1], PairVerdicts, FALSE) BY <1>3, <1>4, <3>1, SaidRow
    <3> QED BY <3>2 DEF DeferredRows
  <2> QED BY <2>1, <2>2
<1> HIDE DEF entry
<1>6. rows' \in Seq(PlainRows)
  <2>1. Plain("anchored") \in PlainRows BY DEF PlainRows
  <2>2. rows \in Seq(PlainRows) BY DEF PairDone, TableInvariant
  <2>3. Append(rows, Plain("anchored")) \in Seq(PlainRows) BY <2>1, <2>2, AppendProperties
  <2> QED BY <2>2, <2>3 DEF PairDone
<1> QED BY <1>1, <1>5, <1>6, OtherMixes DEF PairDone

LEMMA TableKept ==
    ASSUME TableInvariant, UNCHANGED <<pc, deferred, rows>>, core'.triple \in Nat,
           IsFiniteSet(core'.available)
    PROVE  TableInvariant'
<1>1. MixRows' = MixRows BY DEF MixRows
<1>2. FrontEndIsWidest' BY <1>1 DEF TableInvariant, FrontEndIsWidest
<1> QED BY <1>2 DEF TableInvariant

LEMMA ProbeInitially == MultiIssueInit => ProbeInvariant
<1> SUFFICES ASSUME MultiIssueInit PROVE ProbeInvariant OBVIOUS
<1>1. SearchInv BY InitSearchInv DEF MultiIssueInit, ProbeInit
<1>2. TopKept BY DEF MultiIssueInit, ProbeInit, SearchInit, TopKept, TopInv
<1>3. TableInvariant
  <2>1. core.triple = 0 /\ core.available = {} BY DEF MultiIssueInit, Unread
  <2>2. pc = "start" /\ deferred = << >> /\ rows = << >> BY DEF MultiIssueInit, ProbeInit
  <2>3. MixRows = {} BY <2>2 DEF MixRows
  <2>4. IsFiniteSet({}) BY FS_EmptySet
  <2> QED BY <2>1, <2>2, <2>3, <2>4, MixLengths DEF TableInvariant, FrontEndIsWidest
<1>4. stage = "idle" /\ pc = "start" BY DEF MultiIssueInit, ProbeInit, SearchInit
<1> QED BY <1>1, <1>2, <1>3, <1>4 DEF ProbeInvariant

\* The probe begins with the curve of the pair it is handed.
LEMMA HandOverHolds == ASSUME ProbeInvariant, HandOver PROVE ProbeInvariant'
<1>1. phase = "issue" /\ stage = "idle" /\ pc = "start"
  BY DEF HandOver, SelectClasses, ProbeInvariant
<1>2. PICK reading \in Cores :
         /\ core' = [pair |-> reading.pair, third |-> reading.third,
                     triple |-> reading.triple, anchored |-> Trio.A = "sme_fmopa_f64",
                     available |-> {letter \in DOMAIN Trio : Trio[letter] \in classes'}]
         /\ curve' = reading.pair
  BY DEF HandOver
<1>3. UNCHANGED <<pc, deferred, rows, stage, low, high, from, known, best>> BY DEF HandOver
<1>4. IsCurve' BY <1>2, ReadingsAssumption DEF IsCurve, LastRatio
<1>5. SearchInv' BY <1>1, <1>3, <1>4 DEF ProbeInvariant, SearchInv
<1>6. TopKept' BY <1>1, <1>3 DEF TopKept, TopInv
<1>7. core'.triple \in Nat BY <1>2, ReadingsAssumption
<1>8. IsFiniteSet(core'.available)
  <2>1. DOMAIN Trio = {"A", "B", "C"} BY DEF Trio
  <2>2. core'.available \subseteq {"A", "B", "C"} BY <1>2, <2>1
  <2>3. IsFiniteSet({"A", "B", "C"})
    <3>1. IsFiniteSet({"A"}) BY FS_Singleton
    <3>2. IsFiniteSet({"A"} \cup {"B"}) BY <3>1, FS_AddElement
    <3>3. IsFiniteSet(({"A"} \cup {"B"}) \cup {"C"}) BY <3>2, FS_AddElement
    <3>4. {"A", "B", "C"} = ({"A"} \cup {"B"}) \cup {"C"} OBVIOUS
    <3> QED BY <3>3, <3>4
  <2> QED BY <2>2, <2>3, FS_Subset
<1>9. TableInvariant' BY <1>3, <1>7, <1>8, TableKept DEF ProbeInvariant
<1>10. stage' = "idle" /\ pc' = "start" BY <1>1, <1>3
<1> QED BY <1>5, <1>6, <1>9, <1>10 DEF ProbeInvariant

LEMMA ProbeHolds == ASSUME ProbeInvariant, Probe PROVE ProbeInvariant'
<1>1. /\ SearchInv /\ TopKept /\ TableInvariant /\ phase' = "rows"
      /\ ProbeNext
  BY DEF ProbeInvariant, Probe, dispatchVars, buildVars
<1>2. CASE SearchPair
  <2>1. SearchInv' /\ TopKept' BY <1>1, <1>2, NextSearchInv, NextTopKept DEF SearchPair
  <2>2. TableInvariant' BY <1>1, <1>2, TableKept DEF SearchPair, probeVars, TableInvariant
  <2> QED BY <1>1, <2>1, <2>2 DEF ProbeInvariant
<1>3. CASE PairDone
  <2>1. SearchInv' /\ TopKept' BY <1>1, <1>3, SearchIdles DEF PairDone
  <2>2. TableInvariant' BY <1>1, <1>3, PairHolds
  <2> QED BY <1>1, <2>1, <2>2 DEF ProbeInvariant
<1>4. CASE Unusable \/ NoBuffer \/ MeasurePeaks \/ MissingClass \/ Triple \/ Finish
  <2>1. UNCHANGED searchVars BY <1>4 DEF Unusable, NoBuffer, MeasurePeaks, MissingClass, Triple, Finish
  <2>2. SearchInv' /\ TopKept' BY <1>1, <2>1, NextSearchInv, NextTopKept
  <2>3. TableInvariant'
    BY <1>1, <1>4, StartHolds, PeaksHold, MissingHolds, TripleHolds, FinishHolds
  <2> QED BY <1>1, <2>2, <2>3 DEF ProbeInvariant
<1> QED BY <1>1, <1>2, <1>3, <1>4 DEF ProbeNext

LEMMA ProbeStep ==
    ASSUME ProbeInvariant, [MultiIssueNext]_multiIssueVars PROVE ProbeInvariant'
<1>1. CASE HandOver BY <1>1, HandOverHolds
<1>2. CASE Probe BY <1>2, ProbeHolds
<1>3. CASE BeforeProbe \/ AfterProbe \/ UNCHANGED multiIssueVars
  <2>1. UNCHANGED issueVars BY <1>3 DEF BeforeProbe, AfterProbe, multiIssueVars
  <2>2. UNCHANGED searchVars /\ UNCHANGED <<pc, core, deferred, rows>>
    BY <2>1 DEF issueVars, probeVars
  <2>3. SearchInv' /\ TopKept' BY <2>2, NextSearchInv, NextTopKept DEF ProbeInvariant
  <2>4. TableInvariant' BY <2>2, TableKept DEF ProbeInvariant, TableInvariant
  <2>5. phase' \notin {"rows", "done"} => phase \notin {"rows", "done"}
    BY <1>3 DEF BeforeProbe, AfterProbe, RunRows, BuildNext, Detect, Assemble, Link, Register,
                Filter, Nothing, Banner, Frequency, Stream, multiIssueVars, dispatchVars, buildVars
  <2> QED BY <2>2, <2>3, <2>4, <2>5 DEF ProbeInvariant, searchVars
<1> QED BY <1>1, <1>2, <1>3 DEF MultiIssueNext

LEMMA ProbeInvariance == MultiIssueSpec => []ProbeInvariant
BY ProbeInitially, ProbeStep, PTL DEF MultiIssueSpec

\* No pair of the table is said to share ports while it issues as much as the
\* widest stream, whatever the classes and whatever was read of them.
THEOREM WidthExplains == MultiIssueSpec => []FrontEndIsWidest
<1>1. ProbeInvariant => FrontEndIsWidest BY DEF ProbeInvariant, TableInvariant
<1> QED BY <1>1, ProbeInvariance, PTL

\* The search keeps its promise inside the program too: it starts afresh on the
\* curve that is handed over and the verdict reads it before anything moves on.
THEOREM SearchedInProgram == MultiIssueSpec => [](ResultIsConsistent /\ MaximumFound)
<1>1. ProbeInvariant => ResultIsConsistent /\ MaximumFound
  BY SearchInvGivesResult, TopFound DEF ProbeInvariant
<1> QED BY <1>1, ProbeInvariance, PTL
=============================================================================
