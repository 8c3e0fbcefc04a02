--------------------------- MODULE CacheRowsProofs ---------------------------
(***************************************************************************)
(* For every list of caches an operating system can report, every number   *)
(* of cores, budget and request: an L3 row and a memory row are what their *)
(* labels say.  First the arithmetic of whole blocks, then what the        *)
(* topology is asked for against what it lists, then the worksets, and     *)
(* that a row never says more than the workset it was streamed over, and   *)
(* that no stream that fails moves or removes the row of another.  Then    *)
(* that the cache table streams as StreamWorksets says, whatever the       *)
(* probes before and the load rows after find.  Then that each order the   *)
(* prefetch probe links has every line once, that its chase makes one lap  *)
(* of them, what the machine takes for it, and what the analysis makes of  *)
(* those times although one was disturbed.  Last that a load row is sized  *)
(* between the level it names and the one below.                           *)
(***************************************************************************)
EXTENDS CacheRows, CacheProbesProofs, FiniteSetTheorems, SequenceTheorems,
        WellFoundedInduction, TLAPS

(***************************************************************************)
(* Numbers.                                                                *)
(***************************************************************************)

\* A product of a quotient is no more than what was divided.
LEMMA DivBounds ==
    ASSUME NEW a \in Nat, NEW n \in Nat \ {0}
    PROVE  a \div n \in Nat /\ n * (a \div n) <= a /\ a < n * (a \div n + 1) /\ a \div n <= a
OBVIOUS

LEMMA WholeTimes ==
    ASSUME NEW q \in Nat, NEW n \in Nat \ {0}
    PROVE  (n * q) % n = 0
OBVIOUS

LEMMA Divided ==
    ASSUME NEW a \in Nat, NEW n \in Nat \ {0}
    PROVE  \E q \in Nat : a = q * n + (a % n)
<1> DEFINE q == a \div n
           r == a % n
<1>1. q \in Nat /\ a = n * q + r OBVIOUS
<1> HIDE DEF q, r
<1>2. n * q = q * n BY <1>1
<1>3. a = q * n + r BY <1>1, <1>2
<1> QED BY <1>1, <1>3 DEF r

\* Cutting to whole blocks loses less than one.
LEMMA ModBounds ==
    ASSUME NEW a \in Nat, NEW n \in Nat \ {0}
    PROVE  /\ a % n \in 0..(n - 1) /\ a % n <= a
           /\ a - (a % n) \in Nat /\ a - (a % n) <= a /\ a - (a % n) > a - n
           /\ (a - (a % n)) % n = 0
<1>1. a % n \in 0..(n - 1) OBVIOUS
<1>2. a % n <= a OBVIOUS
<1>3. (a - (a % n)) % n = 0
  <2>1. a - (a % n) = n * (a \div n) OBVIOUS
  <2>2. a \div n \in Nat OBVIOUS
  <2>3. (n * (a \div n)) % n = 0 BY <2>2, WholeTimes
  <2> QED BY <2>1, <2>3
<1> QED BY <1>1, <1>2, <1>3

LEMMA QuotientBound ==
    ASSUME NEW a \in Nat, NEW b \in Nat, NEW n \in Nat \ {0}
    PROVE  /\ a <= b \div n => a * n <= b
           /\ a > b \div n => n * a > b
OBVIOUS

LEMMA TimesMonotone ==
    ASSUME NEW a \in Nat, NEW b \in Nat, NEW n \in Nat \ {0}
    PROVE  /\ a <= b => n * a <= n * b
           /\ a < b => n * a < n * b
           /\ a <= n * a
OBVIOUS

LEMMA RemainderOfSmall ==
    ASSUME NEW a \in Nat, NEW n \in Nat \ {0}, a < n
    PROVE  a % n = a
OBVIOUS

\* A set of naturals with a bound has its Max: the numbers above an element are
\* a finite set, and the smallest such set is that of the largest element.
LEMMA MaxOfBounded ==
    ASSUME NEW m \in Nat, NEW S, S \subseteq 0..m, S # {}
    PROVE  Max(S) \in S /\ \A y \in S : Max(S) >= y
<1> DEFINE Greater(x) == {z \in S : z > x}
           T == {Greater(x) : x \in S}
           R == StrictSubsetOrdering(S)
<1>1. IsFiniteSet(S)
  <2>1. IsFiniteSet(0..m) BY FS_Interval
  <2> QED BY <2>1, FS_Subset
<1>2. T \subseteq FiniteSubsetsOf(S)
  <2>1. \A x \in S : Greater(x) \subseteq S OBVIOUS
  <2>2. \A x \in S : IsFiniteSet(Greater(x)) BY <1>1, <2>1, FS_Subset
  <2> QED BY <2>1, <2>2 DEF FiniteSubsetsOf
<1>3. T # {} OBVIOUS
<1>4. PICK t \in T : \A u \in T : <<u, t>> \notin R
  <2>1. IsWellFoundedOn(R, FiniteSubsetsOf(S)) BY FS_StrictSubsetOrderingWellFounded
  <2> HIDE DEF T, R
  <2> QED BY <1>2, <1>3, <2>1, WFMin
<1>5. PICK x \in S : t = Greater(x) OBVIOUS
<1>6. \A y \in S : x >= y
  <2> SUFFICES ASSUME NEW y \in S, y > x PROVE FALSE OBVIOUS
  <2>1. Greater(y) \subseteq Greater(x)
    <3>1. \A z \in S : z \in Int OBVIOUS
    <3>2. \A z \in S : z > y => z > x BY <3>1
    <3> QED BY <3>2
  <2>2. y \in Greater(x) /\ y \notin Greater(y) OBVIOUS
  <2>3. <<Greater(y), Greater(x)>> \in R BY <2>1, <2>2 DEF StrictSubsetOrdering
  <2> QED BY <1>4, <1>5, <2>3
<1> QED BY <1>6 DEF Max

LEMMA MaxIs ==
    ASSUME NEW S, S \subseteq Nat, NEW x \in S, \A y \in S : x >= y
    PROVE  Max(S) = x
<1>1. \A z \in S : (\A y \in S : z >= y) => z = x
  <2> SUFFICES ASSUME NEW z \in S, z >= x PROVE z = x OBVIOUS
  <2>1. x >= z /\ x \in Nat /\ z \in Nat OBVIOUS
  <2> QED BY <2>1
<1> QED BY <1>1 DEF Max

LEMMA MinOf ==
    ASSUME NEW S, S \subseteq Nat, S # {}
    PROVE  Min(S) \in S /\ \A y \in S : Min(S) <= y
<1>1. PICK s \in S : s \in Nat OBVIOUS
<1> DEFINE D == {d \in 0..s : s - d \in S}
           e == Max(D)
<1>2. e \in D /\ \A d \in D : e >= d
  <2>1. 0 \in D BY <1>1
  <2>2. D \subseteq 0..s /\ D # {} BY <2>1
  <2> HIDE DEF D
  <2> QED BY <1>1, <2>2, MaxOfBounded
<1> HIDE DEF e
<1>3. \A y \in S : s - e <= y
  <2> SUFFICES ASSUME NEW y \in S PROVE s - e <= y OBVIOUS
  <2>1. y \in Nat /\ e \in 0..s BY <1>2
  <2>2. CASE y > s BY <1>1, <2>1, <2>2
  <2>3. CASE y <= s
    <3>1. s - (s - y) = y /\ s - y \in 0..s BY <1>1, <2>1, <2>3
    <3>2. s - y \in D BY <3>1
    <3> QED BY <1>1, <1>2, <2>1, <3>2
  <2> QED BY <1>1, <2>1, <2>2, <2>3
<1>4. s - e \in S BY <1>2
<1> QED BY <1>3, <1>4 DEF Min

\* The largest of some sizes, and 0 where there are none.
LEMMA LargestOfBounded ==
    ASSUME NEW m \in Nat, NEW S, S \subseteq 0..m
    PROVE  /\ LargestOf(S) \in S \cup {0}
           /\ \A y \in S : LargestOf(S) >= y
           /\ LargestOf(S) \in 0..m
BY MaxOfBounded, S \cup {0} \subseteq 0..m DEF LargestOf

(***************************************************************************)
(* The topology: the largest size listed is what the detectors return.     *)
(***************************************************************************)

\* The machine and the request are as they were, and among those considered.
Unchanging ==
    /\ host \in [os : Systems, measured : Measured, budget : Budgets]
    /\ ask \in [table : BOOLEAN, mib : Requests]

LEMMA Constants ==
    ASSUME Unchanging
    PROVE  /\ SystemOK(host.os, MaxSize)
           /\ host.measured \in 0..MaxSize /\ host.budget \in 0..MaxSize /\ ask.mib \in 0..MaxSize
           /\ host.measured = 0 \/ host.measured - host.measured \div 4 >= Block["read"]
           /\ Block["read"] \in Nat \ {0} /\ MaxSize \in Nat /\ MaxBlocks \in Nat
           /\ Floor \in Nat /\ Fallback \in Nat /\ MiB \in Nat \ {0}
           /\ MaxBlocks * Block["read"] < MaxSize
BY WorksetAssumption DEF Unchanging

LEMMA SomeCores ==
    ASSUME Unchanging
    PROVE  N \in Nat \ {0} /\ 1 \in Cpus
<1>1. IsFiniteSet(Cpus) /\ 1 \in Cpus BY Constants DEF SystemOK, Cpus
<1> QED BY <1>1, FS_CardinalityType, FS_EmptySet DEF N

\* What the system lists of the data caches of a core.
LEMMA DataCachesListed ==
    ASSUME Unchanging, NEW c \in Cpus, host.os.interface # "sysctl", NEW l \in 1..4,
           host.os.interface = "windows" => l <= 3
    PROVE  /\ Listed(c, l) \subseteq 0..MaxSize
           /\ host.os.interface # "none" => At(host.os, c, l) \in Listed(c, l) \cup {0}
           /\ host.os.interface # "none" => \A b \in Listed(c, l) : At(host.os, c, l) >= b
           /\ host.os.interface # "none" => At(host.os, c, l) \in 0..MaxSize
           /\ host.os.interface = "none" => Listed(c, l) = {}
<1> DEFINE S == {e.bytes : e \in {d \in DataCaches(host.os, c) : d.level = l}}
<1>1. /\ \A e \in Range(host.os.caches[c]) :
             e.type \in {"data", "unified", "instruction"} /\ e.bytes \in 0..MaxSize
      /\ host.os.interface = "none" => Range(host.os.caches[c]) = {}
  BY Constants DEF SystemOK, Cpus
<1>2. Listed(c, l) = {e.bytes : e \in {d \in Range(host.os.caches[c]) :
                                          d.level = l /\ d.type # "instruction"}}
  BY DEF Listed
<1>3. S \subseteq Listed(c, l)
  BY <1>1, <1>2 DEF DataCaches
<1>4. Listed(c, l) \subseteq S \cup {0}
  <2> SUFFICES ASSUME NEW d \in Range(host.os.caches[c]), d.level = l, d.type # "instruction",
                      d.bytes # 0
               PROVE  d.bytes \in S
    BY <1>2
  <2>1. d \in DataCaches(host.os, c) BY <1>1 DEF DataCaches
  <2> QED BY <2>1
<1>5. Listed(c, l) \subseteq 0..MaxSize BY <1>1, <1>2
<1>6. At(host.os, c, l) = LargestOf(S) BY DEF At
<1> HIDE DEF S
<1>7. S \subseteq 0..MaxSize BY <1>3, <1>5
<1>8. LargestOf(S) \in S \cup {0} /\ (\A b \in S : LargestOf(S) >= b) /\ LargestOf(S) \in 0..MaxSize
  BY <1>7, Constants, LargestOfBounded
<1>9. \A b \in Listed(c, l) : LargestOf(S) >= b BY <1>4, <1>8
<1>10. host.os.interface = "none" => Listed(c, l) = {} BY <1>1, <1>2
<1> QED BY <1>3, <1>5, <1>6, <1>8, <1>9, <1>10

\* The same of the names of macOS.
LEMMA NamesListed ==
    ASSUME Unchanging, NEW c \in Cpus, host.os.interface = "sysctl", NEW l \in 1..3
    PROVE  /\ Listed(c, l) = {host.os.hw[l]} \cup PerfLevels(host.os, l)
           /\ Listed(c, l) \subseteq 0..MaxSize
           /\ DataCacheLevel(host.os, c, l) = LargestOf(Listed(c, l))
<1>1. Listed(c, l) = {host.os.hw[l]} \cup PerfLevels(host.os, l)
  BY DEF Listed, PerfLevels
<1> DEFINE P == PerfLevels(host.os, l)
           h == host.os.hw[l]
<1>2. h \in 0..MaxSize /\ P \subseteq 0..MaxSize /\ (P \subseteq {0} \/ h \in {0} \cup P)
  BY Constants DEF SystemOK
<1>3. DataCacheLevel(host.os, c, l) = IF LargestOf(P) > 0 THEN LargestOf(P) ELSE h
  BY DEF DataCacheLevel, PerProcessor
<1>4. Listed(c, l) = {h} \cup P BY <1>1
<1> HIDE DEF P, h
<1>5. LargestOf(P) \in P \cup {0} /\ (\A y \in P : LargestOf(P) >= y) /\ LargestOf(P) \in 0..MaxSize
  BY <1>2, Constants, LargestOfBounded
<1>6. MaxSize \in Nat BY Constants
<1> DEFINE x == IF LargestOf(P) > 0 THEN LargestOf(P) ELSE h
<1>7. x \in {h} \cup P \cup {0} /\ \A y \in {h} \cup P \cup {0} : x >= y
  <2>1. CASE LargestOf(P) > 0 BY <1>2, <1>5, <2>1, <1>6
  <2>2. CASE LargestOf(P) = 0 BY <1>2, <1>5, <2>2, <1>6
  <2> QED BY <2>1, <2>2, <1>5, <1>6
<1>8. {h} \cup P \cup {0} \subseteq Nat BY <1>2, <1>6
<1>9. Max({h} \cup P \cup {0}) = x BY <1>7, <1>8, MaxIs
<1> QED BY <1>1, <1>2, <1>3, <1>4, <1>9, <1>6 DEF LargestOf

\* A detector returns the largest size listed for the level it is asked of.
LEMMA LevelIsLargest ==
    ASSUME Unchanging, NEW c \in Cpus, NEW l \in 1..3
    PROVE  /\ Listed(c, l) \subseteq 0..MaxSize
           /\ DataCacheLevel(host.os, c, l) \in Listed(c, l) \cup {0}
           /\ \A b \in Listed(c, l) : DataCacheLevel(host.os, c, l) >= b
           /\ DataCacheLevel(host.os, c, l) \in 0..MaxSize
<1>1. host.os.interface \in {"sysfs", "windows", "sysctl", "none"} /\ MaxSize \in Nat
  BY Constants DEF SystemOK
<1>2. CASE host.os.interface = "sysctl"
  BY <1>2, <1>1, NamesListed, LargestOfBounded
<1>3. CASE host.os.interface \in {"sysfs", "windows"}
  <2>1. DataCacheLevel(host.os, c, l) = At(host.os, c, l)
    BY <1>3 DEF DataCacheLevel, PerProcessor
  <2> QED BY <2>1, <1>3, DataCachesListed, l \in 1..4
<1>4. CASE host.os.interface = "none"
  <2>1. DataCacheLevel(host.os, c, l) = 0 BY <1>4 DEF DataCacheLevel, PerProcessor
  <2>2. Listed(c, l) = {} BY <1>4, DataCachesListed, l \in 1..4
  <2> QED BY <2>1, <2>2, <1>1
<1> QED BY <1>1, <1>2, <1>3, <1>4

\* The last level is the largest size of the outermost level listed.
LEMMA LastLevelIsOutermost ==
    ASSUME Unchanging
    PROVE  /\ Outermost \subseteq 0..MaxSize
           /\ LastLevel \in 0..MaxSize
           /\ \A b \in Outermost : LastLevel >= b
           /\ LastLevel # 0 => LastLevel \in Outermost
<1> DEFINE deepest == IF host.os.interface = "sysfs" THEN 4 ELSE 3
           levels == {l \in 1..deepest : Listed(1, l) \ {0} # {}}
<1>1. host.os.interface \in {"sysfs", "windows", "sysctl", "none"} /\ MaxSize \in Nat /\ 1 \in Cpus
  BY Constants, SomeCores DEF SystemOK
<1>2. Outermost = IF levels = {} THEN {} ELSE Listed(1, Max(levels))
  BY DEF Outermost
<1>3. levels \subseteq 0..4 /\ levels \subseteq 1..deepest
  BY <1>1
<1>4. levels # {} => Max(levels) \in levels /\ \A l \in levels : Max(levels) >= l
  BY <1>3, MaxOfBounded
<1>5. CASE host.os.interface = "sysctl"
  <2>1. \A l \in 1..3 : Listed(1, l) = {host.os.hw[l]} \cup PerfLevels(host.os, l)
                        /\ Listed(1, l) \subseteq 0..MaxSize
    BY <1>5, <1>1, NamesListed
  <2>2. LastLevel = IF LargestOf(Listed(1, 3)) > 0 THEN LargestOf(Listed(1, 3))
                    ELSE LargestOf(Listed(1, 2))
    BY <1>5, <2>1 DEF LastLevel, LastLevelCache, PerProcessor
  <2>3. \A l \in 1..3 : /\ LargestOf(Listed(1, l)) \in Listed(1, l) \cup {0}
                        /\ \A b \in Listed(1, l) : LargestOf(Listed(1, l)) >= b
                        /\ LargestOf(Listed(1, l)) \in 0..MaxSize
    BY <2>1, <1>1, LargestOfBounded
  <2>4. Listed(1, 2) \cup Listed(1, 3) \subseteq {0} => Listed(1, 1) \subseteq {0}
    <3>1. {host.os.hw[2], host.os.hw[3]} \cup PerfLevels(host.os, 2) \cup PerfLevels(host.os, 3)
              \subseteq {0} => {host.os.hw[1]} \cup PerfLevels(host.os, 1) \subseteq {0}
      BY Constants DEF SystemOK
    <3> QED BY <3>1, <2>1
  <2> HIDE DEF levels
  <2>5. CASE LargestOf(Listed(1, 3)) > 0
    <3>1. Listed(1, 3) \ {0} # {} BY <2>3, <2>5
    <3>2. 3 \in levels BY <3>1, <1>5 DEF levels
    <3>3. Max(levels) = 3
      <4>1. levels \subseteq 1..3 BY <1>3, <1>5
      <4>2. levels \subseteq Nat /\ 3 \in levels /\ \A y \in levels : 3 >= y BY <4>1, <3>2
      <4> QED BY <4>2, MaxIs
    <3> QED BY <3>2, <3>3, <1>2, <2>1, <2>2, <2>3, <2>5
  <2>6. CASE LargestOf(Listed(1, 3)) = 0 /\ LargestOf(Listed(1, 2)) > 0
    <3>1. Listed(1, 2) \ {0} # {} /\ Listed(1, 3) \ {0} = {}
      BY <2>1, <2>3, <2>6, <1>1
    <3>2. 2 \in levels /\ 3 \notin levels BY <3>1, <1>5 DEF levels
    <3>3. Max(levels) = 2
      <4>1. levels \subseteq 1..2 BY <1>3, <1>5, <3>2
      <4>2. levels \subseteq Nat /\ 2 \in levels /\ \A y \in levels : 2 >= y BY <4>1, <3>2
      <4> QED BY <4>2, MaxIs
    <3> QED BY <3>2, <3>3, <1>2, <2>1, <2>2, <2>3, <2>6
  <2>7. CASE LargestOf(Listed(1, 3)) = 0 /\ LargestOf(Listed(1, 2)) = 0
    <3>1. Listed(1, 2) \subseteq {0} /\ Listed(1, 3) \subseteq {0}
      BY <2>1, <2>3, <2>7, <1>1
    <3>2. \A l \in 1..3 : Listed(1, l) \ {0} = {} BY <3>1, <2>4
    <3>3. levels = {} BY <3>2, <1>5 DEF levels
    <3> QED BY <3>3, <1>2, <2>2, <2>7, <1>1
  <2>8. LargestOf(Listed(1, 3)) \in Nat /\ LargestOf(Listed(1, 2)) \in Nat BY <2>3, <1>1
  <2> QED BY <2>5, <2>6, <2>7, <2>8
<1>6. CASE host.os.interface \in {"sysfs", "windows"}
  <2> DEFINE D == DataCaches(host.os, 1)
             L == {e.level : e \in D}
  <2>1. D = {e \in Range(host.os.caches[1]) :
                /\ e.type \in {"data", "unified"} /\ e.bytes > 0
                /\ host.os.interface = "windows" => e.level <= 3}
    BY DEF DataCaches
  <2>2. \A e \in Range(host.os.caches[1]) :
            e.level \in 1..4 /\ e.type \in {"data", "unified", "instruction"} /\ e.bytes \in 0..MaxSize
    BY Constants, <1>1 DEF SystemOK, Cpus
  <2>3. L = levels
    <3>1. \A l \in 1..deepest : Listed(1, l) = {e.bytes : e \in {d \in Range(host.os.caches[1]) :
                                                           d.level = l /\ d.type # "instruction"}}
      BY <1>6 DEF Listed
    <3>2. ASSUME NEW e \in D PROVE e.level \in levels
      <4>1. e.level \in 1..deepest /\ e.bytes > 0 /\ e.type # "instruction"
        BY <2>1, <2>2, <1>6
      <4>2. e.bytes \in Listed(1, e.level) /\ e.bytes # 0 BY <4>1, <3>1, <2>1, <2>2
      <4> QED BY <4>1, <4>2
    <3>3. ASSUME NEW l \in levels PROVE l \in L
      <4>1. PICK e \in Range(host.os.caches[1]) :
                e.level = l /\ e.type # "instruction" /\ e.bytes # 0
        BY <3>1
      <4>2. e \in D BY <4>1, <2>1, <2>2, <1>6
      <4> QED BY <4>1, <4>2
    <3> QED BY <3>2, <3>3
  <2>4. LastLevel = At(host.os, 1, LargestOf(L))
    BY <1>6 DEF LastLevel, LastLevelCache, PerProcessor
  <2>5. CASE levels = {}
    <3>1. D = {} BY <2>3, <2>5
    <3>2. {e.bytes : e \in {d \in D : d.level = LargestOf(L)}} = {} BY <3>1
    <3>3. LastLevel = LargestOf({}) BY <2>4, <3>2 DEF At
    <3>4. LargestOf({}) = 0 BY LargestOfBounded, <1>1
    <3> QED BY <3>3, <3>4, <1>2, <2>5, <1>1
  <2>6. CASE levels # {}
    <3>1. LargestOf(L) = Max(levels)
      <4>1. \A y \in levels \cup {0} : Max(levels) >= y
        BY <1>4, <2>6, <1>3
      <4>2. Max(levels) \in levels \cup {0} /\ levels \cup {0} \subseteq Nat BY <1>4, <2>6, <1>3
      <4> HIDE DEF levels
      <4>3. Max(levels \cup {0}) = Max(levels) BY <4>1, <4>2, MaxIs
      <4> QED BY <4>3, <2>3 DEF LargestOf
    <3>2. Max(levels) \in levels BY <1>4, <2>6
    <3>3. Max(levels) \in 1..4 /\ (host.os.interface = "windows" => Max(levels) <= 3)
      BY <3>2, <1>3, <1>6
    <3> HIDE DEF levels, L
    <3>4. Outermost = Listed(1, Max(levels)) BY <1>2, <2>6
    <3>5. LastLevel = At(host.os, 1, Max(levels)) BY <2>4, <3>1
    <3>6. host.os.interface # "sysctl" /\ host.os.interface # "none" BY <1>6
    <3> QED BY <3>3, <3>4, <3>5, <3>6, <1>1, DataCachesListed
  <2> QED BY <2>5, <2>6
<1>7. CASE host.os.interface = "none"
  <2>1. LastLevel = 0 BY <1>7 DEF LastLevel, LastLevelCache, PerProcessor
  <2>2. \A l \in 1..3 : Listed(1, l) = {} BY <1>7, <1>1, DataCachesListed, 1..3 \subseteq 1..4
  <2>3. levels = {} BY <2>2, <1>7
  <2> QED BY <2>1, <2>3, <1>2, <1>1
<1> QED BY <1>1, <1>5, <1>6, <1>7

(***************************************************************************)
(* The worksets.                                                           *)
(***************************************************************************)

LEMMA WholeBlocksBounds ==
    ASSUME Unchanging, NEW bytes \in Nat
    PROVE  /\ WholeBlocks(bytes, "read") \in Nat
           /\ WholeBlocks(bytes, "read") <= bytes
           /\ WholeBlocks(bytes, "read") > bytes - Block["read"]
           /\ WholeBlocks(bytes, "read") % Block["read"] = 0
BY Constants, ModBounds DEF WholeBlocks

\* The aggregate L3 workset is whole blocks inside the L3.
LEMMA AggregateInsideL3 ==
    ASSUME Unchanging, NEW l2 \in Nat, NEW l3 \in Nat, L3Workset(l2, l3) # 0
    PROVE  /\ L3Workset(l2, l3) \in Nat \ {0} /\ L3Workset(l2, l3) < l3
           /\ L3Workset(l2, l3) % Block["read"] = 0
<1> DEFINE start == l3 - l3 \div 4
           size  == IF l2 > 0 /\ start <= l2 /\ l3 > l2 THEN l2 + (l3 - l2) \div 2 ELSE start
           whole == WholeBlocks(size, "read")
<1>1. size \in Nat
  <2>1. l3 \div 4 \in Nat /\ l3 \div 4 <= l3 BY DivBounds
  <2>2. l3 > l2 => (l3 - l2) \div 2 \in Nat OBVIOUS
  <2> QED BY <2>1, <2>2
<1>2. whole \in Nat /\ whole % Block["read"] = 0 BY <1>1, WholeBlocksBounds
<1>3. L3Workset(l2, l3) = IF l3 = 0 \/ whole = 0 \/ whole >= l3 \/ (l2 > 0 /\ whole <= l2)
                          THEN 0 ELSE whole
  BY DEF L3Workset
<1> HIDE DEF whole
<1> QED BY <1>2, <1>3

\* A cap of 3/4 of the measured last level never enlarges, and is met.
LEMMA CapBounds ==
    ASSUME Unchanging, NEW bytes \in Nat, bytes % Block["read"] = 0
    PROVE  /\ CapToMeasured(bytes) \in Nat /\ CapToMeasured(bytes) <= bytes
           /\ host.measured > 0 => CapToMeasured(bytes) <= host.measured - host.measured \div 4
           /\ CapToMeasured(bytes) % Block["read"] = 0
<1> DEFINE m     == host.measured
           three == m - m \div 4
           cap   == WholeBlocks(three, "read")
<1>1. m \in Nat /\ (m = 0 \/ three >= Block["read"]) /\ Block["read"] \in Nat \ {0}
  BY Constants
<1>2. three \in Nat
  <2>1. m \div 4 \in Nat /\ m \div 4 <= m BY <1>1, DivBounds
  <2> QED BY <2>1, <1>1
<1>3. cap \in Nat /\ cap <= three /\ cap > three - Block["read"] /\ cap % Block["read"] = 0
  BY <1>2, WholeBlocksBounds
<1>4. CapToMeasured(bytes) = IF m = 0 \/ cap = 0 \/ bytes <= cap THEN bytes ELSE cap
  BY DEF CapToMeasured
<1>5. three = host.measured - host.measured \div 4 OBVIOUS
<1> HIDE DEF cap, three
<1> QED BY <1>1, <1>2, <1>3, <1>4, <1>5

\* Each core streams its share of the L3, too large for any of the L2 caches.
LEMMA ParallelL3Bounds ==
    ASSUME Unchanging, ParallelL3Workset # 0
    PROVE  /\ ParallelL3Workset \in 0..MaxSize
           /\ \A c \in Cpus : ParallelL3Workset > L2(c)
           /\ L3 > 0 /\ N * ParallelL3Workset < L3
           /\ host.measured > 0 => ParallelL3Workset <= host.measured - host.measured \div 4
           /\ ParallelL3Workset % Block["read"] = 0
<1> DEFINE aggregate == L3Workset(L2(1), L3)
           share     == WholeBlocks(aggregate \div N, "read")
           capped    == CapToMeasured(IF N = 1 THEN aggregate ELSE share)
<1>1. N \in Nat \ {0} /\ 1 \in Cpus /\ MaxSize \in Nat BY SomeCores, Constants
<1>2. (\A c \in Cpus : L2(c) \in 0..MaxSize) /\ L3 \in 0..MaxSize
  BY <1>1, LevelIsLargest, 2 \in 1..3, 3 \in 1..3 DEF L2, L3
<1>3. LargestL2 \in 0..MaxSize /\ \A c \in Cpus : LargestL2 >= L2(c)
  <2> DEFINE S == {L2(c) : c \in Cpus}
  <2>1. S \subseteq 0..MaxSize /\ S # {} BY <1>1, <1>2
  <2>2. LargestL2 = Max(S) BY DEF LargestL2
  <2>3. \A c \in Cpus : L2(c) \in S OBVIOUS
  <2> HIDE DEF S
  <2> QED BY <2>1, <2>2, <2>3, <1>1, MaxOfBounded
<1>4. ParallelL3Workset = IF aggregate = 0 \/ share = 0 \/ share <= LargestL2 \/ capped <= LargestL2
                          THEN 0 ELSE capped
  BY DEF ParallelL3Workset
<1>5. aggregate # 0 BY <1>4
<1>6. aggregate \in Nat /\ aggregate < L3 /\ aggregate % Block["read"] = 0
  BY <1>1, <1>2, <1>5, AggregateInsideL3
<1> HIDE DEF aggregate
<1>7. /\ aggregate \div N \in Nat /\ N * (aggregate \div N) <= aggregate
  BY <1>1, <1>6, DivBounds
<1>8. share \in Nat /\ share <= aggregate \div N /\ share % Block["read"] = 0
  BY <1>7, WholeBlocksBounds
<1> HIDE DEF share
<1>9. N * share <= N * (aggregate \div N) BY <1>1, <1>7, <1>8, TimesMonotone
<1>10. PICK own \in {aggregate, share} : /\ capped = CapToMeasured(own)
                                         /\ own \in Nat /\ own % Block["read"] = 0
                                         /\ N * own <= aggregate
  <2>1. CASE N = 1 BY <2>1, <1>6
  <2>2. CASE N # 1
    <3>1. N * share <= aggregate BY <1>1, <1>6, <1>7, <1>8, <1>9
    <3> QED BY <2>2, <1>8, <3>1
  <2> QED BY <2>1, <2>2
<1>11. /\ capped \in Nat /\ capped <= own /\ capped % Block["read"] = 0
       /\ host.measured > 0 => capped <= host.measured - host.measured \div 4
  BY <1>10, CapBounds
<1>12. ParallelL3Workset = capped /\ capped > LargestL2
  <2> HIDE DEF capped
  <2>1. capped \in Nat /\ LargestL2 \in Nat BY <1>11, <1>3, <1>1
  <2> QED BY <2>1, <1>4
<1> HIDE DEF capped
<1>13. N * capped <= N * own BY <1>1, <1>10, <1>11, TimesMonotone
<1>14. N * capped < L3 /\ L3 > 0
  <2>1. N * capped \in Nat /\ N * own \in Nat BY <1>1, <1>10, <1>11
  <2> QED BY <2>1, <1>13, <1>10, <1>6, <1>2, <1>1
<1>15. \A c \in Cpus : capped > L2(c) BY <1>3, <1>12, <1>11, <1>2, <1>1
<1>16. capped \in 0..MaxSize
  <2>1. capped <= N * capped BY <1>1, <1>11, TimesMonotone
  <2> QED BY <2>1, <1>14, <1>11, <1>1, <1>2
<1> QED BY <1>11, <1>12, <1>14, <1>15, <1>16

\* What is recommended depends on the outermost level listed alone.
LEMMA RecommendedBounds ==
    ASSUME Unchanging
    PROVE  /\ Recommended \in Nat
           /\ \/ Recommended = Max({Fallback} \cup {4 * b : b \in Outermost})
              \/ Recommended = MaxSize
<1>1. /\ Outermost \subseteq 0..MaxSize /\ LastLevel \in 0..MaxSize
      /\ (\A b \in Outermost : LastLevel >= b) /\ (LastLevel # 0 => LastLevel \in Outermost)
  BY LastLevelIsOutermost
<1>2. MaxSize \in Nat /\ Fallback \in Nat BY Constants
<1> DEFINE S == {Fallback} \cup {4 * b : b \in Outermost}
           x == IF 4 * LastLevel >= Fallback THEN 4 * LastLevel ELSE Fallback
<1>3. x \in S /\ S \subseteq Nat /\ \A y \in S : x >= y
  <2>1. S \subseteq Nat BY <1>1, <1>2
  <2>2. x \in S
    <3>1. CASE LastLevel = 0 BY <3>1, <1>2
    <3>2. CASE LastLevel # 0 BY <3>2, <1>1
    <3> QED BY <3>1, <3>2
  <2>3. ASSUME NEW b \in Outermost PROVE x >= 4 * b
    <3>1. LastLevel >= b /\ b \in Nat /\ LastLevel \in Nat BY <1>1, <1>2
    <3> QED BY <3>1, <1>2
  <2>4. x >= Fallback BY <1>1, <1>2
  <2> QED BY <2>1, <2>2, <2>3, <2>4
<1>4. Max(S) = x BY <1>3, MaxIs
<1>5. LastLevel # 0 => Max({Fallback, 4 * LastLevel}) = x
  <2>1. /\ x \in {Fallback, 4 * LastLevel} /\ {Fallback, 4 * LastLevel} \subseteq Nat
        /\ \A y \in {Fallback, 4 * LastLevel} : x >= y
    BY <1>1, <1>2
  <2> QED BY <2>1, MaxIs
<1>6. LastLevel = 0 => x = Fallback BY <1>2
<1>7. Recommended = IF LastLevel = 0 THEN Fallback
                    ELSE IF LastLevel > MaxSize \div 4 THEN MaxSize
                         ELSE Max({Fallback, 4 * LastLevel})
  BY DEF Recommended
<1>8. x \in Nat BY <1>1, <1>2
<1> HIDE DEF x, S
<1>9. Recommended \in {x, MaxSize} BY <1>5, <1>6, <1>7
<1> QED BY <1>4, <1>8, <1>9, <1>2 DEF S

\* A memory workset that a stream accepts is the one its reader expects.
LEMMA MemoryBounds ==
    ASSUME Unchanging, Accepts(MemoryWorkset, "read")
    PROVE  IF ask.mib > 0 THEN MemoryWorkset = ask.mib * MiB
           ELSE \/ MemoryWorkset = Max({Fallback} \cup {4 * b : b \in Outermost})
                \/ /\ host.budget > 0 /\ N * Recommended > host.budget
                   /\ N * MemoryWorkset <= host.budget
                   /\ MemoryWorkset > Floor - Block["read"]
<1>1. /\ N \in Nat \ {0} /\ MaxSize \in Nat /\ MiB \in Nat \ {0} /\ Floor \in Nat
      /\ host.budget \in Nat /\ ask.mib \in Nat /\ Block["read"] \in Nat \ {0} /\ MaxBlocks \in Nat
      /\ MaxBlocks * Block["read"] < MaxSize
  BY SomeCores, Constants
<1>2. Recommended \in Nat BY RecommendedBounds
<1>3. MemoryWorkset # 0 /\ MemoryWorkset \div Block["read"] <= MaxBlocks
      /\ MemoryWorkset % Block["read"] = 0
  BY DEF Accepts
<1>4. CASE ask.mib > 0
  <2>1. ask.mib <= MaxSize \div MiB /\ MemoryWorkset = (ask.mib * MiB) % (MaxSize + 1)
    BY <1>3, <1>4 DEF MemoryWorkset, RequestFits
  <2>2. ask.mib * MiB <= MaxSize /\ ask.mib * MiB \in Nat BY <2>1, <1>1, QuotientBound
  <2>3. (ask.mib * MiB) % (MaxSize + 1) = ask.mib * MiB
    <3>1. MaxSize + 1 \in Nat \ {0} /\ ask.mib * MiB < MaxSize + 1 BY <2>2, <1>1
    <3> QED BY <3>1, <2>2, RemainderOfSmall
  <2> QED BY <2>1, <2>3, <1>4
<1>5. CASE ask.mib = 0
  <2> DEFINE share == host.budget \div N
  <2>1. MemoryWorkset = IF host.budget = 0 \/ Recommended <= share THEN Recommended
                        ELSE IF share < Floor THEN 0 ELSE WholeBlocks(share, "read")
    BY <1>5, <1>1 DEF MemoryWorkset
  <2>2. share \in Nat /\ N * share <= host.budget BY <1>1, DivBounds
  <2>3. CASE host.budget = 0 \/ Recommended <= share
    <3>1. MemoryWorkset = Recommended BY <2>1, <2>3
    <3>2. Recommended # MaxSize
      <4> SUFFICES ASSUME MemoryWorkset = MaxSize PROVE FALSE BY <3>1
      <4>1. MaxSize = Block["read"] * (MaxSize \div Block["read"]) BY <1>3, <1>1
      <4>2. MaxSize \div Block["read"] \in Nat BY <1>1, DivBounds
      <4>3. Block["read"] * (MaxSize \div Block["read"]) <= Block["read"] * MaxBlocks
        BY <1>1, <1>3, <4>2, TimesMonotone
      <4>4. Block["read"] * MaxBlocks = MaxBlocks * Block["read"] BY <1>1
      <4> QED BY <4>1, <4>3, <4>4, <1>1
    <3> QED BY <3>1, <3>2, RecommendedBounds, <1>5, <1>1
  <2>4. CASE ~(host.budget = 0 \/ Recommended <= share)
    <3>1. MemoryWorkset = WholeBlocks(share, "read") /\ ~(share < Floor) BY <2>1, <2>4, <1>3
    <3>2. /\ MemoryWorkset \in Nat /\ MemoryWorkset <= share
          /\ MemoryWorkset > share - Block["read"]
      BY <3>1, <2>2, WholeBlocksBounds
    <3>3. N * MemoryWorkset <= N * share BY <3>2, <2>2, <1>1, TimesMonotone
    <3>4. N * Recommended > host.budget BY <2>4, <1>1, <1>2, <2>2, QuotientBound
    <3> HIDE DEF share
    <3>5. N * MemoryWorkset <= host.budget
      <4>1. N * MemoryWorkset \in Nat /\ N * share \in Nat BY <1>1, <2>2, <3>2
      <4> QED BY <4>1, <3>3, <2>2, <1>1
    <3>6. MemoryWorkset > Floor - Block["read"] BY <3>1, <3>2, <2>2, <1>1
    <3>7. host.budget > 0 BY <2>4, <1>1
    <3> QED BY <3>4, <3>5, <3>6, <3>7, <1>5, <1>1
  <2> QED BY <2>3, <2>4
<1> QED BY <1>4, <1>5, <1>1

(***************************************************************************)
(* The rows.                                                               *)
(***************************************************************************)

Items == {"L3", "memory", "allocate"} \cup Stores

AfterMemory == Stores \cup {"verdict"}

\* A measured row is of its workset, and that workset could be streamed.
RowsOfTheirWorksets ==
    \A i \in DOMAIN rows :
        /\ rows[i].ok /\ rows[i].item = "L3" =>
               rows[i].bytes = ParallelL3Workset /\ ParallelL3Workset # 0
        /\ rows[i].ok /\ rows[i].item = "memory" =>
               rows[i].bytes = MemoryWorkset /\ Accepts(MemoryWorkset, "read")

WorksetInvariant ==
    /\ Unchanging
    /\ rows \in Seq([item : Items, bytes : 0..MaxSize, ok : BOOLEAN])
    /\ RowsOfTheirWorksets
    /\ pc \in AfterMemory => \E i \in DOMAIN rows : rows[i].item = "memory"

\* A step that appends a row keeps what was said of the others.
LEMMA Appending ==
    ASSUME WorksetInvariant, UNCHANGED <<host, ask>>,
           NEW item \in Items, NEW bytes \in 0..MaxSize, NEW ok \in BOOLEAN, Row(item, bytes, ok),
           pc' \in AfterMemory => item = "memory" \/ pc \in AfterMemory,
           ok /\ item = "L3" => bytes = ParallelL3Workset /\ ParallelL3Workset # 0,
           ok /\ item = "memory" => bytes = MemoryWorkset /\ Accepts(MemoryWorkset, "read")
    PROVE  WorksetInvariant'
<1> DEFINE row == [item |-> item, bytes |-> bytes, ok |-> ok]
<1>1. rows' = Append(rows, row) BY DEF Row
<1>2. row \in [item : Items, bytes : 0..MaxSize, ok : BOOLEAN] OBVIOUS
<1>3. rows' \in Seq([item : Items, bytes : 0..MaxSize, ok : BOOLEAN])
  BY <1>1, <1>2 DEF WorksetInvariant
<1>4. Unchanging' BY DEF WorksetInvariant, Unchanging
<1>5. ParallelL3Workset' = ParallelL3Workset
  BY DEF ParallelL3Workset, CapToMeasured, LargestL2, L2, L3, N, Cpus
<1>6. MemoryWorkset' = MemoryWorkset
  BY DEF MemoryWorkset, Recommended, LastLevel, N, Cpus
<1>7. Accepts(MemoryWorkset, "read")' = Accepts(MemoryWorkset, "read")
  BY <1>6 DEF Accepts, N, Cpus
<1>8. RowsOfTheirWorksets'
  <2> SUFFICES ASSUME NEW i \in DOMAIN rows'
               PROVE  /\ rows'[i].ok /\ rows'[i].item = "L3" =>
                             rows'[i].bytes = ParallelL3Workset /\ ParallelL3Workset # 0
                      /\ rows'[i].ok /\ rows'[i].item = "memory" =>
                             rows'[i].bytes = MemoryWorkset /\ Accepts(MemoryWorkset, "read")
    BY <1>5, <1>6, <1>7 DEF RowsOfTheirWorksets
  <2>1. rows \in Seq([item : Items, bytes : 0..MaxSize, ok : BOOLEAN]) BY DEF WorksetInvariant
  <2> HIDE DEF row
  <2>2. CASE i \in DOMAIN rows
    <3>1. rows'[i] = rows[i] BY <1>1, <1>2, <2>1, <2>2
    <3> QED BY <3>1, <2>2 DEF WorksetInvariant, RowsOfTheirWorksets
  <2>3. CASE i \notin DOMAIN rows
    <3>1. rows'[i] = row BY <1>1, <1>2, <2>1, <2>3
    <3> QED BY <3>1 DEF row
  <2> QED BY <2>2, <2>3
<1>9. pc' \in AfterMemory => \E i \in DOMAIN rows' : rows'[i].item = "memory"
  <2> SUFFICES ASSUME pc' \in AfterMemory
               PROVE  \E i \in DOMAIN rows' : rows'[i].item = "memory"
    OBVIOUS
  <2>1. rows \in Seq([item : Items, bytes : 0..MaxSize, ok : BOOLEAN]) BY DEF WorksetInvariant
  <2>2. CASE item = "memory"
    <3> HIDE DEF row
    <3>1. rows'[Len(rows')] = row /\ Len(rows') \in DOMAIN rows' BY <1>1, <1>2, <2>1
    <3> QED BY <3>1, <2>2 DEF row
  <2>3. CASE pc \in AfterMemory
    <3>1. PICK i \in DOMAIN rows : rows[i].item = "memory" BY <2>3 DEF WorksetInvariant
    <3> HIDE DEF row
    <3>2. i \in DOMAIN rows' /\ rows'[i] = rows[i] BY <1>1, <1>2, <2>1
    <3> QED BY <3>1, <3>2
  <2> QED BY <2>2, <2>3
<1> QED BY <1>3, <1>4, <1>8, <1>9 DEF WorksetInvariant, AfterMemory

\* The invariant holds where nothing is appended.
LEMMA Keeping ==
    ASSUME WorksetInvariant, UNCHANGED <<host, ask, rows>>,
           pc' \in AfterMemory => pc \in AfterMemory
    PROVE  WorksetInvariant'
<1>1. Unchanging' BY DEF WorksetInvariant, Unchanging
<1>2. ParallelL3Workset' = ParallelL3Workset
  BY DEF ParallelL3Workset, CapToMeasured, LargestL2, L2, L3, N, Cpus
<1>3. MemoryWorkset' = MemoryWorkset
  BY DEF MemoryWorkset, Recommended, LastLevel, N, Cpus
<1>4. Accepts(MemoryWorkset, "read")' = Accepts(MemoryWorkset, "read")
  BY <1>3 DEF Accepts, N, Cpus
<1> QED BY <1>1, <1>2, <1>3, <1>4 DEF WorksetInvariant, RowsOfTheirWorksets, AfterMemory

LEMMA MemoryWorksetType ==
    ASSUME Unchanging, Accepts(MemoryWorkset, "read")
    PROVE  MemoryWorkset \in 0..MaxSize
<1>1. /\ N \in Nat \ {0} /\ MaxSize \in Nat /\ MiB \in Nat \ {0} /\ Floor \in Nat
      /\ host.budget \in Nat /\ ask.mib \in Nat
  BY SomeCores, Constants
<1>2. MemoryWorkset \in Nat
  <2>1. CASE ask.mib > 0
    <3>1. ask.mib * MiB \in Nat /\ MaxSize + 1 \in Nat \ {0} BY <1>1
    <3>2. (ask.mib * MiB) % (MaxSize + 1) \in Nat
      <4> DEFINE a == ask.mib * MiB
                 n == MaxSize + 1
      <4> HIDE DEF a, n
      <4>1. a \in Nat /\ n \in Nat \ {0} BY <3>1 DEF a, n
      <4>2. a % n \in Nat BY <4>1
      <4> QED BY <4>2 DEF a, n
    <3> QED BY <2>1, <3>2 DEF MemoryWorkset
  <2>2. CASE ~(ask.mib > 0)
    <3>1. host.budget \div N \in Nat BY <1>1, DivBounds
    <3>2. WholeBlocks(host.budget \div N, "read") \in Nat BY <3>1, WholeBlocksBounds
    <3>3. Recommended \in Nat BY RecommendedBounds
    <3> QED BY <2>2, <3>2, <3>3 DEF MemoryWorkset
  <2> QED BY <2>1, <2>2
<1>3. MemoryWorkset <= MaxSize \div N BY DEF Accepts
<1>4. MaxSize \div N <= MaxSize /\ MaxSize \div N \in Nat BY <1>1, DivBounds
<1> QED BY <1>1, <1>2, <1>3, <1>4

\* The bytes of the memory row, and whole blocks of them.
LEMMA MemoryReadType ==
    ASSUME WorksetInvariant, pc \in AfterMemory
    PROVE  /\ MemoryRead \in 0..MaxSize
           /\ \A kernel \in Stores : WholeBlocks(MemoryRead, kernel) \in 0..MaxSize
<1> DEFINE S == {rows[i].bytes : i \in {k \in DOMAIN rows : rows[k].item = "memory"}}
<1>1. \A i \in DOMAIN rows : rows[i].bytes \in 0..MaxSize
  <2> DEFINE RowSet == [item : Items, bytes : 0..MaxSize, ok : BOOLEAN]
  <2>1. rows \in Seq(RowSet) BY DEF WorksetInvariant
  <2>2. \A row \in RowSet : row.bytes \in 0..MaxSize OBVIOUS
  <2> HIDE DEF RowSet
  <2> QED BY <2>1, <2>2
<1>2. S \subseteq 0..MaxSize BY <1>1
<1>3. S # {} BY DEF WorksetInvariant
<1>4. MaxSize \in Nat /\ \A kernel \in Stores : Block[kernel] \in Nat \ {0}
  BY WorksetAssumption
<1>5. MemoryRead = Max(S) BY DEF MemoryRead
<1> HIDE DEF S
<1>6. MemoryRead \in 0..MaxSize BY <1>2, <1>3, <1>4, <1>5, MaxOfBounded
<1>7. ASSUME NEW kernel \in Stores PROVE WholeBlocks(MemoryRead, kernel) \in 0..MaxSize
  <2>1. MemoryRead \in Nat /\ Block[kernel] \in Nat \ {0} BY <1>4, <1>6
  <2>2. /\ MemoryRead - (MemoryRead % Block[kernel]) \in Nat
        /\ MemoryRead - (MemoryRead % Block[kernel]) <= MemoryRead
    BY <2>1, ModBounds
  <2> QED BY <2>2, <1>4, <1>6 DEF WholeBlocks
<1> QED BY <1>6, <1>7

\* Whatever streams fail, a measured L3 or memory row has the workset it was to be
\* streamed over, and the stores come after a memory row.
THEOREM WorksetInvariantHolds == Spec => []WorksetInvariant
<1>1. Init => WorksetInvariant
  BY DEF Init, WorksetInvariant, Unchanging, RowsOfTheirWorksets, AfterMemory, Stores
<1>2. WorksetInvariant /\ [Next]_vars => WorksetInvariant'
  <2> SUFFICES ASSUME WorksetInvariant, [Next]_vars PROVE WorksetInvariant'
    OBVIOUS
  <2>1. Unchanging /\ MaxSize \in Nat BY Constants DEF WorksetInvariant
  <2>2. CASE SkipL3 BY <2>2, Keeping DEF SkipL3, AfterMemory, Stores
  <2>3. CASE StreamL3
    <3>1. PICK ok \in BOOLEAN : Row("L3", IF ok THEN ParallelL3Workset ELSE 0, ok)
      BY <2>3 DEF StreamL3, Accepts
    <3>2. ParallelL3Workset # 0 /\ UNCHANGED <<host, ask>> /\ pc' \notin AfterMemory
      <4>1. ParallelL3Workset > 0 /\ UNCHANGED <<host, ask>> /\ pc' = "memory" BY <2>3 DEF StreamL3
      <4> QED BY <4>1 DEF AfterMemory, Stores
    <3>3. ParallelL3Workset \in 0..MaxSize BY <3>2, <2>1, ParallelL3Bounds
    <3>4. (IF ok THEN ParallelL3Workset ELSE 0) \in 0..MaxSize /\ "L3" \in Items
      BY <3>3, <2>1 DEF Items
    <3> QED BY <3>1, <3>2, <3>4, Appending
  <2>4. CASE MemoryFails
    <3>0. pc' \notin AfterMemory BY <2>4 DEF MemoryFails, Return, AfterMemory, Stores
    <3>1. CASE ask.table
      <4>1. Row("memory", 0, FALSE) /\ UNCHANGED <<host, ask>> /\ "memory" \in Items
        BY <2>4, <3>1 DEF MemoryFails, Items
      <4>2. 0 \in 0..MaxSize BY <2>1
      <4> QED BY <3>0, <4>1, <4>2, Appending
    <3>2. CASE ~ask.table BY <2>4, <3>0, <3>2, Keeping DEF MemoryFails
    <3> QED BY <3>1, <3>2
  <2>5. CASE StreamMemory
    <3>1. Row("memory", MemoryWorkset, TRUE) /\ Accepts(MemoryWorkset, "read")
          /\ UNCHANGED <<host, ask>> /\ "memory" \in Items
      BY <2>5 DEF StreamMemory, Items
    <3>2. MemoryWorkset \in 0..MaxSize BY <3>1, <2>1, MemoryWorksetType
    <3> QED BY <3>1, <3>2, Appending
  <2>6. ASSUME NEW kernel \in Stores, StreamStore(kernel) PROVE WorksetInvariant'
    <3>1. pc \in AfterMemory /\ UNCHANGED <<host, ask>> BY <2>6 DEF StreamStore, AfterMemory
    <3>2. PICK ok \in BOOLEAN :
              Row(kernel, IF ok THEN WholeBlocks(MemoryRead, kernel) ELSE 0, ok)
      BY <2>6 DEF StreamStore, Accepts
    <3>3. (IF ok THEN WholeBlocks(MemoryRead, kernel) ELSE 0) \in 0..MaxSize
      BY <3>1, <2>1, MemoryReadType
    <3>4. kernel \in Items /\ kernel # "L3" /\ kernel # "memory" BY DEF Items, Stores
    <3> QED BY <3>1, <3>2, <3>3, <3>4, Appending
  <2>7. CASE Verdict
    <3>1. pc \in AfterMemory /\ UNCHANGED <<host, ask>> BY <2>7 DEF Verdict, AfterMemory
    <3>2. Row("allocate", MemoryRead, Streamed("write") /\ Streamed("partial")) /\ "allocate" \in Items
      BY <2>7 DEF Verdict, Items
    <3>3. (Streamed("write") /\ Streamed("partial")) \in BOOLEAN OBVIOUS
    <3>4. MemoryRead \in 0..MaxSize BY <3>1, MemoryReadType
    <3> QED BY <3>1, <3>2, <3>3, <3>4, Appending
  <2>8. CASE UNCHANGED vars BY <2>8, Keeping DEF vars
  <2> QED BY <2>2, <2>3, <2>4, <2>5, <2>6, <2>7, <2>8 DEF Next
<1> QED BY <1>1, <1>2, PTL DEF Spec

-----------------------------------------------------------------------------
(* The order of the rows, whatever fails.                                  *)

ItemsOf == [i \in DOMAIN rows |-> rows[i].item]
Heads == IF ParallelL3Workset > 0 THEN <<"L3">> ELSE << >>
Stored == <<"memory", "write", "partial", "nontemporal", "allocate">>

\* What stands in the table when a step begins.
Written(step) ==
    CASE step = "memory"      -> Heads
      [] step = "write"       -> Heads \o <<"memory">>
      [] step = "partial"     -> Heads \o <<"memory", "write">>
      [] step = "nontemporal" -> Heads \o <<"memory", "write", "partial">>
      [] step = "verdict"     -> Heads \o <<"memory", "write", "partial", "nontemporal">>
      [] OTHER                -> << >>

Layout ==
    /\ pc \in {"L3", "memory", "done"} \cup AfterMemory
    /\ pc # "done" => ItemsOf = Written(pc)
    /\ pc \in AfterMemory => Measurement("memory") # {}
    /\ pc = "done" =>
          /\ status = "success"
          /\ \/ ItemsOf = Heads \o <<"memory">> /\ Measurement("memory") = {}
             \/ ItemsOf = Heads \o Stored /\ Measurement("memory") # {}

\* The stores run over the memory stream's workset, and a verdict needs two.
StoresFollow ==
    /\ \A i \in DOMAIN rows : rows[i].item \in Stores /\ rows[i].ok =>
           rows[i].bytes = WholeBlocks(MemoryRead, rows[i].item)
    /\ \A i \in DOMAIN rows : rows[i].item = "allocate" =>
           /\ rows[i].bytes = MemoryRead
           /\ rows[i].ok => Streamed("write") /\ Streamed("partial")

RowInvariant == ask.table => Layout /\ StoresFollow

LEMMA SequenceOf ==
    ASSUME NEW n \in Nat, NEW S, NEW f \in [1..n -> S]
    PROVE  f \in Seq(S) /\ Len(f) = n
<1>1. f \in Seq(S) BY SeqDef
<1>2. DOMAIN f = 1..n /\ DOMAIN f = 1..Len(f) /\ Len(f) \in Nat BY <1>1, LenProperties
<1> DEFINE m == Len(f)
<1>3. m \in Nat /\ 1..n = 1..m BY <1>2
<1> HIDE DEF m
<1>4. n \in 1..n \/ n = 0 OBVIOUS
<1>5. m \in 1..m \/ m = 0 BY <1>3
<1>6. m = n BY <1>3, <1>4, <1>5
<1> QED BY <1>1, <1>6 DEF m

LEMMA AppendedIs ==
    ASSUME NEW S, NEW s \in Seq(S), NEW e \in S, NEW n \in Nat, Len(s) = n, NEW g,
           g = [i \in 1..(n + 1) |-> IF i <= n THEN s[i] ELSE e]
    PROVE  g = Append(s, e)
<1> DEFINE h == Append(s, e)
<1>1. /\ h \in Seq(S) /\ Len(h) = n + 1
      /\ \A i \in 1..n : h[i] = s[i]
      /\ h[n + 1] = e
  BY AppendProperties
<1> HIDE DEF h
<1>2. h \in [1..(n + 1) -> S] BY <1>1, LenProperties
<1>3. \A i \in 1..(n + 1) : h[i] = IF i <= n THEN s[i] ELSE e
  <2>1. \A i \in 1..(n + 1) : (i \in 1..n /\ i <= n) \/ (i = n + 1 /\ ~(i <= n)) OBVIOUS
  <2> QED BY <1>1, <2>1
<1>4. h = g BY <1>2, <1>3
<1> QED BY <1>4 DEF h

LEMMA ItemsAppended ==
    ASSUME WorksetInvariant, NEW item \in Items, NEW bytes \in 0..MaxSize, NEW ok \in BOOLEAN,
           Row(item, bytes, ok)
    PROVE  /\ ItemsOf' = Append(ItemsOf, item)
           /\ DOMAIN rows \subseteq DOMAIN rows'
           /\ \A i \in DOMAIN rows : rows'[i] = rows[i]
           /\ \E last \in DOMAIN rows' :
                 /\ rows'[last] = [item |-> item, bytes |-> bytes, ok |-> ok]
                 /\ DOMAIN rows' = DOMAIN rows \cup {last} /\ last \notin DOMAIN rows
<1> DEFINE row == [item |-> item, bytes |-> bytes, ok |-> ok]
           RowSet == [item : Items, bytes : 0..MaxSize, ok : BOOLEAN]
           n == Len(rows)
<1>1. rows \in Seq(RowSet) /\ row \in RowSet /\ rows' = Append(rows, row)
  BY DEF WorksetInvariant, Row
<1>2. row.item = item OBVIOUS
<1> HIDE DEF row, RowSet
<1>3. n \in Nat /\ DOMAIN rows = 1..n BY <1>1
<1>4. /\ DOMAIN rows' = 1..(n + 1) /\ rows'[n + 1] = row
      /\ \A i \in 1..n : rows'[i] = rows[i]
  BY <1>1
<1> HIDE DEF n
<1>5. /\ 1..(n + 1) = 1..n \cup {n + 1} /\ n + 1 \notin 1..n BY <1>3
<1>6. ItemsOf' = Append(ItemsOf, item)
  <2>1. ItemsOf' = [i \in 1..(n + 1) |-> rows'[i].item] BY <1>4 DEF ItemsOf
  <2>2. ItemsOf = [i \in 1..n |-> rows[i].item] BY <1>3 DEF ItemsOf
  <2>3. \A i \in 1..n : rows[i].item \in Items
    <3>1. \A r \in RowSet : r.item \in Items BY DEF RowSet
    <3> QED BY <1>1, <1>3, <3>1
  <2>4. ItemsOf \in Seq(Items) /\ Len(ItemsOf) = n
    <3>1. ItemsOf \in [1..n -> Items] BY <2>2, <2>3
    <3> QED BY <1>3, <3>1, SequenceOf
  <2>5. ItemsOf' = [i \in 1..(n + 1) |-> IF i <= n THEN ItemsOf[i] ELSE item]
    <3>1. \A i \in 1..(n + 1) : rows'[i].item = IF i <= n THEN ItemsOf[i] ELSE item
      BY <1>2, <1>3, <1>4, <2>2
    <3> QED BY <2>1, <3>1
  <2> QED BY <1>3, <2>4, <2>5, AppendedIs
<1> QED BY <1>3, <1>4, <1>5, <1>6 DEF row

LEMMA LastRow ==
    ASSUME WorksetInvariant, NEW item \in Items, NEW bytes \in 0..MaxSize, NEW ok \in BOOLEAN,
           Row(item, bytes, ok)
    PROVE  \E last \in DOMAIN rows' :
              /\ rows'[last].item = item /\ rows'[last].bytes = bytes
              /\ rows'[last].ok <=> ok
              /\ DOMAIN rows' = DOMAIN rows \cup {last} /\ last \notin DOMAIN rows
              /\ \A i \in DOMAIN rows : rows'[i] = rows[i]
<1>1. PICK last \in DOMAIN rows' :
        /\ rows'[last] = [item |-> item, bytes |-> bytes, ok |-> ok]
        /\ DOMAIN rows' = DOMAIN rows \cup {last} /\ last \notin DOMAIN rows
  BY ItemsAppended, ZenonT(30)
<1>2. \A i \in DOMAIN rows : rows'[i] = rows[i] BY ItemsAppended
<1>3. rows'[last].item = item /\ rows'[last].bytes = bytes /\ rows'[last].ok = ok BY <1>1
<1> QED BY <1>1, <1>2, <1>3

LEMMA MemorySame ==
    ASSUME WorksetInvariant, NEW item \in Items, NEW bytes \in 0..MaxSize, NEW ok \in BOOLEAN,
           Row(item, bytes, ok), item # "memory"
    PROVE  /\ MemoryRead' = MemoryRead
           /\ Measurement("memory")' = Measurement("memory")
<1>1. PICK last \in DOMAIN rows' :
        /\ rows'[last] = [item |-> item, bytes |-> bytes, ok |-> ok]
        /\ DOMAIN rows' = DOMAIN rows \cup {last} /\ last \notin DOMAIN rows
  BY ItemsAppended, ZenonT(30)
<1>2. \A i \in DOMAIN rows : rows'[i] = rows[i] BY ItemsAppended
<1>3. rows'[last].item # "memory" BY <1>1
<1>4. {k \in DOMAIN rows' : rows'[k].item = "memory"} = {k \in DOMAIN rows : rows[k].item = "memory"}
  BY <1>1, <1>2, <1>3
<1>5. {rows'[i].bytes : i \in {k \in DOMAIN rows' : rows'[k].item = "memory"}}
      = {rows[i].bytes : i \in {k \in DOMAIN rows : rows[k].item = "memory"}}
  BY <1>2, <1>4
<1>6. {rows'[i] : i \in {k \in DOMAIN rows' : rows'[k].item = "memory"}}
      = {rows[i] : i \in {k \in DOMAIN rows : rows[k].item = "memory"}}
  BY <1>2, <1>4
<1> QED BY <1>5, <1>6 DEF MemoryRead, Measurement, RowOf

LEMMA StreamedStays ==
    ASSUME WorksetInvariant, NEW item \in Items, NEW bytes \in 0..MaxSize, NEW ok \in BOOLEAN,
           Row(item, bytes, ok), NEW kernel, Streamed(kernel)
    PROVE  Streamed(kernel)'
<1>1. PICK i \in DOMAIN rows : rows[i].item = kernel /\ rows[i].ok BY DEF Streamed
<1>2. i \in DOMAIN rows' /\ rows'[i] = rows[i] BY ItemsAppended
<1> QED BY <1>1, <1>2 DEF Streamed

\* A row that is not the memory stream's leaves what was said of the others.
LEMMA StoresKept ==
    ASSUME WorksetInvariant, StoresFollow,
           NEW item \in Items, NEW bytes \in 0..MaxSize, NEW ok \in BOOLEAN,
           Row(item, bytes, ok), item # "memory",
           item \in Stores /\ ok => bytes = WholeBlocks(MemoryRead, item),
           item = "allocate" =>
               bytes = MemoryRead /\ (ok => Streamed("write") /\ Streamed("partial"))
    PROVE  StoresFollow'
<1>1. PICK last \in DOMAIN rows' :
        /\ rows'[last].item = item /\ rows'[last].bytes = bytes
        /\ rows'[last].ok <=> ok
        /\ DOMAIN rows' = DOMAIN rows \cup {last} /\ last \notin DOMAIN rows
        /\ \A i \in DOMAIN rows : rows'[i] = rows[i]
  BY LastRow
<1>2. \A i \in DOMAIN rows : rows'[i] = rows[i] BY <1>1
<1>3. MemoryRead' = MemoryRead BY MemorySame
<1>4. \A kernel : Streamed(kernel) => Streamed(kernel)' BY StreamedStays
<1>5. /\ rows'[last].item = item /\ rows'[last].bytes = bytes /\ (rows'[last].ok <=> ok) BY <1>1
<1>7. ASSUME NEW i \in DOMAIN rows', rows'[i].item \in Stores, rows'[i].ok
      PROVE  rows'[i].bytes = WholeBlocks(MemoryRead', rows'[i].item)
  <2>1. CASE i = last
    <3>1. item \in Stores /\ ok BY <1>5, <1>7, <2>1
    <3>2. bytes = WholeBlocks(MemoryRead, item) BY <3>1
    <3> QED BY <1>3, <1>5, <2>1, <3>2 DEF WholeBlocks
  <2>2. CASE i \in DOMAIN rows
    <3>1. rows[i].bytes = WholeBlocks(MemoryRead, rows[i].item) BY <1>2, <1>7, <2>2 DEF StoresFollow
    <3>2. rows'[i] = rows[i] BY <1>2, <2>2
    <3> QED BY <1>3, <3>1, <3>2 DEF WholeBlocks
  <2> QED BY <1>1, <2>1, <2>2
<1>8. ASSUME NEW i \in DOMAIN rows', rows'[i].item = "allocate"
      PROVE  /\ rows'[i].bytes = MemoryRead'
             /\ rows'[i].ok => Streamed("write")' /\ Streamed("partial")'
  <2>1. CASE i = last BY <1>3, <1>4, <1>5, <1>8, <2>1
  <2>2. CASE i \in DOMAIN rows
    <3>1. /\ rows[i].bytes = MemoryRead
          /\ rows[i].ok => Streamed("write") /\ Streamed("partial")
      BY <1>2, <1>8, <2>2 DEF StoresFollow
    <3> QED BY <1>2, <1>3, <1>4, <2>2, <3>1
  <2> QED BY <1>1, <2>1, <2>2
<1> QED BY <1>7, <1>8 DEF StoresFollow

LEMMA SameHeads == ASSUME UNCHANGED <<host, ask>> PROVE Heads' = Heads
BY DEF Heads, ParallelL3Workset, CapToMeasured, LargestL2, L2, L3, N, Cpus

\* Tuples that differ in length by one.
LEMMA AppendIs ==
    ASSUME NEW S, NEW n \in Nat, NEW s \in Seq(S), Len(s) = n, NEW e \in S,
           NEW t \in Seq(S), Len(t) = n + 1, \A i \in 1..n : t[i] = s[i], t[n + 1] = e
    PROVE  Append(s, e) = t
<1> DEFINE r == Append(s, e)
<1>1. /\ r \in Seq(S) /\ Len(r) = n + 1
      /\ \A i \in 1..n : r[i] = s[i]
      /\ r[n + 1] = e
  BY AppendProperties
<1> HIDE DEF r
<1>2. \A i \in 1..(n + 1) : r[i] = t[i]
  <2>1. \A i \in 1..(n + 1) : i \in 1..n \/ i = n + 1 OBVIOUS
  <2> QED BY <1>1, <2>1
<1>3. r = t BY <1>1, <1>2, SeqEqual
<1> QED BY <1>3 DEF r

RowNames == {"L3", "memory", "write", "partial", "nontemporal", "allocate"}

LEMMA Append1 == <<"memory">> \in Seq(RowNames) /\ Append(<<"memory">>, "write") = <<"memory", "write">>
<1> DEFINE s == <<"memory">>
           t == <<"memory", "write">>
<1>1. s \in Seq(RowNames) /\ Len(s) = 1 BY DEF RowNames
<1>2. t \in Seq(RowNames) /\ Len(t) = 1 + 1 BY DEF RowNames
<1>3. "write" \in RowNames BY DEF RowNames
<1>4. \A i \in 1..1 : t[i] = s[i]
  <2>1. \A i \in 1..1 : i = 1 OBVIOUS
  <2> QED BY <2>1
<1>5. t[1 + 1] = "write" OBVIOUS
<1>6. Append(s, "write") = t
  <2> HIDE DEF s, t
  <2> QED BY <1>1, <1>2, <1>3, <1>4, <1>5, AppendIs
<1> QED BY <1>1, <1>6

LEMMA Append2 == <<"memory", "write">> \in Seq(RowNames) /\ Append(<<"memory", "write">>, "partial") = <<"memory", "write", "partial">>
<1> DEFINE s == <<"memory", "write">>
           t == <<"memory", "write", "partial">>
<1>1. s \in Seq(RowNames) /\ Len(s) = 2 BY DEF RowNames
<1>2. t \in Seq(RowNames) /\ Len(t) = 2 + 1 BY DEF RowNames
<1>3. "partial" \in RowNames BY DEF RowNames
<1>4. \A i \in 1..2 : t[i] = s[i]
  <2>1. \A i \in 1..2 : i = 1 \/ i = 2 OBVIOUS
  <2> QED BY <2>1
<1>5. t[2 + 1] = "partial" OBVIOUS
<1>6. Append(s, "partial") = t
  <2> HIDE DEF s, t
  <2> QED BY <1>1, <1>2, <1>3, <1>4, <1>5, AppendIs
<1> QED BY <1>1, <1>6

LEMMA Append3 == <<"memory", "write", "partial">> \in Seq(RowNames) /\ Append(<<"memory", "write", "partial">>, "nontemporal") = <<"memory", "write", "partial", "nontemporal">>
<1> DEFINE s == <<"memory", "write", "partial">>
           t == <<"memory", "write", "partial", "nontemporal">>
<1>1. s \in Seq(RowNames) /\ Len(s) = 3 BY DEF RowNames
<1>2. t \in Seq(RowNames) /\ Len(t) = 3 + 1 BY DEF RowNames
<1>3. "nontemporal" \in RowNames BY DEF RowNames
<1>4. \A i \in 1..3 : t[i] = s[i]
  <2>1. \A i \in 1..3 : i = 1 \/ i = 2 \/ i = 3 OBVIOUS
  <2> QED BY <2>1
<1>5. t[3 + 1] = "nontemporal" OBVIOUS
<1>6. Append(s, "nontemporal") = t
  <2> HIDE DEF s, t
  <2> QED BY <1>1, <1>2, <1>3, <1>4, <1>5, AppendIs
<1> QED BY <1>1, <1>6

LEMMA Append4 == <<"memory", "write", "partial", "nontemporal">> \in Seq(RowNames) /\ Append(<<"memory", "write", "partial", "nontemporal">>, "allocate") = <<"memory", "write", "partial", "nontemporal", "allocate">>
<1> DEFINE s == <<"memory", "write", "partial", "nontemporal">>
           t == <<"memory", "write", "partial", "nontemporal", "allocate">>
<1>1. s \in Seq(RowNames) /\ Len(s) = 4 BY DEF RowNames
<1>2. t \in Seq(RowNames) /\ Len(t) = 4 + 1 BY DEF RowNames
<1>3. "allocate" \in RowNames BY DEF RowNames
<1>4. \A i \in 1..4 : t[i] = s[i]
  <2>1. \A i \in 1..4 : i = 1 \/ i = 2 \/ i = 3 \/ i = 4 OBVIOUS
  <2> QED BY <2>1
<1>5. t[4 + 1] = "allocate" OBVIOUS
<1>6. Append(s, "allocate") = t
  <2> HIDE DEF s, t
  <2> QED BY <1>1, <1>2, <1>3, <1>4, <1>5, AppendIs
<1> QED BY <1>1, <1>6

\* The table grows by the row of the step.
LEMMA TableGrows ==
    /\ Append(Heads, "memory") = Heads \o <<"memory">>
    /\ Append(Heads \o <<"memory">>, "write") = Heads \o <<"memory", "write">>
    /\ Append(Heads \o <<"memory", "write">>, "partial") = Heads \o <<"memory", "write", "partial">>
    /\ Append(Heads \o <<"memory", "write", "partial">>, "nontemporal")
          = Heads \o <<"memory", "write", "partial", "nontemporal">>
    /\ Append(Heads \o <<"memory", "write", "partial", "nontemporal">>, "allocate")
          = Heads \o Stored
<1>1. Heads = << >> \/ Heads = <<"L3">> BY DEF Heads
<1>2. Heads \in Seq(RowNames)
  <2>1. << >> \in Seq(RowNames) /\ <<"L3">> \in Seq(RowNames) BY DEF RowNames
  <2> QED BY <1>1, <2>1
<1>3. \A s \in Seq(RowNames), e \in RowNames : Append(Heads \o s, e) = Heads \o Append(s, e)
  <2> SUFFICES ASSUME NEW s \in Seq(RowNames), NEW e \in RowNames
               PROVE  Append(Heads \o s, e) = Heads \o Append(s, e)
    OBVIOUS
  <2>1. <<e>> \in Seq(RowNames) OBVIOUS
  <2>2. Heads \o s \in Seq(RowNames) BY <1>2, ConcatProperties
  <2>3. Append(Heads \o s, e) = (Heads \o s) \o <<e>> BY <2>2, AppendIsConcat
  <2>4. (Heads \o s) \o <<e>> = Heads \o (s \o <<e>>) BY <1>2, <2>1, ConcatAssociative
  <2>5. s \o <<e>> = Append(s, e) BY AppendIsConcat
  <2> QED BY <2>3, <2>4, <2>5
<1>4. \A e \in {"memory", "write", "partial", "nontemporal", "allocate"} : e \in RowNames
  BY DEF RowNames
<1>5. Append(Heads \o <<"memory">>, "write") = Heads \o <<"memory", "write">>
  BY <1>3, <1>4, Append1
<1>6. Append(Heads \o <<"memory", "write">>, "partial") = Heads \o <<"memory", "write", "partial">>
  BY <1>3, <1>4, Append2
<1>7. Append(Heads \o <<"memory", "write", "partial">>, "nontemporal")
          = Heads \o <<"memory", "write", "partial", "nontemporal">>
  BY <1>3, <1>4, Append3
<1>8. Append(Heads \o <<"memory", "write", "partial", "nontemporal">>, "allocate") = Heads \o Stored
  BY <1>3, <1>4, Append4 DEF Stored
<1>9. Append(Heads, "memory") = Heads \o <<"memory">> BY <1>2, <1>4, AppendIsConcat
<1> QED BY <1>5, <1>6, <1>7, <1>8, <1>9

LEMMA WrittenIs ==
    /\ Written("L3") = << >> /\ Written("memory") = Heads
    /\ Written("write") = Heads \o <<"memory">>
    /\ Written("partial") = Heads \o <<"memory", "write">>
    /\ Written("nontemporal") = Heads \o <<"memory", "write", "partial">>
    /\ Written("verdict") = Heads \o <<"memory", "write", "partial", "nontemporal">>
BY DEF Written

\* Before the memory stream no row of the table is one, or follows from one.
LEMMA HeadsOnly ==
    ASSUME ItemsOf = Heads
    PROVE  \A i \in DOMAIN rows : rows[i].item = "L3"
<1>1. DOMAIN ItemsOf = DOMAIN rows /\ \A i \in DOMAIN rows : ItemsOf[i] = rows[i].item
  BY DEF ItemsOf
<1>2. \A i \in DOMAIN Heads : Heads[i] = "L3"
  <2>1. CASE Heads = << >> BY <2>1
  <2>2. CASE Heads = <<"L3">>
    <3>1. \A i \in DOMAIN <<"L3">> : i = 1 OBVIOUS
    <3> QED BY <2>2, <3>1
  <2> QED BY <2>1, <2>2 DEF Heads
<1> QED BY <1>1, <1>2

LEMMA FirstRows ==
    ASSUME ask.table, Init PROVE RowInvariant
<1>1. rows = << >> /\ pc = "L3" BY DEF Init
<1>2. ItemsOf = << >> BY <1>1 DEF ItemsOf
<1>3. Layout BY <1>1, <1>2, WrittenIs DEF Layout, AfterMemory, Stores
<1>4. StoresFollow BY <1>1 DEF StoresFollow
<1> QED BY <1>3, <1>4 DEF RowInvariant

LEMMA L3Step ==
    ASSUME WorksetInvariant, Layout, StoresFollow, ask.table, SkipL3 \/ StreamL3
    PROVE  Layout' /\ StoresFollow'
<1>1. ItemsOf = << >> /\ UNCHANGED <<host, ask>> /\ pc' = "memory"
  BY WrittenIs DEF SkipL3, StreamL3, Layout
<1>2. Heads' = Heads BY <1>1, SameHeads
<1>3. CASE SkipL3
  <2>1. Heads = << >> /\ rows' = rows BY <1>3 DEF SkipL3, Heads
  <2>2. ItemsOf' = Heads' BY <1>1, <1>2, <2>1 DEF ItemsOf
  <2>3. Written(pc)' = Heads' BY <1>1 DEF Written
  <2>4. Layout' BY <1>1, <2>2, <2>3 DEF Layout, AfterMemory, Stores
  <2>5. StoresFollow'
    <3>1. MemoryRead' = MemoryRead BY <2>1 DEF MemoryRead
    <3>2. \A kernel : Streamed(kernel)' <=> Streamed(kernel) BY <2>1 DEF Streamed
    <3> QED BY <2>1, <3>1, <3>2 DEF StoresFollow, WholeBlocks
  <2> QED BY <2>4, <2>5
<1>4. CASE StreamL3
  <2>1. PICK ok \in BOOLEAN : Row("L3", IF ok THEN ParallelL3Workset ELSE 0, ok)
    BY <1>4 DEF StreamL3, Accepts
  <2>2. ParallelL3Workset > 0 /\ MaxSize \in Nat BY <1>4, Constants DEF StreamL3, WorksetInvariant
  <2>3. ParallelL3Workset \in 0..MaxSize BY <2>2, ParallelL3Bounds DEF WorksetInvariant
  <2>4. (IF ok THEN ParallelL3Workset ELSE 0) \in 0..MaxSize /\ "L3" \in Items
    BY <2>2, <2>3 DEF Items
  <2>5. ItemsOf' = Append(ItemsOf, "L3") BY <2>1, <2>4, ItemsAppended
  <2>6. Heads = <<"L3">> BY <2>2 DEF Heads
  <2>7. Append(<< >>, "L3") = <<"L3">> OBVIOUS
  <2>8. ItemsOf' = Heads' BY <1>1, <1>2, <2>5, <2>6, <2>7
  <2>9. Written(pc)' = Heads' BY <1>1 DEF Written
  <2>10. Layout' BY <1>1, <2>8, <2>9 DEF Layout, AfterMemory, Stores
  <2>11. StoresFollow' BY <2>1, <2>4, StoresKept DEF Stores
  <2> QED BY <2>10, <2>11
<1> QED BY <1>3, <1>4

LEMMA MemoryStep ==
    ASSUME WorksetInvariant, Layout, StoresFollow, ask.table, MemoryFails \/ StreamMemory
    PROVE  Layout' /\ StoresFollow'
<1>1. ItemsOf = Heads /\ UNCHANGED <<host, ask>>
  BY WrittenIs DEF MemoryFails, StreamMemory, Layout
<1>2. Heads' = Heads BY <1>1, SameHeads
<1>3. PICK ok \in BOOLEAN :
        /\ Row("memory", IF ok THEN MemoryWorkset ELSE 0, ok)
        /\ ok => StreamMemory /\ pc' = "write"
        /\ ~ok => pc' = "done" /\ status' = "success"
  <2>1. CASE MemoryFails BY <2>1 DEF MemoryFails, Return
  <2>2. CASE StreamMemory BY <2>2 DEF StreamMemory
  <2> QED BY <2>1, <2>2
<1>4. (IF ok THEN MemoryWorkset ELSE 0) \in 0..MaxSize /\ "memory" \in Items
  <2>1. ok => MemoryWorkset \in 0..MaxSize
    BY <1>3, MemoryWorksetType DEF StreamMemory, WorksetInvariant
  <2>2. MaxSize \in Nat BY Constants DEF WorksetInvariant
  <2> QED BY <2>1, <2>2 DEF Items
<1>5. ItemsOf' = Heads' \o <<"memory">> BY <1>1, <1>2, <1>3, <1>4, ItemsAppended, TableGrows
<1>6. PICK last \in DOMAIN rows' :
        /\ rows'[last].item = "memory" /\ (rows'[last].ok <=> ok)
        /\ DOMAIN rows' = DOMAIN rows \cup {last} /\ last \notin DOMAIN rows
        /\ \A i \in DOMAIN rows : rows'[i] = rows[i]
  <2> DEFINE size == IF ok THEN MemoryWorkset ELSE 0
             item == "memory"
  <2>1. Row(item, size, ok) /\ size \in 0..MaxSize /\ item \in Items BY <1>3, <1>4
  <2> HIDE DEF size, item
  <2>2. \E last \in DOMAIN rows' :
            /\ rows'[last].item = item /\ (rows'[last].ok <=> ok)
            /\ DOMAIN rows' = DOMAIN rows \cup {last} /\ last \notin DOMAIN rows
            /\ \A i \in DOMAIN rows : rows'[i] = rows[i]
    BY <2>1, LastRow
  <2> QED BY <2>2 DEF item
<1>7. \A i \in DOMAIN rows' : rows'[i].item = "L3" \/ i = last BY <1>1, <1>6, HeadsOnly
<1>8. Measurement("memory")' # {} <=> ok
  <2>1. CASE ok BY <1>6, <2>1 DEF Measurement, RowOf
  <2>2. CASE ~ok BY <1>6, <1>7, <2>2 DEF Measurement, RowOf
  <2> QED BY <2>1, <2>2
<1>9. StoresFollow' BY <1>6, <1>7 DEF StoresFollow, Stores
<1>10. Layout'
  <2>1. CASE ok
    <3>1. pc' = "write" BY <1>3, <2>1
    <3>2. Written(pc)' = Heads' \o <<"memory">> BY <3>1 DEF Written
    <3> QED BY <1>5, <1>8, <2>1, <3>1, <3>2 DEF Layout, AfterMemory, Stores
  <2>2. CASE ~ok BY <1>3, <1>5, <1>8, <2>2 DEF Layout, AfterMemory, Stores
  <2> QED BY <2>1, <2>2
<1> QED BY <1>9, <1>10

LEMMA StoreStep ==
    ASSUME WorksetInvariant, Layout, StoresFollow, ask.table, NEW kernel \in Stores,
           StreamStore(kernel)
    PROVE  Layout' /\ StoresFollow'
<1>1. UNCHANGED <<host, ask>> /\ pc = kernel /\ pc \in AfterMemory
  BY DEF StreamStore, AfterMemory
<1>2. PICK ok \in BOOLEAN : Row(kernel, IF ok THEN WholeBlocks(MemoryRead, kernel) ELSE 0, ok)
  BY DEF StreamStore, Accepts
<1>3. MaxSize \in Nat BY Constants DEF WorksetInvariant
<1>4. (IF ok THEN WholeBlocks(MemoryRead, kernel) ELSE 0) \in 0..MaxSize
  BY <1>1, <1>3, MemoryReadType
<1>5. kernel \in Items /\ kernel # "memory" /\ kernel # "allocate" BY DEF Items, Stores
<1>6. StoresFollow' BY <1>2, <1>4, <1>5, StoresKept
<1>7. Measurement("memory")' # {} BY <1>1, <1>2, <1>4, <1>5, MemorySame DEF Layout
<1>8. Heads' = Heads BY <1>1, SameHeads
<1>9. pc' \in {"partial", "nontemporal", "verdict"} /\ Written(pc)' = Append(Written(pc), kernel)
  <2>1. CASE kernel = "write"
    <3>1. pc' = "partial" BY <2>1 DEF StreamStore, Successor
    <3>2. Written(pc)' = Heads' \o <<"memory", "write">> BY <3>1 DEF Written
    <3> QED BY <1>1, <1>8, <2>1, <3>1, <3>2, WrittenIs, TableGrows
  <2>2. CASE kernel = "partial"
    <3>1. pc' = "nontemporal" BY <2>2 DEF StreamStore, Successor
    <3>2. Written(pc)' = Heads' \o <<"memory", "write", "partial">> BY <3>1 DEF Written
    <3> QED BY <1>1, <1>8, <2>2, <3>1, <3>2, WrittenIs, TableGrows
  <2>3. CASE kernel = "nontemporal"
    <3>1. pc' = "verdict" BY <2>3 DEF StreamStore, Successor
    <3>2. Written(pc)' = Heads' \o <<"memory", "write", "partial", "nontemporal">>
      BY <3>1 DEF Written
    <3> QED BY <1>1, <1>8, <2>3, <3>1, <3>2, WrittenIs, TableGrows
  <2> QED BY <2>1, <2>2, <2>3 DEF Stores
<1>10. ItemsOf = Written(pc) BY <1>1 DEF Layout, AfterMemory, Stores
<1>11. ItemsOf' = Written(pc)' BY <1>2, <1>4, <1>5, <1>9, <1>10, ItemsAppended
<1>12. Layout' BY <1>7, <1>9, <1>11 DEF Layout, AfterMemory, Stores
<1> QED BY <1>6, <1>12

LEMMA VerdictStep ==
    ASSUME WorksetInvariant, Layout, StoresFollow, ask.table, Verdict
    PROVE  Layout' /\ StoresFollow'
<1>1. UNCHANGED <<host, ask>> /\ pc = "verdict" /\ pc \in AfterMemory
      /\ pc' = "done" /\ status' = "success"
  BY DEF Verdict, Return, AfterMemory
<1>2. PICK ok \in BOOLEAN : /\ ok <=> (Streamed("write") /\ Streamed("partial"))
                            /\ Row("allocate", MemoryRead, ok)
  BY DEF Verdict
<1>3. MemoryRead \in 0..MaxSize /\ "allocate" \in Items BY <1>1, MemoryReadType DEF Items
<1>4. StoresFollow' BY <1>2, <1>3, StoresKept DEF Stores
<1>5. Measurement("memory")' # {} BY <1>1, <1>2, <1>3, MemorySame DEF Layout
<1>6. ItemsOf' = Heads' \o Stored
  <2>1. ItemsOf = Heads \o <<"memory", "write", "partial", "nontemporal">>
    BY <1>1, WrittenIs DEF Layout
  <2> QED BY <1>1, <1>2, <1>3, <2>1, SameHeads, ItemsAppended, TableGrows
<1>7. Layout' BY <1>1, <1>5, <1>6 DEF Layout, AfterMemory, Stores
<1> QED BY <1>4, <1>7

\* The table holds the rows of the streams made so far, in their order, and a store
\* streams over the whole blocks of the memory stream's workset.
THEOREM RowInvariantHolds == Spec => []RowInvariant
<1>1. Init => RowInvariant
  <2>1. ASSUME Init, ~ask.table PROVE RowInvariant BY <2>1 DEF RowInvariant
  <2> QED BY <2>1, FirstRows
<1>2. WorksetInvariant /\ RowInvariant /\ [Next]_vars => RowInvariant'
  <2> SUFFICES ASSUME WorksetInvariant, RowInvariant, [Next]_vars, ask'.table
               PROVE  Layout' /\ StoresFollow'
    BY DEF RowInvariant
  <2>1. ask' = ask
    BY DEF Next, SkipL3, StreamL3, MemoryFails, StreamMemory, StreamStore, Verdict, vars
  <2>2. ask.table /\ Layout /\ StoresFollow BY <2>1 DEF RowInvariant
  <2>3. CASE SkipL3 \/ StreamL3 BY <2>2, <2>3, L3Step
  <2>4. CASE MemoryFails \/ StreamMemory BY <2>2, <2>4, MemoryStep
  <2>5. ASSUME NEW kernel \in Stores, StreamStore(kernel) PROVE Layout' /\ StoresFollow'
    BY <2>2, <2>5, StoreStep
  <2>6. CASE Verdict BY <2>2, <2>6, VerdictStep
  <2>7. CASE UNCHANGED vars
    <3>1. UNCHANGED <<pc, host, ask, rows, status>> BY <2>7 DEF vars
    <3>2. Heads' = Heads /\ ItemsOf' = ItemsOf BY <3>1, SameHeads DEF ItemsOf
    <3>3. Written(pc)' = Written(pc) BY <3>1, <3>2 DEF Written
    <3>4. Measurement("memory")' = Measurement("memory") BY <3>1 DEF Measurement, RowOf
    <3>5. Layout' BY <2>2, <3>1, <3>2, <3>3, <3>4 DEF Layout, AfterMemory
    <3>6. MemoryRead' = MemoryRead /\ \A kernel : Streamed(kernel)' <=> Streamed(kernel)
      BY <3>1 DEF MemoryRead, Streamed
    <3>7. StoresFollow' BY <2>2, <3>1, <3>6 DEF StoresFollow, WholeBlocks
    <3> QED BY <3>5, <3>7
  <2> QED BY <2>3, <2>4, <2>5, <2>6, <2>7 DEF Next
<1> QED BY <1>1, <1>2, WorksetInvariantHolds, PTL DEF Spec

LEMMA StoredIs ==
    <<"memory">> \o <<"write", "partial", "nontemporal", "allocate">> = Stored
<1> DEFINE s == <<"memory">>
           t == <<"write", "partial", "nontemporal", "allocate">>
           r == s \o t
<1>1. s \in Seq(RowNames) /\ Len(s) = 1 /\ s[1] = "memory" BY DEF RowNames
<1>2. /\ t \in Seq(RowNames) /\ Len(t) = 4
      /\ t[1] = "write" /\ t[2] = "partial" /\ t[3] = "nontemporal" /\ t[4] = "allocate"
  BY DEF RowNames
<1>3. /\ Stored \in Seq(RowNames) /\ Len(Stored) = 5 /\ Stored[1] = "memory"
      /\ Stored[2] = "write" /\ Stored[3] = "partial" /\ Stored[4] = "nontemporal"
      /\ Stored[5] = "allocate"
  BY DEF Stored, RowNames
<1> HIDE DEF s, t
<1>4. /\ r \in Seq(RowNames) /\ Len(r) = 5
      /\ \A i \in 1..5 : r[i] = IF i <= 1 THEN s[i] ELSE t[i - 1]
  <2>1. /\ r \in Seq(RowNames) /\ Len(r) = Len(s) + Len(t)
        /\ \A i \in 1..(Len(s) + Len(t)) : r[i] = IF i <= Len(s) THEN s[i] ELSE t[i - Len(s)]
    BY <1>1, <1>2, ConcatProperties
  <2>2. Len(s) + Len(t) = 5 BY <1>1, <1>2
  <2> HIDE DEF r
  <2> QED BY <1>1, <2>1, <2>2
<1> HIDE DEF r
<1>5. r[1] = s[1] /\ r[2] = t[1] /\ r[3] = t[2] /\ r[4] = t[3] /\ r[5] = t[4] BY <1>4
<1>6. \A i \in 1..5 : i = 1 \/ i = 2 \/ i = 3 \/ i = 4 \/ i = 5 OBVIOUS
<1>7. \A i \in 1..5 : r[i] = Stored[i] BY <1>1, <1>2, <1>3, <1>5, <1>6
<1>8. r = Stored BY <1>3, <1>4, <1>7, SeqEqual
<1> QED BY <1>8 DEF r, s, t

(***************************************************************************)
(* What the rows may be read as.                                           *)
(***************************************************************************)

\* On every machine an L3 row is of a stream that is larger than any L2 of the
\* cores it runs on and fits the L3 with the streams of all the others
\* (select_parallel_l3_workset).
THEOREM L3RowsMeasureL3 == Spec => []L3RowMeasuresL3
<1>1. WorksetInvariant => L3RowMeasuresL3
  <2> SUFFICES ASSUME WorksetInvariant, NEW i \in DOMAIN rows, rows[i].item = "L3", rows[i].ok
               PROVE  /\ \A c \in Cpus : \A b \in Listed(c, 2) : rows[i].bytes > b
                      /\ \E b \in Listed(1, 3) : N * rows[i].bytes < b
                      /\ host.measured > 0 => rows[i].bytes <= host.measured - host.measured \div 4
                      /\ rows[i].bytes % Block["read"] = 0
    BY DEF L3RowMeasuresL3, Measurement, RowOf
  <2>1. Unchanging /\ rows[i].bytes = ParallelL3Workset /\ ParallelL3Workset # 0
    BY DEF WorksetInvariant, RowsOfTheirWorksets
  <2>2. /\ ParallelL3Workset \in Nat
        /\ \A c \in Cpus : ParallelL3Workset > L2(c)
        /\ L3 > 0 /\ N * ParallelL3Workset < L3
        /\ host.measured > 0 => ParallelL3Workset <= host.measured - host.measured \div 4
        /\ ParallelL3Workset % Block["read"] = 0
    BY <2>1, ParallelL3Bounds
  <2>3. 1 \in Cpus /\ MaxSize \in Nat /\ 2 \in 1..3 /\ 3 \in 1..3 BY <2>1, SomeCores, Constants
  <2>4. ASSUME NEW c \in Cpus, NEW b \in Listed(c, 2) PROVE ParallelL3Workset > b
    <3>1. L2(c) >= b /\ L2(c) \in 0..MaxSize /\ b \in 0..MaxSize
      BY <2>1, <2>3, LevelIsLargest DEF L2
    <3> QED BY <3>1, <2>2, <2>3
  <2>5. L3 \in Listed(1, 3)
    <3>1. L3 \in Listed(1, 3) \cup {0} BY <2>1, <2>3, LevelIsLargest DEF L3
    <3> QED BY <3>1, <2>2
  <2> QED BY <2>1, <2>2, <2>4, <2>5
<1> QED BY <1>1, WorksetInvariantHolds, PTL

\* On every machine a memory row has the requested size, without wrapping
\* around, or the recommended one, shrunk only where the machine could not hold
\* it for every core (select_memory_workset).
THEOREM MemoryRowsHonourRequests == Spec => []MemoryRowHonoursRequest
<1>1. WorksetInvariant => MemoryRowHonoursRequest
  <2> SUFFICES ASSUME WorksetInvariant, NEW i \in DOMAIN rows, rows[i].item = "memory", rows[i].ok
               PROVE  IF ask.mib > 0 THEN rows[i].bytes = ask.mib * MiB
                      ELSE \/ rows[i].bytes = Max({Fallback} \cup {4 * b : b \in Outermost})
                           \/ /\ host.budget > 0 /\ N * Recommended > host.budget
                              /\ N * rows[i].bytes <= host.budget
                              /\ rows[i].bytes > Floor - Block["read"]
    BY DEF MemoryRowHonoursRequest, Measurement, RowOf
  <2>1. Unchanging /\ rows[i].bytes = MemoryWorkset /\ Accepts(MemoryWorkset, "read")
    BY DEF WorksetInvariant, RowsOfTheirWorksets
  <2> QED BY <2>1, MemoryBounds
<1> QED BY <1>1, WorksetInvariantHolds, PTL

\* Whatever streams fail, the table holds the row of each in its order, and a
\* verdict is of two streams that ran (append_memory_store_rows).
THEOREM FailuresKeepRows == Spec => []RowsSurviveFailures
<1>1. WorksetInvariant /\ RowInvariant => RowsSurviveFailures
  <2> DEFINE stored == <<"write", "partial", "nontemporal", "allocate">>
  <2> SUFFICES ASSUME WorksetInvariant, RowInvariant, pc = "done", ask.table
               PROVE  /\ status = "success"
                      /\ ItemsOf = Heads \o <<"memory">>
                             \o (IF Measurement("memory") # {} THEN stored ELSE << >>)
                      /\ \A row \in Measurement("allocate"), kernel \in {"write", "partial"} :
                             \E stream \in Measurement(kernel) :
                                 row.bytes - stream.bytes \in 0..(Block[kernel] - 1)
    BY DEF RowsSurviveFailures, ItemsOf, Heads
  <2>1. Layout /\ StoresFollow /\ Unchanging BY DEF RowInvariant, WorksetInvariant
  <2>2. ItemsOf = Heads \o <<"memory">> \o (IF Measurement("memory") # {} THEN stored ELSE << >>)
    <3>1. Heads \in Seq(RowNames) /\ <<"memory">> \in Seq(RowNames)
      <4>1. << >> \in Seq(RowNames) /\ <<"L3">> \in Seq(RowNames) BY DEF RowNames
      <4>2. Heads = << >> \/ Heads = <<"L3">> BY DEF Heads
      <4> QED BY <4>1, <4>2, Append1
    <3>2. stored \in Seq(RowNames) BY DEF RowNames
    <3>3. Heads \o <<"memory">> \in Seq(RowNames) BY <3>1, ConcatProperties
    <3>4. CASE Measurement("memory") = {}
      <4>1. ItemsOf = Heads \o <<"memory">> BY <2>1, <3>4 DEF Layout
      <4> QED BY <3>3, <3>4, <4>1, ConcatEmptySeq
    <3>5. CASE Measurement("memory") # {}
      <4>1. ItemsOf = Heads \o Stored BY <2>1, <3>5 DEF Layout
      <4>2. (Heads \o <<"memory">>) \o stored = Heads \o (<<"memory">> \o stored)
        <5> HIDE DEF stored
        <5> QED BY <3>1, <3>2, ConcatAssociative
      <4> QED BY <3>5, <4>1, <4>2, StoredIs
    <3> QED BY <3>4, <3>5
  <2>3. ASSUME NEW row \in Measurement("allocate"), NEW kernel \in {"write", "partial"}
        PROVE  \E stream \in Measurement(kernel) :
                   row.bytes - stream.bytes \in 0..(Block[kernel] - 1)
    <3>1. PICK i \in DOMAIN rows : row = rows[i] /\ rows[i].item = "allocate" /\ rows[i].ok
      BY <2>3 DEF Measurement, RowOf
    <3>2. row.bytes = MemoryRead /\ Streamed(kernel) BY <2>1, <2>3, <3>1 DEF StoresFollow
    <3>3. PICK j \in DOMAIN rows : rows[j].item = kernel /\ rows[j].ok BY <3>2 DEF Streamed
    <3>4. kernel \in Stores BY DEF Stores
    <3>5. rows[j].bytes = WholeBlocks(MemoryRead, kernel) BY <2>1, <3>3, <3>4 DEF StoresFollow
    <3>6. rows[j] \in Measurement(kernel) BY <3>3 DEF Measurement, RowOf
    <3>7. MemoryRead \in Nat
      <4> DEFINE RowSet == [item : Items, bytes : 0..MaxSize, ok : BOOLEAN]
      <4>1. rows \in Seq(RowSet) BY DEF WorksetInvariant
      <4>2. \A r \in RowSet : r.bytes \in 0..MaxSize OBVIOUS
      <4> HIDE DEF RowSet
      <4>3. row \in RowSet BY <3>1, <4>1
      <4> QED BY <3>2, <4>2, <4>3
    <3>8. Block[kernel] \in Nat \ {0} BY <3>4, WorksetAssumption
    <3>9. MemoryRead % Block[kernel] \in 0..(Block[kernel] - 1) BY <3>7, <3>8, ModBounds
    <3>10. MemoryRead - (MemoryRead - (MemoryRead % Block[kernel])) = MemoryRead % Block[kernel]
      BY <3>7, <3>8, <3>9
    <3>11. row.bytes - rows[j].bytes \in 0..(Block[kernel] - 1)
      BY <3>2, <3>5, <3>9, <3>10 DEF WholeBlocks
    <3> QED BY <3>6, <3>11
  <2>4. status = "success" BY <2>1 DEF Layout
  <2> QED BY <2>2, <2>3, <2>4
<1> QED BY <1>1, WorksetInvariantHolds, RowInvariantHolds, PTL


-----------------------------------------------------------------------------
(* The table.                                                              *)

\* The probes, the prefetch probe and the load category leave the streams alone,
\* and a stream is measured as it is without them (append_cache_memory_bandwidth).
THEOREM TableStreams == TableSpec => Spec
<1>1. TableInit => Init
  BY DEF TableInit
<1>2. [TableNext]_tableVars => [Next]_vars
  <2> SUFFICES ASSUME [TableNext]_tableVars PROVE [Next]_vars
    OBVIOUS
  <2>1. CASE Curve BY <2>1 DEF Curve
  <2>2. CASE Probes BY <2>2 DEF Probes
  <2>3. CASE Prefetch BY <2>3 DEF Prefetch
  <2>4. CASE Streams BY <2>4 DEF Streams
  <2>5. CASE Load BY <2>5 DEF Load
  <2>6. CASE UNCHANGED tableVars BY <2>6 DEF tableVars
  <2> QED BY <2>1, <2>2, <2>3, <2>4, <2>5, <2>6 DEF TableNext
<1> QED BY <1>1, <1>2, PTL DEF TableSpec, Spec

\* Every L3 row of the table measures the L3, and every memory row, in the table
\* or without it, has the workset its reader thinks it has.
THEOREM TableRowsMeasure ==
    TableSpec => [](L3RowMeasuresL3 /\ MemoryRowHonoursRequest /\ RowsSurviveFailures)
BY TableStreams, L3RowsMeasureL3, MemoryRowsHonourRequests, FailuresKeepRows, PTL

-----------------------------------------------------------------------------
(* The orders of the prefetch probe: each has every line once.             *)

LEMMA UpTo ==
    ASSUME NEW m \in Nat, NEW S, 0 \in S, \A k \in 0..m : k \in S /\ k < m => k + 1 \in S
    PROVE  0..m \subseteq S
<1> DEFINE T == {k \in 0..m : 0..k \subseteq S}
<1>1. 0 \in T
  <2>1. 0..0 = {0} OBVIOUS
  <2> QED BY <2>1
<1> DEFINE x == Max(T)
<1>2. x \in T /\ \A y \in T : x >= y
  <2>1. T \subseteq 0..m /\ T # {} BY <1>1
  <2> HIDE DEF T
  <2> QED BY <2>1, MaxOfBounded
<1> HIDE DEF x
<1>3. x \in 0..m /\ 0..x \subseteq S BY <1>2
<1>4. CASE x < m
  <2>1. x + 1 \in S BY <1>3, <1>4
  <2>2. 0..(x + 1) \subseteq S BY <1>3, <2>1
  <2>3. x + 1 \in T BY <1>3, <1>4, <2>2
  <2> QED BY <1>2, <1>3, <2>3
<1> QED BY <1>3, <1>4

\* A sequence that has nothing twice, and what it has.
Once(s) == \A i, j \in 1..Len(s) : s[i] = s[j] => i = j
Values(s) == {s[i] : i \in 1..Len(s)}

\* An order of n lines.
Orders(n) == {s \in Seq(0..(n - 1)) : Once(s) /\ Values(s) = 0..(n - 1) /\ Len(s) = n}

LEMMA LengthIs ==
    ASSUME NEW n \in Nat, NEW s \in Seq(0..(n - 1)), Once(s), Values(s) = 0..(n - 1)
    PROVE  s \in Orders(n)
<1> DEFINE D == 1..Len(s)
           T == 0..(n - 1)
<1>1. s \in [D -> T] /\ Len(s) \in Nat OBVIOUS
<1>2. s \in Injection(D, T) BY <1>1 DEF Once, Injection, IsInjective
<1>3. s \in Surjection(D, T) BY <1>1 DEF Values, Surjection
<1>4. /\ IsFiniteSet(D) /\ Cardinality(D) = Len(s)
      /\ IsFiniteSet(T) /\ Cardinality(T) = n
  <2>1. IsFiniteSet(1..Len(s)) /\ Cardinality(1..Len(s)) = Len(s)
    <3> DEFINE m == Len(s)
    <3>1. m \in Int /\ 1 \in Int /\ (IF 1 > m THEN 0 ELSE m - 1 + 1) = m OBVIOUS
    <3> HIDE DEF m
    <3>2. IsFiniteSet(1..m) /\ Cardinality(1..m) = IF 1 > m THEN 0 ELSE m - 1 + 1
      BY <3>1, FS_Interval
    <3> QED BY <3>1, <3>2 DEF m
  <2>2. IsFiniteSet(0..(n - 1)) /\ Cardinality(0..(n - 1)) = n
    <3> DEFINE b == n - 1
    <3>1. b \in Int /\ 0 \in Int /\ (IF 0 > b THEN 0 ELSE b - 0 + 1) = n OBVIOUS
    <3> HIDE DEF b
    <3>2. IsFiniteSet(0..b) /\ Cardinality(0..b) = IF 0 > b THEN 0 ELSE b - 0 + 1
      BY <3>1, FS_Interval
    <3> QED BY <3>1, <3>2 DEF b
  <2> QED BY <2>1, <2>2
<1> HIDE DEF D, T
<1>5. Cardinality(T) = Cardinality(D) BY <1>2, <1>3, <1>4, FS_Surjection
<1> QED BY <1>4, <1>5 DEF Orders

LEMMA ConcatValues ==
    ASSUME NEW S, NEW s \in Seq(S), NEW t \in Seq(S)
    PROVE  s \o t \in Seq(S) /\ Values(s \o t) = Values(s) \cup Values(t)
<1> DEFINE c == s \o t
           m == Len(s)
           n == Len(t)
<1>1. /\ c \in Seq(S) /\ Len(c) = m + n
      /\ \A i \in 1..(m + n) : c[i] = IF i <= m THEN s[i] ELSE t[i - m]
  BY ConcatProperties
<1>2. m \in Nat /\ n \in Nat OBVIOUS
<1> HIDE DEF c, m, n
<1>3. \A i \in 1..m : i \in 1..(m + n) /\ c[i] = s[i] BY <1>1, <1>2
<1>4. \A i \in 1..n : m + i \in 1..(m + n) /\ c[m + i] = t[i]
  <2> SUFFICES ASSUME NEW i \in 1..n PROVE m + i \in 1..(m + n) /\ c[m + i] = t[i] OBVIOUS
  <2>1. m + i \in 1..(m + n) /\ ~(m + i <= m) /\ (m + i) - m = i BY <1>2
  <2>2. c[m + i] = t[(m + i) - m] BY <1>1, <2>1
  <2> QED BY <2>1, <2>2
<1>5. ASSUME NEW i \in 1..(m + n) PROVE i \in 1..m \/ \E k \in 1..n : i = m + k
  <2>1. CASE i <= m BY <1>2, <2>1
  <2>2. CASE i > m
    <3>1. i - m \in 1..n /\ i = m + (i - m) BY <1>2, <2>2
    <3> QED BY <3>1
  <2> QED BY <1>2, <2>1, <2>2
<1>6. Values(s) = {s[i] : i \in 1..m} /\ Values(t) = {t[i] : i \in 1..n}
  BY DEF Values, m, n
<1>7. Values(c) = {c[i] : i \in 1..(m + n)} BY <1>1 DEF Values
<1>8. Values(c) = Values(s) \cup Values(t)
  <2>1. \A i \in 1..(m + n) : c[i] \in Values(s) \cup Values(t) BY <1>3, <1>4, <1>5, <1>6
  <2>2. \A i \in 1..m : s[i] \in Values(c) BY <1>3, <1>7
  <2>3. \A i \in 1..n : t[i] \in Values(c)
    <3> SUFFICES ASSUME NEW i \in 1..n PROVE t[i] \in Values(c) OBVIOUS
    <3>1. m + i \in 1..(m + n) /\ c[m + i] = t[i] BY <1>4
    <3> QED BY <1>7, <3>1
  <2>4. Values(s) \cup Values(t) \subseteq Values(c) BY <1>6, <2>2, <2>3
  <2>5. Values(c) \subseteq Values(s) \cup Values(t) BY <1>7, <2>1
  <2> QED BY <2>4, <2>5
<1> QED BY <1>1, <1>8 DEF c

LEMMA ConcatOnce ==
    ASSUME NEW S, NEW s \in Seq(S), NEW t \in Seq(S), Once(s), Once(t), Values(s) \cap Values(t) = {}
    PROVE  s \o t \in Seq(S) /\ Once(s \o t) /\ Values(s \o t) = Values(s) \cup Values(t)
<1> DEFINE c == s \o t
           m == Len(s)
           n == Len(t)
<1>1. /\ c \in Seq(S) /\ Len(c) = m + n
      /\ \A i \in 1..(m + n) : c[i] = IF i <= m THEN s[i] ELSE t[i - m]
  BY ConcatProperties
<1>2. m \in Nat /\ n \in Nat OBVIOUS
<1> HIDE DEF c, m, n
<1>3. \A i \in 1..m : i \in 1..(m + n) /\ c[i] = s[i] BY <1>1, <1>2
<1>4. \A i \in 1..n : m + i \in 1..(m + n) /\ c[m + i] = t[i]
  <2> SUFFICES ASSUME NEW i \in 1..n PROVE m + i \in 1..(m + n) /\ c[m + i] = t[i] OBVIOUS
  <2>1. m + i \in 1..(m + n) /\ ~(m + i <= m) /\ (m + i) - m = i BY <1>2
  <2>2. c[m + i] = t[(m + i) - m] BY <1>1, <2>1
  <2> QED BY <2>1, <2>2
<1>5. ASSUME NEW i \in 1..(m + n) PROVE i \in 1..m \/ \E k \in 1..n : i = m + k
  <2>1. CASE i <= m BY <1>2, <2>1
  <2>2. CASE i > m
    <3>1. i - m \in 1..n /\ i = m + (i - m) BY <1>2, <2>2
    <3> QED BY <3>1
  <2> QED BY <1>2, <2>1, <2>2
<1>6. Values(s) = {s[i] : i \in 1..m} /\ Values(t) = {t[i] : i \in 1..n}
  BY DEF Values, m, n
<1>7. Values(c) = Values(s) \cup Values(t) BY ConcatValues DEF c
<1>8. ASSUME NEW i \in 1..(m + n), NEW j \in 1..(m + n), c[i] = c[j] PROVE i = j
  <2>1. CASE i \in 1..m /\ j \in 1..m BY <1>3, <1>8, <2>1 DEF Once, m
  <2>2. CASE \E k \in 1..n, l \in 1..n : i = m + k /\ j = m + l
    <3>1. PICK k \in 1..n, l \in 1..n : i = m + k /\ j = m + l BY <2>2
    <3>2. t[k] = t[l] BY <1>4, <1>8, <3>1
    <3> QED BY <3>1, <3>2 DEF Once, n
  <2>3. \A k \in 1..m, l \in 1..n : c[k] # c[m + l]
    <3> SUFFICES ASSUME NEW k \in 1..m, NEW l \in 1..n PROVE c[k] # c[m + l] OBVIOUS
    <3>1. c[k] = s[k] /\ c[m + l] = t[l] BY <1>3, <1>4
    <3>2. s[k] \in Values(s) /\ t[l] \in Values(t) BY <1>6
    <3> QED BY <3>1, <3>2
  <2> QED BY <1>5, <1>8, <2>1, <2>2, <2>3
<1>9. Once(c) BY <1>1, <1>8 DEF Once
<1> QED BY <1>1, <1>7, <1>9 DEF c

\* The recursion of FlattenSeq: the first i sequences, one behind the other.
Grows(f, F, K) == f[1] = F[1] /\ \A i \in 1..K : i > 1 => f[i] = f[i - 1] \o F[i]

LEMMA FlattenIs ==
    ASSUME NEW S, NEW K \in Nat \ {0}, NEW F \in [1..K -> Seq(S)]
    PROVE  \E f : FlattenSeq(F) = f[K] /\ Grows(f, F, K)
<1> DEFINE Fills(f, k) == f = [i \in 1..k |-> IF i = 1 THEN F[i] ELSE f[i - 1] \o F[i]]
           T == {k \in 0..K : k = 0 \/ \E f : Fills(f, k)}
<1>1. 0 \in T OBVIOUS
<1>2. ASSUME NEW k \in 0..K, k \in T, k < K PROVE k + 1 \in T
  <2>1. CASE k = 0
    <3> DEFINE f == [i \in 1..1 |-> F[i]]
    <3>1. \A i \in 1..1 : i = 1 OBVIOUS
    <3>2. f = [i \in 1..1 |-> IF i = 1 THEN F[i] ELSE f[i - 1] \o F[i]] BY <3>1
    <3> HIDE DEF f
    <3>3. \E h : Fills(h, 1) BY <3>2
    <3>4. k + 1 = 1 /\ 1 \in 0..K BY <2>1
    <3> HIDE DEF Fills
    <3> QED BY <3>3, <3>4
  <2>2. CASE k # 0
    <3>1. PICK f : Fills(f, k) BY <1>2, <2>2
    <3> DEFINE g == [i \in 1..(k + 1) |-> IF i <= k THEN f[i] ELSE f[k] \o F[i]]
    <3>2. \A i \in 1..k : f[i] = IF i = 1 THEN F[i] ELSE f[i - 1] \o F[i] BY <3>1
    <3>3. ASSUME NEW i \in 1..(k + 1) PROVE g[i] = IF i = 1 THEN F[i] ELSE g[i - 1] \o F[i]
      <4>1. CASE i = 1
        <5>1. i \in 1..k /\ g[i] = f[i] BY <1>2, <2>2, <4>1
        <5> QED BY <3>2, <4>1, <5>1
      <4>2. CASE i > 1 /\ i <= k
        <5>1. i \in 1..k /\ i - 1 \in 1..(k + 1) /\ i - 1 <= k BY <4>2
        <5>2. g[i] = f[i] /\ g[i - 1] = f[i - 1] BY <5>1
        <5> QED BY <3>2, <4>2, <5>1, <5>2
      <4>3. CASE i = k + 1
        <5>1. i # 1 /\ i - 1 = k /\ ~(i <= k) /\ k \in 1..(k + 1) BY <1>2, <2>2, <4>3
        <5>2. g[i] = f[k] \o F[i] BY <5>1
        <5>3. g[k] = f[k] BY <5>1
        <5> QED BY <5>1, <5>2, <5>3
      <4> QED BY <4>1, <4>2, <4>3
    <3>4. g = [i \in 1..(k + 1) |-> g[i]] OBVIOUS
    <3> HIDE DEF g
    <3>5. g = [i \in 1..(k + 1) |-> IF i = 1 THEN F[i] ELSE g[i - 1] \o F[i]] BY <3>3, <3>4
    <3>6. \E h : Fills(h, k + 1) BY <3>5
    <3>7. k + 1 \in 0..K BY <1>2
    <3> HIDE DEF Fills
    <3> QED BY <3>6, <3>7
  <2> QED BY <2>1, <2>2
<1> HIDE DEF T
<1>3. K \in T
  <2>1. 0..K \subseteq T BY <1>1, <1>2, UpTo
  <2> QED BY <2>1
<1>4. \E f : Fills(f, K) BY <1>3 DEF T
<1> DEFINE f == CHOOSE f : f = [i \in 1..K |-> IF i = 1 THEN F[i] ELSE f[i - 1] \o F[i]]
<1>5. f = [i \in 1..K |-> IF i = 1 THEN F[i] ELSE f[i - 1] \o F[i]] BY <1>4
<1>6. Len(F) = K OBVIOUS
<1>7. FlattenSeq(F) = f[K] BY <1>6 DEF FlattenSeq
<1> HIDE DEF f
<1>8. \A i \in 1..K : f[i] = IF i = 1 THEN F[i] ELSE f[i - 1] \o F[i] BY <1>5
<1>9. f[1] = F[1] /\ \A i \in 1..K : i > 1 => f[i] = f[i - 1] \o F[i]
  <2>1. 1 \in 1..K /\ \A i \in 1..K : i > 1 => i # 1 OBVIOUS
  <2> QED BY <1>8, <2>1
<1>10. Grows(f, F, K) BY <1>9 DEF Grows
<1> QED BY <1>7, <1>10

LEMMA FlattenType ==
    ASSUME NEW S, NEW K \in Nat \ {0}, NEW F \in [1..K -> Seq(S)]
    PROVE  FlattenSeq(F) \in Seq(S)
<1>1. PICK f : FlattenSeq(F) = f[K] /\ Grows(f, F, K) BY FlattenIs
<1> DEFINE T == {i \in 0..K : i = 0 \/ f[i] \in Seq(S)}
<1>2. 0 \in T OBVIOUS
<1>3. ASSUME NEW k \in 0..K, k \in T, k < K PROVE k + 1 \in T
  <2>1. CASE k = 0 BY <1>1, <2>1 DEF Grows
  <2>2. CASE k # 0
    <3>1. k + 1 \in 1..K /\ k + 1 > 1 /\ (k + 1) - 1 = k BY <1>3, <2>2
    <3>2. f[k + 1] = f[k] \o F[k + 1] BY <1>1, <3>1 DEF Grows
    <3>3. f[k] \in Seq(S) /\ F[k + 1] \in Seq(S) BY <1>3, <2>2, <3>1
    <3>4. f[k + 1] \in Seq(S) BY <3>2, <3>3, ConcatProperties
    <3> QED BY <3>1, <3>4
  <2> QED BY <2>1, <2>2
<1> HIDE DEF T
<1>4. K \in T
  <2>1. 0..K \subseteq T BY <1>2, <1>3, UpTo
  <2> QED BY <2>1
<1> QED BY <1>1, <1>4 DEF T

\* Parts that have nothing in common and nothing twice.
Parts(F, K) ==
    /\ \A i \in 1..K : Once(F[i])
    /\ \A i, j \in 1..K : i # j => Values(F[i]) \cap Values(F[j]) = {}

LEMMA FlattenParts ==
    ASSUME NEW S, NEW K \in Nat \ {0}, NEW F \in [1..K -> Seq(S)], Parts(F, K)
    PROVE  /\ FlattenSeq(F) \in Seq(S) /\ Once(FlattenSeq(F))
           /\ \A x : x \in Values(FlattenSeq(F)) <=> \E j \in 1..K : x \in Values(F[j])
<1>1. PICK f : FlattenSeq(F) = f[K] /\ Grows(f, F, K) BY FlattenIs
<1> DEFINE T == {i \in 0..K : i = 0 \/ /\ f[i] \in Seq(S) /\ Once(f[i])
                                       /\ \A x : x \in Values(f[i]) <=>
                                                 \E j \in 1..i : x \in Values(F[j])}
<1>2. 0 \in T OBVIOUS
<1>3. ASSUME NEW k \in 0..K, k \in T, k < K PROVE k + 1 \in T
  <2>1. CASE k = 0
    <3>1. f[1] \in Seq(S) /\ Once(f[1]) BY <1>1 DEF Parts, Grows
    <3>2. \A x : x \in Values(f[1]) <=> \E j \in 1..1 : x \in Values(F[j])
      <4>1. 1..1 = {1} OBVIOUS
      <4> QED BY <1>1, <4>1 DEF Grows
    <3>3. k + 1 = 1 /\ 1 \in 0..K BY <2>1
    <3> QED BY <3>1, <3>2, <3>3
  <2>2. CASE k # 0
    <3>1. k + 1 \in 1..K /\ k + 1 > 1 /\ (k + 1) - 1 = k /\ k \in 1..K BY <1>3, <2>2
    <3>2. f[k + 1] = f[k] \o F[k + 1] BY <1>1, <3>1 DEF Grows
    <3>3. /\ f[k] \in Seq(S) /\ Once(f[k])
          /\ \A x : x \in Values(f[k]) <=> \E j \in 1..k : x \in Values(F[j])
      BY <1>3, <2>2
    <3>4. F[k + 1] \in Seq(S) /\ Once(F[k + 1]) BY <3>1 DEF Parts
    <3>5. Values(f[k]) \cap Values(F[k + 1]) = {}
      <4> SUFFICES ASSUME NEW x, x \in Values(f[k]), x \in Values(F[k + 1]) PROVE FALSE OBVIOUS
      <4>1. PICK j \in 1..k : x \in Values(F[j]) BY <3>3
      <4>2. j \in 1..K /\ j # k + 1 BY <3>1
      <4> QED BY <3>1, <4>1, <4>2 DEF Parts
    <3>6. /\ f[k + 1] \in Seq(S) /\ Once(f[k + 1])
          /\ Values(f[k + 1]) = Values(f[k]) \cup Values(F[k + 1])
      <4> QED BY <3>2, <3>3, <3>4, <3>5, ConcatOnce
    <3>7. \A x : x \in Values(f[k + 1]) <=> \E j \in 1..(k + 1) : x \in Values(F[j])
      <4>1. 1..(k + 1) = 1..k \cup {k + 1} BY <3>1
      <4> QED BY <3>3, <3>6, <4>1
    <3>8. k + 1 \in 0..K BY <3>1
    <3> QED BY <3>6, <3>7, <3>8
  <2> QED BY <2>1, <2>2
<1> HIDE DEF T
<1>4. K \in T
  <2>1. 0..K \subseteq T BY <1>2, <1>3, UpTo
  <2> QED BY <2>1
<1>5. /\ f[K] \in Seq(S) /\ Once(f[K])
      /\ \A x : x \in Values(f[K]) <=> \E j \in 1..K : x \in Values(F[j])
  BY <1>4 DEF T
<1> QED BY <1>1, <1>5

\* Parts that have all lines make an order of the lines.
LEMMA FlattenOnce ==
    ASSUME NEW n \in Nat, NEW K \in Nat \ {0}, NEW F \in [1..K -> Seq(0..(n - 1))], Parts(F, K),
           \A l \in 0..(n - 1) : \E i \in 1..K : l \in Values(F[i])
    PROVE  FlattenSeq(F) \in Orders(n)
<1> DEFINE o == FlattenSeq(F)
<1>1. /\ o \in Seq(0..(n - 1)) /\ Once(o)
      /\ \A x : x \in Values(o) <=> \E j \in 1..K : x \in Values(F[j])
  BY FlattenParts
<1> HIDE DEF o
<1>2. \A x \in Values(o) : x \in 0..(n - 1)
  <2> DEFINE T == 0..(n - 1)
  <2>1. o \in Seq(T) BY <1>1
  <2> HIDE DEF T
  <2>2. \A i \in 1..Len(o) : o[i] \in T BY <2>1
  <2> QED BY <2>2 DEF Values, T
<1>3. \A x \in 0..(n - 1) : x \in Values(o) BY <1>1
<1>4. Values(o) = 0..(n - 1) BY <1>2, <1>3
<1>5. o \in Orders(n) BY <1>1, <1>4, LengthIs
<1> QED BY <1>5 DEF o

LEMMA SpanIs ==
    ASSUME NEW a \in Nat, NEW b \in Nat, a <= b, NEW d \in Nat \ {0}
    PROVE  /\ Span(a, b, d) \in Seq(a..b) /\ Once(Span(a, b, d))
           /\ \A x : x \in Values(Span(a, b, d)) <=>
                         \E k \in Nat : a + k * d <= b /\ x = a + k * d
<1> DEFINE m == (b - a) \div d
           s == Span(a, b, d)
<1>1. m \in Nat /\ \A k \in Nat : k <= m <=> k * d <= b - a
  <2>1. b - a \in Nat OBVIOUS
  <2>2. m \in Nat BY <2>1, DivBounds
  <2>3. ASSUME NEW k \in Nat PROVE k <= m <=> k * d <= b - a
    <3>1. k <= m => k * d <= b - a BY <2>1, QuotientBound
    <3>2. k > m => d * k > b - a BY <2>1, QuotientBound
    <3>3. d * k = k * d /\ k * d \in Nat OBVIOUS
    <3> QED BY <2>1, <2>2, <3>1, <3>2, <3>3
  <2> QED BY <2>2, <2>3
<1>2. s = [k \in 1..(m + 1) |-> a + (k - 1) * d] BY DEF Span
<1> HIDE DEF m, s
<1>3. \A k \in 1..(m + 1) : s[k] = a + (k - 1) * d /\ k - 1 \in Nat /\ k - 1 <= m BY <1>1, <1>2
<1>4. ASSUME NEW k \in Nat, k <= m PROVE a + k * d \in a..b /\ k * d \in Nat
  <2>1. k * d \in Nat OBVIOUS
  <2>2. k * d <= b - a BY <1>1, <1>4
  <2> QED BY <2>1, <2>2
<1>5. s \in Seq(a..b) /\ Len(s) = m + 1
  <2>1. \A k \in 1..(m + 1) : a + (k - 1) * d \in a..b BY <1>3, <1>4
  <2>2. m + 1 \in Nat BY <1>1
  <2> QED BY <1>2, <2>1, <2>2
<1>6. Once(s)
  <2> SUFFICES ASSUME NEW i \in 1..(m + 1), NEW j \in 1..(m + 1), s[i] = s[j] PROVE i = j
    BY <1>5 DEF Once
  <2> DEFINE x == i - 1
             y == j - 1
  <2>1. x \in Nat /\ y \in Nat /\ a + x * d = a + y * d BY <1>3
  <2> HIDE DEF x, y
  <2>2. x * d \in Nat /\ y * d \in Nat BY <2>1
  <2>3. x * d = y * d BY <2>1, <2>2
  <2>4. x = y BY <2>1, <2>3
  <2> QED BY <1>1, <2>4 DEF x, y
<1>7. ASSUME NEW x PROVE x \in Values(s) <=> \E k \in Nat : a + k * d <= b /\ x = a + k * d
  <2>1. ASSUME x \in Values(s) PROVE \E k \in Nat : a + k * d <= b /\ x = a + k * d
    <3>1. PICK i \in 1..(m + 1) : x = s[i] BY <1>5, <2>1 DEF Values
    <3>2. i - 1 \in Nat /\ i - 1 <= m /\ x = a + (i - 1) * d BY <1>3, <3>1
    <3>3. a + (i - 1) * d <= b BY <1>4, <3>2
    <3> QED BY <3>2, <3>3
  <2>2. ASSUME NEW k \in Nat, a + k * d <= b, x = a + k * d PROVE x \in Values(s)
    <3>1. k * d \in Nat OBVIOUS
    <3>2. k * d <= b - a BY <2>2, <3>1
    <3>3. k <= m BY <1>1, <3>2
    <3>4. k + 1 \in 1..(m + 1) /\ (k + 1) - 1 = k BY <1>1, <3>3
    <3>5. s[k + 1] = x BY <1>3, <2>2, <3>4
    <3> QED BY <1>5, <3>4, <3>5 DEF Values
  <2> QED BY <2>1, <2>2
<1> QED BY <1>5, <1>6, <1>7 DEF s

\* stride_order: phase p has the lines that leave p when divided by the stride.
LEMMA StrideOrderIs ==
    ASSUME NEW n \in Nat \ {0}, NEW d \in 1..(n - 1)
    PROVE  StrideOrder(n, d) \in Orders(n)
<1> DEFINE F == [p \in 1..d |-> Span(p - 1, n - 1, d)]
<1>1. Min({d, n}) = d
  <2>1. d \in {d, n} /\ \A y \in {d, n} : d <= y OBVIOUS
  <2>2. \A x \in {d, n} : (\A y \in {d, n} : x <= y) => x = d OBVIOUS
  <2> QED BY <2>1, <2>2 DEF Min
<1>2. StrideOrder(n, d) = FlattenSeq(F) BY <1>1 DEF StrideOrder
<1>3. d \in Nat \ {0} OBVIOUS
<1>4. ASSUME NEW p \in 1..d
      PROVE  /\ F[p] \in Seq((p - 1)..(n - 1)) /\ Once(F[p])
             /\ \A x : x \in Values(F[p]) <=>
                           \E k \in Nat : (p - 1) + k * d <= n - 1 /\ x = (p - 1) + k * d
  <2> DEFINE a == p - 1
             b == n - 1
  <2>1. a \in Nat /\ b \in Nat /\ a <= b OBVIOUS
  <2>2. F[p] = Span(a, b, d) OBVIOUS
  <2> HIDE DEF F, a, b
  <2>3. /\ Span(a, b, d) \in Seq(a..b) /\ Once(Span(a, b, d))
        /\ \A x : x \in Values(Span(a, b, d)) <=> \E k \in Nat : a + k * d <= b /\ x = a + k * d
    BY <1>3, <2>1, SpanIs
  <2> QED BY <2>2, <2>3 DEF a, b
<1>5. F \in [1..d -> Seq(0..(n - 1))]
  <2>1. \A p \in 1..d : F[p] \in Seq(0..(n - 1))
    <3> SUFFICES ASSUME NEW p \in 1..d PROVE F[p] \in Seq(0..(n - 1)) OBVIOUS
    <3>1. F[p] \in Seq((p - 1)..(n - 1)) BY <1>4
    <3>2. (p - 1)..(n - 1) \subseteq 0..(n - 1) OBVIOUS
    <3> HIDE DEF F
    <3> QED BY <3>1, <3>2
  <2>2. F = [p \in 1..d |-> F[p]] OBVIOUS
  <2> HIDE DEF F
  <2> QED BY <2>1, <2>2
<1> HIDE DEF F
<1>6. ASSUME NEW p \in 1..d, NEW x \in Values(F[p]) PROVE x % d = p - 1
  <2>1. PICK k \in Nat : x = (p - 1) + k * d BY <1>4
  <2>2. p - 1 \in 0..(d - 1) OBVIOUS
  <2>3. (k * d + (p - 1)) % d = p - 1 BY <1>3, <2>2, SplitIs
  <2>4. k * d + (p - 1) = (p - 1) + k * d
    <3>1. k * d \in Nat OBVIOUS
    <3> QED BY <3>1
  <2> QED BY <2>1, <2>3, <2>4
<1>7. Parts(F, d)
  <2>1. ASSUME NEW i \in 1..d, NEW j \in 1..d, i # j PROVE Values(F[i]) \cap Values(F[j]) = {}
    <3> SUFFICES ASSUME NEW x, x \in Values(F[i]), x \in Values(F[j]) PROVE FALSE OBVIOUS
    <3>1. i - 1 = j - 1 BY <1>6
    <3> QED BY <2>1, <3>1
  <2> QED BY <1>4, <2>1 DEF Parts
<1>8. ASSUME NEW l \in 0..(n - 1) PROVE \E p \in 1..d : l \in Values(F[p])
  <2> DEFINE q == l \div d
             r == l % d
  <2>1. l \in Nat /\ q \in Nat /\ r \in 0..(d - 1) /\ l = r + q * d BY <1>3
  <2> HIDE DEF q, r
  <2>2. r + 1 \in 1..d /\ (r + 1) - 1 = r BY <1>3, <2>1
  <2>3. r + q * d <= n - 1 BY <2>1
  <2>4. l \in Values(F[r + 1]) BY <1>4, <2>1, <2>2, <2>3
  <2> QED BY <2>2, <2>4
<1> QED BY <1>2, <1>3, <1>5, <1>7, <1>8, FlattenOnce

LEMMA SameLine ==
    ASSUME NEW d \in Nat \ {0}, NEW i \in Nat, NEW j \in Nat, NEW x \in Nat,
           i * d <= x, x < i * d + d, j * d <= x, x < j * d + d
    PROVE  i = j
<1>1. ASSUME NEW a \in Nat, NEW b \in Nat, a < b, b * d <= x PROVE a * d + d <= x
  <2>1. (a + 1) * d <= b * d BY <1>1
  <2>2. (a + 1) * d = a * d + d /\ a * d \in Nat /\ b * d \in Nat OBVIOUS
  <2> QED BY <1>1, <2>1, <2>2
<1>2. i * d \in Nat /\ j * d \in Nat OBVIOUS
<1>3. ~(i < j) BY <1>1, <1>2
<1>4. ~(j < i) BY <1>1, <1>2
<1> QED BY <1>3, <1>4

\* The shuffle of segment_order takes each of the segments.
LEMMA ShuffledIs ==
    ASSUME NEW G \in Nat \ {0, 1}
    PROVE  LET s == Span(1, G, 2) \o Span(2, G, 2)
           IN  s \in Seq(1..G) /\ Len(s) = G /\ Once(s) /\ Values(s) = 1..G
<1> DEFINE a == Span(1, G, 2)
           b == Span(2, G, 2)
           s == a \o b
<1>1. /\ a \in Seq(1..G) /\ Once(a)
      /\ \A x : x \in Values(a) <=> \E k \in Nat : 1 + k * 2 <= G /\ x = 1 + k * 2
  <2> DEFINE one == 1
             two == 2
  <2>1. one \in Nat /\ G \in Nat /\ one <= G /\ two \in Nat \ {0} OBVIOUS
  <2>2. a = Span(one, G, two) OBVIOUS
  <2> HIDE DEF one, two, a
  <2>3. /\ Span(one, G, two) \in Seq(one..G) /\ Once(Span(one, G, two))
        /\ \A x : x \in Values(Span(one, G, two)) <=>
                      \E k \in Nat : one + k * two <= G /\ x = one + k * two
    BY <2>1, SpanIs
  <2> QED BY <2>2, <2>3 DEF one, two
<1>2. /\ b \in Seq(2..G) /\ Once(b)
      /\ \A x : x \in Values(b) <=> \E k \in Nat : 2 + k * 2 <= G /\ x = 2 + k * 2
  <2> DEFINE two == 2
  <2>1. two \in Nat /\ G \in Nat /\ two <= G /\ two \in Nat \ {0} OBVIOUS
  <2>2. b = Span(two, G, two) OBVIOUS
  <2> HIDE DEF two, b
  <2>3. /\ Span(two, G, two) \in Seq(two..G) /\ Once(Span(two, G, two))
        /\ \A x : x \in Values(Span(two, G, two)) <=>
                      \E k \in Nat : two + k * two <= G /\ x = two + k * two
    BY <2>1, SpanIs
  <2> QED BY <2>2, <2>3 DEF two
<1>3. b \in Seq(1..G)
  <2>1. 2..G \subseteq 1..G OBVIOUS
  <2> HIDE DEF b
  <2> QED BY <1>2, <2>1
<1>4. Len(a) = (G - 1) \div 2 + 1 /\ Len(b) = (G - 2) \div 2 + 1 BY DEF Span
<1> HIDE DEF a, b
<1>5. Values(a) \cap Values(b) = {}
  <2> SUFFICES ASSUME NEW x, x \in Values(a), x \in Values(b) PROVE FALSE OBVIOUS
  <2>1. PICK k \in Nat : x = 1 + k * 2 BY <1>1
  <2>2. PICK l \in Nat : x = 2 + l * 2 BY <1>2
  <2> QED BY <2>1, <2>2
<1>6. s \in Seq(1..G) /\ Once(s) /\ Values(s) = Values(a) \cup Values(b)
  BY <1>1, <1>2, <1>3, <1>5, ConcatOnce
<1>7. Len(s) = G
  <2>1. Len(s) = Len(a) + Len(b) BY <1>1, <1>3, ConcatProperties
  <2> QED BY <1>4, <2>1
<1> HIDE DEF s
<1>8. \A x \in 1..G : x \in Values(s)
  <2> SUFFICES ASSUME NEW x \in 1..G PROVE x \in Values(s) OBVIOUS
  <2>1. CASE x % 2 = 1
    <3> DEFINE k == (x - 1) \div 2
    <3>1. k \in Nat /\ x = 1 + k * 2 BY <2>1
    <3> HIDE DEF k
    <3> QED BY <1>1, <1>6, <3>1
  <2>2. CASE x % 2 = 0
    <3> DEFINE k == (x - 2) \div 2
    <3>1. k \in Nat /\ x = 2 + k * 2 BY <2>2
    <3> HIDE DEF k
    <3> QED BY <1>2, <1>6, <3>1
  <2>3. x % 2 \in {0, 1} OBVIOUS
  <2> QED BY <2>1, <2>2, <2>3
<1>9. \A x \in Values(s) : x \in 1..G
  <2>1. \A i \in 1..Len(s) : s[i] \in 1..G BY <1>6
  <2> QED BY <2>1 DEF Values
<1>10. Values(s) = 1..G BY <1>8, <1>9
<1>11. s \in Seq(1..G) /\ Len(s) = G /\ Once(s) /\ Values(s) = 1..G BY <1>6, <1>7, <1>10
<1>12. s = Span(1, G, 2) \o Span(2, G, 2) BY DEF s, a, b
<1> QED BY <1>11, <1>12

\* The last of the segments has a line.
LEMMA GroupsAre ==
    ASSUME NEW n \in Nat \ {0}, NEW d \in 1..(n - 1)
    PROVE  LET G == (n + d - 1) \div d
           IN  G \in Nat \ {0, 1} /\ \A q \in Nat : q < G <=> q * d <= n - 1
<1> DEFINE G == (n + d - 1) \div d
           a == n + d - 1
<1>1. d \in Nat \ {0} OBVIOUS
<1>2. a \in Nat /\ a >= 2 * d /\ a - d = n - 1 OBVIOUS
<1>3. G \in Nat BY <1>1, <1>2, DivBounds DEF a
<1>4. G >= 2
  <2>1. G < 2 => FALSE
    <3>1. a < d * (a \div d + 1) BY <1>1, <1>2, DivBounds
    <3>2. G + 1 <= 2 => d * (G + 1) <= d * 2
      <4> DEFINE h == G + 1
      <4>1. h \in Nat BY <1>3
      <4> HIDE DEF h
      <4>2. h <= 2 => d * h <= d * 2 BY <1>1, <4>1
      <4> QED BY <4>2 DEF h
    <3> QED BY <1>1, <1>2, <1>3, <3>1, <3>2
  <2> QED BY <1>3, <2>1
<1>5. ASSUME NEW q \in Nat PROVE q < G <=> q * d <= n - 1
  <2> DEFINE r == q + 1
  <2>1. r \in Nat /\ (q < G <=> r <= G) BY <1>3
  <2>2. r * d = q * d + d /\ q * d \in Nat OBVIOUS
  <2> HIDE DEF r
  <2>3. r <= a \div d => r * d <= a BY <1>1, <1>2, <2>1, QuotientBound
  <2>4. r > a \div d => d * r > a BY <1>1, <1>2, <2>1, QuotientBound
  <2>5. d * r = r * d /\ r * d \in Nat BY <1>1, <2>1
  <2>6. G = a \div d OBVIOUS
  <2> HIDE DEF G, a
  <2> QED BY <1>1, <1>2, <1>3, <2>1, <2>2, <2>3, <2>4, <2>5, <2>6
<1> QED BY <1>3, <1>4, <1>5

\* segment_order: a segment has the lines whose number of segments before is its own.
LEMMA SegmentOrderIs ==
    ASSUME NEW n \in Nat \ {0}, NEW d \in 1..(n - 1)
    PROVE  SegmentOrder(n, d) \in Orders(n)
<1> DEFINE G == (n + d - 1) \div d
           shuffled == Span(1, G, 2) \o Span(2, G, 2)
           F == [i \in 1..G |-> Span((shuffled[i] - 1) * d, Min({n, shuffled[i] * d}) - 1, 1)]
<1>1. d \in Nat \ {0} OBVIOUS
<1>2. G \in Nat \ {0, 1} /\ (\A q \in Nat : q < G <=> q * d <= n - 1) BY GroupsAre
<1>3. SegmentOrder(n, d) = FlattenSeq(F)
  <2>1. G > 1 BY <1>2
  <2> QED BY <2>1 DEF SegmentOrder
<1> HIDE DEF G
<1>4. shuffled \in Seq(1..G) /\ Len(shuffled) = G /\ Once(shuffled) /\ Values(shuffled) = 1..G
  BY <1>2, ShuffledIs
<1> HIDE DEF shuffled
<1>5. \A i \in 1..G : shuffled[i] \in 1..G BY <1>4
\* what segment i has
<1>6. ASSUME NEW i \in 1..G
      PROVE  LET q == shuffled[i] - 1
             IN  /\ F[i] \in Seq(0..(n - 1)) /\ Once(F[i])
                 /\ \A x : x \in Values(F[i]) <=> x \in 0..(n - 1) /\ q * d <= x /\ x < q * d + d
  <2> DEFINE q == shuffled[i] - 1
             a == q * d
             e == Min({n, shuffled[i] * d})
             b == e - 1
  <2>1. q \in Nat /\ q < G /\ shuffled[i] = q + 1 BY <1>2, <1>5
  <2>2. a \in Nat /\ a <= n - 1 BY <1>1, <1>2, <2>1
  <2>3. shuffled[i] * d = a + d
    <3>1. (q + 1) * d = q * d + d BY <1>1, <2>1
    <3> QED BY <2>1, <3>1
  <2>4. F[i] = Span(a, b, 1) OBVIOUS
  <2> HIDE DEF F, q, a
  <2>5. e = IF n <= a + d THEN n ELSE a + d
    <3> DEFINE f == a + d
    <3>1. f \in Nat /\ e = Min({n, f}) BY <1>1, <2>2, <2>3
    <3> HIDE DEF f, e
    <3>2. Min({n, f}) = IF n <= f THEN n ELSE f
      <4> DEFINE m == IF n <= f THEN n ELSE f
      <4>1. m \in {n, f} /\ \A y \in {n, f} : m <= y BY <3>1
      <4>2. \A x \in {n, f} : (\A y \in {n, f} : x <= y) => x = m BY <3>1
      <4> HIDE DEF m
      <4>3. Min({n, f}) = m BY <4>1, <4>2 DEF Min
      <4> QED BY <4>3 DEF m
    <3> QED BY <3>1, <3>2 DEF f
  <2> HIDE DEF e
  <2>6. b \in Nat /\ a <= b /\ b <= n - 1 /\ (\A x \in Nat : x <= b <=> x <= n - 1 /\ x < a + d)
    BY <1>1, <2>2, <2>5
  <2> HIDE DEF b
  <2>7. /\ Span(a, b, 1) \in Seq(a..b) /\ Once(Span(a, b, 1))
        /\ \A x : x \in Values(Span(a, b, 1)) <=> \E k \in Nat : a + k * 1 <= b /\ x = a + k * 1
    <3> DEFINE one == 1
    <3>1. a \in Nat /\ b \in Nat /\ a <= b /\ one \in Nat \ {0} BY <2>2, <2>6
    <3> HIDE DEF one
    <3>2. /\ Span(a, b, one) \in Seq(a..b) /\ Once(Span(a, b, one))
          /\ \A x : x \in Values(Span(a, b, one)) <=>
                        \E k \in Nat : a + k * one <= b /\ x = a + k * one
      BY <3>1, SpanIs
    <3> QED BY <3>2 DEF one
  <2>8. F[i] \in Seq(0..(n - 1))
    <3> DEFINE t == Span(a, b, 1)
    <3>1. a..b \subseteq 0..(n - 1) BY <2>2, <2>6
    <3>2. t \in Seq(a..b) /\ F[i] = t BY <2>4, <2>7
    <3> HIDE DEF t
    <3>3. t \in Seq(0..(n - 1))
      <4> DEFINE A == a..b
                 T == 0..(n - 1)
      <4>1. A \subseteq T /\ t \in Seq(A) BY <3>1, <3>2
      <4> HIDE DEF A, T
      <4>2. t \in Seq(T) BY <4>1
      <4> QED BY <4>2 DEF T
    <3> QED BY <3>2, <3>3
  <2>9. ASSUME NEW x PROVE x \in Values(F[i]) <=> x \in 0..(n - 1) /\ a <= x /\ x < a + d
    <3>1. x \in Values(F[i]) => x \in 0..(n - 1) /\ a <= x /\ x < a + d
      <4> SUFFICES ASSUME x \in Values(F[i]) PROVE x \in 0..(n - 1) /\ a <= x /\ x < a + d
        OBVIOUS
      <4>1. PICK k \in Nat : a + k * 1 <= b /\ x = a + k * 1 BY <2>4, <2>7
      <4>2. x \in Nat /\ a <= x /\ x <= b BY <2>2, <4>1
      <4> QED BY <2>6, <4>2
    <3>2. ASSUME x \in 0..(n - 1), a <= x, x < a + d PROVE x \in Values(F[i])
      <4>1. x - a \in Nat /\ a + (x - a) * 1 = x BY <2>2, <3>2
      <4>2. x <= b BY <2>6, <3>2
      <4> QED BY <2>4, <2>7, <4>1, <4>2
    <3> QED BY <3>1, <3>2
  <2> QED BY <2>4, <2>7, <2>8, <2>9 DEF q, a
<1>7. F \in [1..G -> Seq(0..(n - 1))]
  <2>1. \A i \in 1..G : F[i] \in Seq(0..(n - 1)) BY <1>6
  <2>2. F = [i \in 1..G |-> F[i]] OBVIOUS
  <2> HIDE DEF F
  <2> QED BY <2>1, <2>2
<1> HIDE DEF F
<1>8. Parts(F, G)
  <2>1. ASSUME NEW i \in 1..G, NEW j \in 1..G, i # j PROVE Values(F[i]) \cap Values(F[j]) = {}
    <3> SUFFICES ASSUME NEW x, x \in Values(F[i]), x \in Values(F[j]) PROVE FALSE OBVIOUS
    <3> DEFINE q == shuffled[i] - 1
               r == shuffled[j] - 1
    <3>1. /\ x \in 0..(n - 1) /\ q * d <= x /\ x < q * d + d
          /\ r * d <= x /\ x < r * d + d
      BY <1>6
    <3>2. q \in Nat /\ r \in Nat /\ x \in Nat BY <1>5, <3>1
    <3>3. q = r
      <4> HIDE DEF q, r
      <4> QED BY <1>1, <3>1, <3>2, SameLine
    <3>4. shuffled[i] = shuffled[j] BY <1>2, <1>5, <3>3
    <3> QED BY <1>4, <2>1, <3>4 DEF Once
  <2>2. \A i \in 1..G : Once(F[i]) BY <1>6
  <2> QED BY <2>1, <2>2 DEF Parts
<1>9. ASSUME NEW l \in 0..(n - 1) PROVE \E i \in 1..G : l \in Values(F[i])
  <2> DEFINE q == l \div d
  <2>1. l \in Nat /\ q \in Nat /\ d * q <= l /\ l < d * (q + 1) BY <1>1, DivBounds
  <2> HIDE DEF q
  <2>2. d * q = q * d /\ d * (q + 1) = q * d + d /\ q * d \in Nat BY <1>1, <2>1
  <2>3. q * d <= n - 1 BY <2>1, <2>2
  <2>4. q < G /\ q + 1 \in 1..G BY <1>2, <2>1, <2>3
  <2>5. PICK i \in 1..G : shuffled[i] = q + 1 BY <1>4, <2>4 DEF Values
  <2>6. shuffled[i] - 1 = q BY <2>1, <2>5
  <2>7. l \in Values(F[i]) BY <1>6, <2>1, <2>2, <2>6
  <2> QED BY <2>7
<1>10. G \in Nat \ {0} BY <1>2
<1> QED BY <1>3, <1>7, <1>8, <1>9, <1>10, FlattenOnce

LEMMA HalfIs ==
    ASSUME NEW i \in Nat
    PROVE  i \div 2 \in Nat /\ i % 2 \in {0, 1} /\ i = 2 * (i \div 2) + (i % 2)
<1> DEFINE two == 2
<1>1. two \in Nat \ {0} /\ 0..(two - 1) = {0, 1} OBVIOUS
<1> HIDE DEF two
<1>2. i \div two \in Nat /\ i % two \in 0..(two - 1) /\ i = two * (i \div two) + (i % two)
  BY <1>1, DivModIs
<1> QED BY <1>1, <1>2 DEF two

\* The odd places count up from the first line, the even ones down from the last.
LEMMA RandomOrderIs ==
    ASSUME NEW n \in Nat \ {0}
    PROVE  RandomOrder(n) \in Orders(n)
<1> DEFINE o == RandomOrder(n)
           T == 0..(n - 1)
<1>1. o = [i \in 1..n |-> IF i % 2 = 1 THEN i \div 2 ELSE n - (i \div 2)] BY DEF RandomOrder
<1> HIDE DEF o
<1>2. ASSUME NEW i \in 1..n
      PROVE  \/ \E k \in Nat : i = 2 * k + 1 /\ o[i] = k
             \/ \E k \in Nat : i = 2 * k /\ o[i] = n - k
  <2> DEFINE k == i \div 2
             h == i % 2
  <2>1. k \in Nat /\ h \in {0, 1} /\ i = 2 * k + h
    <3>1. i \in Nat OBVIOUS
    <3> QED BY <3>1, HalfIs
  <2>2. o[i] = IF h = 1 THEN k ELSE n - k BY <1>1
  <2> HIDE DEF k, h
  <2>3. CASE h = 1 BY <2>1, <2>2, <2>3
  <2>4. CASE h = 0
    <3>1. i = 2 * k /\ o[i] = n - k BY <2>1, <2>2, <2>4
    <3> QED BY <2>1, <3>1
  <2> QED BY <2>1, <2>3, <2>4
<1>3. \A i \in 1..n : o[i] \in 0..(n - 1)
  <2> SUFFICES ASSUME NEW i \in 1..n PROVE o[i] \in 0..(n - 1) OBVIOUS
  <2>1. CASE \E k \in Nat : i = 2 * k + 1 /\ o[i] = k BY <2>1
  <2>2. CASE \E k \in Nat : i = 2 * k /\ o[i] = n - k BY <2>2
  <2> QED BY <1>2, <2>1, <2>2
<1>4. o \in Seq(0..(n - 1)) /\ Len(o) = n
  <2>1. DOMAIN o = 1..n /\ o = [i \in 1..n |-> o[i]] BY <1>1
  <2>2. \A i \in 1..n : o[i] \in T BY <1>3
  <2> HIDE DEF T
  <2>3. o \in [1..n -> T] BY <2>1, <2>2
  <2>4. o \in Seq(T) /\ Len(o) = n BY <2>3, SequenceOf
  <2> QED BY <2>4 DEF T
<1>5. ASSUME NEW i \in 1..n, NEW j \in 1..n, o[i] = o[j] PROVE i = j
  <2>1. CASE \E k \in Nat : i = 2 * k + 1 /\ o[i] = k BY <1>2, <1>5, <2>1
  <2>2. CASE \E k \in Nat : i = 2 * k /\ o[i] = n - k BY <1>2, <1>5, <2>2
  <2> QED BY <1>2, <2>1, <2>2
<1>6. ASSUME NEW x \in 0..(n - 1) PROVE \E i \in 1..n : o[i] = x
  <2>1. CASE 2 * x + 1 <= n
    <3>1. 2 * x + 1 \in 1..n BY <2>1
    <3>2. (2 * x + 1) % 2 = 1 /\ (2 * x + 1) \div 2 = x OBVIOUS
    <3>3. o[2 * x + 1] = x BY <1>1, <3>1, <3>2
    <3> QED BY <3>1, <3>3
  <2>2. CASE 2 * x + 1 > n
    <3> DEFINE y == n - x
    <3>1. y \in Nat /\ 2 * y \in 1..n /\ n - y = x BY <2>2
    <3> HIDE DEF y
    <3>2. (2 * y) % 2 = 0 /\ (2 * y) \div 2 = y BY <3>1
    <3>3. o[2 * y] = n - y
      <4>1. ~((2 * y) % 2 = 1) BY <3>2
      <4> QED BY <1>1, <3>1, <3>2, <4>1
    <3> QED BY <3>1, <3>3
  <2> QED BY <2>1, <2>2
<1>7. Once(o) /\ Values(o) = 0..(n - 1)
  <2>1. Once(o) BY <1>4, <1>5 DEF Once
  <2>2. \A x \in Values(o) : x \in 0..(n - 1) BY <1>3, <1>4 DEF Values
  <2>3. \A x \in 0..(n - 1) : x \in Values(o) BY <1>4, <1>6 DEF Values
  <2> QED BY <2>1, <2>2, <2>3
<1> QED BY <1>4, <1>7 DEF Orders, o

\* link_ring starts the lap at word 0.
LEMMA RotatedIs ==
    ASSUME NEW n \in Nat \ {0}, NEW o \in Orders(n)
    PROVE  Rotated(o) \in Orders(n) /\ Rotated(o)[1] = 0
<1> DEFINE T == 0..(n - 1)
           z == CHOOSE i \in DOMAIN o : o[i] = 0
           u == SubSeq(o, z, Len(o))
           v == SubSeq(o, 1, z - 1)
           r == u \o v
           m == n - z + 1
<1>1. o \in Seq(T) /\ Len(o) = n /\ DOMAIN o = 1..n /\ Once(o) /\ Values(o) = T
  BY DEF Orders
<1>2. Rotated(o) = r BY DEF Rotated
<1>3. z \in 1..n /\ o[z] = 0
  <2>1. 0 \in Values(o) BY <1>1
  <2>2. \E i \in DOMAIN o : o[i] = 0 BY <1>1, <2>1 DEF Values
  <2> QED BY <1>1, <2>2
<1> HIDE DEF z, T
<1>4. m \in 1..n /\ n - m = z - 1 BY <1>3
<1>5. \A i \in 1..n : o[i] \in T BY <1>1
<1>6. u \in Seq(T) /\ Len(u) = m /\ \A i \in 1..m : u[i] = o[z + i - 1]
  <2>1. \A i \in z..n : o[i] \in T BY <1>3, <1>5
  <2>2. z \in Int /\ n \in Int /\ z <= n BY <1>3
  <2>3. /\ SubSeq(o, z, n) \in Seq(T)
        /\ Len(SubSeq(o, z, n)) = IF z <= n THEN n - z + 1 ELSE 0
        /\ \A i \in 1..(n - z + 1) : SubSeq(o, z, n)[i] = o[z + i - 1]
    BY <2>1, <2>2, SubSeqProperties
  <2> QED BY <1>1, <2>2, <2>3
<1>7. v \in Seq(T) /\ Len(v) = n - m /\ \A i \in 1..(n - m) : v[i] = o[i]
  <2> DEFINE e == z - 1
  <2>1. e \in Int /\ 1 \in Int /\ e = n - m /\ e \in 0..n BY <1>3, <1>4
  <2>2. \A i \in 1..e : o[i] \in T BY <1>5, <2>1
  <2> HIDE DEF e
  <2>3. /\ SubSeq(o, 1, e) \in Seq(T)
        /\ Len(SubSeq(o, 1, e)) = IF 1 <= e THEN e - 1 + 1 ELSE 0
        /\ \A i \in 1..(e - 1 + 1) : SubSeq(o, 1, e)[i] = o[1 + i - 1]
    BY <2>1, <2>2, SubSeqProperties
  <2>4. Len(SubSeq(o, 1, e)) = e BY <2>1, <2>3
  <2>5. \A i \in 1..e : i \in 1..(e - 1 + 1) /\ 1 + i - 1 = i BY <2>1
  <2>6. \A i \in 1..e : SubSeq(o, 1, e)[i] = o[i] BY <2>3, <2>5
  <2>7. v = SubSeq(o, 1, e) BY DEF e
  <2> QED BY <2>1, <2>3, <2>4, <2>6, <2>7
<1> HIDE DEF u, v, m
<1>8. r \in Seq(T) /\ Len(r) = n /\ \A i \in 1..n : r[i] = IF i <= m THEN u[i] ELSE v[i - m]
  <2>1. /\ r \in Seq(T) /\ Len(r) = Len(u) + Len(v)
        /\ \A i \in 1..(Len(u) + Len(v)) : r[i] = IF i <= Len(u) THEN u[i] ELSE v[i - Len(u)]
    BY <1>6, <1>7, ConcatProperties
  <2>2. Len(u) + Len(v) = n BY <1>4, <1>6, <1>7
  <2> QED BY <1>6, <2>1, <2>2
<1> HIDE DEF r
<1> DEFINE p(i) == IF i <= m THEN z + i - 1 ELSE i - m
<1>9. \A i \in 1..n : p(i) \in 1..n /\ r[i] = o[p(i)]
  <2> SUFFICES ASSUME NEW i \in 1..n PROVE p(i) \in 1..n /\ r[i] = o[p(i)] OBVIOUS
  <2>1. CASE i <= m
    <3>1. i \in 1..m BY <2>1
    <3>2. z + i - 1 \in 1..n BY <1>3, <1>4, <2>1
    <3> QED BY <1>6, <1>8, <2>1, <3>1, <3>2
  <2>2. CASE i > m
    <3>1. i - m \in 1..(n - m) /\ i - m \in 1..n /\ ~(i <= m) BY <1>4, <2>2
    <3> QED BY <1>7, <1>8, <3>1
  <2> QED BY <1>4, <2>1, <2>2
<1>10. ASSUME NEW i \in 1..n, NEW j \in 1..n, r[i] = r[j] PROVE i = j
  <2>1. p(i) = p(j) BY <1>1, <1>9, <1>10 DEF Once
  <2> QED BY <1>3, <1>4, <2>1
<1>11. ASSUME NEW x \in T PROVE \E i \in 1..n : r[i] = x
  <2>1. PICK k \in 1..n : o[k] = x BY <1>1 DEF Values
  <2>2. CASE k >= z
    <3> DEFINE i == k - z + 1
    <3>1. i \in 1..n /\ p(i) = k BY <1>3, <1>4, <2>2
    <3> HIDE DEF i
    <3> QED BY <1>9, <2>1, <3>1
  <2>3. CASE k < z
    <3> DEFINE i == k + m
    <3>1. i \in 1..n /\ p(i) = k BY <1>3, <1>4, <2>3
    <3> HIDE DEF i
    <3> QED BY <1>9, <2>1, <3>1
  <2> QED BY <1>3, <2>2, <2>3
<1>12. Once(r) /\ Values(r) = T
  <2>1. Once(r) BY <1>8, <1>10 DEF Once
  <2>2. \A i \in 1..Len(r) : r[i] \in T BY <1>8
  <2>3. \A x \in T : x \in Values(r) BY <1>8, <1>11 DEF Values
  <2> QED BY <2>1, <2>2, <2>3 DEF Values
<1>13. r[1] = 0
  <2>1. 1 \in 1..n /\ 1 <= m /\ z + 1 - 1 = z BY <1>3, <1>4
  <2>2. r[1] = o[z + 1 - 1] BY <1>9, <2>1
  <2> QED BY <1>3, <2>1, <2>2
<1>14. r \in Orders(n) BY <1>8, <1>12 DEF Orders, T
<1> QED BY <1>2, <1>13, <1>14

-----------------------------------------------------------------------------
(* The ring of the prefetch probe.                                         *)

LEMMA NextRemainder ==
    ASSUME NEW a \in Nat, NEW n \in Nat \ {0}
    PROVE  ((a % n) + 1) % n = (a + 1) % n
<1> DEFINE q == a \div n
           r == a % n
<1>1. q \in Nat /\ r \in 0..(n - 1) /\ a = n * q + r BY DivModIs
<1> HIDE DEF q, r
<1>2. CASE r + 1 < n
  <2> DEFINE s == r + 1
  <2>1. s \in 0..(n - 1) /\ s \in Nat /\ s < n BY <1>1, <1>2
  <2>2. a + 1 = q * n + s
    <3>1. n * q = q * n /\ q * n \in Nat BY <1>1
    <3> QED BY <1>1, <3>1
  <2> HIDE DEF s
  <2>3. (q * n + s) % n = s BY <1>1, <2>1, SplitIs
  <2>4. s % n = s BY <2>1, RemainderOfSmall
  <2> QED BY <2>2, <2>3, <2>4 DEF s, r
<1>3. CASE r + 1 = n
  <2> DEFINE p == q + 1
  <2>1. p \in Nat /\ a + 1 = n * p
    <3>1. n * (q + 1) = n * q + n /\ n * q \in Nat BY <1>1
    <3> QED BY <1>1, <1>3, <3>1
  <2> HIDE DEF p
  <2>2. (n * p) % n = 0 BY <2>1, WholeTimes
  <2>3. n % n = 0
    <3>1. (n * 1) % n = 0 BY WholeTimes
    <3> QED BY <3>1
  <2> QED BY <1>3, <2>1, <2>2, <2>3 DEF r
<1> QED BY <1>1, <1>2, <1>3

LEMMA MaxDistanceIs == MaxDistance \in Nat \ {0}
<1> DEFINE S == Range(Distances)
<1>1. Distances \in Seq(Nat) /\ \E i \in DOMAIN Distances : Distances[i] > 0
  BY GridsAssumption
<1>2. S \subseteq Nat /\ \E x \in S : x > 0 BY <1>1 DEF Range
<1> DEFINE bounded(k) == \E m \in Nat : \A i \in 1..k : Distances[i] <= m
           T == {k \in 0..Len(Distances) : bounded(k)}
<1>3. 0 \in T
  <2>1. \A i \in 1..0 : Distances[i] <= 0 OBVIOUS
  <2> QED BY <2>1
<1>4. ASSUME NEW k \in 0..Len(Distances), k \in T, k < Len(Distances) PROVE k + 1 \in T
  <2>1. PICK m \in Nat : \A i \in 1..k : Distances[i] <= m BY <1>4
  <2>2. k + 1 \in 1..Len(Distances) /\ 1..(k + 1) = 1..k \cup {k + 1} BY <1>4
  <2>3. Distances[k + 1] \in Nat /\ \A i \in 1..k : Distances[i] \in Nat BY <1>1, <2>2
  <2> DEFINE h == m + Distances[k + 1]
  <2>4. h \in Nat /\ \A i \in 1..(k + 1) : Distances[i] <= h BY <2>1, <2>2, <2>3
  <2>5. bounded(k + 1) BY <2>4
  <2>6. k + 1 \in 0..Len(Distances) BY <2>2
  <2> HIDE DEF bounded
  <2> QED BY <2>5, <2>6
<1>5. Len(Distances) \in T
  <2> DEFINE L == Len(Distances)
  <2>1. L \in Nat BY <1>1
  <2>2. \A k \in 0..L : k \in T /\ k < L => k + 1 \in T BY <1>4
  <2>3. 0 \in T BY <1>3
  <2> HIDE DEF L, T
  <2>4. 0..L \subseteq T BY <2>1, <2>2, <2>3, UpTo
  <2>5. L \in T BY <2>1, <2>4
  <2> QED BY <2>5 DEF L
<1>6. PICK m \in Nat : \A i \in 1..Len(Distances) : Distances[i] <= m BY <1>5
<1>7. S \subseteq 0..m /\ S # {} BY <1>1, <1>2, <1>6 DEF Range
<1> HIDE DEF S
<1>8. Max(S) \in S /\ \A y \in S : Max(S) >= y BY <1>7, MaxOfBounded
<1>9. Max(S) \in Nat \ {0}
  <2> DEFINE M == Max(S)
  <2>1. PICK x \in S : x > 0 BY <1>2
  <2>2. M \in Nat /\ x \in Nat /\ M >= x BY <1>2, <1>8
  <2> HIDE DEF M
  <2>3. M \in Nat \ {0} BY <2>1, <2>2
  <2> QED BY <2>3 DEF M
<1> QED BY <1>9 DEF MaxDistance, S

\* Each line of the lap links to the next, the last one to the first.
Laps(lap, n, links) == \A i \in 1..n : links[lap[i]] = lap[(i % n) + 1]

\* A chase from word 0 and the side array go the same way.
LEMMA LapFollows ==
    ASSUME NEW n \in Nat \ {0}, NEW lap \in Orders(n), lap[1] = 0, NEW links, Laps(lap, n, links)
    PROVE  /\ FollowsLinks(Nodes(lap), links)
           /\ {Nodes(lap)[i] : i \in 0..(n - 1)} = 0..(n - 1) /\ Nodes(lap)[n] = 0
<1> DEFINE side == Nodes(lap)
           e == n + MaxDistance - 1
<1>1. lap \in Seq(0..(n - 1)) /\ Len(lap) = n /\ Values(lap) = 0..(n - 1) BY DEF Orders
<1>2. e \in Nat /\ n <= e BY MaxDistanceIs
<1>3. side = [i \in 0..e |-> lap[(i % n) + 1]] BY <1>1 DEF Nodes
<1> HIDE DEF side, e
<1>4. \A i \in 0..e : side[i] = lap[(i % n) + 1] BY <1>3
<1>5. DOMAIN side = 0..e BY <1>3
<1>6. side[0] = 0
  <2>1. 0 % n = 0 BY RemainderOfSmall
  <2>2. 0 \in 0..e /\ 0 + 1 = 1 BY <1>2
  <2> QED BY <1>4, <2>1, <2>2
<1>7. side[n] = 0
  <2>1. n % n = 0
    <3>1. (n * 1) % n = 0 BY WholeTimes
    <3> QED BY <3>1
  <2>2. n \in 0..e /\ 0 + 1 = 1 BY <1>2
  <2> QED BY <1>4, <2>1, <2>2
<1>8. ASSUME NEW i \in 0..e, i > 0 PROVE side[i] = links[side[i - 1]]
  <2> DEFINE a == i - 1
             k == (a % n) + 1
  <2>1. a \in Nat /\ a \in 0..e /\ a + 1 = i BY <1>2, <1>8
  <2> HIDE DEF a
  <2>2. k \in 1..n
    <3>1. a % n \in 0..(n - 1) BY <2>1, DivModIs
    <3> QED BY <3>1
  <2>3. side[a] = lap[k] BY <1>4, <2>1
  <2>4. k % n = i % n
    <3>1. ((a % n) + 1) % n = (a + 1) % n BY <2>1, NextRemainder
    <3> QED BY <2>1, <3>1
  <2> HIDE DEF k
  <2>5. links[lap[k]] = lap[(k % n) + 1] BY <2>2 DEF Laps
  <2>6. side[i] = lap[(i % n) + 1] BY <1>4
  <2> QED BY <2>3, <2>4, <2>5, <2>6 DEF a
<1>9. \A i \in 0..(n - 1) : i + 1 \in 1..n /\ side[i] = lap[i + 1]
  <2> SUFFICES ASSUME NEW i \in 0..(n - 1) PROVE i + 1 \in 1..n /\ side[i] = lap[i + 1] OBVIOUS
  <2>1. i \in Nat /\ i < n /\ i \in 0..e BY <1>2
  <2>2. i % n = i BY <2>1, RemainderOfSmall
  <2> QED BY <1>4, <2>1, <2>2
<1>10. {side[i] : i \in 0..(n - 1)} = 0..(n - 1)
  <2>1. \A i \in 0..(n - 1) : side[i] \in Values(lap)
    <3>1. \A i \in 1..Len(lap) : lap[i] \in Values(lap) BY DEF Values
    <3> QED BY <1>1, <1>9, <3>1
  <2>2. ASSUME NEW x \in 0..(n - 1) PROVE \E i \in 0..(n - 1) : side[i] = x
    <3>1. PICK j \in 1..n : lap[j] = x BY <1>1, <2>2 DEF Values
    <3>2. j - 1 \in 0..(n - 1) /\ (j - 1) + 1 = j OBVIOUS
    <3>3. side[j - 1] = x BY <1>9, <3>1, <3>2
    <3> QED BY <3>2, <3>3
  <2> DEFINE T == 0..(n - 1)
  <2>3. (\A i \in T : side[i] \in T) /\ \A x \in T : \E i \in T : side[i] = x
    BY <1>1, <2>1, <2>2
  <2> HIDE DEF T
  <2>4. {side[i] : i \in T} = T BY <2>3
  <2> QED BY <2>4 DEF T
<1>11. FollowsLinks(side, links) BY <1>5, <1>6, <1>8 DEF FollowsLinks
<1> QED BY <1>7, <1>10, <1>11 DEF side

\* Whatever the buffer held, its first lines are now the lap.
LEMMA LinkIs ==
    ASSUME NEW n \in Nat \ {0}, NEW seq \in Orders(n), LinkRing(seq), 0..(n - 1) \subseteq DOMAIN ring
    PROVE  /\ order' = seq /\ DOMAIN ring' = DOMAIN ring
           /\ nodes' = Nodes(Rotated(seq)) /\ Laps(Rotated(seq), n, ring')
<1> DEFINE lap == Rotated(seq)
           place == [line \in Range(lap) |-> CHOOSE i \in DOMAIN lap : lap[i] = line]
<1>1. lap \in Orders(n) BY RotatedIs
<1>2. /\ ring' = [line \in DOMAIN ring |->
                     IF line \in Range(lap) THEN lap[(place[line] % Len(lap)) + 1] ELSE ring[line]]
      /\ nodes' = Nodes(lap) /\ order' = seq
  BY DEF LinkRing
<1> HIDE DEF lap
<1>3. DOMAIN lap = 1..n /\ Len(lap) = n /\ Once(lap) /\ \A i \in 1..n : lap[i] \in 0..(n - 1)
  BY <1>1 DEF Orders
<1>4. ASSUME NEW i \in 1..n PROVE ring'[lap[i]] = lap[(i % n) + 1]
  <2>1. lap[i] \in DOMAIN ring /\ lap[i] \in Range(lap) BY <1>3 DEF Range
  <2>2. place[lap[i]] = CHOOSE k \in DOMAIN lap : lap[k] = lap[i] BY <2>1
  <2>3. place[lap[i]] \in 1..n /\ lap[place[lap[i]]] = lap[i] BY <1>3, <2>2
  <2> HIDE DEF place
  <2>4. place[lap[i]] = i BY <1>3, <2>3 DEF Once
  <2>5. ring'[lap[i]] = lap[(place[lap[i]] % Len(lap)) + 1] BY <1>2, <2>1
  <2> QED BY <1>3, <2>4, <2>5
<1>5. Laps(lap, n, ring') BY <1>4 DEF Laps
<1>6. DOMAIN ring' = DOMAIN ring BY <1>2
<1> QED BY <1>2, <1>5, <1>6 DEF lap

-----------------------------------------------------------------------------
(* Sums over a finite set.  The fold of the library is a recursive function *)
(* over the subsets; that there is one is shown by a smallest subset for   *)
(* which there would be none.                                              *)

LEMMA SmallestSubset ==
    ASSUME NEW S, IsFiniteSet(S), NEW B, B \subseteq SUBSET S, B # {}
    PROVE  \E s \in B : \A t \in B : ~(t \subseteq s /\ t # s)
<1> DEFINE R == StrictSubsetOrdering(S)
<1>1. B \subseteq FiniteSubsetsOf(S) BY FS_Subset DEF FiniteSubsetsOf
<1>2. IsWellFoundedOn(R, FiniteSubsetsOf(S)) BY FS_StrictSubsetOrderingWellFounded
<1> HIDE DEF R
<1>3. PICK s \in B : \A t \in B : <<t, s>> \notin R BY <1>1, <1>2, WFMin
<1>4. ASSUME NEW t \in B, t \subseteq s, t # s PROVE FALSE
  <2>1. <<t, s>> \in R BY <1>4 DEF R, StrictSubsetOrdering
  <2> QED BY <1>3, <2>1
<1> QED BY <1>4

Some(s) == CHOOSE x \in s : TRUE
Rest(s) == s \ {Some(s)}

LEMMA RestIsSmaller ==
    ASSUME NEW S, IsFiniteSet(S), NEW s \in SUBSET S, s # {}
    PROVE  /\ Some(s) \in s /\ Some(s) \in S
           /\ Rest(s) \in SUBSET S /\ Rest(s) \subseteq s /\ Rest(s) # s
           /\ Cardinality(s) \in Nat /\ Cardinality(Rest(s)) \in Nat
           /\ Cardinality(Rest(s)) = Cardinality(s) - 1
<1>1. Some(s) \in s BY DEF Some
<1>2. IsFiniteSet(s) /\ Cardinality(s) \in Nat BY FS_Subset, FS_CardinalityType
<1>3. IsFiniteSet(Rest(s)) /\ Cardinality(Rest(s)) = Cardinality(s) - 1
  BY <1>1, <1>2, FS_RemoveElement DEF Rest
<1> QED BY <1>1, <1>2, <1>3, FS_CardinalityType DEF Rest

More(f, g, s) == IF s = {} THEN 0 ELSE g[Some(s)] + f[Rest(s)]
SumsUp(f, g, S) == f = [s \in SUBSET S |-> More(f, g, s)]

LEMMA SumExists ==
    ASSUME NEW S, IsFiniteSet(S), NEW g
    PROVE  \E f : SumsUp(f, g, S)
<1> DEFINE P == SUBSET S
           Fills(f, n) == /\ f = [s \in P |-> f[s]]
                          /\ \A s \in P : Cardinality(s) <= n => f[s] = More(f, g, s)
           Bad == {s \in P : ~\E f : Fills(f, Cardinality(s))}
<1>1. \A s \in P : IsFiniteSet(s) /\ Cardinality(s) \in Nat BY FS_Subset, FS_CardinalityType
<1>2. Bad = {}
  <2> SUFFICES ASSUME Bad # {} PROVE FALSE OBVIOUS
  <2>1. PICK b \in Bad : \A t \in Bad : ~(t \subseteq b /\ t # b)
    <3>1. Bad \subseteq SUBSET S OBVIOUS
    <3> HIDE DEF Bad
    <3> QED BY <3>1, SmallestSubset
  <2> DEFINE n == Cardinality(b)
  <2>2. b \in P /\ n \in Nat BY <1>1, <2>1
  <2>3. CASE b = {}
    <3> DEFINE h == [s \in P |-> 0]
    <3>1. h = [s \in P |-> h[s]] OBVIOUS
    <3>2. \A s \in P : Cardinality(s) <= n => s = {}
      <4> TAKE s \in P
      <4>1. n = 0 BY <2>3, FS_EmptySet
      <4>2. IsFiniteSet(s) /\ Cardinality(s) \in Nat BY <1>1
      <4> HIDE DEF n
      <4>3. Cardinality(s) <= n => Cardinality(s) = 0 BY <4>1, <4>2
      <4> QED BY <4>2, <4>3, FS_EmptySet
    <3>3. \A s \in P : Cardinality(s) <= n => h[s] = More(h, g, s) BY <3>2 DEF More
    <3> HIDE DEF h
    <3>4. Fills(h, n) BY <3>1, <3>3
    <3> QED BY <2>1, <3>4
  <2>4. CASE b # {}
    <3>1. /\ Rest(b) \in P /\ Rest(b) \subseteq b /\ Rest(b) # b
          /\ Cardinality(Rest(b)) = n - 1
      BY <2>2, <2>4, RestIsSmaller
    <3>2. Rest(b) \notin Bad
      <4> HIDE DEF Bad
      <4> QED BY <2>1, <3>1
    <3>3. PICK f : Fills(f, n - 1) BY <3>1, <3>2
    <3> DEFINE h == [s \in P |-> More(f, g, s)]
    <3>4. h = [s \in P |-> h[s]] OBVIOUS
    <3>5. \A s \in P : h[s] = More(f, g, s) OBVIOUS
    <3> HIDE DEF h
    <3>6. \A s \in P : Cardinality(s) <= n => h[s] = More(h, g, s)
      <4> SUFFICES ASSUME NEW s \in P, Cardinality(s) <= n PROVE h[s] = More(h, g, s)
        OBVIOUS
      <4>1. CASE s = {} BY <3>5, <4>1 DEF More
      <4>2. CASE s # {}
        <5>1. Rest(s) \in P /\ Cardinality(Rest(s)) = Cardinality(s) - 1
          BY <4>2, RestIsSmaller
        <5>2. Cardinality(Rest(s)) <= n - 1 BY <1>1, <2>2, <5>1
        <5>3. f[Rest(s)] = More(f, g, Rest(s)) BY <3>3, <5>1, <5>2
        <5>4. h[Rest(s)] = f[Rest(s)] BY <3>5, <5>1, <5>3
        <5> QED BY <3>5, <5>4 DEF More
      <4> QED BY <4>1, <4>2
    <3>7. Fills(h, n) BY <3>4, <3>6
    <3> QED BY <2>1, <3>7
  <2> QED BY <2>3, <2>4
<1>3. S \in P OBVIOUS
<1>4. PICK f : Fills(f, Cardinality(S)) BY <1>2, <1>3
<1>5. \A s \in P : Cardinality(s) <= Cardinality(S) BY FS_Subset
<1>6. f = [s \in P |-> More(f, g, s)]
  <2>1. \A s \in P : f[s] = More(f, g, s) BY <1>4, <1>5
  <2>2. f = [s \in P |-> f[s]] BY <1>4
  <2> QED BY <2>1, <2>2
<1> QED BY <1>6 DEF SumsUp

\* A sum of integers is one, and any of them can be taken first.
LEMMA SumIsInt ==
    ASSUME NEW S, IsFiniteSet(S), NEW g, \A x \in S : g[x] \in Int,
           NEW f, SumsUp(f, g, S)
    PROVE  \A s \in SUBSET S : f[s] \in Int
<1> DEFINE Bad == {s \in SUBSET S : f[s] \notin Int}
<1>1. \A s \in SUBSET S : f[s] = More(f, g, s) BY DEF SumsUp
<1>2. Bad = {}
  <2> SUFFICES ASSUME Bad # {} PROVE FALSE OBVIOUS
  <2>1. PICK b \in Bad : \A t \in Bad : ~(t \subseteq b /\ t # b)
    <3>1. Bad \subseteq SUBSET S OBVIOUS
    <3> HIDE DEF Bad
    <3> QED BY <3>1, SmallestSubset
  <2>2. b # {}
    <3> SUFFICES ASSUME b = {} PROVE FALSE OBVIOUS
    <3>1. f[b] = 0 BY <1>1, <2>1 DEF More
    <3> QED BY <2>1, <3>1
  <2>3. /\ Rest(b) \in SUBSET S /\ Rest(b) \subseteq b /\ Rest(b) # b /\ Some(b) \in S
    BY <2>1, <2>2, RestIsSmaller
  <2>4. f[Rest(b)] \in Int BY <2>1, <2>3
  <2>5. f[b] = g[Some(b)] + f[Rest(b)] BY <1>1, <2>1, <2>2 DEF More
  <2>6. g[Some(b)] \in Int BY <2>3
  <2>7. f[b] \in Int BY <2>4, <2>5, <2>6
  <2> QED BY <2>1, <2>7
<1> QED BY <1>2

LEMMA SumOut ==
    ASSUME NEW S, IsFiniteSet(S), NEW g, \A x \in S : g[x] \in Int,
           NEW f, SumsUp(f, g, S), NEW s \in SUBSET S, NEW x \in s
    PROVE  f[s] = g[x] + f[s \ {x}]
<1> DEFINE Bad == {t \in SUBSET S : \E z \in t : f[t] # g[z] + f[t \ {z}]}
<1>1. \A t \in SUBSET S : f[t] = More(f, g, t) /\ f[t] \in Int BY SumIsInt DEF SumsUp
<1>2. Bad = {}
  <2> SUFFICES ASSUME Bad # {} PROVE FALSE OBVIOUS
  <2>1. PICK b \in Bad : \A t \in Bad : ~(t \subseteq b /\ t # b)
    <3>1. Bad \subseteq SUBSET S OBVIOUS
    <3> HIDE DEF Bad
    <3> QED BY <3>1, SmallestSubset
  <2>2. PICK z \in b : f[b] # g[z] + f[b \ {z}] BY <2>1
  <2> DEFINE y == Some(b)
             bz == b \ {z}
             by == b \ {y}
             both == (b \ {z}) \ {y}
  <2>3. b \in SUBSET S /\ b # {} /\ y \in b BY <2>1, <2>2, RestIsSmaller
  <2>4. f[b] = g[y] + f[by] BY <1>1, <2>3 DEF More, Rest
  <2>5. z # y BY <2>2, <2>4
  <2>6. /\ bz \in SUBSET S /\ bz \subseteq b /\ bz # b /\ y \in bz
        /\ by \in SUBSET S /\ by \subseteq b /\ by # b /\ z \in by
        /\ both \in SUBSET S /\ bz \ {y} = both /\ by \ {z} = both
    BY <2>2, <2>3, <2>5
  <2>7. bz \notin Bad /\ by \notin Bad
    <3> HIDE DEF Bad
    <3> QED BY <2>1, <2>6
  <2>8. f[bz] = g[y] + f[bz \ {y}] /\ f[by] = g[z] + f[by \ {z}] BY <2>6, <2>7
  <2>9. f[bz] = g[y] + f[both] /\ f[by] = g[z] + f[both]
    <3> HIDE DEF bz, by, both
    <3> QED BY <2>6, <2>8
  <2>10. g[z] \in Int /\ g[y] \in Int /\ f[both] \in Int BY <1>1, <2>2, <2>3, <2>6
  <2>11. f[b] # g[z] + f[bz] BY <2>2
  <2> HIDE DEF y, bz, by, both
  <2> QED BY <2>4, <2>9, <2>10, <2>11
<1> QED BY <1>2

\* The sums of the first members of an interval, one more at a time, up to all.
RunningSums(p, g, a, n, total) ==
    p[0] = 0 /\ p[n] = total /\ \A k \in 0..n : p[k] \in Int /\ (k < n => p[k + 1] = p[k] + g[a + k])

LEMMA SumsOfInterval ==
    ASSUME NEW a \in Nat, NEW n \in Nat, NEW I, I = a..(a + n - 1),
           NEW g, \A x \in I : g[x] \in Int, NEW f, SumsUp(f, g, I)
    PROVE  \E p : RunningSums(p, g, a, n, f[I])
<1> DEFINE S == a..(a + n - 1)
           first(k) == a..(a + k - 1)
           p == [k \in 0..n |-> f[first(k)]]
<1>1. IsFiniteSet(S)
  <2> DEFINE b == a + n - 1
  <2>1. a \in Int /\ b \in Int OBVIOUS
  <2> HIDE DEF b
  <2>2. IsFiniteSet(a..b) BY <2>1, FS_Interval
  <2> QED BY <2>2 DEF b
<1>2. \A k \in 0..n : first(k) \in SUBSET S OBVIOUS
<1>3. \A s \in SUBSET S : f[s] \in Int BY <1>1, SumIsInt
<1>4. ASSUME NEW s \in SUBSET S, NEW x \in s PROVE f[s] = g[x] + f[s \ {x}]
  <2>1. (\A z \in S : g[z] \in Int) /\ SumsUp(f, g, S) OBVIOUS
  <2> HIDE DEF S
  <2> QED BY <1>1, <2>1, SumOut
<1>5. p[0] = 0
  <2>1. first(0) = {} /\ 0 \in 0..n OBVIOUS
  <2>2. f[{}] = 0 BY DEF SumsUp, More
  <2> QED BY <2>1, <2>2
<1>6. \A k \in 0..n : p[k] \in Int
  <2> SUFFICES ASSUME NEW k \in 0..n PROVE p[k] \in Int OBVIOUS
  <2>1. p[k] = f[first(k)] OBVIOUS
  <2>2. first(k) \in SUBSET S BY <1>2
  <2> HIDE DEF first, p, S
  <2> QED BY <1>3, <2>1, <2>2
<1>7. ASSUME NEW k \in 0..n, k < n PROVE p[k + 1] = p[k] + g[a + k]
  <2>1. p[k] = f[first(k)] /\ p[k + 1] = f[first(k + 1)] BY <1>7
  <2>2. /\ a + k \in first(k + 1) /\ first(k + 1) \ {a + k} = first(k)
        /\ k + 1 \in 0..n /\ a + k \in S
    BY <1>7
  <2>3. first(k + 1) \in SUBSET S BY <1>2, <2>2
  <2>4. g[a + k] \in Int BY <2>2
  <2>5. p[k] \in Int BY <1>6
  <2> HIDE DEF first, p, S
  <2>6. f[first(k + 1)] = g[a + k] + f[first(k + 1) \ {a + k}] BY <1>4, <2>2, <2>3
  <2>7. f[first(k + 1)] = g[a + k] + p[k] BY <2>1, <2>2, <2>6
  <2> QED BY <2>1, <2>4, <2>5, <2>7
<1>8. p[n] = f[S] OBVIOUS
<1> HIDE DEF p
<1>9. S = I /\ p[n] = f[I] BY <1>8
<1> QED BY <1>5, <1>6, <1>7, <1>9 DEF RunningSums


-----------------------------------------------------------------------------
(* Who follows whom in an order, and so which line links to which.         *)

\* Each member and the next are in the relation R.
Chain(s, R) == \A j \in 1..Len(s) : j < Len(s) => <<s[j], s[j + 1]>> \in R

LEMMA ConcatChain ==
    ASSUME NEW S, NEW s \in Seq(S), NEW t \in Seq(S), Len(s) > 0, Len(t) > 0, NEW R,
           Chain(s, R), Chain(t, R), <<s[Len(s)], t[1]>> \in R
    PROVE  /\ s \o t \in Seq(S) /\ Len(s \o t) > 0 /\ Chain(s \o t, R)
           /\ (s \o t)[1] = s[1] /\ (s \o t)[Len(s \o t)] = t[Len(t)]
<1> DEFINE c == s \o t
           m == Len(s)
           n == Len(t)
<1>1. /\ c \in Seq(S) /\ Len(c) = m + n
      /\ \A i \in 1..(m + n) : c[i] = IF i <= m THEN s[i] ELSE t[i - m]
  BY ConcatProperties
<1>2. m \in Nat \ {0} /\ n \in Nat \ {0} OBVIOUS
<1>3. /\ \A j \in 1..m : j < m => <<s[j], s[j + 1]>> \in R
      /\ \A j \in 1..n : j < n => <<t[j], t[j + 1]>> \in R
      /\ <<s[m], t[1]>> \in R
  BY DEF Chain
<1> HIDE DEF c, m, n
<1>4. ASSUME NEW j \in 1..(m + n), j < m + n PROVE <<c[j], c[j + 1]>> \in R
  <2>1. j + 1 \in 1..(m + n) BY <1>2, <1>4
  <2>2. CASE j < m
    <3>1. c[j] = s[j] /\ c[j + 1] = s[j + 1] /\ j \in 1..m BY <1>1, <1>2, <2>1, <2>2
    <3> QED BY <1>3, <2>2, <3>1
  <2>3. CASE j = m
    <3>1. (m + 1) - m = 1 /\ ~(m + 1 <= m) /\ m <= m BY <1>2
    <3>2. c[m] = s[m] /\ c[m + 1] = t[1] BY <1>1, <1>4, <2>1, <2>3, <3>1
    <3> QED BY <1>3, <2>3, <3>2
  <2>4. CASE j > m
    <3> DEFINE k == j - m
    <3>1. k \in 1..n /\ k < n /\ (j + 1) - m = k + 1 /\ ~(j <= m) /\ ~(j + 1 <= m)
      BY <1>2, <1>4, <2>4
    <3>2. c[j] = t[k] /\ c[j + 1] = t[k + 1] BY <1>1, <2>1, <3>1
    <3> QED BY <1>3, <3>1, <3>2
  <2> QED BY <1>2, <2>2, <2>3, <2>4
<1>5. Chain(c, R) BY <1>1, <1>4 DEF Chain
<1>6. c[1] = s[1]
  <2>1. 1 \in 1..(m + n) /\ 1 <= m BY <1>2
  <2> QED BY <1>1, <2>1
<1>7. c[m + n] = t[n]
  <2>1. m + n \in 1..(m + n) /\ ~(m + n <= m) /\ (m + n) - m = n BY <1>2
  <2> QED BY <1>1, <2>1
<1> QED BY <1>1, <1>2, <1>5, <1>6, <1>7 DEF c, n

\* Chains of which each ends where the next may begin.
Links(F, K, R) ==
    /\ \A i \in 1..K : Len(F[i]) > 0 /\ Chain(F[i], R)
    /\ \A i \in 1..K : i < K => <<F[i][Len(F[i])], F[i + 1][1]>> \in R

LEMMA FlattenChain ==
    ASSUME NEW S, NEW K \in Nat \ {0}, NEW F \in [1..K -> Seq(S)], NEW R, Links(F, K, R)
    PROVE  LET s == FlattenSeq(F)
           IN  /\ Len(s) > 0 /\ Chain(s, R)
               /\ s[1] = F[1][1] /\ s[Len(s)] = F[K][Len(F[K])]
<1>1. PICK f : FlattenSeq(F) = f[K] /\ Grows(f, F, K) BY FlattenIs
<1> DEFINE Whole(i) == /\ f[i] \in Seq(S) /\ Len(f[i]) > 0 /\ Chain(f[i], R)
                       /\ f[i][1] = F[1][1] /\ f[i][Len(f[i])] = F[i][Len(F[i])]
           T == {i \in 0..K : i = 0 \/ Whole(i)}
<1>2. 0 \in T OBVIOUS
<1>3. ASSUME NEW k \in 0..K, k \in T, k < K PROVE k + 1 \in T
  <2>1. CASE k = 0
    <3>1. f[1] = F[1] /\ 1 \in 1..K BY <1>1 DEF Grows
    <3>2. Whole(1) BY <3>1 DEF Links
    <3>3. k + 1 = 1 /\ 1 \in 0..K BY <2>1
    <3> HIDE DEF Whole
    <3> QED BY <3>2, <3>3
  <2>2. CASE k # 0
    <3>1. k + 1 \in 1..K /\ k + 1 > 1 /\ (k + 1) - 1 = k /\ k \in 1..K BY <1>3, <2>2
    <3>2. f[k + 1] = f[k] \o F[k + 1] BY <1>1, <3>1 DEF Grows
    <3>3. Whole(k) BY <1>3, <2>2
    <3> DEFINE s == f[k]
               t == F[k + 1]
    <3>4. t \in Seq(S) /\ Len(t) > 0 /\ Chain(t, R) BY <3>1 DEF Links
    <3>5. <<s[Len(s)], t[1]>> \in R BY <1>3, <3>1, <3>3 DEF Links
    <3>6. s \in Seq(S) /\ Len(s) > 0 /\ Chain(s, R) BY <3>3
    <3>7. f[k + 1] = s \o t /\ s[1] = F[1][1] BY <3>2, <3>3
    <3> HIDE DEF s
    <3>8. /\ s \o t \in Seq(S) /\ Len(s \o t) > 0 /\ Chain(s \o t, R)
          /\ (s \o t)[1] = s[1] /\ (s \o t)[Len(s \o t)] = t[Len(t)]
      <4> HIDE DEF t
      <4> QED BY <3>4, <3>5, <3>6, ConcatChain
    <3>9. Whole(k + 1) BY <3>7, <3>8
    <3> HIDE DEF Whole
    <3> QED BY <3>1, <3>9
  <2> QED BY <2>1, <2>2
<1> HIDE DEF T
<1>4. K \in T
  <2>1. 0..K \subseteq T BY <1>2, <1>3, UpTo
  <2> QED BY <2>1
<1>5. Whole(K) BY <1>4 DEF T
<1> QED BY <1>1, <1>5

\* A span goes up by its step as long as it can.
LEMMA SpanSteps ==
    ASSUME NEW a \in Nat, NEW b \in Nat, a <= b, NEW d \in Nat \ {0}
    PROVE  LET s == Span(a, b, d)
           IN  /\ s \in Seq(Nat) /\ Len(s) > 0 /\ s[1] = a
               /\ \A j \in 1..Len(s) : a <= s[j] /\ s[j] <= b
               /\ \A j \in 1..Len(s) : j < Len(s) => s[j + 1] = s[j] + d
               /\ s[Len(s)] + d > b
<1> DEFINE m == (b - a) \div d
           s == Span(a, b, d)
<1>1. m \in Nat /\ d * m <= b - a /\ b - a < d * (m + 1)
  <2>1. b - a \in Nat OBVIOUS
  <2> QED BY <2>1, DivBounds
<1>2. s = [k \in 1..(m + 1) |-> a + (k - 1) * d] BY DEF Span
<1> HIDE DEF m, s
<1>3. \A k \in 1..(m + 1) : s[k] = a + (k - 1) * d BY <1>2
<1>4. ASSUME NEW k \in 1..(m + 1) PROVE s[k] \in Nat /\ a <= s[k] /\ s[k] <= b
  <2> DEFINE q == k - 1
  <2>1. q \in Nat /\ q <= m BY <1>1
  <2>2. s[k] = a + q * d BY <1>3
  <2> HIDE DEF q
  <2>3. q * d \in Nat /\ d * q <= d * m /\ d * q = q * d /\ d * m \in Nat
    <3>1. d * q <= d * m BY <1>1, <2>1, TimesMonotone
    <3> QED BY <1>1, <2>1, <3>1
  <2> QED BY <1>1, <2>2, <2>3
<1>5. s \in Seq(Nat) /\ Len(s) = m + 1
  <2>1. m + 1 \in Nat BY <1>1
  <2>2. s \in [1..(m + 1) -> Nat] BY <1>2, <1>4
  <2> QED BY <2>1, <2>2, SequenceOf
<1>6. s[1] = a
  <2>1. 1 \in 1..(m + 1) /\ (1 - 1) * d = 0 BY <1>1
  <2> QED BY <1>3, <2>1
<1>7. ASSUME NEW j \in 1..(m + 1), j < m + 1 PROVE s[j + 1] = s[j] + d
  <2> DEFINE q == j - 1
  <2>1. q \in Nat /\ j + 1 \in 1..(m + 1) /\ (j + 1) - 1 = q + 1 BY <1>1, <1>7
  <2>2. s[j] = a + q * d /\ s[j + 1] = a + (q + 1) * d BY <1>3, <2>1
  <2> HIDE DEF q
  <2>3. (q + 1) * d = q * d + d /\ q * d \in Nat BY <2>1
  <2> QED BY <2>2, <2>3
<1>8. s[m + 1] + d > b
  <2>1. m + 1 \in 1..(m + 1) /\ (m + 1) - 1 = m BY <1>1
  <2>2. s[m + 1] = a + m * d BY <1>3, <2>1
  <2>3. d * (m + 1) = m * d + d /\ m * d \in Nat BY <1>1
  <2> QED BY <1>1, <2>2, <2>3
<1> QED BY <1>1, <1>4, <1>5, <1>6, <1>7, <1>8 DEF s

\* A lap that begins at word 0 already is not rotated.
LEMMA LapIs ==
    ASSUME NEW n \in Nat \ {0}, NEW o \in Orders(n), o[1] = 0
    PROVE  Rotated(o) = o
<1> DEFINE T == 0..(n - 1)
           z == CHOOSE i \in DOMAIN o : o[i] = 0
<1>1. o \in Seq(T) /\ Len(o) = n /\ DOMAIN o = 1..n /\ Once(o) BY DEF Orders
<1>2. z = 1
  <2>1. 1 \in DOMAIN o /\ \A i \in DOMAIN o : o[i] = 0 => i = 1 BY <1>1 DEF Once
  <2> QED BY <2>1
<1>3. Rotated(o) = SubSeq(o, z, Len(o)) \o SubSeq(o, 1, z - 1) BY DEF Rotated
<1> HIDE DEF T, z
<1>4. SubSeq(o, 1, n) = o BY <1>1
<1>5. SubSeq(o, 1, 0) = << >> BY <1>1
<1>6. o \o << >> = o BY <1>1, ConcatEmptySeq
<1>7. Len(o) = n /\ z - 1 = 0 BY <1>1, <1>2
<1> QED BY <1>2, <1>3, <1>4, <1>5, <1>6, <1>7

\* The links of a lap are those of its order, the last line's to word 0.
LEMMA LinksOf ==
    ASSUME NEW n \in Nat \ {0}, NEW o \in Orders(n), o[1] = 0, NEW links, Laps(Rotated(o), n, links),
           NEW R, Chain(o, R), <<o[Len(o)], 0>> \in R
    PROVE  \A x \in 0..(n - 1) : <<x, links[x]>> \in R
<1>1. Rotated(o) = o /\ Len(o) = n /\ Values(o) = 0..(n - 1) BY LapIs DEF Orders
<1>2. \A i \in 1..n : links[o[i]] = o[(i % n) + 1] BY <1>1 DEF Laps
<1> SUFFICES ASSUME NEW x \in 0..(n - 1) PROVE <<x, links[x]>> \in R OBVIOUS
<1>3. PICK i \in 1..n : o[i] = x BY <1>1 DEF Values
<1>4. CASE i < n
  <2>1. i % n = i BY <1>4, RemainderOfSmall
  <2>2. links[x] = o[i + 1] BY <1>2, <1>3, <2>1
  <2> QED BY <1>1, <1>3, <1>4, <2>2 DEF Chain
<1>5. CASE i = n
  <2>1. n % n = 0
    <3>1. (n * 1) % n = 0 BY WholeTimes
    <3> QED BY <3>1
  <2>2. 0 + 1 = 1 OBVIOUS
  <2>3. links[x] = 0 BY <1>2, <1>3, <1>5, <2>1, <2>2
  <2> QED BY <1>1, <1>3, <1>5, <2>3
<1> QED BY <1>4, <1>5

-----------------------------------------------------------------------------
(* What the machine takes for a lap of each order.                         *)

LEMMA MachineIs ==
    ASSUME machine \in Machines
    PROVE  /\ \A s \in DOMAIN machine.share : s \in Nat \ {0} /\ machine.share[s] \in 1..100
           /\ \A s \in Range(Strides) : s \in DOMAIN machine.share
           /\ 1 \in DOMAIN machine.share
           /\ \A w \in Worksets : machine.slow[w] \in Nat \ {0}
<1>1. 1 \in Range(Strides)
  <2>1. Strides \in Seq(Nat \ {0}) /\ Strides # << >> /\ Strides[1] = 1 BY GridsAssumption
  <2>2. 1 \in DOMAIN Strides BY <2>1
  <2> QED BY <2>1, <2>2 DEF Range
<1> QED BY <1>1, MachineAssumption

LEMMA ServedIs ==
    ASSUME machine \in Machines, NEW links, NEW x
    PROVE  Served(links, x) \in 1..100
BY MachineIs DEF Served

\* The sum is that of the lines up to each line.
LEMMA LapTime ==
    ASSUME machine \in Machines, NEW n \in Nat \ {0}, NEW links, NEW w
    PROVE  \E p, total : /\ RunningSums(p, [x \in 0..(n - 1) |-> Served(links, x)], 0, n, total)
                         /\ ChaseTime(links, n, w) = total * machine.slow[w]
<1> DEFINE C == 0..(n - 1)
           g == [x \in C |-> Served(links, x)]
           Sums(f) == f = [s \in SUBSET C |->
                              IF s = {} THEN 0 ELSE Served(links, Some(s)) + f[Rest(s)]]
           it == CHOOSE f : Sums(f)
<1>1. ChaseTime(links, n, w) = it[C] * machine.slow[w]
  BY DEF ChaseTime, MapThenSumSet, MapThenFoldSet, Some, Rest
<1>2. IsFiniteSet(C)
  <2> DEFINE b == n - 1
  <2>1. b \in Int /\ 0 \in Int OBVIOUS
  <2> HIDE DEF b
  <2>2. IsFiniteSet(0..b) BY <2>1, FS_Interval
  <2> QED BY <2>2 DEF b
<1>3. \A f : Sums(f) <=> SumsUp(f, g, C)
  <2> TAKE f
  <2> HIDE DEF C
  <2>1. \A s \in SUBSET C : s # {} => Served(links, Some(s)) = g[Some(s)] BY <1>2, RestIsSmaller
  <2> HIDE DEF g
  <2>2. [s \in SUBSET C |-> IF s = {} THEN 0 ELSE Served(links, Some(s)) + f[Rest(s)]]
            = [s \in SUBSET C |-> More(f, g, s)]
    BY <2>1 DEF More
  <2> QED BY <2>2 DEF SumsUp
<1>4. SumsUp(it, g, C)
  <2> HIDE DEF C, g
  <2>1. \E f : Sums(f) BY <1>2, <1>3, SumExists
  <2> HIDE DEF Sums
  <2>2. Sums(it) BY <2>1
  <2> QED BY <1>3, <2>2
<1> HIDE DEF it
<1>5. \A x \in 0..(n - 1) : g[x] \in Int
  <2> SUFFICES ASSUME NEW x \in 0..(n - 1) PROVE g[x] \in Int OBVIOUS
  <2>1. Served(links, x) \in 1..100 BY ServedIs
  <2> QED BY <2>1
<1> HIDE DEF g
<1> DEFINE a == 0
           I == a..(a + n - 1)
<1>6. a \in Nat /\ n \in Nat /\ I = C OBVIOUS
<1> HIDE DEF C
<1>7. (\A x \in I : g[x] \in Int) /\ SumsUp(it, g, I) BY <1>4, <1>5, <1>6 DEF C
<1> HIDE DEF a
<1>10. I = a..(a + n - 1) OBVIOUS
<1> HIDE DEF I
<1>8. \E p : RunningSums(p, g, a, n, it[I]) BY <1>6, <1>7, <1>10, SumsOfInterval
<1>9. \E p : RunningSums(p, g, 0, n, it[C]) BY <1>6, <1>8 DEF a
<1> QED BY <1>1, <1>9 DEF g, C

-----------------------------------------------------------------------------
(* In random order.                                                        *)

\* A step up is followed by one down.
LEMMA RandomServed ==
    ASSUME machine \in Machines, NEW n \in Nat \ {0}, NEW links,
           Laps(Rotated(RandomOrder(n)), n, links), NEW x \in 0..(n - 1)
    PROVE  Served(links, x) = 100
<1> DEFINE o == RandomOrder(n)
<1>1. o \in Orders(n) BY RandomOrderIs
<1>2. o = [i \in 1..n |-> IF i % 2 = 1 THEN i \div 2 ELSE n - (i \div 2)] BY DEF RandomOrder
<1>3. Len(o) = n /\ Values(o) = 0..(n - 1) BY <1>1 DEF Orders
<1>4. o[1] = 0
  <2>1. 1 \in 1..n /\ 1 % 2 = 1 /\ 1 \div 2 = 0 OBVIOUS
  <2> QED BY <1>2, <2>1
<1> HIDE DEF o
<1>5. Rotated(o) = o BY <1>1, <1>4, LapIs
<1>6. \A i \in 1..n : links[o[i]] = o[(i % n) + 1] BY <1>5 DEF Laps, o
<1>7. ASSUME NEW i \in 1..n, i < n PROVE links[o[i]] = o[i + 1]
  <2>1. i % n = i BY <1>7, RemainderOfSmall
  <2> QED BY <1>6, <2>1
<1>8. links[o[n]] = 0
  <2>1. n % n = 0
    <3>1. (n * 1) % n = 0 BY WholeTimes
    <3> QED BY <3>1
  <2>2. 0 + 1 = 1 /\ n \in 1..n OBVIOUS
  <2> QED BY <1>4, <1>6, <2>1, <2>2
<1>9. ASSUME NEW i \in 1..n
      PROVE  \/ \E k \in Nat : i = 2 * k + 1 /\ o[i] = k
             \/ \E k \in Nat : k > 0 /\ i = 2 * k /\ o[i] = n - k
  <2> DEFINE k == i \div 2
             h == i % 2
  <2>1. k \in Nat /\ h \in {0, 1} /\ i = 2 * k + h
    <3>1. i \in Nat OBVIOUS
    <3> QED BY <3>1, HalfIs
  <2>2. o[i] = IF h = 1 THEN k ELSE n - k BY <1>2
  <2> HIDE DEF k, h
  <2>3. CASE h = 1 BY <2>1, <2>2, <2>3
  <2>4. CASE h = 0
    <3>1. i = 2 * k /\ o[i] = n - k /\ k > 0 BY <2>1, <2>2, <2>4
    <3> QED BY <2>1, <3>1
  <2> QED BY <2>1, <2>3, <2>4
\* from an even place it goes down
<1>10. ASSUME NEW i \in 1..n, NEW k \in Nat, k > 0, i = 2 * k, o[i] = n - k
       PROVE  links[o[i]] - o[i] <= 0
  <2>1. CASE i < n
    <3>1. i + 1 \in 1..n BY <2>1
    <3>2. PICK l \in Nat : \/ i + 1 = 2 * l + 1 /\ o[i + 1] = l
                           \/ i + 1 = 2 * l
      BY <1>9, <3>1
    <3>3. l = k /\ o[i + 1] = k BY <1>10, <3>2
    <3>4. links[o[i]] = k BY <1>7, <2>1, <3>3
    <3> QED BY <1>10, <2>1, <3>4
  <2>2. CASE i = n
    <3>1. links[o[i]] = 0 BY <1>8, <2>2
    <3> QED BY <1>10, <2>2, <3>1
  <2> QED BY <2>1, <2>2
<1>11. PICK i \in 1..n : o[i] = x BY <1>3 DEF Values
<1> DEFINE up == links[x] - x
           next == links[links[x]] - links[x]
<1>12. up \in Int /\ next \in Int
  <2>1. \A j \in 1..n : o[j] \in Nat BY <1>9
  <2>2. \A j \in 1..n : \E h \in 1..n : links[o[j]] = o[h]
    <3> SUFFICES ASSUME NEW j \in 1..n PROVE \E h \in 1..n : links[o[j]] = o[h] OBVIOUS
    <3>1. CASE j < n
      <4>1. j + 1 \in 1..n BY <3>1
      <4> QED BY <1>7, <3>1, <4>1
    <3>2. CASE j = n BY <1>4, <1>8, <3>2
    <3> QED BY <3>1, <3>2
  <2>3. PICK h \in 1..n : links[x] = o[h] BY <1>11, <2>2
  <2>4. PICK g \in 1..n : links[links[x]] = o[g] BY <2>2, <2>3
  <2>5. links[x] \in Nat /\ links[links[x]] \in Nat BY <2>1, <2>3, <2>4
  <2> QED BY <2>5
<1>13. up <= 0 \/ next <= 0
  <2>1. CASE \E k \in Nat : k > 0 /\ i = 2 * k /\ o[i] = n - k BY <1>10, <1>11, <2>1
  <2>2. CASE \E k \in Nat : i = 2 * k + 1 /\ o[i] = k
    <3>1. PICK k \in Nat : i = 2 * k + 1 /\ o[i] = k BY <2>2
    <3>2. CASE i < n
      <4> DEFINE j == i + 1
      <4>1. j \in 1..n /\ links[x] = o[j] BY <1>7, <1>11, <3>2
      <4>2. PICK l \in Nat : \/ j = 2 * l + 1
                             \/ l > 0 /\ j = 2 * l /\ o[j] = n - l
        BY <1>9, <4>1
      <4>3. l > 0 /\ j = 2 * l /\ o[j] = n - l BY <3>1, <4>2
      <4> HIDE DEF j
      <4>4. links[o[j]] - o[j] <= 0 BY <1>10, <4>1, <4>3
      <4> QED BY <4>1, <4>4
    <3>3. CASE i = n
      <4>1. links[x] = 0 /\ x = k BY <1>8, <1>11, <3>1, <3>3
      <4> QED BY <4>1
    <3> QED BY <3>2, <3>3
  <2> QED BY <1>9, <2>1, <2>2
<1>14. ~(next = up /\ up \in DOMAIN machine.share)
  <2>1. up \in DOMAIN machine.share => up > 0
    <3>1. \A s \in DOMAIN machine.share : s \in Nat \ {0} BY MachineIs
    <3> HIDE DEF up
    <3> QED BY <3>1
  <2> HIDE DEF up, next
  <2> QED BY <1>12, <1>13, <2>1
<1> QED BY <1>14 DEF Served

LEMMA RandomTime ==
    ASSUME machine \in Machines, NEW n \in Nat \ {0}, NEW links,
           Laps(Rotated(RandomOrder(n)), n, links), NEW w \in Worksets
    PROVE  ChaseTime(links, n, w) = 100 * n * machine.slow[w]
<1> DEFINE g == [x \in 0..(n - 1) |-> Served(links, x)]
<1>1. PICK p, total : RunningSums(p, g, 0, n, total) /\ ChaseTime(links, n, w) = total * machine.slow[w]
  BY LapTime
<1>2. \A x \in 0..(n - 1) : g[x] = 100
  <2> SUFFICES ASSUME NEW x \in 0..(n - 1) PROVE g[x] = 100 OBVIOUS
  <2>1. Served(links, x) = 100 BY RandomServed
  <2> QED BY <2>1
<1> HIDE DEF g
<1> DEFINE T == {k \in 0..n : p[k] = 100 * k}
<1>3. 0 \in T BY <1>1 DEF RunningSums
<1>4. ASSUME NEW k \in 0..n, k \in T, k < n PROVE k + 1 \in T
  <2>1. p[k + 1] = p[k] + g[0 + k] BY <1>1, <1>4 DEF RunningSums
  <2>2. 0 + k = k /\ k \in 0..(n - 1) /\ k + 1 \in 0..n BY <1>4
  <2> QED BY <1>2, <1>4, <2>1, <2>2
<1>5. p[n] = 100 * n /\ p[n] = total
  <2>1. n \in Nat OBVIOUS
  <2> HIDE DEF T
  <2>2. 0..n \subseteq T BY <1>3, <1>4, <2>1, UpTo
  <2>3. n \in T BY <2>1, <2>2
  <2> QED BY <1>1, <2>3 DEF T, RunningSums
<1> QED BY <1>1, <1>5

-----------------------------------------------------------------------------
(* In strided order.                                                       *)

LapLines(n) == 0..(n - 1)

\* A stride further, or from the end of a phase to the head of another.
StrideLinks(n, d) ==
    {e \in LapLines(n) \X LapLines(n) : IF e[1] + d < n THEN e[2] = e[1] + d ELSE e[2] < d}

LEMMA StrideChain ==
    ASSUME NEW n \in Nat \ {0}, NEW d \in 1..(n - 1)
    PROVE  LET o == StrideOrder(n, d)
           IN  o[1] = 0 /\ Chain(o, StrideLinks(n, d)) /\ <<o[Len(o)], 0>> \in StrideLinks(n, d)
<1> DEFINE F == [p \in 1..d |-> Span(p - 1, n - 1, d)]
           o == StrideOrder(n, d)
           R == StrideLinks(n, d)
<1>1. Min({d, n}) = d
  <2>1. d \in {d, n} /\ \A y \in {d, n} : d <= y OBVIOUS
  <2>2. \A x \in {d, n} : (\A y \in {d, n} : x <= y) => x = d OBVIOUS
  <2> QED BY <2>1, <2>2 DEF Min
<1>2. o = FlattenSeq(F) BY <1>1 DEF StrideOrder
<1>3. d \in Nat \ {0} /\ d < n OBVIOUS
<1> HIDE DEF o
<1>4. ASSUME NEW p \in 1..d
      PROVE  LET s == F[p]
             IN  /\ s \in Seq(Nat) /\ Len(s) > 0 /\ s[1] = p - 1
                 /\ \A j \in 1..Len(s) : s[j] \in LapLines(n)
                 /\ \A j \in 1..Len(s) : j < Len(s) => s[j + 1] = s[j] + d
                 /\ s[Len(s)] + d >= n
  <2> DEFINE a == p - 1
             b == n - 1
             s == Span(a, b, d)
  <2>1. a \in Nat /\ b \in Nat /\ a <= b /\ F[p] = s OBVIOUS
  <2> HIDE DEF F, a, b
  <2>2. /\ s \in Seq(Nat) /\ Len(s) > 0 /\ s[1] = a
        /\ \A j \in 1..Len(s) : a <= s[j] /\ s[j] <= b
        /\ \A j \in 1..Len(s) : j < Len(s) => s[j + 1] = s[j] + d
        /\ s[Len(s)] + d > b
    BY <1>3, <2>1, SpanSteps
  <2> HIDE DEF s
  <2>3. \A j \in 1..Len(s) : s[j] \in LapLines(n)
    <3> SUFFICES ASSUME NEW j \in 1..Len(s) PROVE s[j] \in LapLines(n) OBVIOUS
    <3>1. s[j] \in Nat /\ s[j] <= b BY <2>2
    <3> QED BY <3>1 DEF LapLines, b
  <2>4. s[Len(s)] + d >= n
    <3>1. s[Len(s)] \in Nat BY <2>2
    <3> QED BY <2>2, <3>1 DEF b
  <2> QED BY <2>1, <2>2, <2>3, <2>4 DEF a
<1>5. F \in [1..d -> Seq(LapLines(n))]
  <2>1. \A p \in 1..d : F[p] \in Seq(LapLines(n))
    <3> SUFFICES ASSUME NEW p \in 1..d PROVE F[p] \in Seq(LapLines(n)) OBVIOUS
    <3> DEFINE s == F[p]
    <3>1. s \in Seq(Nat) /\ \A j \in 1..Len(s) : s[j] \in LapLines(n) BY <1>4
    <3> HIDE DEF s
    <3>2. s \in [1..Len(s) -> LapLines(n)] /\ Len(s) \in Nat BY <3>1
    <3>3. s \in Seq(LapLines(n)) BY <3>2, SequenceOf
    <3> QED BY <3>3 DEF s
  <2>2. F = [p \in 1..d |-> F[p]] OBVIOUS
  <2> HIDE DEF F
  <2> QED BY <2>1, <2>2
<1> HIDE DEF F
<1>6. \A e : e \in R <=> /\ e \in LapLines(n) \X LapLines(n)
                         /\ IF e[1] + d < n THEN e[2] = e[1] + d ELSE e[2] < d
  BY DEF StrideLinks
<1> HIDE DEF R
<1>7. ASSUME NEW x \in LapLines(n), NEW y \in LapLines(n), IF x + d < n THEN y = x + d ELSE y < d
      PROVE  <<x, y>> \in R
  BY <1>6, <1>7
<1>8. ASSUME NEW p \in 1..d
      PROVE  /\ Len(F[p]) > 0 /\ Chain(F[p], R)
             /\ F[p][Len(F[p])] \in LapLines(n) /\ F[p][Len(F[p])] + d >= n
             /\ F[p][1] = p - 1
  <2> DEFINE s == F[p]
             l == Len(s)
  <2>1. /\ s \in Seq(Nat) /\ l > 0 /\ s[1] = p - 1
        /\ \A j \in 1..l : s[j] \in LapLines(n)
        /\ \A j \in 1..l : j < l => s[j + 1] = s[j] + d
        /\ s[l] + d >= n
    BY <1>4
  <2>2. l \in Nat BY <2>1
  <2>3. l = Len(s) OBVIOUS
  <2> HIDE DEF s, l
  <2>4. ASSUME NEW j \in 1..l, j < l PROVE <<s[j], s[j + 1]>> \in R
    <3>1. s[j] \in LapLines(n) /\ s[j + 1] \in LapLines(n) /\ s[j + 1] = s[j] + d BY <2>1, <2>2, <2>4
    <3>2. s[j] + d < n BY <3>1 DEF LapLines
    <3> QED BY <1>7, <3>1, <3>2
  <2>5. l \in 1..l BY <2>1, <2>2
  <2> QED BY <2>1, <2>3, <2>4, <2>5 DEF Chain, s
<1>9. Links(F, d, R)
  <2>1. ASSUME NEW i \in 1..d, i < d PROVE <<F[i][Len(F[i])], F[i + 1][1]>> \in R
    <3> DEFINE x == F[i][Len(F[i])]
    <3>1. i + 1 \in 1..d /\ (i + 1) - 1 = i BY <1>3, <2>1
    <3>2. x \in LapLines(n) /\ x + d >= n BY <1>8
    <3>3. F[i + 1][1] = i BY <1>8, <3>1
    <3> HIDE DEF x
    <3>4. i \in LapLines(n) /\ i < d /\ ~(x + d < n) BY <1>3, <2>1, <3>2 DEF LapLines
    <3>5. <<x, i>> \in R BY <1>7, <3>2, <3>4
    <3> QED BY <3>3, <3>5 DEF x
  <2> QED BY <1>8, <2>1 DEF Links
<1>10. /\ Len(o) > 0 /\ Chain(o, R)
       /\ o[1] = F[1][1] /\ o[Len(o)] = F[d][Len(F[d])]
  BY <1>2, <1>3, <1>5, <1>9, FlattenChain
<1>11. 1 \in 1..d /\ d \in 1..d /\ 1 - 1 = 0 BY <1>3
<1>12. o[1] = 0 BY <1>8, <1>10, <1>11
<1>13. <<o[Len(o)], 0>> \in R
  <2> DEFINE x == F[d][Len(F[d])]
  <2>1. x \in LapLines(n) /\ x + d >= n BY <1>8, <1>11
  <2> HIDE DEF x
  <2>2. 0 \in LapLines(n) /\ 0 < d /\ ~(x + d < n) BY <1>3, <2>1 DEF LapLines
  <2>3. <<x, 0>> \in R BY <1>7, <2>1, <2>2
  <2> QED BY <1>10, <2>3 DEF x
<1> QED BY <1>10, <1>12, <1>13 DEF o, R

\* Only a stride after a stride is served at the share, all but the two links that
\* begin each run.
LEMMA StrideServed ==
    ASSUME machine \in Machines, NEW n \in Nat \ {0}, NEW d \in DOMAIN machine.share, 2 * d <= n,
           NEW links, Laps(Rotated(StrideOrder(n, d)), n, links), NEW x \in 0..(n - 1)
    PROVE  Served(links, x) = IF x + 2 * d < n THEN machine.share[d] ELSE 100
<1> DEFINE o == StrideOrder(n, d)
           R == StrideLinks(n, d)
<1>1. d \in 1..(n - 1) /\ \A s \in DOMAIN machine.share : s > 0 /\ s \in Nat
  <2>1. d \in Nat \ {0} /\ \A s \in DOMAIN machine.share : s > 0 /\ s \in Nat BY MachineIs
  <2> QED BY <2>1
<1>2. o \in Orders(n) BY <1>1, StrideOrderIs
<1>3. o[1] = 0 /\ Chain(o, R) /\ <<o[Len(o)], 0>> \in R BY <1>1, StrideChain
<1>4. \A y \in 0..(n - 1) : <<y, links[y]>> \in R
  <2>1. Laps(Rotated(o), n, links) OBVIOUS
  <2> HIDE DEF o, R
  <2> QED BY <1>2, <1>3, <2>1, LinksOf
<1>5. ASSUME NEW y \in 0..(n - 1)
      PROVE  links[y] \in 0..(n - 1) /\ IF y + d < n THEN links[y] = y + d ELSE links[y] < d
  BY <1>4 DEF StrideLinks, LapLines
<1> HIDE DEF o, R
<1> DEFINE z == links[x]
           y == links[z]
<1>6. z \in 0..(n - 1) /\ IF x + d < n THEN z = x + d ELSE z < d BY <1>5
<1>7. y \in 0..(n - 1) /\ IF z + d < n THEN y = z + d ELSE y < d BY <1>5, <1>6
<1>8. Served(links, x) = IF y - z = z - x /\ z - x \in DOMAIN machine.share
                         THEN machine.share[z - x] ELSE 100
  BY DEF Served
<1> HIDE DEF y, z
<1>9. CASE x + 2 * d < n
  <2>1. z = x + d /\ y = z + d /\ z - x = d /\ y - z = d BY <1>1, <1>6, <1>7, <1>9
  <2> QED BY <1>8, <1>9, <2>1
<1>10. CASE x + d < n /\ ~(x + 2 * d < n)
  <2>1. z = x + d /\ y < d /\ z - x = d /\ y - z # d BY <1>1, <1>6, <1>7, <1>10
  <2> QED BY <1>8, <1>10, <2>1
<1>11. CASE ~(x + d < n)
  <2>1. z < d /\ x >= n - d /\ x >= d /\ z - x <= 0 /\ z - x \in Int BY <1>1, <1>6, <1>11
  <2>2. z - x \notin DOMAIN machine.share BY <1>1, <2>1
  <2>3. ~(x + 2 * d < n) BY <1>1, <1>11
  <2> QED BY <1>8, <2>2, <2>3
<1> QED BY <1>9, <1>10, <1>11

LEMMA StrideTime ==
    ASSUME machine \in Machines, NEW n \in Nat \ {0}, NEW d \in DOMAIN machine.share, 2 * d <= n,
           NEW links, Laps(Rotated(StrideOrder(n, d)), n, links), NEW w \in Worksets
    PROVE  ChaseTime(links, n, w) =
               (100 * n - (100 - machine.share[d]) * (n - 2 * d)) * machine.slow[w]
<1> DEFINE g == [x \in 0..(n - 1) |-> Served(links, x)]
           a == machine.share[d]
           m == n - 2 * d
<1>1. PICK p, total : RunningSums(p, g, 0, n, total) /\ ChaseTime(links, n, w) = total * machine.slow[w]
  BY LapTime
<1>2. a \in 1..100 /\ m \in Nat /\ m <= n
  <2>1. a \in 1..100 /\ d \in Nat BY MachineIs
  <2> QED BY <2>1
<1>3. \A x \in 0..(n - 1) : g[x] = IF x < m THEN a ELSE 100
  <2> SUFFICES ASSUME NEW x \in 0..(n - 1) PROVE g[x] = IF x < m THEN a ELSE 100 OBVIOUS
  <2>1. Served(links, x) = IF x + 2 * d < n THEN a ELSE 100 BY StrideServed
  <2>2. d \in Nat BY MachineIs
  <2>3. x + 2 * d < n <=> x < m BY <2>2
  <2> QED BY <2>1, <2>3
<1> HIDE DEF g
<1> DEFINE b == 100 - a
           T == {k \in 0..n : p[k] = 100 * k - (IF k <= m THEN b * k ELSE b * m)}
<1> HIDE DEF m
<1>4. b \in Nat /\ a = 100 - b BY <1>2
<1> HIDE DEF a, b
<1>5. 0 \in T
  <2>1. b * 0 = 0 BY <1>4
  <2> QED BY <1>1, <1>2, <2>1 DEF RunningSums
<1>6. ASSUME NEW k \in 0..n, k \in T, k < n PROVE k + 1 \in T
  <2>1. p[k + 1] = p[k] + g[0 + k] BY <1>1, <1>6 DEF RunningSums
  <2>2. 0 + k = k /\ k \in 0..(n - 1) /\ k + 1 \in 0..n BY <1>6
  <2>3. b * (k + 1) = b * k + b /\ b * k \in Int /\ b * m \in Int BY <1>2, <1>4
  <2>4. p[k] = 100 * k - (IF k <= m THEN b * k ELSE b * m) BY <1>6
  <2>5. CASE k < m
    <3>1. p[k + 1] = p[k] + a BY <1>3, <2>1, <2>2, <2>5
    <3>2. k <= m /\ k + 1 <= m BY <1>2, <2>5
    <3>3. p[k + 1] = 100 * (k + 1) - b * (k + 1) BY <1>4, <2>3, <2>4, <3>1, <3>2
    <3> QED BY <2>2, <3>2, <3>3
  <2>6. CASE k >= m
    <3>1. p[k + 1] = p[k] + 100 BY <1>2, <1>3, <2>1, <2>2, <2>6
    <3>2. ~(k + 1 <= m) BY <1>2, <2>6
    <3>3. k <= m => b * k = b * m BY <1>2, <2>6
    <3>4. p[k] = 100 * k - b * m BY <2>4, <3>3
    <3>5. p[k + 1] = 100 * (k + 1) - b * m BY <2>3, <3>1, <3>4
    <3> QED BY <2>2, <3>2, <3>5
  <2> QED BY <1>2, <2>5, <2>6
<1>7. total = 100 * n - b * m
  <2>1. n \in Nat OBVIOUS
  <2> HIDE DEF T
  <2>2. 0..n \subseteq T BY <1>5, <1>6, <2>1, UpTo
  <2>3. n \in T BY <2>1, <2>2
  <2>4. p[n] = 100 * n - (IF n <= m THEN b * n ELSE b * m) BY <2>3 DEF T
  <2>5. n <= m => b * n = b * m BY <1>2
  <2> QED BY <1>1, <2>4, <2>5 DEF RunningSums
<1> QED BY <1>1, <1>7 DEF a, b, m

-----------------------------------------------------------------------------
(* In segmented order.                                                     *)

\* The shuffle of three segments or more puts none behind the one before it.
LEMMA ShuffledApart ==
    ASSUME NEW G \in Nat, G >= 3
    PROVE  LET s == Span(1, G, 2) \o Span(2, G, 2)
           IN  s[1] = 1 /\ \A i \in 1..G : i < G => s[i + 1] # s[i] + 1
<1> DEFINE a == Span(1, G, 2)
           b == Span(2, G, 2)
           s == a \o b
           R == {e \in Nat \X Nat : e[2] # e[1] + 1}
<1>1. ASSUME NEW f \in {1, 2}
      PROVE  LET t == Span(f, G, 2)
             IN  /\ t \in Seq(Nat) /\ Len(t) > 0 /\ t[1] = f
                 /\ \A j \in 1..Len(t) : j < Len(t) => t[j + 1] = t[j] + 2
                 /\ t[Len(t)] + 2 > G
  <2> DEFINE two == 2
  <2>1. f \in Nat /\ f <= G /\ two \in Nat \ {0} OBVIOUS
  <2> HIDE DEF two
  <2>2. LET t == Span(f, G, two)
        IN  /\ t \in Seq(Nat) /\ Len(t) > 0 /\ t[1] = f
            /\ \A j \in 1..Len(t) : f <= t[j] /\ t[j] <= G
            /\ \A j \in 1..Len(t) : j < Len(t) => t[j + 1] = t[j] + two
            /\ t[Len(t)] + two > G
    BY <2>1, SpanSteps
  <2> QED BY <2>2 DEF two
<1>2. /\ a \in Seq(Nat) /\ Len(a) > 0 /\ a[1] = 1
      /\ \A j \in 1..Len(a) : j < Len(a) => a[j + 1] = a[j] + 2
      /\ a[Len(a)] + 2 > G
  BY <1>1
<1>3. /\ b \in Seq(Nat) /\ Len(b) > 0 /\ b[1] = 2
      /\ \A j \in 1..Len(b) : j < Len(b) => b[j + 1] = b[j] + 2
  BY <1>1
<1>4. ASSUME NEW t \in Seq(Nat), \A j \in 1..Len(t) : j < Len(t) => t[j + 1] = t[j] + 2
      PROVE  Chain(t, R)
  <2> DEFINE l == Len(t)
  <2> SUFFICES ASSUME NEW j \in 1..l, j < l PROVE <<t[j], t[j + 1]>> \in R BY DEF Chain
  <2>1. l \in Nat /\ (\A i \in 1..l : t[i] \in Nat) /\ t[j + 1] = t[j] + 2 BY <1>4
  <2> HIDE DEF l
  <2>2. t[j] \in Nat /\ t[j + 1] \in Nat BY <2>1
  <2> QED BY <2>1, <2>2
<1>5. Chain(a, R) /\ Chain(b, R) BY <1>2, <1>3, <1>4
<1>6. Len(s) = G /\ s \in Seq(Nat)
  <2>1. s \in Seq(1..G) /\ Len(s) = G BY ShuffledIs
  <2>2. s \in Seq(Nat) BY <1>2, <1>3, ConcatProperties
  <2> QED BY <2>1, <2>2
<1>7. <<a[Len(a)], b[1]>> \in R
  <2> DEFINE l == Len(a)
  <2>1. l \in 1..l /\ \A i \in 1..l : a[i] \in Nat BY <1>2
  <2> HIDE DEF l
  <2>2. a[l] \in Nat BY <2>1
  <2>3. a[l] + 2 > G BY <1>2 DEF l
  <2> QED BY <1>3, <2>2, <2>3 DEF l
<1>8. s[1] = 1 /\ Chain(s, R)
  <2> HIDE DEF a, b, R
  <2> QED BY <1>2, <1>3, <1>5, <1>7, ConcatChain
<1> HIDE DEF s
<1>9. ASSUME NEW i \in 1..G, i < G PROVE s[i + 1] # s[i] + 1
  <2>1. <<s[i], s[i + 1]>> \in R BY <1>6, <1>8, <1>9 DEF Chain
  <2> QED BY <2>1
<1> QED BY <1>8, <1>9 DEF s

\* A sequence of the numbers from a to b.
Counts(s, a, b) ==
    /\ s \in Seq(Nat) /\ Len(s) > 0 /\ s[1] = a
    /\ \A j \in 1..Len(s) : a <= s[j] /\ s[j] <= b
    /\ \A j \in 1..Len(s) : j < Len(s) => s[j + 1] = s[j] + 1
    /\ s[Len(s)] + 1 > b

LEMMA OneByOne ==
    ASSUME NEW a \in Nat, NEW b \in Nat, a <= b
    PROVE  Counts(Span(a, b, 1), a, b)
<1> DEFINE one == 1
           t == Span(a, b, one)
<1>1. one \in Nat \ {0} OBVIOUS
<1> HIDE DEF one
<1>2. /\ t \in Seq(Nat) /\ Len(t) > 0 /\ t[1] = a
      /\ \A j \in 1..Len(t) : a <= t[j] /\ t[j] <= b
      /\ \A j \in 1..Len(t) : j < Len(t) => t[j + 1] = t[j] + one
      /\ t[Len(t)] + one > b
  BY <1>1, SpanSteps
<1>3. Span(a, b, 1) = t BY DEF one
<1> HIDE DEF t
<1>4. Counts(t, a, b) BY <1>2 DEF one, Counts
<1> QED BY <1>3, <1>4

\* The next line, or from the end of a segment to the head of one that is not the next.
Segmented(n, d) ==
    {e \in LapLines(n) \X LapLines(n) :
        IF e[1] + 1 < n /\ (e[1] + 1) % d # 0 THEN e[2] = e[1] + 1
        ELSE e[2] % d = 0 /\ e[2] # e[1] + 1}

LEMMA SegmentChain ==
    ASSUME NEW n \in Nat, NEW d \in Nat, d >= 2, 2 * d < n
    PROVE  LET o == SegmentOrder(n, d)
           IN  o[1] = 0 /\ Chain(o, Segmented(n, d)) /\ <<o[Len(o)], 0>> \in Segmented(n, d)
<1> DEFINE G == (n + d - 1) \div d
           sh == Span(1, G, 2) \o Span(2, G, 2)
           F == [i \in 1..G |-> Span((sh[i] - 1) * d, Min({n, sh[i] * d}) - 1, 1)]
           o == SegmentOrder(n, d)
           R == Segmented(n, d)
<1>1. n \in Nat \ {0} /\ d \in 1..(n - 1) /\ d \in Nat \ {0} OBVIOUS
<1>2. G \in Nat \ {0, 1} /\ (\A q \in Nat : q < G <=> q * d <= n - 1) BY <1>1, GroupsAre
<1>3. o = FlattenSeq(F)
  <2>1. G > 1 BY <1>2
  <2> QED BY <2>1 DEF SegmentOrder
<1> HIDE DEF G, o
<1>4. G \in Nat \ {0} /\ G >= 3
  <2>1. 2 * d <= n - 1 OBVIOUS
  <2>2. 2 < G BY <1>2, <2>1
  <2> QED BY <1>2, <2>2
<1>5. \A i \in 1..G : sh[i] \in 1..G
  <2>1. sh \in Seq(1..G) /\ Len(sh) = G BY <1>2, ShuffledIs
  <2> HIDE DEF sh
  <2> QED BY <2>1
<1>6. sh[1] = 1 /\ \A i \in 1..G : i < G => sh[i + 1] # sh[i] + 1 BY <1>4, ShuffledApart
<1> HIDE DEF sh
<1>7. \A e : e \in R <=> /\ e \in LapLines(n) \X LapLines(n)
                         /\ IF e[1] + 1 < n /\ (e[1] + 1) % d # 0 THEN e[2] = e[1] + 1
                            ELSE e[2] % d = 0 /\ e[2] # e[1] + 1
  BY DEF Segmented
<1> HIDE DEF R
<1>8. ASSUME NEW x \in LapLines(n), NEW y \in LapLines(n),
             IF x + 1 < n /\ (x + 1) % d # 0 THEN y = x + 1 ELSE y % d = 0 /\ y # x + 1
      PROVE  <<x, y>> \in R
  BY <1>7, <1>8
\* a segment: from its head, to its end
<1>9. ASSUME NEW i \in 1..G
      PROVE  LET s == F[i]
                 q == sh[i] - 1
                 x == s[Len(s)]
             IN  /\ s \in Seq(LapLines(n)) /\ Len(s) > 0 /\ s[1] = q * d /\ Chain(s, R)
                 /\ x \in LapLines(n) /\ (x + 1 = n \/ x + 1 = (q + 1) * d)
  <2> DEFINE s == F[i]
             q == sh[i] - 1
             a == q * d
             e == Min({n, sh[i] * d})
             b == e - 1
             l == Len(s)
  <2>1. q \in Nat /\ q < G /\ sh[i] = q + 1 BY <1>2, <1>5
  <2>2. a \in Nat /\ a <= n - 1 BY <1>1, <1>2, <2>1
  <2>3. sh[i] * d = a + d
    <3>1. (q + 1) * d = q * d + d BY <1>1, <2>1
    <3> QED BY <2>1, <3>1
  <2>4. s = Span(a, b, 1) OBVIOUS
  <2> HIDE DEF F
  <2>5. (q + 1) * d = a + d BY <2>1, <2>3
  <2> HIDE DEF q
  <2>6. a = d * q /\ a % d = 0 /\ (a + d) % d = 0 /\ \A r \in 1..(d - 1) : (a + r) % d = r
    <3>1. a = d * q BY <2>1
    <3>2. (d * q) % d = 0 BY <1>1, <2>1, WholeTimes
    <3>3. (d * (q + 1)) % d = 0
      <4> DEFINE h == q + 1
      <4>1. h \in Nat BY <2>1
      <4> HIDE DEF h
      <4>2. (d * h) % d = 0 BY <1>1, <4>1, WholeTimes
      <4> QED BY <4>2 DEF h
    <3>4. d * (q + 1) = a + d BY <2>1, <2>5
    <3>5. ASSUME NEW r \in 1..(d - 1) PROVE (a + r) % d = r
      <4>1. r \in 0..(d - 1) BY <1>1
      <4> QED BY <1>1, <2>1, <4>1, SplitIs
    <3> QED BY <3>1, <3>2, <3>3, <3>4, <3>5
  <2> HIDE DEF a
  <2>7. e = IF n <= a + d THEN n ELSE a + d
    <3> DEFINE f == a + d
    <3>1. f \in Nat /\ e = Min({n, f}) BY <1>1, <2>2, <2>3
    <3> HIDE DEF f, e
    <3>2. Min({n, f}) = IF n <= f THEN n ELSE f
      <4> DEFINE m == IF n <= f THEN n ELSE f
      <4>1. m \in {n, f} /\ \A y \in {n, f} : m <= y BY <3>1
      <4>2. \A x \in {n, f} : (\A y \in {n, f} : x <= y) => x = m BY <3>1
      <4> HIDE DEF m
      <4>3. Min({n, f}) = m BY <4>1, <4>2 DEF Min
      <4> QED BY <4>3 DEF m
    <3> QED BY <3>1, <3>2 DEF f
  <2> HIDE DEF e
  <2>8. b \in Nat /\ a <= b /\ b < n /\ b < a + d /\ (b + 1 = n \/ b + 1 = a + d)
    BY <1>1, <2>2, <2>7
  <2> HIDE DEF b, l, s
  <2>9. /\ s \in Seq(Nat) /\ l \in Nat /\ l > 0 /\ s[1] = a
        /\ \A j \in 1..l : s[j] \in Nat /\ a <= s[j] /\ s[j] <= b
        /\ \A j \in 1..l : j < l => s[j + 1] = s[j] + 1
        /\ s[l] = b
    <3>1. /\ s \in Seq(Nat) /\ Len(s) > 0 /\ s[1] = a
          /\ \A j \in 1..Len(s) : a <= s[j] /\ s[j] <= b
          /\ \A j \in 1..Len(s) : j < Len(s) => s[j + 1] = s[j] + 1
          /\ s[Len(s)] + 1 > b
      <4>1. Counts(Span(a, b, 1), a, b) BY <2>2, <2>8, OneByOne
      <4>2. Counts(s, a, b) BY <2>4, <4>1
      <4> QED BY <4>2 DEF Counts
    <3>2. l \in Nat /\ l = Len(s) /\ \A j \in 1..l : s[j] \in Nat BY <3>1 DEF l
    <3>3. s[l] = b
      <4>1. l \in 1..l BY <3>1, <3>2
      <4>2. s[l] \in Nat /\ s[l] <= b /\ s[l] + 1 > b BY <3>1, <3>2, <4>1
      <4> QED BY <2>8, <4>2
    <3> QED BY <3>1, <3>2, <3>3
  <2>10. l = Len(s) BY DEF l
  <2>11. \A j \in 1..l : s[j] \in LapLines(n)
    <3> SUFFICES ASSUME NEW j \in 1..l PROVE s[j] \in LapLines(n) OBVIOUS
    <3>1. s[j] \in Nat /\ s[j] <= b BY <2>9
    <3> QED BY <2>8, <3>1 DEF LapLines
  <2>12. s \in Seq(LapLines(n))
    <3>1. s \in [1..l -> LapLines(n)] BY <2>9, <2>10, <2>11
    <3> QED BY <2>9, <3>1, SequenceOf
  <2>13. ASSUME NEW j \in 1..l, j < l PROVE <<s[j], s[j + 1]>> \in R
    <3> DEFINE x == s[j]
               r == x + 1 - a
    <3>1. j + 1 \in 1..l BY <2>9, <2>13
    <3>2. /\ x \in Nat /\ a <= x /\ s[j + 1] = x + 1 /\ s[j + 1] <= b
          /\ x \in LapLines(n) /\ s[j + 1] \in LapLines(n)
      BY <2>9, <2>11, <2>13, <3>1
    <3> HIDE DEF x
    <3>3. r \in 1..(d - 1) /\ a + r = x + 1 /\ x + 1 < n BY <1>1, <2>2, <2>8, <3>2
    <3>4. (x + 1) % d # 0
      <4> HIDE DEF r
      <4>1. (a + r) % d = r BY <2>6, <3>3
      <4> QED BY <3>3, <4>1
    <3>5. <<x, s[j + 1]>> \in R BY <1>8, <3>2, <3>3, <3>4
    <3> QED BY <3>5 DEF x
  <2>14. Chain(s, R) BY <2>10, <2>13 DEF Chain
  <2>15. b \in LapLines(n) BY <2>8 DEF LapLines
  <2> QED BY <2>5, <2>8, <2>9, <2>10, <2>12, <2>14, <2>15 DEF s, q, a
<1>10. F \in [1..G -> Seq(LapLines(n))]
  <2>1. \A i \in 1..G : F[i] \in Seq(LapLines(n)) BY <1>9
  <2>2. F = [i \in 1..G |-> F[i]] OBVIOUS
  <2> HIDE DEF F
  <2> QED BY <2>1, <2>2
<1> HIDE DEF F
\* where a segment may go on
<1>11. ASSUME NEW i \in 1..G, NEW c \in Nat, c < G, c + 1 # sh[i] + 1
       PROVE  <<F[i][Len(F[i])], c * d>> \in R
  <2> DEFINE x == F[i][Len(F[i])]
             q == sh[i] - 1
             y == c * d
  <2>1. q \in Nat /\ c # q + 1 BY <1>4, <1>5, <1>11
  <2>2. x \in LapLines(n) /\ (x + 1 = n \/ x + 1 = (q + 1) * d) BY <1>9
  <2>3. y \in Nat /\ y <= n - 1 BY <1>1, <1>2, <1>11
  <2>4. y % d = 0
    <3>1. (d * c) % d = 0 BY <1>1, WholeTimes
    <3>2. d * c = c * d BY <1>1
    <3> QED BY <3>1, <3>2
  <2> HIDE DEF x, q
  <2>5. y # (q + 1) * d
    <3> DEFINE h == q + 1
    <3>1. h \in Nat /\ (c < h \/ h < c) BY <2>1
    <3>2. y = d * c /\ h * d = d * h /\ d * c \in Nat /\ d * h \in Nat BY <1>1, <3>1
    <3> HIDE DEF h, y
    <3>3. c < h => d * c < d * h BY <1>1, <3>1, TimesMonotone
    <3>4. h < c => d * h < d * c BY <1>1, <3>1, TimesMonotone
    <3>5. y # h * d BY <3>1, <3>2, <3>3, <3>4
    <3> QED BY <3>5 DEF h
  <2>6. (q + 1) * d % d = 0
    <3> DEFINE h == q + 1
    <3>1. h \in Nat BY <2>1
    <3> HIDE DEF h
    <3>2. (d * h) % d = 0 /\ d * h = h * d BY <1>1, <3>1, WholeTimes
    <3>3. (h * d) % d = 0 BY <3>2
    <3> QED BY <3>3 DEF h
  <2>7. y \in LapLines(n) BY <2>3 DEF LapLines
  <2> HIDE DEF y
  <2>8. ~(x + 1 < n /\ (x + 1) % d # 0) /\ y # x + 1
    <3>1. CASE x + 1 = n BY <1>1, <2>3, <3>1
    <3>2. CASE x + 1 = (q + 1) * d BY <2>5, <2>6, <3>2
    <3> QED BY <2>2, <3>1, <3>2
  <2>9. <<x, y>> \in R BY <1>8, <2>2, <2>4, <2>7, <2>8
  <2> QED BY <2>9 DEF x, y
<1>12. Links(F, G, R)
  <2>1. ASSUME NEW i \in 1..G, i < G PROVE <<F[i][Len(F[i])], F[i + 1][1]>> \in R
    <3> DEFINE c == sh[i + 1] - 1
    <3>1. i + 1 \in 1..G BY <1>4, <2>1
    <3>2. c \in Nat /\ c < G /\ c + 1 # sh[i] + 1
      <4>1. sh[i + 1] \in 1..G /\ sh[i + 1] # sh[i] + 1 BY <1>5, <1>6, <2>1, <3>1
      <4> QED BY <1>4, <4>1
    <3>3. F[i + 1][1] = c * d BY <1>9, <3>1
    <3> HIDE DEF c
    <3> QED BY <1>11, <3>2, <3>3
  <2> QED BY <1>9, <2>1 DEF Links
<1>13. /\ Len(o) > 0 /\ Chain(o, R)
       /\ o[1] = F[1][1] /\ o[Len(o)] = F[G][Len(F[G])]
  BY <1>3, <1>4, <1>10, <1>12, FlattenChain
<1>14. o[1] = 0
  <2>1. 1 \in 1..G /\ (sh[1] - 1) * d = 0 BY <1>4, <1>6
  <2> QED BY <1>9, <1>13, <2>1
<1>15. <<o[Len(o)], 0>> \in R
  <2>1. G \in 1..G /\ 0 \in Nat /\ 0 < G /\ sh[G] \in 1..G BY <1>4, <1>5
  <2>2. 0 + 1 # sh[G] + 1 /\ 0 * d = 0 BY <2>1
  <2>3. <<F[G][Len(F[G])], 0 * d>> \in R BY <1>11, <2>1, <2>2
  <2> QED BY <1>13, <2>2, <2>3
<1> QED BY <1>13, <1>14, <1>15 DEF o, R

\* Only a line behind a line of the same segment is served at the share of stride
\* 1, when the next is in the segment, too.
LEMMA SegmentServed ==
    ASSUME machine \in Machines, NEW n \in Nat, NEW d \in Nat, d >= 2, 2 * d < n,
           NEW links, Laps(Rotated(SegmentOrder(n, d)), n, links), NEW x \in 0..(n - 1)
    PROVE  Served(links, x) = IF x + 2 < n /\ (x + 1) % d # 0 /\ (x + 2) % d # 0
                              THEN machine.share[1] ELSE 100
<1> DEFINE o == SegmentOrder(n, d)
           R == Segmented(n, d)
           Inside(y) == y + 1 < n /\ (y + 1) % d # 0
<1>1. /\ n \in Nat \ {0} /\ d \in Nat \ {0} /\ d \in 1..(n - 1)
      /\ 1 \in DOMAIN machine.share /\ \A s \in DOMAIN machine.share : s > 0 /\ s \in Nat
  BY MachineIs
<1>2. o \in Orders(n) BY <1>1, SegmentOrderIs
<1>3. o[1] = 0 /\ Chain(o, R) /\ <<o[Len(o)], 0>> \in R BY SegmentChain
<1>4. \A y \in 0..(n - 1) : <<y, links[y]>> \in R
  <2>1. Laps(Rotated(o), n, links) OBVIOUS
  <2> HIDE DEF o, R
  <2> QED BY <1>1, <1>2, <1>3, <2>1, LinksOf
<1>5. ASSUME NEW y \in 0..(n - 1)
      PROVE  /\ links[y] \in 0..(n - 1)
             /\ IF Inside(y) THEN links[y] = y + 1 ELSE links[y] % d = 0 /\ links[y] # y + 1
  BY <1>4 DEF Segmented, LapLines
<1> HIDE DEF o, R
<1> DEFINE z == links[x]
           y == links[z]
<1>6. z \in 0..(n - 1) /\ IF Inside(x) THEN z = x + 1 ELSE z % d = 0 /\ z # x + 1 BY <1>5
<1>7. y \in 0..(n - 1) /\ IF Inside(z) THEN y = z + 1 ELSE y % d = 0 /\ y # z + 1 BY <1>5, <1>6
<1>8. Served(links, x) = IF y - z = z - x /\ z - x \in DOMAIN machine.share
                         THEN machine.share[z - x] ELSE 100
  BY DEF Served
<1> HIDE DEF y, z
<1>9. CASE Inside(x) /\ Inside(z)
  <2>1. z = x + 1 /\ y = z + 1 /\ z - x = 1 /\ y - z = 1 BY <1>6, <1>7, <1>9
  <2>2. x + 2 < n /\ (x + 1) % d # 0 /\ (x + 2) % d # 0
    <3>1. z + 1 = x + 2 BY <2>1
    <3> QED BY <1>9, <3>1
  <2> QED BY <1>1, <1>8, <2>1, <2>2
<1>10. CASE Inside(x) /\ ~Inside(z)
  <2>1. z = x + 1 /\ y # z + 1 /\ z - x = 1 /\ y - z # 1 BY <1>6, <1>7, <1>10
  <2>2. ~(x + 2 < n /\ (x + 2) % d # 0)
    <3>1. z + 1 = x + 2 BY <2>1
    <3> QED BY <1>10, <3>1
  <2> QED BY <1>8, <2>1, <2>2
<1>11. CASE ~Inside(x)
  <2>1. z % d = 0 /\ z # x + 1 BY <1>6, <1>11
  <2>2. ~(y - z = z - x /\ z - x \in DOMAIN machine.share)
    <3>1. CASE z + 1 < n
      <4>1. (z + 1) % d # 0
        <5>1. z \in Nat BY <1>6
        <5>2. PICK q \in Nat : z = q * d + (z % d) BY <1>1, <5>1, Divided
        <5>3. z = q * d /\ 1 \in 0..(d - 1) BY <1>1, <2>1, <5>2
        <5>4. (q * d + 1) % d = 1 BY <1>1, <5>3, SplitIs
        <5> QED BY <5>3, <5>4
      <4>2. y = z + 1 BY <1>7, <3>1, <4>1
      <4> QED BY <1>6, <2>1, <4>2
    <3>2. CASE ~(z + 1 < n)
      <4>1. y - z <= 0 /\ y - z \in Int BY <1>6, <1>7, <3>2
      <4> QED BY <1>1, <4>1
    <3> QED BY <3>1, <3>2
  <2>3. ~(x + 2 < n /\ (x + 1) % d # 0) BY <1>11
  <2> QED BY <1>8, <2>2, <2>3
<1> QED BY <1>9, <1>10, <1>11

\* Every segment starts a stream anew, with two links at the full latency.
LEMMA SegmentTime ==
    ASSUME machine \in Machines, NEW n \in Nat, NEW d \in Nat, d >= 2, 2 * d < n,
           NEW links, Laps(Rotated(SegmentOrder(n, d)), n, links), NEW w \in Worksets
    PROVE  \E lost \in Nat :
               /\ 2 * n <= d * lost /\ d * lost <= 2 * n + 2 * d
               /\ ChaseTime(links, n, w) =
                      (100 * n - (100 - machine.share[1]) * (n - lost)) * machine.slow[w]
<1> DEFINE g == [x \in 0..(n - 1) |-> Served(links, x)]
           a == machine.share[1]
           m == n - 2
<1>1. PICK p, total : RunningSums(p, g, 0, n, total) /\ ChaseTime(links, n, w) = total * machine.slow[w]
  <2>1. n \in Nat \ {0} OBVIOUS
  <2> QED BY <2>1, LapTime
<1>2. a \in 1..100 /\ m \in Nat /\ d \in Nat \ {0} BY MachineIs
<1>3. ASSUME NEW x \in 0..(n - 1)
      PROVE  g[x] = IF x + 2 < n /\ (x + 1) % d # 0 /\ (x + 2) % d # 0 THEN a ELSE 100
  <2>1. Served(links, x) = IF x + 2 < n /\ (x + 1) % d # 0 /\ (x + 2) % d # 0 THEN a ELSE 100
    BY SegmentServed
  <2> QED BY <2>1
<1> HIDE DEF g
<1> DEFINE b == 100 - a
           SumAt(k, q, r, u) == /\ k = d * q + r /\ p[k] = 100 * k - b * u
                             /\ u = k - 2 * q - (IF r = d - 1 THEN 1 ELSE 0)
           T == {k \in 0..m : \E q \in Nat, r \in 0..(d - 1), u \in Int : SumAt(k, q, r, u)}
<1>4. b \in Nat /\ a = 100 - b BY <1>2
<1> HIDE DEF a, b, m
<1>5. 0 \in T
  <2>1. p[0] = 0 BY <1>1 DEF RunningSums
  <2>2. b * 0 = 0 /\ d * 0 = 0 BY <1>2, <1>4
  <2>3. SumAt(0, 0, 0, 0)
    <3>1. 0 # d - 1 BY <1>2
    <3>2. 0 = d * 0 + 0 /\ p[0] = 100 * 0 - b * 0 BY <2>1, <2>2
    <3>3. 0 = 0 - 2 * 0 - 0 OBVIOUS
    <3> QED BY <3>1, <3>2, <3>3
  <2>4. 0 \in 0..m /\ 0 \in 0..(d - 1) /\ 0 \in Nat /\ 0 \in Int BY <1>2
  <2> HIDE DEF SumAt
  <2> QED BY <2>3, <2>4
<1>6. ASSUME NEW k \in 0..m, k \in T, k < m PROVE k + 1 \in T
  <2>1. PICK q \in Nat, r \in 0..(d - 1), u \in Int : SumAt(k, q, r, u)
    <3> HIDE DEF SumAt
    <3> QED BY <1>6
  <2>2. p[k + 1] = p[k] + g[0 + k] /\ 0 + k = k /\ k \in 0..(n - 1) /\ k + 2 < n /\ k + 1 \in 0..m
    <3>1. k \in 0..(n - 1) /\ k + 2 < n /\ k + 1 \in 0..m BY <1>2, <1>6 DEF m
    <3> QED BY <1>1, <3>1 DEF RunningSums
  <2>3. p[k + 1] = p[k] + (IF (k + 1) % d # 0 /\ (k + 2) % d # 0 THEN a ELSE 100)
    BY <1>3, <2>2
  <2>4. /\ d * (q + 1) = d * q + d /\ d * q \in Nat
        /\ b * (u + 1) = b * u + b /\ b * u \in Int
    BY <1>2, <1>4
  <2>5. \A h \in 0..(d - 1) : (d * q + h) % d = h
    <3> TAKE h \in 0..(d - 1)
    <3> QED BY <1>2, SplitIs
  <2>6. k = d * q + r /\ p[k] = 100 * k - b * u BY <2>1
  <2>7. u = k - 2 * q - (IF r = d - 1 THEN 1 ELSE 0) BY <2>1
  \* neither is the next the last of its segment nor this
  <2>8. CASE r + 2 < d
    <3>1. r + 1 \in 0..(d - 1) /\ r + 2 \in 0..(d - 1) BY <1>2, <2>8
    <3>2. k + 1 = d * q + (r + 1) /\ k + 2 = d * q + (r + 2) BY <2>4, <2>6
    <3>3. (k + 1) % d = r + 1 /\ (k + 2) % d = r + 2 BY <2>5, <3>1, <3>2
    <3>4. p[k + 1] = p[k] + a BY <2>3, <3>1, <3>3
    <3>5. p[k + 1] = 100 * (k + 1) - b * (u + 1) BY <1>4, <2>4, <2>6, <3>4
    <3>6. u + 1 = (k + 1) - 2 * q - (IF r + 1 = d - 1 THEN 1 ELSE 0) BY <1>2, <2>7, <2>8
    <3>7. SumAt(k + 1, q, r + 1, u + 1) BY <3>2, <3>5, <3>6
    <3> HIDE DEF SumAt
    <3> QED BY <2>2, <3>1, <3>7
  <2>9. CASE r + 2 = d
    <3>1. k + 2 = d * (q + 1) /\ r + 1 \in 0..(d - 1) BY <1>2, <2>4, <2>6, <2>9
    <3>2. (k + 2) % d = 0
      <4> DEFINE h == q + 1
      <4>1. h \in Nat OBVIOUS
      <4> HIDE DEF h
      <4>2. (d * h) % d = 0 BY <1>2, <4>1, WholeTimes
      <4> QED BY <3>1, <4>2 DEF h
    <3>3. p[k + 1] = p[k] + 100 BY <2>3, <3>2
    <3>4. k + 1 = d * q + (r + 1) /\ p[k + 1] = 100 * (k + 1) - b * u BY <2>4, <2>6, <3>3
    <3>5. u = (k + 1) - 2 * q - (IF r + 1 = d - 1 THEN 1 ELSE 0) BY <1>2, <2>7, <2>9
    <3>6. SumAt(k + 1, q, r + 1, u) BY <3>4, <3>5
    <3> HIDE DEF SumAt
    <3> QED BY <2>2, <3>1, <3>6
  <2>10. CASE r + 1 = d
    <3>1. k + 1 = d * (q + 1) + 0 /\ k + 1 = d * (q + 1) BY <1>2, <2>4, <2>6, <2>10
    <3>2. (k + 1) % d = 0
      <4> DEFINE h == q + 1
      <4>1. h \in Nat OBVIOUS
      <4> HIDE DEF h
      <4>2. (d * h) % d = 0 BY <1>2, <4>1, WholeTimes
      <4> QED BY <3>1, <4>2 DEF h
    <3>3. p[k + 1] = p[k] + 100 BY <2>3, <3>2
    <3>4. p[k + 1] = 100 * (k + 1) - b * u BY <2>4, <2>6, <3>3
    <3>5. u = (k + 1) - 2 * (q + 1) - (IF 0 = d - 1 THEN 1 ELSE 0) BY <1>2, <2>7, <2>10
    <3>6. SumAt(k + 1, q + 1, 0, u) BY <3>1, <3>4, <3>5
    <3>7. q + 1 \in Nat /\ 0 \in 0..(d - 1) BY <1>2
    <3> HIDE DEF SumAt
    <3> QED BY <2>2, <3>6, <3>7
  <2> QED BY <1>2, <2>8, <2>9, <2>10
<1>7. PICK q \in Nat, r \in 0..(d - 1), u \in Int : SumAt(m, q, r, u)
  <2> HIDE DEF SumAt
  <2>1. 0..m \subseteq T
    <3> HIDE DEF T
    <3> QED BY <1>2, <1>5, <1>6, UpTo
  <2>2. m \in T BY <1>2, <2>1
  <2> QED BY <2>2
<1> DEFINE i == IF r = d - 1 THEN 1 ELSE 0
           lost == 2 * q + i + 2
<1>8. m = d * q + r /\ p[m] = 100 * m - b * u /\ u = m - 2 * q - i BY <1>7
<1>9. i \in {0, 1} /\ (i = 1 <=> r = d - 1) OBVIOUS
<1> HIDE DEF i
<1>10. n = m + 2 /\ m \in Nat BY <1>2 DEF m
<1>11. lost \in Nat /\ u = n - lost BY <1>8, <1>9, <1>10
<1>12. 2 * n <= d * lost /\ d * lost <= 2 * n + 2 * d
  <2>1. d * q \in Nat /\ d * (2 * q + 2) = 2 * (d * q) + 2 * d
        /\ d * (2 * q + 3) = 2 * (d * q) + 3 * d
    BY <1>2
  <2>2. CASE i = 0
    <3>1. lost = 2 * q + 2 BY <2>2
    <3>2. d * lost = 2 * (d * q) + 2 * d BY <2>1, <3>1
    <3>3. r \in Nat /\ r <= d - 2 BY <1>2, <1>9, <2>2
    <3> QED BY <1>2, <1>8, <1>10, <2>1, <3>2, <3>3
  <2>3. CASE i = 1
    <3>1. lost = 2 * q + 3 BY <2>3
    <3>2. d * lost = 2 * (d * q) + 3 * d BY <2>1, <3>1
    <3>3. r = d - 1 BY <1>9, <2>3
    <3> QED BY <1>2, <1>8, <1>10, <2>1, <3>2, <3>3
  <2> QED BY <1>9, <2>2, <2>3
<1>13. total = 100 * n - b * (n - lost)
  <2>1. b * u \in Int BY <1>4
  <2>2. g[m] = 100 /\ g[m + 1] = 100
    <3>1. m \in 0..(n - 1) /\ m + 1 \in 0..(n - 1) /\ ~(m + 2 < n) /\ ~((m + 1) + 2 < n)
      BY <1>10
    <3> QED BY <1>3, <3>1
  <2>3. p[m + 1] = p[m] + g[0 + m] /\ p[(m + 1) + 1] = p[m + 1] + g[0 + (m + 1)]
    <3>1. m \in 0..(n - 1) /\ m + 1 \in 0..(n - 1) BY <1>10
    <3> QED BY <1>1, <3>1 DEF RunningSums
  <2>4. 0 + m = m /\ 0 + (m + 1) = m + 1 /\ (m + 1) + 1 = n BY <1>10
  <2>5. p[m] \in Int /\ p[m] = 100 * m - b * u BY <1>8, <1>10, <2>1
  <2>6. p[n] = 100 * n - b * u BY <1>10, <2>1, <2>2, <2>3, <2>4, <2>5
  <2> QED BY <1>1, <1>11, <2>6 DEF RunningSums
<1> HIDE DEF lost
<1>14. ChaseTime(links, n, w) = (100 * n - b * (n - lost)) * machine.slow[w] BY <1>1, <1>13
<1> QED BY <1>11, <1>12, <1>14 DEF a, b

-----------------------------------------------------------------------------
(* The prefetch probe.                                                     *)

Measurements ==
    [kind : {"random"}, workset : Worksets, arg : {0}]
    \cup [kind : {"stride"}, workset : Worksets, arg : Range(Strides)]
    \cup [kind : {"segment"}, workset : {2}, arg : Range(Segments)]
    \cup [kind : {"distance"}, workset : DOMAIN Columns, arg : Range(Distances)]
    \cup {Task("rows", 0, 0)}

\* The ring last linked: as many lines as a working set has, a lap of them in the
\* buffer and in the side array.
Linked ==
    LET n == Len(order) IN
    /\ n > 0 /\ \E w \in Worksets : n = worksets[w]
    /\ order \in Orders(n)
    /\ nodes = Nodes(Rotated(order)) /\ Laps(Rotated(order), n, ring)

\* The buffer holds either working set, and nothing is linked before it is mapped.
PrefetchInvariant ==
    /\ machine \in Machines
    /\ worksets \in [Worksets -> Nat]
    /\ \A w \in Worksets : 0..(worksets[w] - 1) \subseteq DOMAIN ring
    /\ (todo = <<Task("worksets", 0, 0)>> /\ order = << >>) \/ todo \in Seq(Measurements)
    /\ order # << >> => Linked

LEMMA MaxOfTwo ==
    ASSUME NEW a \in Nat, NEW b \in Nat
    PROVE  Max({a, b}) \in Nat /\ Max({a, b}) >= a /\ Max({a, b}) >= b
<1> DEFINE S == {a, b}
           m == a + b
<1>1. m \in Nat /\ S \subseteq 0..m /\ S # {} /\ a \in S /\ b \in S /\ S \subseteq Nat OBVIOUS
<1> HIDE DEF S, m
<1>2. Max(S) \in S /\ \A y \in S : Max(S) >= y BY <1>1, MaxOfBounded
<1>3. Max(S) \in Nat /\ Max(S) >= a /\ Max(S) >= b BY <1>1, <1>2
<1> QED BY <1>3 DEF S

\* The sizes the loop of measure_prefetch_probe tries are sizes, and it stops before
\* they are below half of the minimum.
LEMMA HalvedIs ==
    ASSUME NEW W \in Nat \ {0}, NEW Q \in Nat, NEW M \in Nat \ {0}
    PROVE  LET halved[b \in 1..W] == IF b <= Q \/ b <= M THEN b ELSE halved[b \div 2]
           IN  halved[W] \in Nat /\ (M <= W => M <= 2 * halved[W])
<1> DEFINE Stops(b) == b <= Q \/ b <= M
           Fills(f, k) == f = [b \in 1..k |-> IF Stops(b) THEN b ELSE f[b \div 2]]
           T == {k \in 0..W : \E f : Fills(f, k)}
<1>1. ASSUME NEW b \in Nat \ {0}, ~Stops(b) PROVE b \div 2 \in 1..(b - 1) /\ M <= 2 * (b \div 2)
  <2> DEFINE h == b \div 2
             r == b % 2
  <2>1. b \in Nat /\ b >= 2 /\ b >= M + 1 BY <1>1
  <2>2. h \in Nat /\ r \in {0, 1} /\ b = 2 * h + r BY <2>1, HalfIs
  <2> HIDE DEF h, r
  <2>3. h \in 1..(b - 1) /\ M <= 2 * h BY <2>1, <2>2
  <2> QED BY <2>3 DEF h
<1> HIDE DEF Stops
<1>2. 0 \in T
  <2> DEFINE f == [b \in 1..0 |-> b]
  <2>1. \A b \in 1..0 : FALSE OBVIOUS
  <2>2. f = [b \in 1..0 |-> IF Stops(b) THEN b ELSE f[b \div 2]] BY <2>1
  <2> HIDE DEF f
  <2>3. \E h : Fills(h, 0) BY <2>2
  <2> HIDE DEF Fills
  <2> QED BY <2>3
<1>3. ASSUME NEW k \in 0..W, k \in T, k < W PROVE k + 1 \in T
  <2>1. PICK f : Fills(f, k) BY <1>3
  <2> DEFINE g == [b \in 1..(k + 1) |-> IF Stops(b) THEN b ELSE f[b \div 2]]
  <2>2. \A b \in 1..k : f[b] = IF Stops(b) THEN b ELSE f[b \div 2] BY <2>1
  <2>3. \A b \in 1..(k + 1) : g[b] = IF Stops(b) THEN b ELSE f[b \div 2] OBVIOUS
  <2>4. g = [b \in 1..(k + 1) |-> g[b]] OBVIOUS
  <2> HIDE DEF g
  <2>5. \A b \in 1..k : g[b] = f[b] BY <2>2, <2>3
  <2>6. ASSUME NEW b \in 1..(k + 1) PROVE g[b] = IF Stops(b) THEN b ELSE g[b \div 2]
    <3>1. CASE Stops(b) BY <2>3, <3>1
    <3>2. CASE ~Stops(b)
      <4>1. b \div 2 \in 1..(b - 1) BY <1>1, <3>2
      <4> DEFINE h == b \div 2
      <4>2. h \in 1..k BY <1>3, <4>1
      <4>3. g[b] = f[h] BY <2>3, <3>2
      <4>4. g[h] = f[h]
        <5> HIDE DEF h
        <5> QED BY <2>5, <4>2
      <4> QED BY <3>2, <4>3, <4>4
    <3> QED BY <3>1, <3>2
  <2>7. g = [b \in 1..(k + 1) |-> IF Stops(b) THEN b ELSE g[b \div 2]] BY <2>4, <2>6
  <2>8. \E h : Fills(h, k + 1) BY <2>7
  <2>9. k + 1 \in 0..W BY <1>3
  <2> HIDE DEF Fills
  <2> QED BY <2>8, <2>9
<1>4. \E f : Fills(f, W)
  <2>1. W \in Nat /\ \A k \in 0..W : k \in T /\ k < W => k + 1 \in T BY <1>3
  <2>2. 0 \in T BY <1>2
  <2> HIDE DEF T
  <2>3. 0..W \subseteq T BY <2>1, <2>2, UpTo
  <2>4. W \in T BY <2>1, <2>3
  <2> QED BY <2>4 DEF T
<1> DEFINE halved == CHOOSE f : f = [b \in 1..W |-> IF Stops(b) THEN b ELSE f[b \div 2]]
<1>5. halved = [b \in 1..W |-> IF Stops(b) THEN b ELSE halved[b \div 2]] BY <1>4
<1> HIDE DEF halved
<1>6. \A b \in 1..W : halved[b] = IF Stops(b) THEN b ELSE halved[b \div 2] BY <1>5
<1> DEFINE Sized(b) == halved[b] \in Nat /\ (M <= 2 * b => M <= 2 * halved[b])
           U == {k \in 0..W : \A b \in 1..k : Sized(b)}
<1>7. 0 \in U OBVIOUS
<1>8. ASSUME NEW k \in 0..W, k \in U, k < W PROVE k + 1 \in U
  <2>1. k + 1 \in 1..W /\ k + 1 \in Nat \ {0} /\ 1..(k + 1) = 1..k \cup {k + 1} BY <1>8
  <2>2. Sized(k + 1)
    <3> DEFINE b == k + 1
    <3>1. b \in 1..W /\ b \in Nat \ {0} /\ \A i \in 1..(b - 1) : Sized(i) BY <1>8, <2>1
    <3> HIDE DEF b
    <3>2. Stops(b) => Sized(b) BY <1>6, <3>1
    <3>3. ASSUME ~Stops(b) PROVE Sized(b)
      <4> DEFINE h == b \div 2
      <4>1. h \in 1..(b - 1) /\ M <= 2 * h BY <1>1, <3>1, <3>3
      <4>2. halved[b] = halved[h] BY <1>6, <3>1, <3>3
      <4> HIDE DEF h
      <4> QED BY <3>1, <4>1, <4>2
    <3> QED BY <3>2, <3>3 DEF b
  <2> QED BY <1>8, <2>1, <2>2
<1>9. W \in U
  <2>1. W \in Nat /\ \A k \in 0..W : k \in U /\ k < W => k + 1 \in U BY <1>8
  <2> HIDE DEF U
  <2>2. 0..W \subseteq U BY <1>7, <2>1, UpTo
  <2> QED BY <2>1, <2>2
<1>10. halved[W] \in Nat /\ (M <= W => M <= 2 * halved[W])
  <2>1. W \in 1..W /\ (M <= W => M <= 2 * W) OBVIOUS
  <2> QED BY <1>9, <2>1
<1> QED BY <1>10 DEF halved, Stops

LEMMA SizesAre ==
    ASSUME machine \in Machines
    PROVE  /\ L2Lines \in Nat /\ MemoryLines \in Nat
           /\ Max({L2Lines, MemoryLines}) \in Nat
           /\ L2Lines <= Max({L2Lines, MemoryLines}) /\ MemoryLines <= Max({L2Lines, MemoryLines})
<1>1. /\ machine.l1 \in Nat /\ machine.l2 \in Nat /\ machine.deepest \in Nat
      /\ machine.available \in Nat
  BY MachineAssumption
<1>2. PageLines \in Nat \ {0} /\ MinimumMemory \in Nat \ {0} BY GridsAssumption
<1>3. L2Lines \in Nat
  <2>1. CASE machine.l1 = 0 \/ machine.l2 <= machine.l1 BY <2>1 DEF L2Lines
  <2>2. CASE machine.l1 # 0 /\ machine.l2 > machine.l1
    <3> DEFINE S == {r \in machine.l1..machine.l2 : r * r <= machine.l1 * machine.l2}
               middle == Max(S)
               a == machine.l1
               b == machine.l2
    <3>1. S \subseteq 0..machine.l2 BY <1>1
    <3>2. machine.l1 \in S
      <4>1. a \in Nat /\ b \in Nat /\ a < b /\ a * a <= a * b BY <1>1, <2>2
      <4> QED BY <4>1
    <3>3. L2Lines = middle - (middle % PageLines)
      <4>1. ~(machine.l1 = 0 \/ machine.l2 <= machine.l1) BY <1>1, <2>2
      <4> QED BY <4>1 DEF L2Lines
    <3> HIDE DEF S
    <3>4. Max(S) \in S BY <1>1, <3>1, <3>2, MaxOfBounded
    <3>5. middle \in Nat
      <4>1. \A x \in 0..machine.l2 : x \in Nat OBVIOUS
      <4> QED BY <3>1, <3>4, <4>1
    <3> HIDE DEF middle
    <3> QED BY <1>2, <3>3, <3>5, ModBounds
  <2> QED BY <1>1, <2>1, <2>2
<1>4. Deepest \in Nat
  <2> DEFINE S == {machine.l1, machine.l2, machine.deepest}
             m == machine.l1 + machine.l2 + machine.deepest
  <2>1. m \in Nat /\ S \subseteq 0..m /\ S # {} BY <1>1
  <2> HIDE DEF S, m
  <2>2. Max(S) \in S BY <2>1, MaxOfBounded
  <2>3. \A x \in 0..m : x \in Nat OBVIOUS
  <2>4. Max(S) \in Nat BY <2>1, <2>2, <2>3
  <2> QED BY <2>4 DEF Deepest, S
<1>5. Wanted \in Nat \ {0}
  <2> DEFINE four == 4 * Deepest
  <2>1. four \in Nat BY <1>4
  <2>2. Wanted = Max({MinimumMemory, four}) BY DEF Wanted
  <2> HIDE DEF four
  <2> QED BY <1>2, <2>1, <2>2, MaxOfTwo
<1>6. Quarter \in Nat BY <1>1 DEF Quarter
<1>7. HalvedMemory \in Nat
  <2>1. LET halved[b \in 1..Wanted] ==
                IF b <= Quarter \/ b <= MinimumMemory THEN b ELSE halved[b \div 2]
        IN  halved[Wanted] \in Nat
    BY <1>2, <1>5, <1>6, HalvedIs
  <2> QED BY <1>5, <2>1 DEF HalvedMemory
<1>8. MemoryLines \in Nat BY <1>7 DEF MemoryLines
<1> QED BY <1>3, <1>8, MaxOfTwo

LEMMA SizesFit ==
    ASSUME machine \in Machines
    PROVE  /\ L2Lines = 0 \/ L2Lines >= 4 * PageLines
           /\ MemoryLines = 0 \/ 2 * MemoryLines >= MinimumMemory
<1>1. /\ machine.l1 \in Nat /\ machine.l2 \in Nat /\ machine.deepest \in Nat
      /\ machine.available \in Nat /\ machine.l1 % PageLines = 0
      /\ machine.l1 > 0 /\ machine.l2 > 0 => machine.l1 >= 4 * PageLines
  BY MachineAssumption
<1>2. PageLines \in Nat \ {0} /\ MinimumMemory \in Nat \ {0} BY GridsAssumption
<1>3. L2Lines = 0 \/ L2Lines >= 4 * PageLines
  <2> SUFFICES ASSUME machine.l1 # 0, machine.l2 > machine.l1 PROVE L2Lines >= 4 * PageLines
    BY <1>1 DEF L2Lines
  <2> DEFINE S == {r \in machine.l1..machine.l2 : r * r <= machine.l1 * machine.l2}
             middle == Max(S)
             a == machine.l1
             b == machine.l2
  <2>1. S \subseteq 0..machine.l2 BY <1>1
  <2>2. a \in S
    <3>1. a \in Nat /\ b \in Nat /\ a < b /\ a * a <= a * b BY <1>1
    <3> QED BY <3>1
  <2>3. L2Lines = middle - (middle % PageLines)
    <3>1. ~(machine.l1 = 0 \/ machine.l2 <= machine.l1) BY <1>1
    <3> QED BY <3>1 DEF L2Lines
  <2> HIDE DEF S
  <2>4. Max(S) \in S /\ Max(S) >= a BY <1>1, <2>1, <2>2, MaxOfBounded
  <2>5. middle \in Nat
    <3>1. \A x \in 0..machine.l2 : x \in Nat OBVIOUS
    <3> QED BY <2>1, <2>4, <3>1
  <2> HIDE DEF middle
  <2>6. a \in Nat /\ a % PageLines = 0 /\ a >= 4 * PageLines /\ a <= middle
    BY <1>1, <2>4 DEF middle
  <2> HIDE DEF a
  <2> DEFINE n == PageLines
  <2>7. middle - (middle % n) >= a
    <3>1. PICK q \in Nat : middle = q * n + (middle % n) BY <1>2, <2>5, Divided
    <3>2. PICK p \in Nat : a = p * n + (a % n) BY <1>2, <2>6, Divided
    <3>3. middle % n \in 0..(n - 1) BY <1>2, <2>5, ModBounds
    <3> DEFINE r == middle % n
    <3>4. /\ n \in Nat \ {0} /\ r \in 0..(n - 1) /\ a = p * n /\ middle = q * n + r
          /\ middle - (middle % n) = q * n /\ q * n \in Nat
      BY <1>2, <2>5, <2>6, <3>1, <3>2, <3>3
    <3> HIDE DEF r, n
    <3>5. p <= q
      <4>1. q < p => FALSE
        <5>1. q < p => (q + 1) * n <= p * n
          <6> DEFINE h == q + 1
          <6>1. h \in Nat OBVIOUS
          <6>2. n * h = h * n /\ n * p = p * n BY <3>4, <6>1
          <6>3. q < p => h <= p OBVIOUS
          <6> HIDE DEF h
          <6>4. h <= p => n * h <= n * p BY <3>4, <6>1, TimesMonotone
          <6> QED BY <6>2, <6>3, <6>4 DEF h
        <5>2. (q + 1) * n = q * n + n BY <3>4
        <5> QED BY <2>6, <3>4, <5>1, <5>2
      <4> QED BY <4>1
    <3>6. p <= q => n * p <= n * q BY <3>4, TimesMonotone
    <3> QED BY <3>4, <3>5, <3>6
  <2> DEFINE m == middle - (middle % n)
  <2>8. m \in Nat /\ m = L2Lines /\ m >= a BY <1>2, <2>3, <2>5, <2>7, ModBounds
  <2> HIDE DEF m, n
  <2> QED BY <1>2, <2>6, <2>8
<1>4. Deepest \in Nat
  <2> DEFINE S == {machine.l1, machine.l2, machine.deepest}
             m == machine.l1 + machine.l2 + machine.deepest
  <2>1. m \in Nat /\ S \subseteq 0..m /\ S # {} BY <1>1
  <2> HIDE DEF S, m
  <2>2. Max(S) \in S BY <2>1, MaxOfBounded
  <2>3. \A x \in 0..m : x \in Nat OBVIOUS
  <2>4. Max(S) \in Nat BY <2>1, <2>2, <2>3
  <2> QED BY <2>4 DEF Deepest, S
<1>5. Wanted \in Nat \ {0} /\ MinimumMemory <= Wanted
  <2> DEFINE four == 4 * Deepest
  <2>1. four \in Nat BY <1>4
  <2>2. Wanted = Max({MinimumMemory, four}) BY DEF Wanted
  <2> HIDE DEF four
  <2> QED BY <1>2, <2>1, <2>2, MaxOfTwo
<1>6. HalvedMemory \in Nat /\ MinimumMemory <= 2 * HalvedMemory
  <2>1. Quarter \in Nat BY <1>1 DEF Quarter
  <2>2. LET halved[b \in 1..Wanted] ==
                IF b <= Quarter \/ b <= MinimumMemory THEN b ELSE halved[b \div 2]
        IN  halved[Wanted] \in Nat
            /\ (MinimumMemory <= Wanted => MinimumMemory <= 2 * halved[Wanted])
    BY <1>2, <1>5, <2>1, HalvedIs
  <2> QED BY <1>2, <1>5, <2>2 DEF HalvedMemory
<1>7. MemoryLines = 0 \/ MemoryLines = HalvedMemory BY DEF MemoryLines
<1> QED BY <1>2, <1>3, <1>6, <1>7

LEMMA FlattenTyped ==
    ASSUME NEW S, NEW K \in Nat, NEW F \in [1..K -> Seq(S)]
    PROVE  FlattenSeq(F) \in Seq(S)
<1>1. CASE K # 0 BY <1>1, FlattenType
<1>2. CASE K = 0
  <2> DEFINE R == Seq(S)
  <2>1. F \in [1..K -> R] OBVIOUS
  <2> HIDE DEF R
  <2>2. Len(F) = 0 BY <1>2, <2>1, SequenceOf
  <2>3. FlattenSeq(F) = F BY <2>2 DEF FlattenSeq
  <2>4. F \in [1..K -> S]
    <3>1. \A i \in 1..K : FALSE BY <1>2
    <3> QED BY <2>1, <3>1
  <2>5. F \in Seq(S) BY <2>4, SequenceOf
  <2> QED BY <2>3, <2>5
<1> QED BY <1>1, <1>2

\* What a part has the whole has.
LEMMA FlattenValues ==
    ASSUME NEW S, NEW K \in Nat, NEW F \in [1..K -> Seq(S)], NEW j \in 1..K
    PROVE  Values(F[j]) \subseteq Values(FlattenSeq(F))
<1>0. K \in Nat \ {0} /\ F \in [1..K -> Seq(S)] OBVIOUS
<1>1. PICK f : FlattenSeq(F) = f[K] /\ Grows(f, F, K) BY <1>0, FlattenIs
<1> DEFINE T == {i \in 0..K : i = 0 \/ /\ f[i] \in Seq(S)
                                       /\ j <= i => Values(F[j]) \subseteq Values(f[i])}
<1>2. 0 \in T OBVIOUS
<1>3. ASSUME NEW k \in 0..K, k \in T, k < K PROVE k + 1 \in T
  <2>0. k + 1 \in 1..K /\ F[k + 1] \in Seq(S) BY <1>3
  <2>1. CASE k = 0
    <3>1. f[1] = F[1] BY <1>0, <1>1 DEF Grows
    <3>2. j <= 1 => j = 1 OBVIOUS
    <3> QED BY <1>0, <2>0, <2>1, <3>1, <3>2
  <2>2. CASE k # 0
    <3> DEFINE s == f[k]
               t == F[k + 1]
    <3>1. k + 1 > 1 /\ (k + 1) - 1 = k BY <1>3, <2>2
    <3>2. f[k + 1] = s \o t BY <1>1, <2>0, <3>1 DEF Grows
    <3>3. s \in Seq(S) /\ t \in Seq(S) /\ (j <= k => Values(F[j]) \subseteq Values(s))
      BY <1>3, <2>0, <2>2
    <3>4. j = k + 1 => F[j] = t OBVIOUS
    <3>5. j <= k + 1 => j <= k \/ j = k + 1 BY <1>3
    <3> HIDE DEF s, t
    <3>6. s \o t \in Seq(S) /\ Values(s) \subseteq Values(s \o t) /\ Values(t) \subseteq Values(s \o t)
      BY <3>3, ConcatValues
    <3>7. f[k + 1] \in Seq(S) BY <3>2, <3>6
    <3>8. j <= k + 1 => Values(F[j]) \subseteq Values(f[k + 1]) BY <3>2, <3>3, <3>4, <3>5, <3>6
    <3>9. k + 1 \in 0..K BY <1>3
    <3> QED BY <3>7, <3>8, <3>9
  <2> QED BY <2>1, <2>2
<1>4. K \in T
  <2>1. K \in Nat OBVIOUS
  <2> HIDE DEF T
  <2>2. 0..K \subseteq T BY <1>2, <1>3, <2>1, UpTo
  <2> QED BY <2>1, <2>2
<1> QED BY <1>0, <1>1, <1>4

\* What a measurement may ask for.
LEMMA ArgumentsAre ==
    ASSUME NEW t \in Measurements
    PROVE  /\ t.kind \in {"random", "stride", "segment", "distance", "rows"}
           /\ t.kind \in {"random", "stride", "segment"} => t.workset \in Worksets
           /\ t.kind \in {"stride", "segment"} => t.arg \in Nat \ {0}
           /\ t.kind = "stride" => t.arg \in Range(Strides)
           /\ t.kind = "segment" => t.workset = 2 /\ t.arg \in Range(Segments)
           /\ t.kind = "distance" => t.workset \in DOMAIN Columns /\ t.arg \in Range(Distances)
           /\ t.kind # "worksets" /\ t = Task(t.kind, t.workset, t.arg)
<1>1. Range(Strides) \subseteq Nat \ {0} /\ Range(Segments) \subseteq Nat \ {0}
  <2>1. Strides \in Seq(Nat \ {0}) /\ Segments \in Seq(Nat \ {0}) BY GridsAssumption
  <2> QED BY <2>1 DEF Range
<1> DEFINE R == Range(Strides)
           S == Range(Segments)
           D == Range(Distances)
<1> HIDE DEF R, S, D
<1>2. \/ t \in [kind : {"random"}, workset : Worksets, arg : {0}]
      \/ t \in [kind : {"stride"}, workset : Worksets, arg : R]
      \/ t \in [kind : {"segment"}, workset : {2}, arg : S]
      \/ t \in [kind : {"distance"}, workset : DOMAIN Columns, arg : D]
      \/ t = [kind |-> "rows", workset |-> 0, arg |-> 0]
  BY DEF Measurements, Task, R, S, D
<1>3. t = Task(t.kind, t.workset, t.arg) BY <1>2 DEF Task
<1>4. 2 \in Worksets BY DEF Worksets
<1> QED BY <1>1, <1>2, <1>3, <1>4 DEF R, S, D

Others == {t \in Measurements : t.kind \notin {"random", "rows"}}

\* The latencies that the others are compared to are measured first.
LEMMA TasksSplit ==
    \E rest \in Seq(Others) :
        /\ Tasks = <<Task("random", 1, 0), Task("random", 2, 0)>> \o rest
        /\ Others \subseteq Values(rest)
<1> DEFINE random == <<Task("random", 1, 0), Task("random", 2, 0)>>
           pair(k) == <<Task("stride", 1, Strides[k]), Task("stride", 2, Strides[k])>>
           P == [k \in DOMAIN Strides |-> pair(k)]
           segments == [k \in DOMAIN Segments |-> Task("segment", 2, Segments[k])]
           column(c) == [k \in DOMAIN Distances |-> Task("distance", c, Distances[k])]
           C == [c \in DOMAIN Columns |-> column(c)]
<1>1. /\ \A w \in Worksets, a \in Range(Strides) : Task("stride", w, a) \in Others
      /\ \A a \in Range(Segments) : Task("segment", 2, a) \in Others
      /\ \A c \in DOMAIN Columns, a \in Range(Distances) : Task("distance", c, a) \in Others
      /\ \A w \in Worksets : Task("random", w, 0) \in Measurements
  BY DEF Measurements, Task, Others
<1>2. Worksets = {1, 2} /\ DOMAIN Columns = 1..3 BY DEF Worksets, Columns
<1>3. Strides \in Seq(Nat \ {0}) /\ Segments \in Seq(Nat \ {0}) /\ Distances \in Seq(Nat)
  BY GridsAssumption
<1>4. Tasks = random \o FlattenSeq(P) \o segments \o FlattenSeq(C) BY DEF Tasks
<1>5. ASSUME NEW t \in Others
      PROVE  \/ \E w \in Worksets, a \in Range(Strides) : t = Task("stride", w, a)
             \/ \E a \in Range(Segments) : t = Task("segment", 2, a)
             \/ \E c \in DOMAIN Columns, a \in Range(Distances) : t = Task("distance", c, a)
  <2> DEFINE k == t.kind
             w == t.workset
             a == t.arg
  <2>1. t \in Measurements /\ k \notin {"random", "rows"} BY DEF Others
  <2>2. /\ k \in {"random", "stride", "segment", "distance", "rows"}
        /\ k \in {"random", "stride", "segment"} => w \in Worksets
        /\ k = "stride" => a \in Range(Strides)
        /\ k = "segment" => w = 2 /\ a \in Range(Segments)
        /\ k = "distance" => w \in DOMAIN Columns /\ a \in Range(Distances)
        /\ t = Task(k, w, a)
    BY <2>1, ArgumentsAre
  <2> HIDE DEF k, w, a
  <2> QED BY <2>1, <2>2
<1> HIDE DEF Others
<1>6. /\ FlattenSeq(P) \in Seq(Others)
      /\ \A w \in Worksets, a \in Range(Strides) : Task("stride", w, a) \in Values(FlattenSeq(P))
  <2> DEFINE K == Len(Strides)
  <2>1. K \in Nat /\ DOMAIN Strides = 1..K /\ \A k \in 1..K : Strides[k] \in Range(Strides)
    BY <1>3 DEF Range
  <2> HIDE DEF K
  <2>2. \A k \in 1..K : /\ pair(k) \in Seq(Others) /\ Task("stride", 1, Strides[k]) \in Others
                        /\ Task("stride", 2, Strides[k]) \in Others
    BY <1>1, <1>2, <2>1
  <2>3. P = [k \in 1..K |-> pair(k)] BY <2>1
  <2>4. \A k \in 1..K : /\ Task("stride", 1, Strides[k]) \in Values(pair(k))
                        /\ Task("stride", 2, Strides[k]) \in Values(pair(k))
    <3> SUFFICES ASSUME NEW k \in 1..K
                 PROVE  /\ Task("stride", 1, Strides[k]) \in Values(pair(k))
                        /\ Task("stride", 2, Strides[k]) \in Values(pair(k))
      OBVIOUS
    <3>1. /\ 1 \in 1..Len(pair(k)) /\ pair(k)[1] = Task("stride", 1, Strides[k])
          /\ 2 \in 1..Len(pair(k)) /\ pair(k)[2] = Task("stride", 2, Strides[k])
      OBVIOUS
    <3> HIDE DEF pair
    <3> QED BY <3>1 DEF Values
  <2> HIDE DEF P, pair
  <2>5. P \in [1..K -> Seq(Others)] /\ \A k \in 1..K : P[k] = pair(k) BY <2>2, <2>3
  <2>6. FlattenSeq(P) \in Seq(Others) BY <2>1, <2>5, FlattenTyped
  <2>7. ASSUME NEW w \in Worksets, NEW a \in Range(Strides)
        PROVE  Task("stride", w, a) \in Values(FlattenSeq(P))
    <3>1. PICK k \in 1..K : a = Strides[k] BY <2>1 DEF Range
    <3>2. Values(P[k]) \subseteq Values(FlattenSeq(P)) BY <2>1, <2>5, FlattenValues
    <3>3. Task("stride", w, a) \in Values(P[k]) BY <1>2, <2>4, <2>5, <3>1
    <3> QED BY <3>2, <3>3
  <2> QED BY <2>6, <2>7
<1>7. /\ segments \in Seq(Others)
      /\ \A a \in Range(Segments) : Task("segment", 2, a) \in Values(segments)
  <2> DEFINE K == Len(Segments)
  <2>1. K \in Nat /\ DOMAIN Segments = 1..K /\ \A k \in 1..K : Segments[k] \in Range(Segments)
    BY <1>3 DEF Range
  <2> HIDE DEF K
  <2>2. segments \in [1..K -> Others] BY <1>1, <2>1
  <2>3. segments \in Seq(Others) /\ Len(segments) = K BY <2>1, <2>2, SequenceOf
  <2>4. ASSUME NEW a \in Range(Segments) PROVE Task("segment", 2, a) \in Values(segments)
    <3>1. PICK k \in 1..K : a = Segments[k] BY <2>1 DEF Range
    <3>2. segments[k] = Task("segment", 2, a) BY <2>1, <3>1
    <3> HIDE DEF segments
    <3> QED BY <2>3, <3>2 DEF Values
  <2> QED BY <2>3, <2>4
<1>8. /\ FlattenSeq(C) \in Seq(Others)
      /\ \A c \in DOMAIN Columns, a \in Range(Distances) :
             Task("distance", c, a) \in Values(FlattenSeq(C))
  <2> DEFINE K == Len(Distances)
  <2>1. K \in Nat /\ DOMAIN Distances = 1..K /\ \A k \in 1..K : Distances[k] \in Range(Distances)
    BY <1>3 DEF Range
  <2> HIDE DEF K
  <2>2. ASSUME NEW c \in 1..3
        PROVE  /\ column(c) \in Seq(Others)
               /\ \A a \in Range(Distances) : Task("distance", c, a) \in Values(column(c))
    <3> DEFINE D == column(c)
    <3>1. D \in [1..K -> Others] BY <1>1, <1>2, <2>1
    <3>2. \A k \in 1..K : D[k] = Task("distance", c, Distances[k]) BY <2>1
    <3> HIDE DEF D
    <3>3. D \in Seq(Others) /\ Len(D) = K BY <2>1, <3>1, SequenceOf
    <3>4. ASSUME NEW a \in Range(Distances) PROVE Task("distance", c, a) \in Values(D)
      <4>1. PICK k \in 1..K : a = Distances[k] BY <2>1 DEF Range
      <4>2. D[k] = Task("distance", c, a) BY <3>2, <4>1
      <4> QED BY <3>3, <4>2 DEF Values
    <3> QED BY <3>3, <3>4 DEF D
  <2>3. C = [c \in 1..3 |-> column(c)] BY <1>2
  <2> HIDE DEF C, column
  <2> DEFINE three == 3
  <2>4. three \in Nat /\ C \in [1..three -> Seq(Others)] /\ \A c \in 1..three : C[c] = column(c)
    BY <2>2, <2>3
  <2>5. 1..3 = 1..three OBVIOUS
  <2> HIDE DEF three
  <2>6. FlattenSeq(C) \in Seq(Others) BY <2>4, FlattenTyped
  <2>7. ASSUME NEW c \in DOMAIN Columns, NEW a \in Range(Distances)
        PROVE  Task("distance", c, a) \in Values(FlattenSeq(C))
    <3>1. c \in 1..three BY <1>2, <2>5
    <3>2. Values(C[c]) \subseteq Values(FlattenSeq(C)) BY <2>4, <3>1, FlattenValues
    <3>3. Task("distance", c, a) \in Values(C[c]) BY <2>2, <2>4, <2>5, <3>1
    <3> QED BY <3>2, <3>3
  <2> QED BY <2>6, <2>7
<1> DEFINE strides == FlattenSeq(P)
           distances == FlattenSeq(C)
           rest == strides \o segments \o distances
<1>9. strides \in Seq(Others) /\ distances \in Seq(Others) BY <1>6, <1>8
<1>10. Tasks = random \o strides \o segments \o distances BY <1>4
<1>11. random \in Seq(Measurements) BY <1>1, <1>2
<1>12. /\ \A w \in Worksets, a \in Range(Strides) : Task("stride", w, a) \in Values(strides)
       /\ \A a \in Range(Segments) : Task("segment", 2, a) \in Values(segments)
       /\ \A c \in DOMAIN Columns, a \in Range(Distances) :
              Task("distance", c, a) \in Values(distances)
  BY <1>6, <1>7, <1>8
<1>13. segments \in Seq(Others) BY <1>7
<1>20. Others \subseteq Measurements BY DEF Others
<1> HIDE DEF random, strides, segments, distances, P, C
<1>14. /\ strides \o segments \in Seq(Others) /\ rest \in Seq(Others)
       /\ Values(rest) = Values(strides) \cup Values(segments) \cup Values(distances)
  <2> DEFINE two == strides \o segments
  <2>1. two \in Seq(Others) /\ Values(two) = Values(strides) \cup Values(segments)
    BY <1>9, <1>13, ConcatValues
  <2>2. rest = two \o distances OBVIOUS
  <2> HIDE DEF two, rest
  <2>3. two \o distances \in Seq(Others)
        /\ Values(two \o distances) = Values(two) \cup Values(distances)
    BY <1>9, <2>1, ConcatValues
  <2> QED BY <2>1, <2>2, <2>3 DEF two
<1>15. Others \subseteq Values(rest)
  <2> SUFFICES ASSUME NEW t \in Others PROVE t \in Values(rest) OBVIOUS
  <2> HIDE DEF rest
  <2> QED BY <1>5, <1>12, <1>14
<1>16. Tasks = random \o rest
  <2> DEFINE M == Measurements
  <2>1. strides \in Seq(M) /\ segments \in Seq(M) /\ distances \in Seq(M) /\ random \in Seq(M)
    <3>1. \A s \in Seq(Others) : s \in Seq(Measurements)
      <4> HIDE DEF Others
      <4> QED BY <1>20
    <3> QED BY <1>9, <1>11, <1>13, <3>1
  <2> HIDE DEF M
  <2>2. (random \o strides) \o segments = random \o (strides \o segments)
    BY <2>1, ConcatAssociative
  <2> DEFINE two == strides \o segments
  <2>3. two \in Seq(M) BY <2>1, ConcatProperties
  <2> HIDE DEF two
  <2>4. (random \o two) \o distances = random \o (two \o distances) BY <2>1, <2>3, ConcatAssociative
  <2> QED BY <1>10, <2>2, <2>4 DEF two
<1> HIDE DEF rest
<1> QED BY <1>14, <1>15, <1>16 DEF random

LEMMA TasksAre == Tasks \in Seq(Measurements) /\ Task("rows", 0, 0) \in Measurements
<1>1. PICK rest \in Seq(Others) :
          Tasks = <<Task("random", 1, 0), Task("random", 2, 0)>> \o rest
  BY TasksSplit
<1>2. /\ Task("random", 1, 0) \in Measurements /\ Task("random", 2, 0) \in Measurements
      /\ Task("rows", 0, 0) \in Measurements
  BY DEF Measurements, Task, Worksets
<1>3. \A s \in Seq(Others) : s \in Seq(Measurements)
  <2>1. Others \subseteq Measurements BY DEF Others
  <2> HIDE DEF Others, Measurements
  <2> QED BY <2>1
<1> HIDE DEF Measurements, Others
<1>4. <<Task("random", 1, 0), Task("random", 2, 0)>> \in Seq(Measurements) BY <1>2
<1> QED BY <1>1, <1>2, <1>3, <1>4, ConcatProperties

LEMMA HeadIs ==
    ASSUME PrefetchInvariant, todo # << >>, Head(todo).kind # "worksets"
    PROVE  Head(todo) \in Measurements /\ Tail(todo) \in Seq(Measurements)
<1>1. todo # <<Task("worksets", 0, 0)>> BY DEF Task
<1>2. todo \in Seq(Measurements) BY <1>1 DEF PrefetchInvariant
<1> HIDE DEF Measurements
<1> QED BY <1>2, HeadTailProperties

LEMMA LinkKeeps ==
    ASSUME PrefetchInvariant, NEW w \in Worksets, worksets[w] > 0,
           NEW seq \in Orders(worksets[w]), LinkRing(seq), UNCHANGED <<machine, worksets>>,
           todo' \in Seq(Measurements)
    PROVE  PrefetchInvariant'
<1> DEFINE n == worksets[w]
<1>1. n \in Nat \ {0} /\ 0..(n - 1) \subseteq DOMAIN ring BY DEF PrefetchInvariant
<1>2. /\ order' = seq /\ DOMAIN ring' = DOMAIN ring
      /\ nodes' = Nodes(Rotated(seq)) /\ Laps(Rotated(seq), n, ring')
  <2> HIDE DEF n
  <2>1. seq \in Orders(n) BY DEF n
  <2> QED BY <1>1, <2>1, LinkIs
<1>3. Len(seq) = n BY DEF Orders
<1>4. Linked'
  <2>1. n > 0 /\ \E v \in Worksets : n = worksets'[v] BY <1>1
  <2>2. Len(order') = n /\ order' \in Orders(n) BY <1>2, <1>3
  <2> QED BY <1>2, <2>1, <2>2 DEF Linked
<1> QED BY <1>2, <1>4 DEF PrefetchInvariant

\* The buffer is as large as the working sets, and whatever was linked last is a lap.
THEOREM PrefetchInvariantHolds == PrefetchSpec => []PrefetchInvariant
<1>1. PrefetchInit => PrefetchInvariant
  <2> SUFFICES ASSUME PrefetchInit PROVE PrefetchInvariant OBVIOUS
  <2>1. worksets = [w \in Worksets |-> 0] BY DEF PrefetchInit
  <2>2. \A w \in Worksets : 0..(worksets[w] - 1) = {} BY <2>1
  <2> QED BY <2>1, <2>2 DEF PrefetchInit, PrefetchInvariant
<1>2. PrefetchInvariant /\ [PrefetchNext]_prefetchVars => PrefetchInvariant'
  <2> SUFFICES ASSUME PrefetchInvariant, [PrefetchNext]_prefetchVars PROVE PrefetchInvariant'
    OBVIOUS
  <2>1. ASSUME NEW why, Unmeasured(why) PROVE PrefetchInvariant'
    <3>1. todo' = << >> /\ << >> \in Seq(Measurements) BY <2>1 DEF Unmeasured
    <3>2. UNCHANGED <<machine, worksets, ring, nodes, order>> BY <2>1 DEF Unmeasured
    <3> QED BY <3>1, <3>2 DEF PrefetchInvariant, Linked
  <2>2. CASE NoLevels BY <2>1, <2>2 DEF NoLevels
  <2>3. CASE NothingMapped BY <2>1, <2>3 DEF NothingMapped
  <2>4. CASE SizeWorksets
    <3>1. todo = <<Task("worksets", 0, 0)>> /\ order = << >>
      <4> SUFFICES ASSUME todo \in Seq(Measurements) PROVE FALSE BY DEF PrefetchInvariant
      <4>1. todo # << >> /\ Head(todo).kind = "worksets" BY <2>4 DEF SizeWorksets, Doing
      <4>2. Head(todo) \in Measurements
        <5> HIDE DEF Measurements
        <5> QED BY <4>1, HeadTailProperties
      <4> QED BY <4>1, <4>2, ArgumentsAre
    <3>2. machine \in Machines BY DEF PrefetchInvariant
    <3> DEFINE all == Max({L2Lines, MemoryLines})
    <3>3. /\ worksets' = <<L2Lines, MemoryLines>> /\ DOMAIN ring' = 0..(all - 1)
          /\ todo' = Append(Tasks, Task("rows", 0, 0)) /\ UNCHANGED <<machine, order>>
      BY <2>4 DEF SizeWorksets
    <3>4. /\ L2Lines \in Nat /\ MemoryLines \in Nat /\ all \in Nat
          /\ L2Lines <= all /\ MemoryLines <= all
      BY <3>2, SizesAre
    <3> HIDE DEF all
    <3>5. worksets' \in [Worksets -> Nat] BY <3>3, <3>4 DEF Worksets
    <3>6. \A w \in Worksets : 0..(worksets'[w] - 1) \subseteq DOMAIN ring'
      <4>1. \A w \in Worksets : worksets'[w] \in Nat /\ worksets'[w] <= all
        BY <3>3, <3>4 DEF Worksets
      <4> QED BY <3>3, <3>4, <4>1
    <3>7. todo' \in Seq(Measurements) BY <3>3, TasksAre, AppendProperties
    <3> QED BY <3>1, <3>2, <3>3, <3>5, <3>6, <3>7 DEF PrefetchInvariant
  <2>5. CASE PassOver
    <3>1. todo' \in Seq(Measurements) BY <2>5, HeadIs DEF PassOver
    <3>2. UNCHANGED <<machine, worksets, ring, nodes, order>> BY <2>5 DEF PassOver
    <3> QED BY <3>1, <3>2 DEF PrefetchInvariant, Linked
  <2> DEFINE t == Head(todo)
  <2>6. ASSUME NEW kind \in {"random", "stride", "segment", "distance"}, Measuring(kind)
        PROVE  todo # << >> /\ t.kind = kind /\ t \in Measurements /\ Tail(todo) \in Seq(Measurements)
    <3>1. todo # << >> /\ t.kind = kind /\ kind # "worksets" BY <2>6 DEF Measuring, Doing
    <3> QED BY <3>1, HeadIs
  \* one of the two sizes, and it is there
  <2>7. ASSUME NEW w \in Worksets PROVE worksets[w] \in Nat BY DEF PrefetchInvariant
  <2>8. ASSUME NEW w \in Worksets, worksets[w] > 0, NEW seq \in Orders(worksets[w]),
               MeasureOrder(seq, w), Tail(todo) \in Seq(Measurements)
        PROVE  PrefetchInvariant'
    <3>1. LinkRing(seq) /\ todo' = Tail(todo) /\ UNCHANGED <<machine, worksets>>
      BY <2>8 DEF MeasureOrder, Timed
    <3> QED BY <2>8, <3>1, LinkKeeps
  <2>9. CASE MeasureRandom
    <3> DEFINE w == t.workset
               n == worksets[w]
    <3>1. t.kind = "random" /\ t \in Measurements /\ Tail(todo) \in Seq(Measurements)
      BY <2>6, <2>9 DEF MeasureRandom
    <3>2. w \in Worksets BY <3>1, ArgumentsAre
    <3>3. n > 0 /\ MeasureOrder(RandomOrder(n), w)
      BY <2>9, <3>1 DEF MeasureRandom, Measuring, Measurable
    <3>4. n \in Nat \ {0} BY <2>7, <3>2, <3>3
    <3>5. RandomOrder(n) \in Orders(n)
      <4> HIDE DEF n
      <4> QED BY <3>4, RandomOrderIs
    <3> QED BY <2>8, <3>1, <3>2, <3>3, <3>5
  <2>10. CASE MeasureStride
    <3> DEFINE w == t.workset
               n == worksets[w]
               d == t.arg
    <3>1. t.kind = "stride" /\ t \in Measurements /\ Tail(todo) \in Seq(Measurements)
      BY <2>6, <2>10 DEF MeasureStride
    <3>2. w \in Worksets /\ d \in Nat \ {0} BY <3>1, ArgumentsAre
    <3>3. n > 0 /\ d < n /\ MeasureOrder(StrideOrder(n, d), w)
      BY <2>10, <3>1 DEF MeasureStride, Measuring, Measurable
    <3>4. n \in Nat \ {0} /\ d \in 1..(n - 1) BY <2>7, <3>2, <3>3
    <3>5. StrideOrder(n, d) \in Orders(n)
      <4> HIDE DEF n, d
      <4> QED BY <3>4, StrideOrderIs
    <3> QED BY <2>8, <3>1, <3>2, <3>3, <3>5
  <2>11. CASE MeasureSegment
    <3> DEFINE n == worksets[2]
               d == t.arg
    <3>1. t.kind = "segment" /\ t \in Measurements /\ Tail(todo) \in Seq(Measurements)
      BY <2>6, <2>11 DEF MeasureSegment
    <3>2. t.workset = 2 /\ d \in Nat \ {0} /\ 2 \in Worksets BY <3>1, ArgumentsAre DEF Worksets
    <3>3. n > 0 /\ d < n /\ MeasureOrder(SegmentOrder(n, d), 2)
      BY <2>11, <3>1, <3>2 DEF MeasureSegment, Measuring, Measurable
    <3>4. n \in Nat \ {0} /\ d \in 1..(n - 1) BY <2>7, <3>2, <3>3
    <3>5. SegmentOrder(n, d) \in Orders(n)
      <4> HIDE DEF n, d
      <4> QED BY <3>4, SegmentOrderIs
    <3> QED BY <2>8, <3>1, <3>2, <3>3, <3>5
  <2>12. CASE MeasureDistance
    <3> DEFINE w == Columns[t.workset].workset
               n == worksets[w]
    <3>1. t.kind = "distance" /\ t \in Measurements /\ Tail(todo) \in Seq(Measurements)
      BY <2>6, <2>12 DEF MeasureDistance
    <3>2. w \in Worksets
      <4>1. t.workset \in DOMAIN Columns BY <3>1, ArgumentsAre
      <4> QED BY <4>1 DEF Columns, Worksets
    <3>3. n > 0 BY <2>12, <3>1 DEF MeasureDistance, Measuring, Measurable
    <3>4. n \in Nat \ {0} BY <2>7, <3>2, <3>3
    <3>5. CASE t.arg = 0
      <4>1. LinkRing(RandomOrder(n)) /\ todo' = Tail(todo) /\ UNCHANGED <<machine, worksets>>
        BY <2>12, <3>5 DEF MeasureDistance
      <4>2. RandomOrder(n) \in Orders(n)
        <5> HIDE DEF n
        <5> QED BY <3>4, RandomOrderIs
      <4> QED BY <3>1, <3>2, <3>3, <4>1, <4>2, LinkKeeps
    <3>6. CASE t.arg # 0
      <4>1. todo' = Tail(todo) /\ UNCHANGED <<machine, worksets, ring, nodes, order>>
        BY <2>12, <3>6 DEF MeasureDistance, Timed
      <4> QED BY <3>1, <4>1 DEF PrefetchInvariant, Linked
    <3> QED BY <3>5, <3>6
  <2>13. CASE Rows
    <3>1. todo' = << >> /\ << >> \in Seq(Measurements) BY <2>13 DEF Rows
    <3>2. UNCHANGED <<machine, worksets, ring, nodes, order>> BY <2>13 DEF Rows
    <3> QED BY <3>1, <3>2 DEF PrefetchInvariant, Linked
  <2>14. CASE UNCHANGED prefetchVars BY <2>14 DEF prefetchVars, PrefetchInvariant, Linked
  <2> QED BY <2>2, <2>3, <2>4, <2>5, <2>9, <2>10, <2>11, <2>12, <2>13, <2>14 DEF PrefetchNext
<1> QED BY <1>1, <1>2, PTL DEF PrefetchSpec

\* Whatever is linked into the buffer, in whatever order and after whatever longer
\* ring (link_ring), the chase makes one lap of the working set and comes back to
\* word 0, and the side array names the lines it loads in that order.
THEOREM RingsAreOneLap == PrefetchSpec => []RingIsOneLap
<1>1. PrefetchInvariant => RingIsOneLap
  <2> SUFFICES ASSUME PrefetchInvariant, order # << >>
               PROVE  LET n == Len(order) IN
                      /\ n \in Range(worksets)
                      /\ FollowsLinks(nodes, ring)
                      /\ {nodes[i] : i \in 0..(n - 1)} = 0..(n - 1) /\ nodes[n] = 0
    BY DEF RingIsOneLap
  <2> DEFINE n == Len(order)
             lap == Rotated(order)
  <2>1. /\ n > 0 /\ (\E w \in Worksets : n = worksets[w]) /\ order \in Orders(n)
        /\ nodes = Nodes(lap) /\ Laps(lap, n, ring)
    BY DEF PrefetchInvariant, Linked
  <2>2. n \in Nat \ {0} /\ n \in Range(worksets)
    <3>1. DOMAIN worksets = Worksets /\ \A w \in Worksets : worksets[w] \in Nat
      BY DEF PrefetchInvariant
    <3> HIDE DEF n
    <3> QED BY <2>1, <3>1 DEF Range
  <2> HIDE DEF n
  <2>3. lap \in Orders(n) /\ lap[1] = 0 BY <2>1, <2>2, RotatedIs
  <2> HIDE DEF lap
  <2>4. /\ FollowsLinks(Nodes(lap), ring)
        /\ {Nodes(lap)[i] : i \in 0..(n - 1)} = 0..(n - 1) /\ Nodes(lap)[n] = 0
    BY <2>1, <2>2, <2>3, LapFollows
  <2> QED BY <2>1, <2>2, <2>4 DEF n
<1> QED BY <1>1, PrefetchInvariantHolds, PTL

-----------------------------------------------------------------------------
(* What was measured is what the machine takes, but for one disturbance.   *)

\* A lap at the full latency.
Lap(w) == 100 * worksets[w] * machine.slow[w]

\* What is measured of a stride and, with that much of it lost, of a segment.
StrideLap(w, d) ==
    (100 * worksets[w] - (100 - machine.share[d]) * (worksets[w] - 2 * d)) * machine.slow[w]
SegmentLap(lost) ==
    (100 * worksets[2] - (100 - machine.share[1]) * (worksets[2] - lost)) * machine.slow[2]

Takes(t, y) ==
    /\ y \in Nat \ {0}
    /\ t.kind = "random" => y = Lap(t.workset)
    /\ t.kind = "stride" => y = StrideLap(t.workset, t.arg)
    /\ t.kind = "segment" =>
           \E lost \in Nat : /\ 2 * worksets[2] <= t.arg * lost
                             /\ t.arg * lost <= 2 * worksets[2] + 2 * t.arg
                             /\ y = SegmentLap(lost)
    /\ t.kind = "distance" =>
           LET lap == Lap(Columns[t.workset].workset)
           IN  IF t.arg = 0 THEN y = lap ELSE t.arg * y >= lap

Told(t) == \E y : Takes(t, y) /\ (ns[t] = y \/ (spoiled = t /\ ns[t] = Spoiled * y))

MayBeSpoiled(t) ==
    /\ t \in Measurements /\ t.kind # "random" /\ ~(t.kind = "stride" /\ t.arg = 1)
    /\ ~(t.kind = "distance" /\ t.arg = 0)

\* The times that were told stand for those of the machine, and none that can be
\* taken is left out.
TimesInvariant ==
    /\ worksets[1] = 0 \/ worksets[1] >= 4 * PageLines
    /\ worksets[2] = 0 \/ 2 * worksets[2] >= MinimumMemory
    /\ todo = <<Task("worksets", 0, 0)>> => (\A w \in Worksets : worksets[w] = 0) /\ DOMAIN ns = {}
    /\ \A i, j \in 1..Len(todo) : i < j /\ todo[j].kind = "random" => todo[i].kind = "random"
    /\ \A i \in 1..Len(todo) : todo[i].kind = "rows" => i = Len(todo)
    /\ \A t \in DOMAIN ns : t \in Measurements /\ Told(t)
    /\ \A t \in Measurements :
           t.kind # "rows" /\ Measurable(t) => t \in DOMAIN ns \/ t \in Values(todo)
    /\ spoiled = NoTask \/ MayBeSpoiled(spoiled)
    /\ Reported => todo = << >>

LEMMA SizesOf ==
    ASSUME PrefetchInvariant, TimesInvariant, NEW w \in Worksets, worksets[w] > 0
    PROVE  /\ worksets[w] \in Nat \ {0} /\ machine.slow[w] \in Nat \ {0}
           /\ Lap(w) \in Nat \ {0}
           /\ \A s \in Range(Strides) : s \in Nat \ {0} /\ s \in DOMAIN machine.share
                                        /\ s < worksets[w] /\ 2 * s <= worksets[w]
<1> DEFINE n == worksets[w]
           l == machine.slow[w]
<1>1. n \in Nat \ {0} /\ machine \in Machines BY DEF PrefetchInvariant
<1>2. l \in Nat \ {0} /\ \A s \in Range(Strides) : s \in DOMAIN machine.share BY <1>1, MachineIs
<1>3. Lap(w) = 100 * n * l BY DEF Lap
<1>4. 100 * n * l \in Nat \ {0}
  <2> DEFINE m == 100 * n
  <2>1. m \in Nat \ {0} BY <1>1
  <2> HIDE DEF m
  <2>2. m * l \in Nat \ {0} BY <1>2, <2>1
  <2> QED BY <2>2 DEF m
<1>5. n >= 4 * PageLines
  <2>1. PageLines \in Nat \ {0} /\ MinimumMemory \in Nat /\ 8 * PageLines <= MinimumMemory
    BY GridsAssumption
  <2>2. CASE w = 1 BY <1>1, <2>1, <2>2 DEF TimesInvariant
  <2>3. CASE w = 2
    <3>1. 2 * n >= MinimumMemory BY <1>1, <2>3 DEF TimesInvariant
    <3> QED BY <1>1, <2>1, <3>1
  <2> QED BY <2>2, <2>3 DEF Worksets
<1>6. ASSUME NEW s \in Range(Strides)
      PROVE  s \in Nat \ {0} /\ s < n /\ 2 * s <= n
  <2>1. Strides \in Seq(Nat \ {0}) /\ PageLines \in Nat \ {0} BY GridsAssumption
  <2>2. \A i \in DOMAIN Strides : Strides[i] <= 2 * PageLines BY GridsAssumption
  <2>3. PICK i \in DOMAIN Strides : s = Strides[i] BY DEF Range
  <2>4. s \in Nat \ {0} /\ s <= 2 * PageLines BY <2>1, <2>2, <2>3
  <2> QED BY <1>1, <1>5, <2>1, <2>4
<1> QED BY <1>1, <1>2, <1>3, <1>4, <1>6

LEMMA SegmentsOf ==
    ASSUME PrefetchInvariant, TimesInvariant, worksets[2] > 0, NEW s \in Range(Segments)
    PROVE  worksets[2] \in Nat /\ s \in Nat /\ s >= 2 /\ 2 * s < worksets[2] /\ s < worksets[2]
<1>1. worksets[2] \in Nat BY DEF PrefetchInvariant, Worksets
<1>2. Segments \in Seq(Nat \ {0}) /\ MinimumMemory \in Nat BY GridsAssumption
<1>3. PICK last \in DOMAIN Segments : \A i \in DOMAIN Segments :
          Segments[i] >= 2 /\ 8 * Segments[i] <= MinimumMemory
  BY GridsAssumption
<1>4. PICK i \in DOMAIN Segments : s = Segments[i] BY DEF Range
<1>5. s \in Nat /\ s >= 2 /\ 8 * s <= MinimumMemory BY <1>2, <1>3, <1>4
<1>6. 2 * worksets[2] >= MinimumMemory BY <1>1 DEF TimesInvariant
<1> QED BY <1>1, <1>2, <1>5, <1>6

-----------------------------------------------------------------------------
(* A measurement made is one told.                                         *)

LEMMA TailIs ==
    ASSUME NEW S, NEW s \in Seq(S), s # << >>
    PROVE  /\ Tail(s) \in Seq(S) /\ Len(Tail(s)) = Len(s) - 1 /\ Len(s) \in Nat /\ Len(s) > 0
           /\ \A i \in 1..Len(Tail(s)) : i + 1 \in 1..Len(s) /\ Tail(s)[i] = s[i + 1]
           /\ Values(s) = {Head(s)} \cup Values(Tail(s))
<1> DEFINE t == Tail(s)
           m == Len(s)
           n == Len(t)
<1>1. t \in Seq(S) /\ m \in Nat /\ m > 0 /\ n = m - 1 /\ Head(s) = s[1]
      /\ \A i \in 1..n : t[i] = s[i + 1]
  BY HeadTailProperties
<1>2. m = Len(s) /\ n = Len(t) OBVIOUS
<1> HIDE DEF t, m, n
<1>3. \A i \in 1..n : i + 1 \in 1..m BY <1>1
<1>4. \A i \in 1..m : i = 1 \/ \E k \in 1..n : i = k + 1
  <2> SUFFICES ASSUME NEW i \in 1..m, i # 1 PROVE \E k \in 1..n : i = k + 1 OBVIOUS
  <2>1. i - 1 \in 1..n /\ i = (i - 1) + 1 BY <1>1
  <2> QED BY <2>1
<1>5. Values(s) = {s[i] : i \in 1..m} /\ Values(t) = {t[i] : i \in 1..n} BY <1>2 DEF Values
<1>6. 1 \in 1..m BY <1>1
<1>7. \A x : x \in Values(s) <=> x = Head(s) \/ x \in Values(t)
  <2> TAKE x
  <2>1. ASSUME x \in Values(s) PROVE x = Head(s) \/ x \in Values(t)
    <3>1. PICK i \in 1..m : x = s[i] BY <1>5, <2>1
    <3> QED BY <1>1, <1>4, <1>5, <3>1
  <2>2. Head(s) \in Values(s) BY <1>1, <1>5, <1>6
  <2>3. x \in Values(t) => x \in Values(s) BY <1>1, <1>3, <1>5
  <2> QED BY <2>1, <2>2, <2>3
<1>8. Values(s) = {Head(s)} \cup Values(t) BY <1>7
<1> QED BY <1>1, <1>2, <1>3, <1>8 DEF t

LEMMA TailInOrder ==
    ASSUME TimesInvariant, todo \in Seq(Measurements), todo # << >>
    PROVE  LET s == Tail(todo)
           IN  /\ \A i, j \in 1..Len(s) : i < j /\ s[j].kind = "random" => s[i].kind = "random"
               /\ \A i \in 1..Len(s) : s[i].kind = "rows" => i = Len(s)
<1> DEFINE s == Tail(todo)
<1>1. /\ Len(s) = Len(todo) - 1 /\ Len(todo) \in Nat
      /\ \A i \in 1..Len(s) : i + 1 \in 1..Len(todo) /\ s[i] = todo[i + 1]
  <2> HIDE DEF Measurements
  <2> QED BY TailIs
<1> HIDE DEF s
<1>2. ASSUME NEW i \in 1..Len(s), NEW j \in 1..Len(s), i < j, s[j].kind = "random"
      PROVE  s[i].kind = "random"
  <2>1. i + 1 < j + 1 /\ todo[j + 1].kind = "random" BY <1>1, <1>2
  <2>2. todo[i + 1].kind = "random" BY <1>1, <2>1 DEF TimesInvariant
  <2> QED BY <1>1, <2>2
<1>3. ASSUME NEW i \in 1..Len(s), s[i].kind = "rows" PROVE i = Len(s)
  <2>1. todo[i + 1].kind = "rows" BY <1>1, <1>3
  <2>2. i + 1 = Len(todo) BY <1>1, <2>1 DEF TimesInvariant
  <2> QED BY <1>1, <2>2
<1> QED BY <1>2, <1>3 DEF s

LEMMA MeasuredKeeps ==
    ASSUME PrefetchInvariant, TimesInvariant, todo # << >>, NEW t \in Measurements, t = Head(todo),
           todo \in Seq(Measurements),
           todo' = Tail(todo), UNCHANGED <<machine, worksets, report>>,
           NEW x, NEW y, Takes(t, y), ns' = With(t, x),
           \/ x = y /\ spoiled' = spoiled
           \/ spoiled = NoTask /\ spoiled' = t /\ MayBeSpoiled(t) /\ x = Spoiled * y
    PROVE  TimesInvariant'
<1> DEFINE D == DOMAIN ns \cup {t}
<1>1. ns' = [u \in D |-> IF u = t THEN x ELSE ns[u]] BY DEF With
<1>2. DOMAIN ns' = D /\ ns'[t] = x /\ \A u \in DOMAIN ns : u # t => ns'[u] = ns[u] BY <1>1
<1>3. ASSUME NEW u, NEW z PROVE Takes(u, z)' <=> Takes(u, z)
  BY DEF Takes, Lap, StrideLap, SegmentLap
<1>4. Told(t)'
  <2>1. Takes(t, y)' BY <1>3
  <2> QED BY <1>2, <2>1 DEF Told
<1>5. ASSUME NEW u \in DOMAIN ns, u # t PROVE Told(u)'
  <2>1. u \in Measurements /\ Told(u) BY DEF TimesInvariant
  <2>2. PICK z : Takes(u, z) /\ (ns[u] = z \/ (spoiled = u /\ ns[u] = Spoiled * z))
    BY <2>1 DEF Told
  <2>3. u # NoTask
    <3>1. u.kind # "none" BY <2>1, ArgumentsAre
    <3> QED BY <3>1 DEF NoTask
  <2>4. ns[u] = z \/ (spoiled' = u /\ ns[u] = Spoiled * z) BY <2>2, <2>3
  <2> QED BY <1>2, <1>3, <1>5, <2>2, <2>4 DEF Told
<1>6. todo \in Seq(Measurements) /\ Values(todo) = {t} \cup Values(Tail(todo))
  <2> HIDE DEF Measurements
  <2> QED BY TailIs
<1>7. ASSUME NEW u \in Measurements, u.kind # "rows", Measurable(u)'
      PROVE  u \in DOMAIN ns' \/ u \in Values(todo')
  <2>1. Measurable(u) BY <1>7 DEF Measurable
  <2>2. u \in DOMAIN ns \/ u \in Values(todo) BY <1>7, <2>1 DEF TimesInvariant
  <2> QED BY <1>2, <1>6, <2>2
<1>8. ~Reported' /\ Tail(todo) # <<Task("worksets", 0, 0)>>
  <2>1. ~Reported BY DEF TimesInvariant
  <2>2. Tail(todo) # <<Task("worksets", 0, 0)>>
    <3>1. Tail(todo) \in Seq(Measurements)
      <4> HIDE DEF Measurements
      <4> QED BY <1>6, TailIs
    <3>2. Task("worksets", 0, 0) \notin Measurements
      <4>1. Task("worksets", 0, 0).kind = "worksets" BY DEF Task
      <4> QED BY <4>1, ArgumentsAre
    <3> HIDE DEF Measurements
    <3>3. ASSUME NEW s \in Seq(Measurements), Len(s) > 0 PROVE s[1] \in Measurements
      <4>1. Head(s) \in Measurements /\ Head(s) = s[1] BY <3>3, HeadTailProperties
      <4> QED BY <4>1
    <3>4. LET s == <<Task("worksets", 0, 0)>> IN Len(s) > 0 /\ s[1] = Task("worksets", 0, 0)
      OBVIOUS
    <3> QED BY <3>1, <3>2, <3>3, <3>4
  <2> QED BY <2>1, <2>2 DEF Reported
<1>9. spoiled' = NoTask \/ MayBeSpoiled(spoiled)'
  <2>1. spoiled = NoTask \/ MayBeSpoiled(spoiled) BY DEF TimesInvariant
  <2> QED BY <2>1 DEF MayBeSpoiled
<1>10. /\ worksets'[1] = 0 \/ worksets'[1] >= 4 * PageLines
       /\ worksets'[2] = 0 \/ 2 * worksets'[2] >= MinimumMemory
  BY DEF TimesInvariant
<1>11. /\ \A i, j \in 1..Len(todo') : i < j /\ todo'[j].kind = "random" => todo'[i].kind = "random"
       /\ \A i \in 1..Len(todo') : todo'[i].kind = "rows" => i = Len(todo')
  BY <1>6, TailInOrder
<1>12. \A u \in DOMAIN ns' : u \in Measurements /\ Told(u)'
  <2>1. \A u \in DOMAIN ns : u \in Measurements BY DEF TimesInvariant
  <2> QED BY <1>2, <1>4, <1>5, <2>1
<1> QED BY <1>7, <1>8, <1>9, <1>10, <1>11, <1>12 DEF TimesInvariant

\* No lap takes no time.
LEMMA LapPositive ==
    ASSUME NEW n \in Nat \ {0}, NEW l \in Nat \ {0}, NEW b \in 0..99, NEW m \in Int, m <= n
    PROVE  (100 * n - b * m) * l \in Nat \ {0}
<1> DEFINE z == 100 * n - b * m
<1>1. b * m <= b * n
  <2>1. b \in Nat OBVIOUS
  <2> DEFINE k == n - m
  <2>2. k \in Nat /\ n = m + k OBVIOUS
  <2> HIDE DEF k
  <2>3. b * (m + k) = b * m + b * k /\ b * k \in Nat /\ b * m \in Int BY <2>1, <2>2
  <2> QED BY <2>2, <2>3
<1>2. b * n <= 99 * n
  <2>1. b \in Nat /\ b <= 99 OBVIOUS
  <2>2. n * b <= n * 99 BY <2>1
  <2> QED BY <2>1, <2>2
<1>3. b * m \in Int /\ b * n \in Int OBVIOUS
<1>4. z \in Nat \ {0} BY <1>1, <1>2, <1>3
<1> HIDE DEF z
<1>5. z * l \in Nat \ {0} BY <1>4
<1> QED BY <1>5 DEF z

LEMMA RandomTakes ==
    ASSUME PrefetchInvariant, TimesInvariant, NEW w \in Worksets, worksets[w] > 0,
           NEW t, t.kind = "random", t.workset = w,
           NEW r, Laps(Rotated(RandomOrder(worksets[w])), worksets[w], r)
    PROVE  Takes(t, ChaseTime(r, worksets[w], w))
<1>1. worksets[w] \in Nat \ {0} /\ Lap(w) \in Nat \ {0} /\ machine \in Machines
  BY SizesOf DEF PrefetchInvariant
<1>2. ChaseTime(r, worksets[w], w) = Lap(w) BY <1>1, RandomTime DEF Lap
<1> QED BY <1>1, <1>2 DEF Takes

LEMMA StrideTakes ==
    ASSUME PrefetchInvariant, TimesInvariant, NEW w \in Worksets, worksets[w] > 0,
           NEW t, t.kind = "stride", t.workset = w, t.arg \in Range(Strides),
           NEW r, Laps(Rotated(StrideOrder(worksets[w], t.arg)), worksets[w], r)
    PROVE  Takes(t, ChaseTime(r, worksets[w], w))
<1> DEFINE n == worksets[w]
           d == t.arg
           x == ChaseTime(r, n, w)
           b == 100 - machine.share[d]
           m == n - 2 * d
           l == machine.slow[w]
<1>1. n \in Nat \ {0} /\ l \in Nat \ {0} /\ machine \in Machines BY SizesOf DEF PrefetchInvariant
<1>2. d \in Nat \ {0} /\ d \in DOMAIN machine.share /\ 2 * d <= n BY SizesOf
<1>3. x = (100 * n - b * m) * l
  <2> HIDE DEF n, d, l
  <2>1. Laps(Rotated(StrideOrder(n, d)), n, r) BY DEF n, d
  <2> QED BY <1>1, <1>2, <2>1, StrideTime DEF l
<1>4. b \in 0..99 /\ m \in Nat /\ m <= n
  <2>1. machine.share[d] \in 1..100 BY <1>1, <1>2, MachineIs
  <2> QED BY <1>1, <1>2, <2>1
<1>5. x = StrideLap(w, d) BY <1>3 DEF StrideLap
<1> HIDE DEF n, d, b, m, l, x
<1>6. x \in Nat \ {0} BY <1>1, <1>3, <1>4, LapPositive
<1> QED BY <1>5, <1>6 DEF Takes, n, d, x

LEMMA SegmentTakes ==
    ASSUME PrefetchInvariant, TimesInvariant, worksets[2] > 0,
           NEW t, t.kind = "segment", t.arg \in Range(Segments),
           NEW r, Laps(Rotated(SegmentOrder(worksets[2], t.arg)), worksets[2], r)
    PROVE  Takes(t, ChaseTime(r, worksets[2], 2))
<1> DEFINE n == worksets[2]
           d == t.arg
           x == ChaseTime(r, n, 2)
           b == 100 - machine.share[1]
           l == machine.slow[2]
<1>1. n \in Nat /\ d \in Nat /\ d >= 2 /\ 2 * d < n BY SegmentsOf
<1>2. n \in Nat \ {0} /\ l \in Nat \ {0} /\ machine \in Machines /\ 2 \in Worksets
  BY SizesOf DEF PrefetchInvariant, Worksets
<1>3. b \in 0..99
  <2>1. machine.share[1] \in 1..100 BY <1>2, MachineIs
  <2> QED BY <2>1
<1>4. PICK lost \in Nat : /\ 2 * n <= d * lost /\ d * lost <= 2 * n + 2 * d
                          /\ x = (100 * n - b * (n - lost)) * l
  <2> HIDE DEF n, d, l
  <2>1. Laps(Rotated(SegmentOrder(n, d)), n, r) BY DEF n, d
  <2> QED BY <1>1, <1>2, <2>1, SegmentTime DEF l
<1>5. x = SegmentLap(lost) BY <1>4 DEF SegmentLap
<1> DEFINE m == n - lost
<1>6. m \in Int /\ m <= n BY <1>1
<1> HIDE DEF n, d, b, l, x
<1>7. x = (100 * n - b * m) * l BY <1>4
<1> HIDE DEF m
<1>8. x \in Nat \ {0} BY <1>2, <1>3, <1>6, <1>7, LapPositive
<1> QED BY <1>4, <1>5, <1>8 DEF Takes, n, d, x

\* Prefetched d loads ahead the lap takes a d-th of the time at best.
LEMMA PrefetchTakes ==
    ASSUME PrefetchInvariant, TimesInvariant, NEW c \in DOMAIN Columns,
           worksets[Columns[c].workset] > 0,
           NEW t, t.kind = "distance", t.workset = c, t.arg \in Nat \ {0},
           NEW links, NEW side
    PROVE  Takes(t, PrefetchTime(links, side, c, t.arg))
<1> DEFINE w == Columns[c].workset
           d == t.arg
           loads == 100 * worksets[w]
           slow == loads * machine.slow[w]
           ahead == Min({d, machine.room})
           quick == loads * machine.fast[c]
           up == (slow + ahead - 1) \div ahead
           x == PrefetchTime(links, side, c, d)
<1>1. w \in Worksets /\ c \in 1..3 /\ machine \in Machines BY DEF Columns, Worksets, PrefetchInvariant
<1>2. worksets[w] \in Nat \ {0} /\ Lap(w) \in Nat \ {0} BY <1>1, SizesOf
<1>3. slow = Lap(w) BY DEF Lap
<1>4. machine.room \in Nat \ {0} /\ machine.fast[c] \in Nat \ {0}
  <2>1. machine.room \in Nat \ {0} /\ machine.fast \in [1..3 -> Nat \ {0}]
    BY <1>1, MachineAssumption
  <2> QED BY <1>1, <2>1
<1>5. quick \in Nat
  <2>1. loads \in Nat BY <1>2
  <2> HIDE DEF loads
  <2> QED BY <1>4, <2>1
<1>6. ahead \in Nat \ {0} /\ ahead <= d
  <2> DEFINE r == machine.room
             m == IF d <= r THEN d ELSE r
  <2>1. r \in Nat \ {0} /\ d \in Nat \ {0} BY <1>4
  <2> HIDE DEF r, d
  <2>2. m \in {d, r} /\ \A y \in {d, r} : m <= y BY <2>1
  <2>3. \A z \in {d, r} : (\A y \in {d, r} : z <= y) => z = m BY <2>1
  <2>4. m \in Nat \ {0} /\ m <= d BY <2>1
  <2> HIDE DEF m
  <2>5. Min({d, r}) = m BY <2>2, <2>3 DEF Min
  <2> QED BY <2>4, <2>5 DEF r
<1>7. x = IF FollowsLinks(side, links) THEN Max({quick, up}) ELSE slow BY DEF PrefetchTime
<1>8. d \in Nat \ {0} /\ slow \in Nat \ {0} BY <1>2, <1>3
<1> HIDE DEF loads, slow, ahead, quick, x
<1>9. up \in Nat /\ ahead * up >= slow
  <2> DEFINE a == slow + ahead - 1
             q == a \div ahead
  <2>1. a \in Nat /\ a + 1 = slow + ahead BY <1>6, <1>8
  <2>2. q = up OBVIOUS
  <2> HIDE DEF a
  <2>3. q \in Nat /\ a < ahead * (q + 1) BY <1>6, <2>1, DivBounds
  <2> HIDE DEF q, up
  <2>4. ahead * (q + 1) = ahead * q + ahead /\ ahead * q \in Nat BY <1>6, <2>3
  <2> QED BY <1>6, <1>8, <2>1, <2>2, <2>3, <2>4
<1> HIDE DEF up, d
<1>10. \A z \in Nat : up <= z => d * z >= slow
  <2> SUFFICES ASSUME NEW z \in Nat, up <= z PROVE d * z >= slow OBVIOUS
  <2>1. ahead * up <= ahead * z BY <1>6, <1>9, TimesMonotone
  <2>2. ahead * z <= d * z
    <3>1. z * ahead <= z * d BY <1>6, <1>8
    <3> QED BY <1>6, <1>8, <3>1
  <2>3. ahead * up \in Nat /\ ahead * z \in Nat /\ d * z \in Nat BY <1>6, <1>8, <1>9
  <2> QED BY <1>8, <1>9, <2>1, <2>2, <2>3
<1>11. x \in Nat /\ d * x >= slow
  <2>1. CASE FollowsLinks(side, links)
    <3>1. Max({quick, up}) \in Nat /\ Max({quick, up}) >= up BY <1>5, <1>9, MaxOfTwo
    <3>2. x = Max({quick, up}) BY <1>7, <2>1
    <3> QED BY <1>10, <3>1, <3>2
  <2>2. CASE ~FollowsLinks(side, links)
    <3>1. x = slow BY <1>7, <2>2
    <3> QED BY <1>8, <3>1
  <2> QED BY <2>1, <2>2
<1>12. x # 0
  <2>1. d * 0 = 0 BY <1>8
  <2> QED BY <1>8, <1>11, <2>1
<1>13. x \in Nat \ {0} BY <1>11, <1>12
<1>14. t.arg # 0 /\ t.arg * x >= Lap(Columns[t.workset].workset) BY <1>3, <1>8, <1>11 DEF d
<1> QED BY <1>13, <1>14 DEF Takes, x, d

\* Nothing can be measured before there is a working set.
LEMMA MeasurableIs ==
    ASSUME NEW t \in Measurements, t.kind # "rows", Measurable(t)
    PROVE  /\ \E w \in Worksets : worksets[w] > 0
           /\ t.kind # "distance" => t.workset \in Worksets /\ worksets[t.workset] > 0
           /\ t.kind = "distance" => /\ t.workset \in DOMAIN Columns
                                     /\ Columns[t.workset].workset \in Worksets
                                     /\ worksets[Columns[t.workset].workset] > 0
<1>1. t.kind \in {"random", "stride", "segment", "distance"} BY ArgumentsAre
<1>2. CASE t.kind = "distance"
  <2>1. t.workset \in DOMAIN Columns BY <1>2, ArgumentsAre
  <2>2. Columns[t.workset].workset \in Worksets BY <2>1 DEF Columns, Worksets
  <2> QED BY <1>2, <2>1, <2>2 DEF Measurable
<1>3. CASE t.kind # "distance"
  <2>1. t.workset \in Worksets BY <1>1, <1>3, ArgumentsAre
  <2> QED BY <1>3, <2>1 DEF Measurable
<1> QED BY <1>2, <1>3

\* Steps that measure nothing and pass over nothing that could be measured.
LEMMA TimesKeep ==
    ASSUME TimesInvariant, UNCHANGED <<machine, worksets, ns, spoiled>>,
           todo' # <<Task("worksets", 0, 0)>>,
           \A i, j \in 1..Len(todo') : i < j /\ todo'[j].kind = "random" => todo'[i].kind = "random",
           \A i \in 1..Len(todo') : todo'[i].kind = "rows" => i = Len(todo'),
           \A t \in Measurements :
               t.kind # "rows" /\ Measurable(t) /\ t \in Values(todo) => t \in Values(todo'),
           Reported' => todo' = << >>
    PROVE  TimesInvariant'
<1>0. ASSUME NEW t, NEW y PROVE Takes(t, y)' <=> Takes(t, y)
  BY DEF Takes, Lap, StrideLap, SegmentLap
<1>1. ASSUME NEW t \in DOMAIN ns PROVE t \in Measurements /\ Told(t)'
  <2>1. t \in Measurements /\ Told(t) BY DEF TimesInvariant
  <2>2. PICK y : Takes(t, y) /\ (ns[t] = y \/ (spoiled = t /\ ns[t] = Spoiled * y))
    BY <2>1 DEF Told
  <2>3. Takes(t, y)' /\ (ns'[t] = y \/ (spoiled' = t /\ ns'[t] = Spoiled * y)) BY <1>0, <2>2
  <2> QED BY <2>1, <2>3 DEF Told
<1>2. ASSUME NEW t \in Measurements, t.kind # "rows", Measurable(t)'
      PROVE  t \in DOMAIN ns \/ t \in Values(todo')
  <2>1. Measurable(t) BY <1>2 DEF Measurable
  <2> QED BY <1>2, <2>1 DEF TimesInvariant
<1>3. spoiled' = NoTask \/ MayBeSpoiled(spoiled)' BY DEF TimesInvariant, MayBeSpoiled
<1>4. /\ worksets'[1] = 0 \/ worksets'[1] >= 4 * PageLines
      /\ worksets'[2] = 0 \/ 2 * worksets'[2] >= MinimumMemory
  BY DEF TimesInvariant
<1>5. DOMAIN ns' = DOMAIN ns OBVIOUS
<1> QED BY <1>1, <1>2, <1>3, <1>4, <1>5 DEF TimesInvariant

LEMMA EndKeeps ==
    ASSUME TimesInvariant, UNCHANGED <<machine, worksets, ns, spoiled>>, todo' = << >>,
           \A t \in Measurements : t.kind # "rows" /\ Measurable(t) => t \notin Values(todo)
    PROVE  TimesInvariant'
<1>1. Len(todo') = 0 /\ 1..0 = {} BY Constants
<1>2. << >> # <<Task("worksets", 0, 0)>> OBVIOUS
<1> QED BY <1>1, <1>2, TimesKeep

LEMMA NotSized ==
    ASSUME PrefetchInvariant, TimesInvariant, Doing("worksets")
    PROVE  /\ todo = <<Task("worksets", 0, 0)>> /\ DOMAIN ns = {}
           /\ \A t \in Measurements : t.kind # "rows" => ~Measurable(t)
<1>1. todo = <<Task("worksets", 0, 0)>>
  <2> SUFFICES ASSUME todo \in Seq(Measurements) PROVE FALSE BY DEF PrefetchInvariant
  <2>1. todo # << >> /\ Head(todo).kind = "worksets" BY DEF Doing
  <2>2. Head(todo) \in Measurements
    <3> HIDE DEF Measurements
    <3> QED BY <2>1, HeadTailProperties
  <2> QED BY <2>1, <2>2, ArgumentsAre
<1>2. (\A w \in Worksets : worksets[w] = 0) /\ DOMAIN ns = {} BY <1>1 DEF TimesInvariant
<1> QED BY <1>1, <1>2, MeasurableIs

\* The latency in random order is known when the others are measured.
LEMMA RandomKnown ==
    ASSUME PrefetchInvariant, TimesInvariant, todo \in Seq(Measurements), todo # << >>,
           Head(todo).kind # "random", NEW w \in Worksets, worksets[w] > 0
    PROVE  ns[Task("random", w, 0)] = Lap(w) /\ Task("random", w, 0) \in DOMAIN ns
<1> DEFINE r == Task("random", w, 0)
<1>1. r \in Measurements /\ r.kind = "random" /\ r.workset = w BY DEF Measurements, Task
<1>2. Measurable(r) BY <1>1 DEF Measurable
<1>3. r \notin Values(todo)
  <2> SUFFICES ASSUME NEW j \in 1..Len(todo), todo[j] = r PROVE FALSE BY DEF Values
  <2>1. Len(todo) \in Nat /\ Head(todo) = todo[1] /\ Len(todo) > 0
    <3> HIDE DEF Measurements
    <3> QED BY HeadTailProperties
  <2>2. j # 1 /\ 1 < j /\ 1 \in 1..Len(todo) BY <1>1, <2>1
  <2> QED BY <1>1, <2>1, <2>2 DEF TimesInvariant
<1>4. r \in DOMAIN ns BY <1>1, <1>2, <1>3 DEF TimesInvariant
<1>5. spoiled # r
  <2>1. r.kind # "none" /\ NoTask.kind = "none" BY <1>1 DEF NoTask
  <2> QED BY <1>1, <2>1 DEF TimesInvariant, MayBeSpoiled
<1>6. Told(r) BY <1>4 DEF TimesInvariant
<1>7. ns[r] = Lap(w) BY <1>1, <1>5, <1>6 DEF Told, Takes
<1> QED BY <1>4, <1>7

LEMMA TimedKeeps ==
    ASSUME PrefetchInvariant, TimesInvariant, todo # << >>, todo \in Seq(Measurements),
           NEW t \in Measurements, t = Head(todo), NEW y, Takes(t, y), Timed(y),
           ~(t.kind = "distance" /\ t.arg = 0)
    PROVE  TimesInvariant'
<1>1. todo' = Tail(todo) /\ UNCHANGED <<machine, worksets, report>> BY DEF Timed
<1>2. CASE ns' = With(t, y) /\ UNCHANGED spoiled BY <1>1, <1>2, MeasuredKeeps
<1>3. CASE /\ spoiled = NoTask /\ t.kind # "random" /\ ~(t.kind = "stride" /\ t.arg = 1)
           /\ ns' = With(t, Spoiled * y) /\ spoiled' = t
  <2>1. MayBeSpoiled(t) BY <1>3 DEF MayBeSpoiled
  <2> DEFINE x == Spoiled * y
  <2>2. ns' = With(t, x) BY <1>3
  <2>3. \/ x = y /\ spoiled' = spoiled
        \/ spoiled = NoTask /\ spoiled' = t /\ MayBeSpoiled(t) /\ x = Spoiled * y
    BY <1>3, <2>1
  <2> HIDE DEF x
  <2> QED BY <1>1, <2>2, <2>3, MeasuredKeeps
<1> QED BY <1>2, <1>3 DEF Timed

LEMMA OrderKeeps ==
    ASSUME PrefetchInvariant, TimesInvariant, todo # << >>, todo \in Seq(Measurements),
           NEW t \in Measurements, t = Head(todo), t.kind # "distance",
           NEW w \in Worksets, worksets[w] > 0, NEW seq \in Orders(worksets[w]),
           \A r : Laps(Rotated(seq), worksets[w], r) => Takes(t, ChaseTime(r, worksets[w], w)),
           MeasureOrder(seq, w)
    PROVE  TimesInvariant'
<1> DEFINE n == worksets[w]
           x == ChaseTime(ring', Len(seq), w)
<1>1. n \in Nat \ {0} /\ 0..(n - 1) \subseteq DOMAIN ring BY DEF PrefetchInvariant
<1>2. LinkRing(seq) /\ Timed(x) BY DEF MeasureOrder
<1>3. Laps(Rotated(seq), n, ring')
  <2> HIDE DEF n
  <2>1. seq \in Orders(n) BY DEF n
  <2> QED BY <1>1, <1>2, <2>1, LinkIs
<1>4. Len(seq) = n BY DEF Orders
<1>5. Takes(t, x)
  <2>1. PICK r : r = ring' OBVIOUS
  <2>2. Takes(t, ChaseTime(r, n, w)) BY <1>3, <2>1
  <2> QED BY <1>4, <2>1, <2>2
<1> HIDE DEF x
<1> QED BY <1>2, <1>5, TimedKeeps

LEMMA SizesKeep ==
    ASSUME PrefetchInvariant, TimesInvariant, SizeWorksets
    PROVE  TimesInvariant'
<1> DEFINE last == Task("rows", 0, 0)
           s == Append(Tasks, last)
<1>1. Doing("worksets") /\ machine \in Machines BY DEF SizeWorksets, PrefetchInvariant
<1>2. /\ worksets' = <<L2Lines, MemoryLines>> /\ todo' = s
      /\ UNCHANGED <<machine, ns, spoiled, report>>
  BY DEF SizeWorksets
<1>3. todo = <<Task("worksets", 0, 0)>> /\ DOMAIN ns = {} BY <1>1, NotSized
<1>4. PICK rest \in Seq(Others) :
          /\ Tasks = <<Task("random", 1, 0), Task("random", 2, 0)>> \o rest
          /\ Others \subseteq Values(rest)
  BY TasksSplit
<1> DEFINE n == Len(rest)
<1>5. n \in Nat /\ \A i \in 1..n : rest[i] \in Others
  <2> HIDE DEF Others
  <2> QED OBVIOUS
<1>6. /\ Len(s) = n + 3 /\ s[1] = Task("random", 1, 0) /\ s[2] = Task("random", 2, 0)
      /\ s[n + 3] = last /\ \A i \in 1..n : s[i + 2] = rest[i]
  <2> HIDE DEF Others, last
  <2> DEFINE two == <<Task("random", 1, 0), Task("random", 2, 0)>>
             all == two \o rest
  <2>1. /\ two \in Seq({two[1], two[2]}) /\ Len(two) = 2
        /\ two[1] = Task("random", 1, 0) /\ two[2] = Task("random", 2, 0)
    OBVIOUS
  <2> HIDE DEF two
  <2> DEFINE T == {two[1], two[2]} \cup Others
  <2>2. two \in Seq(T) /\ rest \in Seq(T) BY <2>1
  <2> HIDE DEF T
  <2>3. /\ all \in Seq(T) /\ Len(all) = n + 2
        /\ all[1] = two[1] /\ all[2] = two[2] /\ \A i \in 1..n : all[i + 2] = rest[i]
    <3>1. /\ all \in Seq(T) /\ Len(all) = 2 + n
          /\ \A i \in 1..(2 + n) : all[i] = IF i <= 2 THEN two[i] ELSE rest[i - 2]
      <4>1. Len(rest) = n OBVIOUS
      <4>2. n \in Nat /\ Len(two) = 2 BY <1>5, <2>1
      <4> HIDE DEF n
      <4>3. Len(all) = Len(two) + Len(rest) /\ all \in Seq(T)
            /\ \A i \in 1..(Len(two) + Len(rest)) :
                   all[i] = IF i <= Len(two) THEN two[i] ELSE rest[i - Len(two)]
        BY <2>2, ConcatProperties
      <4> QED BY <4>1, <4>2, <4>3
    <3> HIDE DEF all, n
    <3>2. 2 + n = n + 2 /\ 1 \in 1..(2 + n) /\ 2 \in 1..(2 + n) BY <1>5
    <3>3. all[1] = two[1] /\ all[2] = two[2] BY <3>1, <3>2
    <3>4. ASSUME NEW i \in 1..n PROVE all[i + 2] = rest[i]
      <4>1. i + 2 \in 1..(2 + n) /\ ~(i + 2 <= 2) /\ (i + 2) - 2 = i BY <1>5
      <4> QED BY <3>1, <4>1
    <3> QED BY <3>1, <3>2, <3>3, <3>4
  <2> HIDE DEF all
  <2>4. Tasks = all BY <1>4 DEF all, two
  <2> QED BY <1>5, <2>1, <2>3, <2>4, AppendProperties
<1> HIDE DEF s, n
<1>7. /\ \A i \in 1..Len(s) : i = 1 \/ i = 2 \/ i = n + 3 \/ \E k \in 1..n : i = k + 2
      /\ 1 \in 1..Len(s) /\ 2 \in 1..Len(s) /\ n + 3 \in 1..Len(s)
      /\ \A k \in 1..n : k + 2 \in 1..Len(s)
  <2>1. ASSUME NEW i \in 1..Len(s), i # 1, i # 2, i # n + 3 PROVE \E k \in 1..n : i = k + 2
    <3>1. i - 2 \in 1..n /\ i = (i - 2) + 2 BY <1>5, <1>6, <2>1
    <3> QED BY <3>1
  <2> QED BY <1>5, <1>6, <2>1
<1>8. /\ s[1].kind = "random" /\ s[2].kind = "random" /\ s[n + 3].kind = "rows"
      /\ \A k \in 1..n : s[k + 2].kind \notin {"random", "rows"}
  <2>1. \A k \in 1..n : s[k + 2].kind \notin {"random", "rows"} BY <1>5, <1>6 DEF Others
  <2> QED BY <1>6, <2>1 DEF Task
<1>9. ASSUME NEW i \in 1..Len(s), NEW j \in 1..Len(s), i < j, s[j].kind = "random"
      PROVE  s[i].kind = "random"
  <2>1. j = 1 \/ j = 2 BY <1>7, <1>8, <1>9
  <2>2. i = 1 BY <1>9, <2>1
  <2> QED BY <1>8, <2>2
<1>10. ASSUME NEW i \in 1..Len(s), s[i].kind = "rows" PROVE i = Len(s)
  <2>1. i = n + 3 BY <1>7, <1>8, <1>10
  <2> QED BY <1>6, <2>1
<1>11. ASSUME NEW t \in Measurements, t.kind # "rows" PROVE t \in Values(s)
  <2>1. \A i \in 1..Len(s) : s[i] \in Values(s) BY DEF Values
  <2>2. CASE t.kind = "random"
    <3>1. t = Task("random", 1, 0) \/ t = Task("random", 2, 0)
      <4>1. t \in [kind : {"random"}, workset : Worksets, arg : {0}]
        BY <2>2 DEF Measurements, Task
      <4> QED BY <4>1 DEF Worksets, Task
    <3> QED BY <1>6, <1>7, <2>1, <3>1
  <2>3. CASE t.kind # "random"
    <3>1. t \in Others BY <1>11, <2>3 DEF Others
    <3>2. PICK k \in 1..n : t = rest[k] BY <1>4, <3>1 DEF Values, n
    <3> QED BY <1>6, <1>7, <2>1, <3>2
  <2> QED BY <2>2, <2>3
<1>12. s # <<Task("worksets", 0, 0)>>
  <2>1. Len(<<Task("worksets", 0, 0)>>) = 1 OBVIOUS
  <2> QED BY <1>5, <1>6, <2>1
<1>13. ~Reported'
  <2>1. todo # << >> BY <1>1 DEF Doing
  <2> QED BY <1>2, <2>1 DEF TimesInvariant, Reported
<1>14. /\ worksets'[1] = 0 \/ worksets'[1] >= 4 * PageLines
       /\ worksets'[2] = 0 \/ 2 * worksets'[2] >= MinimumMemory
  BY <1>1, <1>2, SizesFit
<1>15. spoiled' = NoTask \/ MayBeSpoiled(spoiled)' BY <1>2 DEF TimesInvariant, MayBeSpoiled
<1> QED BY <1>2, <1>3, <1>9, <1>10, <1>11, <1>12, <1>13, <1>14, <1>15 DEF TimesInvariant

LEMMA PassOverKeeps ==
    ASSUME PrefetchInvariant, TimesInvariant, PassOver
    PROVE  TimesInvariant'
<1>1. todo # << >> /\ Head(todo).kind # "worksets" /\ ~Measurable(Head(todo))
      /\ todo' = Tail(todo) /\ UNCHANGED <<machine, worksets, ns, spoiled, report>>
  BY DEF PassOver
<1>2. todo \in Seq(Measurements)
  <2>1. todo # <<Task("worksets", 0, 0)>> BY <1>1 DEF Task
  <2> QED BY <2>1 DEF PrefetchInvariant
<1>3. Values(todo) = {Head(todo)} \cup Values(todo') /\ todo' \in Seq(Measurements)
  <2> HIDE DEF Measurements
  <2> QED BY <1>1, <1>2, TailIs
<1>4. todo' # <<Task("worksets", 0, 0)>>
  <2>1. Task("worksets", 0, 0) \notin Measurements
    <3>1. Task("worksets", 0, 0).kind = "worksets" BY DEF Task
    <3> QED BY <3>1, ArgumentsAre
  <2> HIDE DEF Measurements
  <2>2. ASSUME NEW q \in Seq(Measurements), Len(q) > 0 PROVE q[1] \in Measurements
    <3>1. Head(q) \in Measurements /\ Head(q) = q[1] BY <2>2, HeadTailProperties
    <3> QED BY <3>1
  <2>3. LET q == <<Task("worksets", 0, 0)>> IN Len(q) > 0 /\ q[1] = Task("worksets", 0, 0)
    OBVIOUS
  <2> QED BY <1>3, <2>1, <2>2, <2>3
<1>5. \A t \in Measurements :
          t.kind # "rows" /\ Measurable(t) /\ t \in Values(todo) => t \in Values(todo')
  BY <1>1, <1>3
<1>6. ~Reported' BY <1>1 DEF TimesInvariant, Reported
<1>7. /\ \A i, j \in 1..Len(todo') : i < j /\ todo'[j].kind = "random" => todo'[i].kind = "random"
      /\ \A i \in 1..Len(todo') : todo'[i].kind = "rows" => i = Len(todo')
  BY <1>1, <1>2, TailInOrder
<1> QED BY <1>1, <1>4, <1>5, <1>6, <1>7, TimesKeep

LEMMA RowsFollowAll ==
    ASSUME PrefetchInvariant, TimesInvariant, Doing("rows"), NEW t \in Measurements,
           t.kind # "rows", Measurable(t)
    PROVE  t \in DOMAIN ns
<1>1. todo # << >> /\ Head(todo).kind = "rows" BY DEF Doing
<1>2. todo \in Seq(Measurements)
  <2>1. todo # <<Task("worksets", 0, 0)>> BY <1>1 DEF Task
  <2> QED BY <2>1 DEF PrefetchInvariant
<1>3. Len(todo) \in Nat /\ Len(todo) > 0 /\ Head(todo) = todo[1]
  <2> HIDE DEF Measurements
  <2> QED BY <1>1, <1>2, HeadTailProperties
<1>4. Len(todo) = 1
  <2>1. 1 \in 1..Len(todo) BY <1>3
  <2> QED BY <1>1, <1>3, <2>1 DEF TimesInvariant
<1>5. t \notin Values(todo)
  <2>1. \A i \in 1..1 : i = 1 OBVIOUS
  <2> QED BY <1>1, <1>3, <1>4, <2>1 DEF Values
<1> QED BY <1>5 DEF TimesInvariant

LEMMA DistanceKeeps ==
    ASSUME PrefetchInvariant, TimesInvariant, MeasureDistance
    PROVE  TimesInvariant'
<1> DEFINE t == Head(todo)
           c == t.workset
           w == Columns[c].workset
<1>1. todo # << >> /\ t.kind = "distance" /\ Measurable(t) BY DEF MeasureDistance, Measuring, Doing
<1>2. t \in Measurements BY <1>1, HeadIs
<1>3. todo \in Seq(Measurements)
  <2>1. todo # <<Task("worksets", 0, 0)>> BY <1>1 DEF Task
  <2> QED BY <2>1 DEF PrefetchInvariant
<1>4. c \in DOMAIN Columns /\ w \in Worksets /\ worksets[w] > 0 BY <1>1, <1>2, MeasurableIs
<1>5. t.arg \in Nat
  <2>1. Distances \in Seq(Nat) BY GridsAssumption
  <2>2. t.arg \in Range(Distances) BY <1>1, <1>2, ArgumentsAre
  <2> QED BY <2>1, <2>2 DEF Range
<1>6. CASE t.arg = 0
  <2> DEFINE y == ns[Task("random", w, 0)]
  <2>1. ns' = With(t, y) /\ todo' = Tail(todo) /\ UNCHANGED <<machine, worksets, spoiled, report>>
    BY <1>6 DEF MeasureDistance
  <2>2. y = Lap(w) /\ y \in Nat \ {0}
    <3>1. y = Lap(w) BY <1>1, <1>3, <1>4, RandomKnown
    <3>2. Lap(w) \in Nat \ {0} BY <1>4, SizesOf
    <3> QED BY <3>1, <3>2
  <2> HIDE DEF y
  <2>3. Takes(t, y) BY <1>1, <1>6, <2>2 DEF Takes
  <2> QED BY <1>1, <1>2, <1>3, <2>1, <2>3, MeasuredKeeps
<1>7. CASE t.arg # 0
  <2>1. Timed(PrefetchTime(ring, nodes, c, t.arg)) BY <1>7 DEF MeasureDistance
  <2>2. Takes(t, PrefetchTime(ring, nodes, c, t.arg))
    BY <1>1, <1>4, <1>5, <1>7, PrefetchTakes
  <2> QED BY <1>1, <1>2, <1>3, <1>7, <2>1, <2>2, TimedKeeps
<1> QED BY <1>6, <1>7

\* Each time recorded is that of the machine, or Spoiled times it, once; what can be
\* measured is measured, and the latencies in random order before the rest.
THEOREM TimesInvariantHolds == PrefetchSpec => []TimesInvariant
<1>1. PrefetchInit => TimesInvariant
  <2> SUFFICES ASSUME PrefetchInit PROVE TimesInvariant OBVIOUS
  <2>1. /\ worksets = [w \in Worksets |-> 0] /\ todo = <<Task("worksets", 0, 0)>>
        /\ ns = << >> /\ spoiled = NoTask /\ report = [what |-> "nothing"]
    BY DEF PrefetchInit
  <2>2. (\A w \in Worksets : worksets[w] = 0) /\ worksets[1] = 0 /\ worksets[2] = 0
    BY <2>1 DEF Worksets
  <2>3. DOMAIN ns = {} BY <2>1
  <2>4. Len(todo) = 1 /\ todo[1].kind = "worksets" BY <2>1 DEF Task
  <2>5. \A i \in 1..1 : i = 1 OBVIOUS
  <2>6. \A t \in Measurements : t.kind # "rows" => ~Measurable(t) BY <2>2, MeasurableIs
  <2>7. ~Reported BY <2>1 DEF Reported
  <2> QED BY <2>1, <2>2, <2>3, <2>4, <2>5, <2>6, <2>7 DEF TimesInvariant
<1>2. PrefetchInvariant /\ TimesInvariant /\ [PrefetchNext]_prefetchVars => TimesInvariant'
  <2> SUFFICES ASSUME PrefetchInvariant, TimesInvariant, [PrefetchNext]_prefetchVars
               PROVE  TimesInvariant'
    OBVIOUS
  <2>1. ASSUME NEW why, Doing("worksets"), Unmeasured(why) PROVE TimesInvariant'
    <3>1. todo' = << >> /\ UNCHANGED <<machine, worksets, ns, spoiled>> BY <2>1 DEF Unmeasured
    <3>2. \A t \in Measurements : t.kind # "rows" => ~Measurable(t) BY <2>1, NotSized
    <3> QED BY <3>1, <3>2, EndKeeps
  <2>2. CASE NoLevels BY <2>1, <2>2 DEF NoLevels
  <2>3. CASE NothingMapped BY <2>1, <2>3 DEF NothingMapped
  <2>4. CASE SizeWorksets BY <2>4, SizesKeep
  <2>5. CASE PassOver BY <2>5, PassOverKeeps
  <2> DEFINE t == Head(todo)
  <2>6. ASSUME NEW kind \in {"random", "stride", "segment"}, Measuring(kind)
        PROVE  /\ todo # << >> /\ t.kind = kind /\ t \in Measurements /\ Measurable(t)
               /\ todo \in Seq(Measurements) /\ t.workset \in Worksets
               /\ worksets[t.workset] \in Nat \ {0}
    <3>1. todo # << >> /\ t.kind = kind /\ kind # "worksets" /\ kind # "rows"
          /\ kind # "distance" /\ Measurable(t)
      BY <2>6 DEF Measuring, Doing
    <3>2. t \in Measurements BY <3>1, HeadIs
    <3>3. todo # <<Task("worksets", 0, 0)>> BY <3>1 DEF Task
    <3>4. todo \in Seq(Measurements) BY <3>3 DEF PrefetchInvariant
    <3>5. t.workset \in Worksets /\ worksets[t.workset] > 0 BY <3>1, <3>2, MeasurableIs
    <3>6. worksets[t.workset] \in Nat BY <3>5 DEF PrefetchInvariant
    <3> QED BY <3>1, <3>2, <3>4, <3>5, <3>6
  <2> DEFINE w == t.workset
             n == worksets[w]
  <2>7. CASE MeasureRandom
    <3>1. Measuring("random") /\ MeasureOrder(RandomOrder(n), w) BY <2>7 DEF MeasureRandom
    <3>2. /\ todo # << >> /\ t.kind = "random" /\ t \in Measurements /\ todo \in Seq(Measurements)
          /\ w \in Worksets /\ n \in Nat \ {0}
      BY <2>6, <3>1
    <3>3. RandomOrder(n) \in Orders(n)
      <4> HIDE DEF n
      <4> QED BY <3>2, RandomOrderIs
    <3>4. \A r : Laps(Rotated(RandomOrder(n)), n, r) => Takes(t, ChaseTime(r, n, w))
      <4> SUFFICES ASSUME NEW r, Laps(Rotated(RandomOrder(n)), n, r) PROVE Takes(t, ChaseTime(r, n, w))
        OBVIOUS
      <4>1. worksets[w] > 0 BY <3>2
      <4> QED BY <4>1, <3>2, RandomTakes
    <3> QED BY <3>1, <3>2, <3>3, <3>4, OrderKeeps
  <2>8. CASE MeasureStride
    <3> DEFINE d == t.arg
    <3>1. Measuring("stride") /\ MeasureOrder(StrideOrder(n, d), w) BY <2>8 DEF MeasureStride
    <3>2. /\ todo # << >> /\ t.kind = "stride" /\ t \in Measurements /\ todo \in Seq(Measurements)
          /\ w \in Worksets /\ n \in Nat \ {0}
      BY <2>6, <3>1
    <3>3. d \in Range(Strides) BY <3>2, ArgumentsAre
    <3>4. d \in 1..(n - 1)
      <4>1. d \in Nat \ {0} /\ d < n BY <3>2, <3>3, SizesOf
      <4> QED BY <3>2, <4>1
    <3>5. StrideOrder(n, d) \in Orders(n)
      <4> HIDE DEF n, d
      <4> QED BY <3>2, <3>4, StrideOrderIs
    <3>6. \A r : Laps(Rotated(StrideOrder(n, d)), n, r) => Takes(t, ChaseTime(r, n, w))
      <4> SUFFICES ASSUME NEW r, Laps(Rotated(StrideOrder(n, d)), n, r) PROVE Takes(t, ChaseTime(r, n, w))
        OBVIOUS
      <4>1. worksets[w] > 0 BY <3>2
      <4> QED BY <4>1, <3>2, <3>3, StrideTakes
    <3> QED BY <3>1, <3>2, <3>5, <3>6, OrderKeeps
  <2>9. CASE MeasureSegment
    <3> DEFINE d == t.arg
    <3>1. Measuring("segment") /\ MeasureOrder(SegmentOrder(worksets[2], d), 2)
      BY <2>9 DEF MeasureSegment
    <3>2. /\ todo # << >> /\ t.kind = "segment" /\ t \in Measurements /\ todo \in Seq(Measurements)
          /\ w \in Worksets /\ n \in Nat \ {0}
      BY <2>6, <3>1
    <3>3. d \in Range(Segments) /\ w = 2 BY <3>2, ArgumentsAre
    <3>4. d \in 1..(n - 1)
      <4>1. d \in Nat /\ d >= 2 /\ d < n BY <3>2, <3>3, SegmentsOf
      <4> QED BY <3>2, <4>1
    <3>5. SegmentOrder(n, d) \in Orders(n)
      <4> HIDE DEF n, d
      <4> QED BY <3>2, <3>4, SegmentOrderIs
    <3>6. \A r : Laps(Rotated(SegmentOrder(n, d)), n, r) => Takes(t, ChaseTime(r, n, w))
      BY <3>2, <3>3, SegmentTakes
    <3> QED BY <3>1, <3>2, <3>3, <3>5, <3>6, OrderKeeps
  <2>10. CASE MeasureDistance BY <2>10, DistanceKeeps
  <2>11. CASE Rows
    <3>1. Doing("rows") /\ todo' = << >> /\ UNCHANGED <<machine, worksets, ns, spoiled>>
      BY <2>11 DEF Rows
    <3>2. todo # << >> /\ Head(todo).kind = "rows" BY <3>1 DEF Doing
    <3>3. Head(todo) = todo[1] /\ Len(todo) \in Nat /\ Len(todo) > 0
      <4>1. todo # <<Task("worksets", 0, 0)>> BY <3>2 DEF Task
      <4>2. todo \in Seq(Measurements) BY <4>1 DEF PrefetchInvariant
      <4> HIDE DEF Measurements
      <4> QED BY <3>2, <4>2, HeadTailProperties
    <3>4. Len(todo) = 1
      <4>1. 1 \in 1..Len(todo) BY <3>3
      <4> QED BY <3>2, <3>3, <4>1 DEF TimesInvariant
    <3>5. \A u \in Values(todo) : u.kind = "rows"
      <4>1. \A i \in 1..1 : i = 1 OBVIOUS
      <4> QED BY <3>2, <3>3, <3>4, <4>1 DEF Values
    <3>6. \A u \in Measurements : u.kind # "rows" => u \notin Values(todo) BY <3>5
    <3>7. << >> # <<Task("worksets", 0, 0)>> /\ Len(<< >>) = 0 OBVIOUS
    <3>8. ASSUME NEW u \in Measurements, u.kind # "rows", Measurable(u), u \in Values(todo)
          PROVE  FALSE
      BY <3>6, <3>8
    <3>9. 1..Len(todo') = {} BY <3>1, <3>7
    <3> QED BY <3>1, <3>7, <3>8, <3>9, TimesKeep
  <2>12. CASE UNCHANGED prefetchVars
    <3>1. UNCHANGED <<machine, todo, worksets, ns, spoiled, report>> BY <2>12 DEF prefetchVars
    <3>2. ASSUME NEW u \in DOMAIN ns PROVE u \in Measurements /\ Told(u)'
      <4>1. u \in Measurements /\ Told(u) BY DEF TimesInvariant
      <4>2. PICK y : Takes(u, y) /\ (ns[u] = y \/ (spoiled = u /\ ns[u] = Spoiled * y))
        BY <4>1 DEF Told
      <4>3. Takes(u, y)' <=> Takes(u, y) BY <3>1 DEF Takes, Lap, StrideLap, SegmentLap
      <4> QED BY <3>1, <4>1, <4>2, <4>3 DEF Told
    <3>3. \A u : Measurable(u)' <=> Measurable(u) BY <3>1 DEF Measurable
    <3>4. \A u : MayBeSpoiled(u)' <=> MayBeSpoiled(u) BY DEF MayBeSpoiled
    <3> QED BY <3>1, <3>2, <3>3, <3>4 DEF TimesInvariant, Reported
  <2> QED BY <2>2, <2>3, <2>4, <2>5, <2>7, <2>8, <2>9, <2>10, <2>11, <2>12 DEF PrefetchNext
<1> QED BY <1>1, <1>2, PrefetchInvariantHolds, PTL DEF PrefetchSpec

-----------------------------------------------------------------------------
(* What the analysis reads.                                                *)

LEMMA NsTold ==
    ASSUME TimesInvariant, NEW kind, NEW w, NEW a, Ns(kind, w, a) # 0
    PROVE  LET t == Task(kind, w, a)
           IN  /\ t \in Measurements /\ t.kind = kind /\ t.workset = w /\ t.arg = a
               /\ \E y : /\ Takes(t, y)
                         /\ \/ Ns(kind, w, a) = y
                            \/ spoiled = t /\ Ns(kind, w, a) = Spoiled * y
<1> DEFINE t == Task(kind, w, a)
<1>1. t \in DOMAIN ns /\ Ns(kind, w, a) = ns[t] BY DEF Ns
<1>2. t \in Measurements /\ Told(t) BY <1>1 DEF TimesInvariant
<1>3. t.kind = kind /\ t.workset = w /\ t.arg = a BY DEF Task
<1> HIDE DEF t
<1> QED BY <1>1, <1>2, <1>3 DEF Told, t

\* None is as if it were not measured.
LEMMA NsAtLeast ==
    ASSUME TimesInvariant, NEW kind, NEW w, NEW a, Ns(kind, w, a) # 0
    PROVE  \E y \in Nat \ {0} :
               /\ Takes(Task(kind, w, a), y)
               /\ Ns(kind, w, a) \in Nat /\ Ns(kind, w, a) >= y
               /\ spoiled # Task(kind, w, a) => Ns(kind, w, a) = y
<1> DEFINE t == Task(kind, w, a)
           x == Ns(kind, w, a)
<1>1. PICK y : Takes(t, y) /\ (x = y \/ (spoiled = t /\ x = Spoiled * y)) BY NsTold
<1>2. y \in Nat \ {0} BY <1>1 DEF Takes
<1>3. Spoiled \in Nat \ {0} BY GridsAssumption
<1>4. Spoiled * y \in Nat /\ Spoiled * y >= y
  <2> DEFINE one == 1
  <2>1. one \in Nat /\ one <= Spoiled BY <1>3
  <2> HIDE DEF one
  <2>2. y * one <= y * Spoiled BY <1>2, <1>3, <2>1, TimesMonotone
  <2> QED BY <1>2, <1>3, <2>2 DEF one
<1> HIDE DEF x, t
<1>5. x \in Nat /\ x >= y /\ (spoiled # t => x = y) BY <1>1, <1>2, <1>4
<1> QED BY <1>1, <1>2, <1>5 DEF x, t

LEMMA NsIsNat ==
    ASSUME TimesInvariant, NEW kind, NEW w, NEW a
    PROVE  Ns(kind, w, a) \in Nat
BY NsAtLeast

\* What can be measured has been when the rows are made.
LEMMA NsMade ==
    ASSUME PrefetchInvariant, TimesInvariant, Doing("rows"), NEW kind, NEW w, NEW a,
           Task(kind, w, a) \in Measurements, kind # "rows", Measurable(Task(kind, w, a))
    PROVE  Ns(kind, w, a) \in Nat \ {0}
<1> DEFINE t == Task(kind, w, a)
<1>1. t.kind # "rows" BY DEF Task
<1>2. t \in DOMAIN ns BY <1>1, RowsFollowAll
<1>3. Told(t) BY <1>2 DEF TimesInvariant
<1>4. PICK y : Takes(t, y) /\ (ns[t] = y \/ ns[t] = Spoiled * y) BY <1>3 DEF Told
<1>5. y \in Nat \ {0} BY <1>4 DEF Takes
<1>6. Spoiled * y # 0
  <2>1. Spoiled \in Nat \ {0} BY GridsAssumption
  <2> QED BY <1>5, <2>1
<1>7. Ns(kind, w, a) # 0 BY <1>2, <1>4, <1>5, <1>6 DEF Ns
<1> QED BY <1>7, NsIsNat

-----------------------------------------------------------------------------
(* The distance recommended.                                               *)

LEMMA SummaryIs ==
    ASSUME PrefetchInvariant, TimesInvariant, NEW c \in DOMAIN Columns,
           DistanceSummary(c).effective
    PROVE  LET d == DistanceSummary(c)
           IN  d.needed > 0 /\ 97 * d.alone <= 100 * d.best * d.needed
<1> DEFINE alone == Ns("distance", c, 0)
           K == MeasuredAt("distance", c, Distances)
           times == {Ns("distance", c, Distances[k]) : k \in K}
           least == Min(times)
           near == {k \in K : 100 * Ns("distance", c, Distances[k]) <= 103 * least}
           k == Min(near)
           d == Distances[k]
           x == Ns("distance", c, d)
<1>1. /\ alone # 0 /\ times # {}
      /\ DistanceSummary(c) = [alone |-> alone, best |-> least, needed |-> d,
                               effective |-> 10 * least <= 9 * alone]
  BY DEF DistanceSummary, DistanceNeeded
<1>2. 10 * least <= 9 * alone
  <2> DEFINE helps == 10 * least <= 9 * alone
  <2> HIDE DEF alone, least, d
  <2>0. DistanceSummary(c) = [alone |-> alone, best |-> least, needed |-> d, effective |-> helps]
    BY <1>1
  <2> HIDE DEF helps
  <2>1. DistanceSummary(c).effective = helps BY <2>0
  <2>2. helps BY <2>1
  <2> QED BY <2>2 DEF helps
<1>3. alone \in Nat \ {0} /\ times \subseteq Nat BY <1>1, NsIsNat
<1>4. least \in times /\ least \in Nat \ {0}
  <2>1. least \in times
    <3> HIDE DEF times
    <3> QED BY <1>1, <1>3, MinOf
  <2>2. \A y \in times : y > 0 BY DEF MeasuredAt
  <2>3. times \subseteq Nat BY <1>3
  <2> HIDE DEF times, least
  <2>4. least \in Nat /\ least > 0 BY <2>1, <2>2, <2>3
  <2> QED BY <2>1, <2>4
<1> HIDE DEF least
<1>5. Distances \in Seq(Nat) BY GridsAssumption
<1>6. K \subseteq Nat /\ K \subseteq DOMAIN Distances
  <2>1. DOMAIN Distances = 1..Len(Distances) /\ Len(Distances) \in Nat BY <1>5
  <2> QED BY <2>1 DEF MeasuredAt
<1>7. near # {}
  <2>1. PICK j \in K : least = Ns("distance", c, Distances[j]) BY <1>4
  <2>2. 100 * least <= 103 * least BY <1>4
  <2> QED BY <2>1, <2>2
<1>8. k \in near
  <2>1. near \subseteq Nat BY <1>6
  <2> HIDE DEF near
  <2> QED BY <1>7, <2>1, MinOf
<1> HIDE DEF k
<1>9. d \in Nat /\ x > 0 /\ 100 * x <= 103 * least
  <2>1. k \in K /\ 100 * x <= 103 * least BY <1>8
  <2>2. x > 0 BY <2>1 DEF MeasuredAt
  <2> QED BY <1>5, <1>6, <2>1, <2>2
<1> HIDE DEF d, K, times, near
<1>10. PICK y \in Nat \ {0} : Takes(Task("distance", c, d), y) /\ x \in Nat /\ x >= y
  <2>1. x # 0 BY <1>9
  <2> QED BY <2>1, NsAtLeast
<1> DEFINE lap == Lap(Columns[c].workset)
<1>11. alone = lap
  <2> DEFINE t == Task("distance", c, 0)
  <2>1. PICK z \in Nat \ {0} : Takes(t, z) /\ (spoiled # t => alone = z) BY <1>1, NsAtLeast
  <2>2. t.kind = "distance" /\ t.workset = c /\ t.arg = 0 BY DEF Task
  <2>3. spoiled # t BY <2>2 DEF TimesInvariant, MayBeSpoiled, NoTask
  <2> HIDE DEF t
  <2>4. z = lap BY <2>1, <2>2 DEF Takes
  <2> QED BY <2>1, <2>3, <2>4
<1>12. IF d = 0 THEN y = lap ELSE d * y >= lap
  <2>1. LET t == Task("distance", c, d) IN t.kind = "distance" /\ t.workset = c /\ t.arg = d
    BY DEF Task
  <2> QED BY <1>10, <2>1 DEF Takes
<1> HIDE DEF lap, x, alone
<1>13. d # 0
  <2> SUFFICES ASSUME d = 0 PROVE FALSE OBVIOUS
  <2>1. y = alone BY <1>11, <1>12
  <2> QED BY <1>2, <1>3, <1>4, <1>9, <1>10, <2>1
<1>14. 97 * alone <= 100 * least * d
  <2>1. d * y <= d * x BY <1>9, <1>10, TimesMonotone
  <2> DEFINE u == d * y
             v == d * x
             z == d * least
  <2>2. u \in Nat /\ v \in Nat /\ z \in Nat BY <1>4, <1>9, <1>10
  <2>3. alone <= v BY <1>3, <1>11, <1>12, <1>13, <2>1, <2>2
  <2>4. 100 * v <= 103 * z
    <3> DEFINE p == 100 * x
               q == 103 * least
    <3>1. p \in Nat /\ q \in Nat /\ p <= q BY <1>4, <1>9, <1>10
    <3>2. d * p = 100 * v /\ d * q = 103 * z BY <1>4, <1>9, <1>10
    <3> HIDE DEF p, q, v, z
    <3>3. d * p <= d * q BY <1>9, <3>1, TimesMonotone
    <3> QED BY <3>2, <3>3
  <2>5. 100 * least * d = 100 * z BY <1>4, <1>9
  <2> HIDE DEF u, v, z
  <2> QED BY <1>3, <2>2, <2>3, <2>4, <2>5
<1>15. DistanceSummary(c).alone = alone /\ DistanceSummary(c).best = least
       /\ DistanceSummary(c).needed = d
  BY <1>1
<1> QED BY <1>9, <1>13, <1>14, <1>15

-----------------------------------------------------------------------------
(* The reach of the stride prefetcher.                                     *)

\* What a stride hides of a lap, in latencies.
Hides(w, s) == (100 - machine.share[s]) * (worksets[w] - 2 * s)

LEMMA HidesIs ==
    ASSUME PrefetchInvariant, TimesInvariant, NEW w \in Worksets, worksets[w] > 0,
           NEW s \in Range(Strides)
    PROVE  /\ Hides(w, s) \in Nat /\ Hides(w, s) <= (100 - machine.share[s]) * (worksets[w] - 2)
           /\ machine.share[s] \in 1..100 /\ worksets[w] \in Nat /\ worksets[w] >= 2
           /\ Lap(w) - StrideLap(w, s) = Hides(w, s) * machine.slow[w]
<1> DEFINE n == worksets[w]
           l == machine.slow[w]
           b == 100 - machine.share[s]
           m == n - 2 * s
           k == n - 2
           h == Hides(w, s)
<1>1. n \in Nat \ {0} /\ l \in Nat \ {0} /\ machine \in Machines BY SizesOf DEF PrefetchInvariant
<1>2. s \in Nat \ {0} /\ 2 * s <= n /\ s \in DOMAIN machine.share BY SizesOf
<1>3. machine.share[s] \in 1..100 BY <1>1, <1>2, MachineIs
<1>4. b \in Nat /\ m \in Nat /\ k \in Nat /\ m <= k /\ n >= 2 BY <1>1, <1>2, <1>3
<1>5. h = b * m /\ Lap(w) = 100 * n * l /\ StrideLap(w, s) = (100 * n - b * m) * l
  BY DEF Hides, Lap, StrideLap
<1> HIDE DEF b, m, k, h, n, l
<1>6. b * m \in Nat /\ b * m <= b * k
  <2>1. b * m \in Nat /\ b * k \in Nat BY <1>4
  <2>2. CASE b = 0 BY <1>4, <2>1, <2>2
  <2>3. CASE b # 0 BY <1>4, <2>1, <2>3, TimesMonotone
  <2> QED BY <2>2, <2>3
<1>7. 100 * n * l - (100 * n - b * m) * l = (b * m) * l
  <2> DEFINE x == 100 * n
             y == b * m
  <2>1. x \in Int /\ y \in Int BY <1>1, <1>6
  <2> HIDE DEF x, y
  <2>2. x * l - (x - y) * l = y * l BY <1>1, <2>1
  <2> QED BY <2>2 DEF x, y
<1>8. h \in Nat /\ h <= b * k /\ Lap(w) - StrideLap(w, s) = h * l BY <1>5, <1>6, <1>7
<1> QED BY <1>1, <1>3, <1>4, <1>8 DEF h, b, k, n, l

LEMMA HiddenIs ==
    ASSUME PrefetchInvariant, TimesInvariant, Doing("rows"), NEW w \in Worksets, worksets[w] > 0,
           NEW s \in Range(Strides)
    PROVE  /\ Ns("random", w, 0) = Lap(w) /\ Lap(w) \in Nat \ {0}
           /\ Ns("stride", w, s) \in Nat \ {0}
           /\ Hidden(w, s) \in Int /\ Hidden(w, s) <= Hides(w, s) * machine.slow[w]
           /\ s = 1 \/ spoiled.kind # "stride" => Hidden(w, s) = Hides(w, s) * machine.slow[w]
<1> DEFINE t == Task("stride", w, s)
           u == Task("random", w, 0)
           x == Ns("stride", w, s)
           z == Ns("random", w, 0)
<1>1. t \in Measurements /\ t.kind = "stride" /\ t.workset = w /\ t.arg = s
      /\ u \in Measurements /\ u.kind = "random" /\ u.workset = w
  BY DEF Measurements, Task
<1>2. Measurable(t) /\ Measurable(u)
  <2>1. s < worksets[w] BY SizesOf
  <2> QED BY <1>1, <2>1 DEF Measurable
<1>3. x \in Nat \ {0} /\ z \in Nat \ {0} BY <1>1, <1>2, NsMade
<1>4. PICK y \in Nat \ {0} : Takes(t, y) /\ x >= y /\ (spoiled # t => x = y) BY <1>3, NsAtLeast
<1>5. PICK v \in Nat \ {0} : Takes(u, v) /\ z >= v /\ (spoiled # u => z = v) BY <1>3, NsAtLeast
<1>6. y = StrideLap(w, s) /\ v = Lap(w) BY <1>1, <1>4, <1>5 DEF Takes
<1>7. spoiled # u /\ (s = 1 \/ spoiled.kind # "stride" => spoiled # t)
  BY <1>1 DEF TimesInvariant, MayBeSpoiled, NoTask
<1>8. Hidden(w, s) = z - x BY DEF Hidden
<1>9. Lap(w) - StrideLap(w, s) = Hides(w, s) * machine.slow[w] BY HidesIs
<1> HIDE DEF x, z, t, u
<1> QED BY <1>3, <1>4, <1>5, <1>6, <1>7, <1>8, <1>9 DEF x, z

\* Strides that are longer come later.
LEMMA StridesIn ==
    ASSUME NEW K \in SUBSET (DOMAIN Strides), K # {}
    PROVE  /\ Max(K) \in K /\ Strides[Max(K)] \in Nat \ {0}
           /\ \A i \in DOMAIN Strides : Strides[i] <= Strides[Max(K)] => i <= Max(K)
<1>1. Strides \in Seq(Nat \ {0}) BY GridsAssumption
<1>2. DOMAIN Strides = 1..Len(Strides) /\ Len(Strides) \in Nat BY <1>1
<1>3. \A i, j \in DOMAIN Strides : i < j => Strides[i] < Strides[j] BY GridsAssumption
<1> DEFINE m == Max(K)
<1>4. m \in K
  <2>1. K \subseteq 0..Len(Strides) BY <1>2
  <2> QED BY <1>2, <2>1, MaxOfBounded
<1> HIDE DEF m
<1>5. m \in DOMAIN Strides /\ Strides[m] \in Nat \ {0} BY <1>1, <1>4
<1>6. ASSUME NEW i \in DOMAIN Strides, Strides[i] <= Strides[m] PROVE i <= m
  <2>1. Strides[i] \in Nat BY <1>1
  <2>2. ~(m < i) BY <1>3, <1>5, <1>6, <2>1
  <2> QED BY <1>2, <1>5, <2>2
<1> QED BY <1>4, <1>5, <1>6 DEF m

LEMMA OneIsFirst ==
    /\ 1 \in DOMAIN Strides /\ Strides[1] = 1
    /\ 1 \in Range(Strides)
<1>1. Strides \in Seq(Nat \ {0}) /\ Strides # << >> /\ Strides[1] = 1 BY GridsAssumption
<1>2. 1 \in DOMAIN Strides BY <1>1
<1>3. Strides[1] = 1 BY <1>1
<1> QED BY <1>2, <1>3 DEF Range

\* Whatever was disturbed, a stride within the reach is one the machine follows.
LEMMA ReachFollowed ==
    ASSUME PrefetchInvariant, TimesInvariant, Doing("rows"), NEW w \in Worksets,
           NEW s \in Range(Strides), s <= StrideReach(w)
    PROVE  /\ machine.share[1] <= 80
           /\ 2 * (100 - machine.share[s]) >= 100 - machine.share[1]
<1> DEFINE Follows(k) == /\ Ns("stride", w, Strides[k]) > 0
                         /\ 2 * Hidden(w, Strides[k]) >= Hidden(w, 1)
           followed == {k \in DOMAIN Strides : \A j \in 1..k : Follows(j)}
           n == worksets[w]
           l == machine.slow[w]
           a == 100 - machine.share[1]
           b == 100 - machine.share[s]
           h1 == Hides(w, 1)
           hs == Hides(w, s)
<1>1. StrideReach(w) =
          IF \/ Ns("random", w, 0) = 0 \/ Ns("stride", w, 1) = 0
             \/ 5 * Hidden(w, 1) < Ns("random", w, 0) \/ followed = {}
          THEN 0 ELSE Strides[Max(followed)]
  BY DEF StrideReach
<1>2. s \in Nat \ {0}
  <2>1. Strides \in Seq(Nat \ {0}) BY GridsAssumption
  <2> QED BY <2>1 DEF Range
<1>3. /\ Ns("random", w, 0) # 0 /\ Ns("stride", w, 1) # 0
      /\ ~(5 * Hidden(w, 1) < Ns("random", w, 0)) /\ followed # {}
      /\ StrideReach(w) = Strides[Max(followed)]
  <2> HIDE DEF followed
  <2> QED BY <1>1, <1>2
<1>4. n \in Nat /\ n > 0
  <2>1. PICK y \in Nat \ {0} : Takes(Task("random", w, 0), y) BY <1>3, NsAtLeast
  <2>2. y = Lap(w) /\ Lap(w) = 100 * n * l BY <2>1 DEF Takes, Task, Lap
  <2>3. n # 0
    <3> SUFFICES ASSUME n = 0 PROVE FALSE OBVIOUS
    <3>1. l \in Nat BY MachineIs DEF PrefetchInvariant
    <3>2. 100 * n * l = 0
      <4> HIDE DEF l, n
      <4> QED BY <2>3, <3>1
    <3> QED BY <2>1, <2>2, <3>2
  <2> QED BY <2>3 DEF PrefetchInvariant
<1>5. 1 \in Range(Strides) /\ l \in Nat \ {0} BY <1>4, OneIsFirst, SizesOf
<1>6. /\ h1 \in Nat /\ h1 = a * (n - 2) /\ hs \in Nat /\ hs <= b * (n - 2) /\ n >= 2
      /\ a \in Nat /\ b \in Nat
  <2>1. h1 \in Nat /\ n >= 2 /\ a \in Nat BY <1>4, <1>5, HidesIs
  <2>2. hs \in Nat /\ hs <= b * (n - 2) /\ b \in Nat BY <1>4, HidesIs
  <2>3. h1 = a * (n - 2) BY <1>4 DEF Hides
  <2> QED BY <2>1, <2>2, <2>3
<1>7. Hidden(w, 1) = h1 * l /\ Ns("random", w, 0) = 100 * n * l BY <1>4, <1>5, HiddenIs DEF Lap
<1>8. Hidden(w, s) \in Int /\ Hidden(w, s) <= hs * l BY <1>4, HiddenIs
<1>9. 2 * Hidden(w, s) >= Hidden(w, 1)
  <2>1. followed \in SUBSET (DOMAIN Strides) OBVIOUS
  <2>2. PICK i \in DOMAIN Strides : s = Strides[i] BY DEF Range
  <2>3. DOMAIN Strides = 1..Len(Strides)
    <3>1. Strides \in Seq(Nat \ {0}) BY GridsAssumption
    <3> QED BY <3>1
  <2> DEFINE m == Max(followed)
  <2>4. m \in followed /\ i <= m
    <3> HIDE DEF followed
    <3> QED BY <1>3, <2>1, <2>2, StridesIn
  <2> HIDE DEF m
  <2>5. m \in DOMAIN Strides /\ \A j \in 1..m : Follows(j) BY <2>4
  <2>6. i \in 1..m BY <2>3, <2>4, <2>5
  <2>7. Follows(i) BY <2>5, <2>6
  <2> QED BY <2>2, <2>7
<1> HIDE DEF n, l, a, b, h1, hs
<1>10. 100 * n <= 5 * h1
  <2> SUFFICES ASSUME 5 * h1 < 100 * n PROVE FALSE
    <3>1. 5 * h1 \in Nat /\ 100 * n \in Nat BY <1>4, <1>6
    <3> QED BY <3>1
  <2>1. l * (5 * h1) < l * (100 * n)
    <3> DEFINE x == 5 * h1
               y == 100 * n
    <3>1. x \in Nat /\ y \in Nat /\ x < y BY <1>4, <1>6
    <3> HIDE DEF x, y
    <3>2. l * x < l * y BY <1>5, <3>1, TimesMonotone
    <3> QED BY <3>2 DEF x, y
  <2>2. l * (5 * h1) = 5 * (h1 * l) /\ l * (100 * n) = 100 * n * l /\ h1 * l \in Int
    BY <1>4, <1>5, <1>6
  <2> QED BY <1>3, <1>7, <2>1, <2>2
<1> DEFINE gap == n - 2
<1>11. gap \in Nat /\ n = gap + 2 BY <1>4, <1>6
<1> HIDE DEF gap
<1>12. h1 = a * gap /\ hs <= b * gap BY <1>6 DEF gap
<1>13. a >= 20
  <2> SUFFICES ASSUME a <= 19 PROVE FALSE BY <1>6
  <2>1. a * gap <= 19 * gap
    <3>1. \A z \in 0..19 : z * gap <= 19 * gap BY <1>11
    <3>2. a \in 0..19 BY <1>6, <2>1
    <3> QED BY <3>1, <3>2
  <2> QED BY <1>10, <1>11, <1>12, <2>1
<1>14. gap # 0
  <2> SUFFICES ASSUME gap = 0 PROVE FALSE OBVIOUS
  <2>1. a * gap = 0 BY <1>6, <2>1
  <2> QED BY <1>10, <1>11, <1>12, <2>1
<1>15. h1 <= 2 * hs
  <2> SUFFICES ASSUME 2 * hs < h1 PROVE FALSE BY <1>6
  <2> DEFINE x == 2 * hs
  <2>1. x \in Nat /\ x < h1 BY <1>6
  <2> HIDE DEF x
  <2>2. l * x < l * h1 BY <1>5, <1>6, <2>1, TimesMonotone
  <2>3. l * x = 2 * (hs * l) /\ l * h1 = h1 * l /\ hs * l \in Int BY <1>5, <1>6 DEF x
  <2> DEFINE p == h1 * l
             q == hs * l
             g == Hidden(w, s)
  <2>4. p \in Int /\ q \in Int /\ 2 * q < p BY <1>5, <1>6, <2>2, <2>3
  <2>5. g \in Int /\ g <= q /\ 2 * g >= p BY <1>7, <1>8, <1>9
  <2> HIDE DEF p, q, g
  <2> QED BY <2>4, <2>5
<1>16. a <= 2 * b
  <2> SUFFICES ASSUME 2 * b < a PROVE FALSE BY <1>6
  <2> DEFINE x == 2 * b
  <2>1. x \in Nat /\ x < a /\ gap \in Nat \ {0} BY <1>6, <1>11, <1>14
  <2> HIDE DEF x
  <2>2. gap * x < gap * a BY <1>6, <2>1, TimesMonotone
  <2>3. gap * x = 2 * (b * gap) /\ gap * a = a * gap /\ b * gap \in Int /\ a * gap \in Int
    BY <1>6, <1>11 DEF x
  <2> QED BY <1>6, <1>12, <1>15, <2>2, <2>3
<1>17. machine.share[1] \in Int /\ machine.share[s] \in Int
  <2>1. machine.share[1] \in 1..100 /\ machine.share[s] \in 1..100
    BY <1>4, <1>5, HidesIs DEF n
  <2> QED BY <2>1
<1> QED BY <1>13, <1>16, <1>17 DEF a, b

\* Undisturbed, the reach in memory is all that the machine follows.
LEMMA ReachIsWhole ==
    ASSUME PrefetchInvariant, TimesInvariant, Doing("rows"), NEW w \in Worksets, worksets[w] > 0,
           spoiled.kind # "stride"
    PROVE  LET followed == {k \in DOMAIN Strides :
                               \A j \in 1..k : 2 * Hides(w, Strides[j]) >= Hides(w, 1)}
           IN  StrideReach(w) = IF Hides(w, 1) < 20 * worksets[w] THEN 0 ELSE Strides[Max(followed)]
<1> DEFINE Follows(k) == /\ Ns("stride", w, Strides[k]) > 0
                         /\ 2 * Hidden(w, Strides[k]) >= Hidden(w, 1)
           seen == {k \in DOMAIN Strides : \A j \in 1..k : Follows(j)}
           followed == {k \in DOMAIN Strides :
                           \A j \in 1..k : 2 * Hides(w, Strides[j]) >= Hides(w, 1)}
           n == worksets[w]
           l == machine.slow[w]
           h1 == Hides(w, 1)
<1>1. StrideReach(w) =
          IF \/ Ns("random", w, 0) = 0 \/ Ns("stride", w, 1) = 0
             \/ 5 * Hidden(w, 1) < Ns("random", w, 0) \/ seen = {}
          THEN 0 ELSE Strides[Max(seen)]
  BY DEF StrideReach
<1>2. l \in Nat \ {0} /\ n \in Nat \ {0} /\ 1 \in DOMAIN Strides /\ Strides[1] = 1
      /\ 1 \in Range(Strides)
  BY OneIsFirst, SizesOf
<1>3. h1 \in Nat BY <1>2, HidesIs
<1>4. /\ Ns("random", w, 0) = 100 * n * l /\ Ns("random", w, 0) # 0 /\ Ns("stride", w, 1) # 0
      /\ Hidden(w, 1) = h1 * l
  BY <1>2, HiddenIs DEF Lap
<1>5. DOMAIN Strides = 1..Len(Strides) /\ Len(Strides) \in Nat
  <2>1. Strides \in Seq(Nat \ {0}) BY GridsAssumption
  <2> QED BY <2>1
<1>6. ASSUME NEW j \in DOMAIN Strides PROVE Follows(j) <=> 2 * Hides(w, Strides[j]) >= h1
  <2> DEFINE s == Strides[j]
             h == Hides(w, s)
             x == 2 * h
  <2>1. s \in Range(Strides) BY DEF Range
  <2>2. Ns("stride", w, s) > 0 /\ Hidden(w, s) = h * l
    <3>1. Ns("stride", w, s) \in Nat \ {0} BY <2>1, HiddenIs
    <3>2. Hidden(w, s) = h * l BY <2>1, HiddenIs
    <3> QED BY <3>1, <3>2
  <2>3. h \in Nat BY <2>1, HidesIs
  <2>4. Follows(j) <=> 2 * (h * l) >= h1 * l BY <1>4, <2>2
  <2> HIDE DEF h, h1, l
  <2>5. x \in Nat BY <2>3
  <2>6. l * x = 2 * (h * l) /\ l * h1 = h1 * l BY <1>2, <1>3, <2>3
  <2> HIDE DEF x
  <2>7. /\ x <= h1 => l * x <= l * h1
        /\ x < h1 => l * x < l * h1
        /\ h1 <= x => l * h1 <= l * x
    BY <1>2, <1>3, <2>5, TimesMonotone
  <2>8. l * x >= l * h1 <=> x >= h1
    <3>1. l * x \in Nat /\ l * h1 \in Nat BY <1>2, <1>3, <2>5
    <3> QED BY <1>3, <2>5, <2>7, <3>1
  <2> HIDE DEF Follows
  <2>9. Follows(j) <=> x >= h1 BY <2>4, <2>6, <2>8
  <2> QED BY <2>9 DEF x, h, h1
<1>7. seen = followed
  <2>1. \A k \in DOMAIN Strides : \A j \in 1..k : j \in DOMAIN Strides BY <1>5
  <2> HIDE DEF Follows
  <2> QED BY <1>6, <2>1
<1>8. 1 \in followed
  <2>1. \A j \in 1..1 : j = 1 OBVIOUS
  <2>2. 2 * h1 >= h1 BY <1>3
  <2> QED BY <1>2, <2>1, <2>2
<1>9. 5 * Hidden(w, 1) < Ns("random", w, 0) <=> h1 < 20 * n
  <2> HIDE DEF n, l, h1
  <2> DEFINE y == 20 * n
  <2>1. y \in Nat BY <1>2
  <2>2. 5 * (h1 * l) < 100 * n * l <=> l * h1 < l * y
    <3>1. l * h1 = h1 * l /\ 100 * n * l = 5 * (l * y) /\ h1 * l \in Int /\ l * y \in Int
      BY <1>2, <1>3
    <3> HIDE DEF y
    <3> QED BY <3>1
  <2> HIDE DEF y
  <2>3. (y <= h1 => l * y <= l * h1) /\ (h1 < y => l * h1 < l * y)
    BY <1>2, <1>3, <2>1, TimesMonotone
  <2>4. l * h1 < l * y <=> h1 < y
    <3>1. l * h1 \in Nat /\ l * y \in Nat BY <1>2, <1>3, <2>1
    <3> QED BY <1>3, <2>1, <2>3, <3>1
  <2>5. 5 * (h1 * l) < 100 * n * l <=> h1 < y BY <2>2, <2>4
  <2> QED BY <1>4, <2>5 DEF y
<1> DEFINE short == h1 < 20 * n
<1> HIDE DEF seen, followed
<1>10. StrideReach(w) = IF short THEN 0 ELSE Strides[Max(followed)]
  <2>1. seen # {} BY <1>7, <1>8
  <2>2. 5 * Hidden(w, 1) < Ns("random", w, 0) <=> short BY <1>9
  <2> HIDE DEF short
  <2> QED BY <1>1, <1>4, <1>7, <2>1, <2>2
<1> QED BY <1>10 DEF followed, short

-----------------------------------------------------------------------------
(* The cost of a restart.                                                  *)

Longest == Max(Range(Segments))
Share(k) == Longest \div Segments[k]
\* What is summed for each segment by the fit.
Shares == [k \in DOMAIN Segments |-> Share(k) * Share(k)]
Excess(steady) == [k \in DOMAIN Segments |-> Share(k) * (Ns("segment", 2, Segments[k]) - steady)]

LEMMA SharesAre ==
    /\ Len(Segments) \in Nat \ {0} /\ DOMAIN Segments = 1..Len(Segments)
    /\ Longest \in Nat \ {0}
    /\ \A k \in DOMAIN Segments :
           /\ Segments[k] \in Nat \ {0} /\ Segments[k] \in Range(Segments)
           /\ 8 * Segments[k] <= MinimumMemory
           /\ Share(k) \in Nat \ {0} /\ Segments[k] * Share(k) = Longest
<1>1. Segments \in Seq(Nat \ {0}) /\ MinimumMemory \in Nat BY GridsAssumption
<1>2. PICK last \in DOMAIN Segments : \A i \in DOMAIN Segments :
          /\ Segments[i] <= Segments[last] /\ Segments[last] % Segments[i] = 0
          /\ 8 * Segments[i] <= MinimumMemory
  BY GridsAssumption
<1>3. DOMAIN Segments = 1..Len(Segments) /\ Len(Segments) \in Nat \ {0}
      /\ \A k \in DOMAIN Segments : Segments[k] \in Nat \ {0} /\ Segments[k] \in Range(Segments)
  <2>1. DOMAIN Segments = 1..Len(Segments) /\ Len(Segments) \in Nat
        /\ \A k \in DOMAIN Segments : Segments[k] \in Nat \ {0}
    BY <1>1
  <2>2. Len(Segments) # 0 BY <1>2, <2>1
  <2> QED BY <2>1, <2>2 DEF Range
<1>4. Longest = Segments[last]
  <2>1. Range(Segments) \subseteq Nat /\ Segments[last] \in Range(Segments)
        /\ \A y \in Range(Segments) : Segments[last] >= y
    BY <1>2, <1>3 DEF Range
  <2> DEFINE x == Segments[last]
             R == Range(Segments)
  <2> HIDE DEF x, R
  <2>2. Max(R) = x BY <2>1, MaxIs DEF x, R
  <2> QED BY <2>2 DEF Longest, x, R
<1>5. ASSUME NEW k \in DOMAIN Segments
      PROVE  Share(k) \in Nat \ {0} /\ Segments[k] * Share(k) = Longest
  <2> DEFINE s == Segments[k]
             m == Longest
             q == m \div s
  <2>1. s \in Nat \ {0} /\ m \in Nat \ {0} /\ m % s = 0 BY <1>2, <1>3, <1>4
  <2>2. q = Share(k) BY DEF Share
  <2> HIDE DEF s, m
  <2>3. q \in Nat /\ m = s * q BY <2>1
  <2> HIDE DEF q
  <2>4. q # 0 BY <2>1, <2>3
  <2> QED BY <2>2, <2>3, <2>4 DEF s, m
<1> QED BY <1>2, <1>3, <1>4, <1>5

\* A segment's share of the sums is near that of the cost.
LEMMA TermBounds ==
    ASSUME NEW s \in Nat \ {0}, NEW x \in Nat \ {0}, NEW n \in Nat, NEW c \in Nat, NEW lost \in Nat,
           2 * n <= s * lost, s * lost <= 2 * n + 2 * s, 8 * s <= n,
           NEW d, d = (lost - 2) * c
    PROVE  LET cost == 2 * n * c IN
           /\ x * d \in Int
           /\ 7 * cost * (x * x) <= 8 * (s * x) * (x * d)
           /\ 8 * (s * x) * (x * d) <= 8 * cost * (x * x)
<1> DEFINE g == lost - 2
           e == s * g
           u == n * c
           y == x * x
           v == e * c
<1>1. g \in Int /\ s * g = s * lost - s * 2 /\ s * lost \in Nat OBVIOUS
<1>2. e \in Int /\ e <= 2 * n /\ 14 * n <= 8 * e
  <2> DEFINE z == s * lost
  <2>1. e = z - 2 * s /\ z \in Nat BY <1>1
  <2>2. 2 * n <= z /\ z <= 2 * n + 2 * s OBVIOUS
  <2> HIDE DEF z, e
  <2> QED BY <2>1, <2>2
<1>3. d = g * c /\ d \in Int BY <1>1
<1> HIDE DEF g
<1>4. s * d = v
  <2>1. s * (g * c) = (s * g) * c BY <1>1
  <2> QED BY <1>3, <2>1
<1> HIDE DEF e
<1>5. u \in Nat /\ v \in Int /\ v <= 2 * u /\ 14 * u <= 8 * v
  <2>1. u \in Nat /\ v \in Int BY <1>2
  <2> DEFINE p == 2 * n
             q == 14 * n
             r == 8 * e
  <2>2. p \in Nat /\ q \in Nat /\ r \in Nat /\ e \in Nat /\ e <= p /\ q <= r BY <1>2
  <2>3. c * p = 2 * u /\ c * q = 14 * u /\ c * r = 8 * v /\ c * e = v BY <1>2
  <2> HIDE DEF p, q, r, u, v
  <2>4. CASE c = 0
    <3>1. c * p = 0 /\ c * q = 0 /\ c * r = 0 /\ c * e = 0 BY <2>2, <2>4
    <3> QED BY <2>1, <2>3, <3>1
  <2>5. CASE c # 0
    <3>1. c * e <= c * p /\ c * q <= c * r BY <2>2, <2>5, TimesMonotone
    <3> QED BY <2>1, <2>3, <3>1
  <2> QED BY <2>4, <2>5
<1>6. y \in Nat \ {0} OBVIOUS
<1>7. 2 * n * c = 2 * u /\ x * d \in Int /\ (s * x) * (x * d) = y * v
  <2>1. 2 * n * c = 2 * (n * c) OBVIOUS
  <2>2. x * d \in Int BY <1>3
  <2>3. (s * x) * (x * d) = (x * x) * (s * d) BY <1>3
  <2> QED BY <1>4, <2>1, <2>2, <2>3
<1> HIDE DEF u, v, y
<1>8. y * v \in Int /\ y * u \in Int BY <1>5, <1>6
<1>9. 14 * (y * u) <= 8 * (y * v) /\ y * v <= 2 * (y * u)
  <2> DEFINE p == 2 * u
             q == 14 * u
             r == 8 * v
  <2>1. p \in Nat /\ q \in Nat /\ r \in Nat /\ v \in Nat /\ v <= p /\ q <= r BY <1>5
  <2>2. y * p = 2 * (y * u) /\ y * q = 14 * (y * u) /\ y * r = 8 * (y * v) BY <1>5, <1>6
  <2> HIDE DEF p, q, r
  <2>3. y * v <= y * p /\ y * q <= y * r BY <1>6, <2>1, TimesMonotone
  <2> QED BY <2>2, <2>3
<1>10. /\ 7 * (2 * u) * y = 14 * (y * u) /\ 8 * (2 * u) * y = 16 * (y * u) BY <1>5, <1>6
<1>11. 8 * (s * x) * (x * d) = 8 * (y * v)
  <2> DEFINE a == s * x
             b == x * d
  <2>1. a \in Int /\ b \in Int /\ a * b = y * v BY <1>7
  <2> HIDE DEF a, b
  <2>2. 8 * a * b = 8 * (a * b) BY <2>1
  <2> QED BY <2>1, <2>2 DEF a, b
<1>12. LET cost == 2 * n * c IN
       /\ 7 * cost * (x * x) = 14 * (y * u) /\ 8 * cost * (x * x) = 16 * (y * u)
  BY <1>7, <1>10 DEF y
<1> DEFINE cost == 2 * n * c
<1>13. 7 * cost * (x * x) = 14 * (y * u) /\ 8 * cost * (x * x) = 16 * (y * u) BY <1>12
<1> HIDE DEF cost
<1>14. /\ 7 * cost * (x * x) <= 8 * (s * x) * (x * d)
       /\ 8 * (s * x) * (x * d) <= 8 * cost * (x * x)
  <2> DEFINE low == 7 * cost * (x * x)
             high == 8 * cost * (x * x)
             mid == 8 * (s * x) * (x * d)
             f == y * u
             h == y * v
  <2>1. low = 14 * f /\ high = 16 * f /\ mid = 8 * h BY <1>11, <1>13
  <2>2. f \in Int /\ h \in Int /\ 14 * f <= 8 * h /\ h <= 2 * f BY <1>8, <1>9
  <2> HIDE DEF low, high, mid, f, h
  <2>3. low <= mid /\ mid <= high BY <2>1, <2>2
  <2> QED BY <2>3 DEF low, mid, high
<1> QED BY <1>7, <1>14 DEF cost

\* What bounds each member of a sum bounds the sum.
LEMMA SumAtMost ==
    ASSUME NEW n \in Nat, NEW g, NEW h, NEW p, NEW q, NEW sum, NEW other,
           RunningSums(p, g, 1, n, sum), RunningSums(q, h, 1, n, other),
           \A k \in 1..n : g[k] \in Int /\ h[k] \in Int,
           NEW a \in Int, NEW b \in Int, \A k \in 1..n : a * g[k] <= b * h[k]
    PROVE  sum \in Int /\ other \in Int /\ a * sum <= b * other
<1> DEFINE T == {k \in 0..n : a * p[k] <= b * q[k]}
<1>1. /\ p[0] = 0 /\ q[0] = 0 /\ p[n] = sum /\ q[n] = other
      /\ \A k \in 0..n : /\ p[k] \in Int /\ q[k] \in Int
                         /\ k < n => p[k + 1] = p[k] + g[1 + k] /\ q[k + 1] = q[k] + h[1 + k]
  BY DEF RunningSums
<1>2. 0 \in T
  <2>1. a * 0 = 0 /\ b * 0 = 0 /\ 0 \in 0..n OBVIOUS
  <2> QED BY <1>1, <2>1
<1>3. ASSUME NEW k \in 0..n, k \in T, k < n PROVE k + 1 \in T
  <2> DEFINE i == 1 + k
             u == p[k]
             v == q[k]
             x == g[i]
             y == h[i]
  <2>1. i \in 1..n /\ k + 1 \in 0..n BY <1>3
  <2>2. u \in Int /\ v \in Int /\ p[k + 1] = u + x /\ q[k + 1] = v + y BY <1>1, <1>3
  <2>3. x \in Int /\ y \in Int /\ a * x <= b * y BY <2>1
  <2>4. a * u <= b * v BY <1>3
  <2> HIDE DEF i, u, v, x, y
  <2>5. /\ a * (u + x) = a * u + a * x /\ b * (v + y) = b * v + b * y
        /\ a * u \in Int /\ a * x \in Int /\ b * v \in Int /\ b * y \in Int
    BY <2>2, <2>3
  <2>6. a * (u + x) <= b * (v + y) BY <2>3, <2>4, <2>5
  <2> QED BY <2>1, <2>2, <2>6
<1>4. n \in T
  <2>1. n \in Nat /\ n \in 0..n OBVIOUS
  <2> HIDE DEF T
  <2>2. 0..n \subseteq T BY <1>2, <1>3, <2>1, UpTo
  <2> QED BY <2>1, <2>2
<1>5. sum \in Int /\ other \in Int
  <2>1. n \in 0..n OBVIOUS
  <2> QED BY <1>1, <2>1
<1> QED BY <1>1, <1>4, <1>5

\* The fit divides the one sum by the other.
LEMMA FittedIs ==
    ASSUME TimesInvariant, NEW steady \in Int
    PROVE  \E p, q, xy, xx :
               /\ RunningSums(p, Excess(steady), 1, Len(Segments), xy)
               /\ RunningSums(q, Shares, 1, Len(Segments), xx)
               /\ FittedCost(DOMAIN Segments, steady) =
                      IF xx = 0 THEN 0 ELSE Max({0, (Longest * xy) \div xx})
<1> DEFINE C == DOMAIN Segments
           g == Excess(steady)
           h == Shares
           Gs(f) == f = [s \in SUBSET C |->
                            IF s = {} THEN 0
                            ELSE (Longest \div Segments[Some(s)])
                                     * (Ns("segment", 2, Segments[Some(s)]) - steady) + f[Rest(s)]]
           Hs(f) == f = [s \in SUBSET C |->
                            IF s = {} THEN 0
                            ELSE (Longest \div Segments[Some(s)])
                                     * (Longest \div Segments[Some(s)]) + f[Rest(s)]]
           gs == CHOOSE f : Gs(f)
           hs == CHOOSE f : Hs(f)
<1>1. FittedCost(C, steady) = IF hs[C] = 0 THEN 0 ELSE Max({0, (Longest * gs[C]) \div hs[C]})
  BY DEF FittedCost, MapThenSumSet, MapThenFoldSet, Some, Rest, Longest
<1>2. C = 1..Len(Segments) /\ Len(Segments) \in Nat \ {0}
      /\ \A k \in C : Share(k) \in Nat \ {0} /\ Segments[k] \in Nat
  BY SharesAre
<1>3. IsFiniteSet(C)
  <2> DEFINE n == Len(Segments)
  <2>1. n \in Int /\ 1 \in Int /\ C = 1..n BY <1>2
  <2> HIDE DEF n, C
  <2>2. IsFiniteSet(1..n) BY <2>1, FS_Interval
  <2> QED BY <2>1, <2>2
<1> HIDE DEF C
<1>4. \A k \in C : /\ g[k] \in Int /\ h[k] \in Int
                   /\ g[k] = (Longest \div Segments[k]) * (Ns("segment", 2, Segments[k]) - steady)
                   /\ h[k] = (Longest \div Segments[k]) * (Longest \div Segments[k])
  <2> SUFFICES ASSUME NEW k \in C
               PROVE  /\ g[k] \in Int /\ h[k] \in Int
                      /\ g[k] = (Longest \div Segments[k]) * (Ns("segment", 2, Segments[k]) - steady)
                      /\ h[k] = (Longest \div Segments[k]) * (Longest \div Segments[k])
    OBVIOUS
  <2> DEFINE x == Share(k)
             y == Ns("segment", 2, Segments[k])
  <2>1. x \in Nat \ {0} /\ y \in Nat BY <1>2, NsIsNat
  <2>2. g[k] = x * (y - steady) /\ h[k] = x * x BY DEF Excess, Shares, C
  <2>3. x = Longest \div Segments[k] BY DEF Share
  <2> HIDE DEF x, y, g, h
  <2>4. x * (y - steady) \in Int /\ x * x \in Int BY <2>1
  <2> QED BY <2>2, <2>3, <2>4 DEF y
<1> HIDE DEF g, h
<1>5. \A f : (Gs(f) <=> SumsUp(f, g, C)) /\ (Hs(f) <=> SumsUp(f, h, C))
  <2> TAKE f
  <2>1. \A s \in SUBSET C : s # {} => Some(s) \in C BY <1>3, RestIsSmaller
  <2>2. \A s \in SUBSET C : s # {} =>
            /\ (Longest \div Segments[Some(s)])
                   * (Ns("segment", 2, Segments[Some(s)]) - steady) = g[Some(s)]
            /\ (Longest \div Segments[Some(s)]) * (Longest \div Segments[Some(s)]) = h[Some(s)]
    BY <1>4, <2>1
  <2>3. [s \in SUBSET C |->
            IF s = {} THEN 0
            ELSE (Longest \div Segments[Some(s)])
                     * (Ns("segment", 2, Segments[Some(s)]) - steady) + f[Rest(s)]]
            = [s \in SUBSET C |-> More(f, g, s)]
    BY <2>2 DEF More
  <2>4. [s \in SUBSET C |->
            IF s = {} THEN 0
            ELSE (Longest \div Segments[Some(s)])
                     * (Longest \div Segments[Some(s)]) + f[Rest(s)]]
            = [s \in SUBSET C |-> More(f, h, s)]
    BY <2>2 DEF More
  <2> QED BY <2>3, <2>4 DEF SumsUp
<1>6. SumsUp(gs, g, C) /\ SumsUp(hs, h, C)
  <2>1. (\E f : Gs(f)) /\ (\E f : Hs(f)) BY <1>3, <1>5, SumExists
  <2> HIDE DEF Gs, Hs
  <2>2. Gs(gs) /\ Hs(hs) BY <2>1
  <2> QED BY <1>5, <2>2
<1> HIDE DEF gs, hs
<1> DEFINE a == 1
           n == Len(Segments)
           I == a..(a + n - 1)
<1>7. a \in Nat /\ n \in Nat /\ I = C
  <2>1. a + n - 1 = n BY <1>2
  <2> QED BY <1>2, <2>1
<1>8. /\ \A x \in I : g[x] \in Int
      /\ \A x \in I : h[x] \in Int
      /\ SumsUp(gs, g, I) /\ SumsUp(hs, h, I)
  BY <1>4, <1>6, <1>7
<1> HIDE DEF a, n
<1>9. I = a..(a + n - 1) OBVIOUS
<1> HIDE DEF I
<1>10. \E p : RunningSums(p, g, a, n, gs[I]) BY <1>7, <1>8, <1>9, SumsOfInterval
<1>11. \E q : RunningSums(q, h, a, n, hs[I]) BY <1>7, <1>8, <1>9, SumsOfInterval
<1>12. PICK p : RunningSums(p, g, 1, n, gs[C]) BY <1>7, <1>10 DEF a
<1>13. PICK q : RunningSums(q, h, 1, n, hs[C]) BY <1>7, <1>11 DEF a
<1> QED BY <1>1, <1>12, <1>13 DEF C, g, h, n

\* A quotient of such sums is as near.
LEMMA QuotientNear ==
    ASSUME NEW num \in Int, NEW den \in Nat \ {0}, NEW c \in Nat,
           7 * c * den <= 8 * num, 8 * num <= 8 * c * den
    PROVE  8 * Max({0, num \div den}) \in (7 * c - 8)..(8 * c)
<1> DEFINE q == num \div den
           z == c * den
<1>1. z \in Nat /\ 7 * c * den = 7 * z /\ 8 * c * den = 8 * z OBVIOUS
<1> HIDE DEF z
<1>2. num \in Nat /\ 7 * z <= 8 * num /\ num <= z BY <1>1
<1>3. q \in Nat /\ den * q <= num /\ num < den * (q + 1) BY <1>2, DivBounds
<1> HIDE DEF q
<1>4. q <= c
  <2> SUFFICES ASSUME c < q PROVE FALSE BY <1>3
  <2>1. den * c < den * q BY <1>3, TimesMonotone
  <2>2. den * c = z /\ den * q \in Int BY <1>3 DEF z
  <2> QED BY <1>1, <1>2, <1>3, <2>1, <2>2
<1>5. 7 * c < 8 * (q + 1)
  <2> SUFFICES ASSUME 8 * (q + 1) <= 7 * c PROVE FALSE BY <1>3
  <2> DEFINE x == 8 * (q + 1)
             y == 7 * c
             w == den * (q + 1)
  <2>1. x \in Nat /\ y \in Nat /\ x <= y BY <1>3
  <2>2. den * x = 8 * w /\ den * y = 7 * z /\ w \in Int BY <1>3 DEF z
  <2>3. num < w BY <1>3
  <2> HIDE DEF x, y, w
  <2>4. den * x <= den * y BY <2>1, TimesMonotone
  <2> QED BY <1>1, <1>2, <2>2, <2>3, <2>4
<1>6. Max({0, q}) = q
  <2>1. {0, q} \subseteq Nat /\ q \in {0, q} /\ \A y \in {0, q} : q >= y BY <1>3
  <2> QED BY <2>1, MaxIs
<1>7. 8 * q \in (7 * c - 8)..(8 * c) BY <1>3, <1>4, <1>5
<1> QED BY <1>6, <1>7 DEF q

\* The fit recovers the two links at the full latency that a restart costs.
LEMMA RestartRecovered ==
    ASSUME PrefetchInvariant, TimesInvariant, Doing("rows"), worksets[2] >= MinimumMemory,
           spoiled.kind # "segment"
    PROVE  LET true == 2 * (100 - machine.share[1]) * machine.slow[2] * worksets[2]
           IN  8 * RestartCost.cost \in (7 * true - 8)..(8 * true)
<1> DEFINE n == worksets[2]
           l == machine.slow[2]
           b == 100 - machine.share[1]
           c == b * l
           steady == Ns("stride", 2, 1)
           cost == 2 * n * c
<1>1. /\ n \in Nat \ {0} /\ n >= MinimumMemory /\ MinimumMemory \in Nat
      /\ machine \in Machines /\ 2 \in Worksets
  BY GridsAssumption DEF PrefetchInvariant, Worksets
<1>2. l \in Nat \ {0} /\ 1 \in Range(Strides) BY <1>1, SizesOf, OneIsFirst
<1>3. b \in Nat /\ c \in Nat
  <2>1. b \in Nat BY <1>1, MachineIs
  <2> HIDE DEF b, l
  <2> QED BY <1>2, <2>1
<1>4. steady \in Nat \ {0} /\ steady = (100 * n - b * (n - 2)) * l
  <2>1. /\ Ns("random", 2, 0) = Lap(2) /\ steady \in Nat \ {0}
        /\ Hidden(2, 1) = Hides(2, 1) * l
    BY <1>1, <1>2, HiddenIs
  <2>2. Lap(2) - StrideLap(2, 1) = Hides(2, 1) * l BY <1>1, <1>2, HidesIs
  <2>3. Hidden(2, 1) = Lap(2) - steady BY <2>1 DEF Hidden
  <2>4. StrideLap(2, 1) = (100 * n - b * (n - 2)) * l
    <3>1. n - 2 * 1 = n - 2 OBVIOUS
    <3> QED BY <3>1 DEF StrideLap
  <2>5. (100 * n - b * (n - 2)) * l \in Int
    <3> DEFINE z == 100 * n - b * (n - 2)
    <3>1. z \in Int
      <4> HIDE DEF b, n
      <4> QED BY <1>1, <1>3
    <3> HIDE DEF z, l
    <3>2. z * l \in Int BY <1>2, <3>1
    <3> QED BY <3>2 DEF z
  <2>6. Lap(2) \in Int BY <1>1, SizesOf
  <2> DEFINE x == StrideLap(2, 1)
             y == Lap(2)
  <2>7. x \in Int /\ y \in Int /\ y - x = y - steady BY <2>1, <2>2, <2>3, <2>4, <2>5, <2>6
  <2> HIDE DEF x, y, steady
  <2>8. x = steady BY <2>1, <2>7
  <2> QED BY <2>1, <2>4, <2>8 DEF x
<1>5. ASSUME NEW k \in DOMAIN Segments
      PROVE  \E lost \in Nat :
                 /\ 2 * n <= Segments[k] * lost
                 /\ Segments[k] * lost <= 2 * n + 2 * Segments[k]
                 /\ Ns("segment", 2, Segments[k]) = (100 * n - b * (n - lost)) * l
                 /\ Ns("segment", 2, Segments[k]) \in Nat \ {0}
  <2> DEFINE s == Segments[k]
             t == Task("segment", 2, s)
             z == Ns("segment", 2, s)
  <2>1. s \in Range(Segments) BY SharesAre
  <2>2. t \in Measurements /\ t.kind = "segment" /\ t.workset = 2 /\ t.arg = s
    BY <2>1 DEF Measurements, Task
  <2>3. Measurable(t)
    <3>1. s < worksets[2] BY <1>1, <2>1, SegmentsOf
    <3> QED BY <1>1, <2>2, <3>1 DEF Measurable
  <2>4. z \in Nat \ {0} BY <2>2, <2>3, NsMade
  <2>5. PICK y \in Nat \ {0} : Takes(t, y) /\ (spoiled # t => z = y) BY <2>4, NsAtLeast
  <2>6. spoiled # t BY <2>2
  <2>7. PICK lost \in Nat : /\ 2 * n <= s * lost /\ s * lost <= 2 * n + 2 * s
                            /\ y = SegmentLap(lost)
    BY <2>2, <2>5 DEF Takes
  <2>8. z = (100 * n - b * (n - lost)) * l BY <2>5, <2>6, <2>7 DEF SegmentLap
  <2> QED BY <2>4, <2>7, <2>8
<1>6. MeasuredAt("segment", 2, Segments) = DOMAIN Segments
  <2>1. \A k \in DOMAIN Segments : Ns("segment", 2, Segments[k]) > 0 BY <1>5
  <2> QED BY <2>1 DEF MeasuredAt
<1>7. RestartCost.cost = FittedCost(DOMAIN Segments, steady)
  <2>1. steady # 0 BY <1>4
  <2> QED BY <1>6, <2>1 DEF RestartCost
<1> DEFINE m == Len(Segments)
           g == Excess(steady)
           h == Shares
<1>8. ASSUME NEW k \in DOMAIN Segments
      PROVE  /\ g[k] \in Int /\ h[k] \in Nat \ {0}
             /\ 7 * cost * h[k] <= 8 * Longest * g[k]
             /\ 8 * Longest * g[k] <= 8 * cost * h[k]
  <2> DEFINE s == Segments[k]
             x == Share(k)
             z == Ns("segment", 2, s)
             d == z - steady
  <2>1. PICK lost \in Nat : /\ 2 * n <= s * lost /\ s * lost <= 2 * n + 2 * s
                            /\ z = (100 * n - b * (n - lost)) * l
    BY <1>5
  <2>2. s \in Nat \ {0} /\ 8 * s <= n /\ x \in Nat \ {0} /\ s * x = Longest
    BY <1>1, SharesAre
  <2>3. g[k] = x * d /\ h[k] = x * x BY DEF Excess, Shares
  <2>4. d = (lost - 2) * c
    <3> HIDE DEF s, x, n, l, b
    <3> DEFINE u == b * (n - 2)
               v == b * (n - lost)
    <3>1. u - v = b * (lost - 2) /\ u \in Int /\ v \in Int BY <1>1, <1>3
    <3>2. (100 * n - v) * l - (100 * n - u) * l = (u - v) * l
      <4> HIDE DEF u, v
      <4> QED BY <1>1, <1>2, <3>1
    <3>3. b * (lost - 2) * l = (lost - 2) * (b * l) BY <1>2, <1>3
    <3>4. d = (100 * n - v) * l - (100 * n - u) * l BY <1>4, <2>1
    <3> HIDE DEF u, v, d
    <3> QED BY <3>1, <3>2, <3>3, <3>4
  <2> HIDE DEF s, x, d, n, c
  <2>5. /\ x * d \in Int /\ 7 * (2 * n * c) * (x * x) <= 8 * (s * x) * (x * d)
        /\ 8 * (s * x) * (x * d) <= 8 * (2 * n * c) * (x * x)
    BY <1>1, <1>3, <2>1, <2>2, <2>4, TermBounds
  <2>6. x * x \in Nat \ {0} BY <2>2
  <2> HIDE DEF g, h
  <2> QED BY <2>2, <2>3, <2>5, <2>6
<1>9. cost \in Nat
  <2> HIDE DEF c, n
  <2> QED BY <1>1, <1>3
<1>10. m \in Nat \ {0} /\ DOMAIN Segments = 1..m /\ Longest \in Nat \ {0} BY SharesAre
<1>11. PICK p, q, xy, xx :
           /\ RunningSums(p, g, 1, m, xy) /\ RunningSums(q, h, 1, m, xx)
           /\ FittedCost(DOMAIN Segments, steady) =
                  IF xx = 0 THEN 0 ELSE Max({0, (Longest * xy) \div xx})
  <2>1. steady \in Int BY <1>4
  <2> HIDE DEF steady
  <2> QED BY <2>1, FittedIs
<1> HIDE DEF g, h, m, cost
<1>12. \A k \in 1..m : g[k] \in Int /\ h[k] \in Int BY <1>8, <1>10
<1> DEFINE a7 == 7 * cost
           a8 == 8 * cost
           b8 == 8 * Longest
<1>13. /\ a7 \in Int /\ a8 \in Int /\ b8 \in Int
       /\ \A k \in 1..m : a7 * h[k] <= b8 * g[k]
       /\ \A k \in 1..m : b8 * g[k] <= a8 * h[k]
  BY <1>8, <1>9, <1>10
<1>14. xy \in Int /\ xx \in Int /\ a7 * xx <= b8 * xy /\ b8 * xy <= a8 * xx
  <2> HIDE DEF a7, a8, b8
  <2>0. m \in Nat /\ RunningSums(p, g, 1, m, xy) /\ RunningSums(q, h, 1, m, xx)
        /\ a7 \in Int /\ a8 \in Int /\ b8 \in Int
    BY <1>10, <1>11, <1>13
  <2>1. a7 * xx <= b8 * xy /\ xx \in Int
    <3>1. \A k \in 1..m : h[k] \in Int /\ g[k] \in Int BY <1>12
    <3>2. \A k \in 1..m : a7 * h[k] <= b8 * g[k] BY <1>13
    <3> QED BY <2>0, <3>1, <3>2, SumAtMost
  <2>2. b8 * xy <= a8 * xx /\ xy \in Int
    <3>1. \A k \in 1..m : b8 * g[k] <= a8 * h[k] BY <1>13
    <3> QED BY <1>12, <2>0, <3>1, SumAtMost
  <2> QED BY <2>1, <2>2
<1>15. xx \in Nat \ {0}
  <2> DEFINE ones == [k \in 1..m |-> 1]
             r == [k \in 0..m |-> k]
             one == 1
  <2>1. RunningSums(r, ones, 1, m, m)
    <3>1. r[0] = 0 /\ r[m] = m BY <1>10
    <3>2. ASSUME NEW k \in 0..m PROVE r[k] \in Int /\ (k < m => r[k + 1] = r[k] + ones[1 + k])
      <4>1. k < m => k + 1 \in 0..m /\ 1 + k \in 1..m BY <1>10
      <4> QED BY <1>10, <4>1
    <3> QED BY <3>1, <3>2 DEF RunningSums
  <2>2. \A k \in 1..m : ones[k] \in Int /\ h[k] \in Int BY <1>12
  <2>3. one \in Int /\ \A k \in 1..m : one * ones[k] <= one * h[k] BY <1>8, <1>10
  <2> HIDE DEF ones, r, one
  <2>4. one * m <= one * xx BY <1>10, <1>11, <2>1, <2>2, <2>3, SumAtMost
  <2> QED BY <1>10, <1>14, <2>4 DEF one
<1>16. RestartCost.cost = Max({0, (Longest * xy) \div xx}) BY <1>7, <1>11, <1>15
<1> DEFINE num == Longest * xy
<1>17. num \in Int /\ 7 * cost * xx <= 8 * num /\ 8 * num <= 8 * cost * xx
  <2>1. b8 * xy = 8 * num /\ num \in Int BY <1>10, <1>14
  <2> QED BY <1>14, <2>1
<1>18. 8 * Max({0, num \div xx}) \in (7 * cost - 8)..(8 * cost)
  <2> HIDE DEF num
  <2> QED BY <1>9, <1>15, <1>17, QuotientNear
<1>19. cost = 2 * (100 - machine.share[1]) * machine.slow[2] * worksets[2]
  <2> HIDE DEF n, b, l
  <2>1. 2 * n * (b * l) = 2 * b * l * n BY <1>1, <1>2, <1>3
  <2> QED BY <2>1 DEF cost, n, b, l
<1> QED BY <1>16, <1>18, <1>19

\* The rows say what the analysis found.
LEMMA RowsRead ==
    ASSUME PrefetchInvariant, TimesInvariant, Rows
    PROVE  AnalysesReadTheCore'
<1>1. /\ Doing("rows") /\ UNCHANGED <<machine, worksets, spoiled>>
      /\ report' = [what |-> "rows", reach |-> [w \in Worksets |-> StrideReach(w)],
                    restart |-> RestartCost,
                    distance |-> [c \in DOMAIN Columns |-> DistanceSummary(c)]]
  BY DEF Rows
<1> DEFINE reach == [w \in Worksets |-> StrideReach(w)]
           cost == RestartCost
           distance == [c \in DOMAIN Columns |-> DistanceSummary(c)]
<1>2. report'.reach = reach /\ report'.restart = cost /\ report'.distance = distance
  <2> HIDE DEF reach, cost, distance
  <2> QED BY <1>1 DEF reach, cost, distance
<1>3. worksets \in [Worksets -> Nat] BY DEF PrefetchInvariant
<1>4. ASSUME NEW w \in Worksets, NEW s \in Range(Strides), s <= report'.reach[w]
      PROVE  machine.share[1] <= 80 /\ 2 * (100 - machine.share[s]) >= 100 - machine.share[1]
  <2>1. report'.reach[w] = StrideReach(w) BY <1>2
  <2> QED BY <1>1, <1>4, <2>1, ReachFollowed
<1>5. ASSUME worksets[2] > 0, spoiled.kind # "stride"
      PROVE  LET n == worksets[2]
                 Hide(s) == (100 - machine.share[s]) * (n - 2 * s)
                 followed == {k \in DOMAIN Strides :
                                 \A j \in 1..k : 2 * Hide(Strides[j]) >= Hide(1)}
             IN  report'.reach[2] = IF Hide(1) < 20 * n THEN 0 ELSE Strides[Max(followed)]
  <2>1. 2 \in Worksets BY DEF Worksets
  <2>2. report'.reach[2] = StrideReach(2) BY <1>2, <2>1
  <2>3. LET followed == {k \in DOMAIN Strides :
                            \A j \in 1..k : 2 * Hides(2, Strides[j]) >= Hides(2, 1)}
        IN  StrideReach(2) = IF Hides(2, 1) < 20 * worksets[2] THEN 0 ELSE Strides[Max(followed)]
    BY <1>1, <1>5, <2>1, ReachIsWhole
  <2> QED BY <2>2, <2>3 DEF Hides
<1>6. ReachIsFollowed'
  <2> HIDE DEF reach, cost, distance
  <2>1. machine' = machine /\ worksets' = worksets /\ spoiled' = spoiled BY <1>1
  <2> QED BY <1>4, <1>5, <2>1 DEF ReachIsFollowed
<1>7. RestartCostRecovered'
  <2> SUFFICES ASSUME worksets[2] >= MinimumMemory, spoiled.kind # "segment"
               PROVE  LET true == 2 * (100 - machine.share[1]) * machine.slow[2] * worksets[2]
                      IN  8 * report'.restart.cost \in (7 * true - 8)..(8 * true)
    BY <1>1 DEF RestartCostRecovered
  <2>1. LET true == 2 * (100 - machine.share[1]) * machine.slow[2] * worksets[2]
        IN  8 * RestartCost.cost \in (7 * true - 8)..(8 * true)
    BY <1>1, RestartRecovered
  <2> QED BY <1>2, <2>1
<1>8. DistanceIsEnough'
  <2> SUFFICES ASSUME NEW c \in DOMAIN Columns, report'.distance[c].effective
               PROVE  LET d == report'.distance[c]
                      IN  d.needed > 0 /\ 97 * d.alone <= 100 * d.best * d.needed
    BY DEF DistanceIsEnough
  <2>1. report'.distance[c] = DistanceSummary(c) BY <1>2
  <2>2. LET d == DistanceSummary(c)
        IN  d.needed > 0 /\ 97 * d.alone <= 100 * d.best * d.needed
    BY <2>1, SummaryIs
  <2> QED BY <2>1, <2>2
<1> QED BY <1>6, <1>7, <1>8 DEF AnalysesReadTheCore

\* What the cache table says of the prefetchers is true of the core, for every
\* machine and every grid, and although one measurement is disturbed.
THEOREM AnalysesAreOfTheCore == PrefetchSpec => []AnalysesReadTheCore
<1>1. ~Reported => AnalysesReadTheCore
  BY DEF AnalysesReadTheCore, ReachIsFollowed, RestartCostRecovered, DistanceIsEnough
<1>2. PrefetchInit => AnalysesReadTheCore
  <2> SUFFICES ASSUME PrefetchInit PROVE ~Reported BY <1>1
  <2> QED BY DEF PrefetchInit, Reported
<1>3. PrefetchInvariant /\ TimesInvariant /\ AnalysesReadTheCore /\ [PrefetchNext]_prefetchVars
          => AnalysesReadTheCore'
  <2> SUFFICES ASSUME PrefetchInvariant, TimesInvariant, AnalysesReadTheCore,
                      [PrefetchNext]_prefetchVars
               PROVE  AnalysesReadTheCore'
    OBVIOUS
  <2>1. ~Reported' => AnalysesReadTheCore'
    BY DEF AnalysesReadTheCore, ReachIsFollowed, RestartCostRecovered, DistanceIsEnough
  <2>2. todo # << >> => report.what # "rows" BY DEF TimesInvariant, Reported
  <2>3. CASE NoLevels BY <2>1, <2>3 DEF NoLevels, Unmeasured, Reported
  <2>4. CASE NothingMapped BY <2>1, <2>4 DEF NothingMapped, Unmeasured, Reported
  <2>5. ASSUME todo # << >>, report' = report PROVE AnalysesReadTheCore'
    BY <2>1, <2>2, <2>5 DEF Reported
  <2>6. CASE SizeWorksets BY <2>5, <2>6 DEF SizeWorksets, Doing
  <2>7. CASE PassOver BY <2>5, <2>7 DEF PassOver
  <2>8. CASE MeasureRandom BY <2>5, <2>8 DEF MeasureRandom, MeasureOrder, Timed, Measuring, Doing
  <2>9. CASE MeasureStride BY <2>5, <2>9 DEF MeasureStride, MeasureOrder, Timed, Measuring, Doing
  <2>10. CASE MeasureSegment
    BY <2>5, <2>10 DEF MeasureSegment, MeasureOrder, Timed, Measuring, Doing
  <2>11. CASE MeasureDistance
    <3>1. todo # << >> BY <2>11 DEF MeasureDistance, Measuring, Doing
    <3>2. report' = report BY <2>11 DEF MeasureDistance, Timed
    <3> QED BY <2>5, <3>1, <3>2
  <2>12. CASE Rows BY <2>12, RowsRead
  <2>13. CASE UNCHANGED prefetchVars
    <3>1. UNCHANGED <<machine, worksets, spoiled, report>> BY <2>13 DEF prefetchVars
    <3>2. ReachIsFollowed' BY <3>1 DEF AnalysesReadTheCore, ReachIsFollowed, Reported
    <3>3. RestartCostRecovered' BY <3>1 DEF AnalysesReadTheCore, RestartCostRecovered, Reported
    <3>4. DistanceIsEnough' BY <3>1 DEF AnalysesReadTheCore, DistanceIsEnough, Reported
    <3> QED BY <3>2, <3>3, <3>4 DEF AnalysesReadTheCore
  <2> QED BY <2>3, <2>4, <2>6, <2>7, <2>8, <2>9, <2>10, <2>11, <2>12, <2>13 DEF PrefetchNext
<1> QED BY <1>2, <1>3, PrefetchInvariantHolds, TimesInvariantHolds, PTL DEF PrefetchSpec

\* The probe is the same inside the table, where the line and set probes come before.
THEOREM TablePrefetches == TableSpec => PrefetchSpec /\ []RingIsOneLap /\ []AnalysesReadTheCore
<1>1. TableInit => PrefetchInit BY DEF TableInit
<1>2. [TableNext]_tableVars => [PrefetchNext]_prefetchVars
  <2> SUFFICES ASSUME [TableNext]_tableVars PROVE [PrefetchNext]_prefetchVars
    OBVIOUS
  <2>1. CASE Curve BY <2>1 DEF Curve
  <2>2. CASE Probes BY <2>2 DEF Probes
  <2>3. CASE Prefetch BY <2>3 DEF Prefetch
  <2>4. CASE Streams BY <2>4 DEF Streams
  <2>5. CASE Load BY <2>5 DEF Load
  <2>6. CASE UNCHANGED tableVars BY <2>6 DEF tableVars
  <2> QED BY <2>1, <2>2, <2>3, <2>4, <2>5, <2>6 DEF TableNext
<1>3. TableSpec => PrefetchSpec BY <1>1, <1>2, PTL DEF TableSpec, PrefetchSpec
<1> QED BY <1>3, RingsAreOneLap, AnalysesAreOfTheCore, PTL

(***************************************************************************)
(* The load rows: the theory, the source and the curve's answer at each    *)
(* stage, and the working set every row was cut from.                      *)
(***************************************************************************)

Origins == {"OS", "none", "fallback", "probe"}

\* What PrepareLoad leaves of a level: the system's size, nothing where the
\* curve has one, or the fallback.
Settled(l) ==
    /\ OSReports(l) > 0 => theory[l] = OSReports(l) /\ source[l] = "OS"
    /\ OSReports(l) = 0 /\ measured[l] > 0 => theory[l] = 0 /\ source[l] = "none"
    /\ OSReports(l) = 0 /\ measured[l] = 0 =>
           theory[l] = <<FallbackL1, FallbackL2>>[l] /\ source[l] = "fallback"

\* What the cache category may have left of it before.
Unsettled(l) ==
    \/ theory[l] = 0 /\ source[l] = "none"
    \/ OSReports(l) > 0 /\ theory[l] = OSReports(l) /\ source[l] = "OS"

CutFromItsLevel(row) ==
    /\ row.level \in {1, 2}
    /\ \E block \in LoadBlocks :
           LET size == LevelWorkset(IF row.level = 1 THEN 0 ELSE Capacity(1), Capacity(row.level))
           IN  row.workset = size - (size % block)
    /\ row.from = IF theory[row.level] > 0 THEN source[row.level] ELSE "probe"

LoadInvariant ==
    /\ loaded \in Loaded /\ loadStage \in {"cache", "load", "rows"}
    /\ \A l \in {1, 2} :
           /\ measured[l] = IF "cache" \in tests /\ loadStage # "cache" THEN loaded.curve[l] ELSE 0
           /\ loadStage = "rows" => Settled(l)
           /\ loadStage # "rows" => Unsettled(l)
    /\ loadStage # "rows" => loadRows = << >>
    /\ loadRows \in Seq([level : {1, 2}, workset : Int, from : Origins])
    /\ \A i \in DOMAIN loadRows : CutFromItsLevel(loadRows[i])

LEMMA OSReportsBounded ==
    ASSUME loaded \in Loaded, NEW l \in {1, 2}
    PROVE  OSReports(l) \in Nat
<1> DEFINE os == loaded.os
           caches == {d \in DataCaches(os, 1) : d.level = l}
<1>1. SystemOK(os, MaxLoaded) /\ MaxLoaded \in Nat /\ l \in 1..3 BY LoadAssumption
<1>2. At(os, 1, l) \in 0..MaxLoaded
  <2>1. 1 \in DOMAIN os.caches BY <1>1 DEF SystemOK
  <2>2. \A c \in Range(os.caches[1]) : c.bytes \in 0..MaxLoaded BY <1>1, <2>1 DEF SystemOK
  <2>3. {c.bytes : c \in caches} \subseteq 0..MaxLoaded BY <2>2 DEF DataCaches
  <2> HIDE DEF caches
  <2>4. LargestOf({c.bytes : c \in caches}) \in 0..MaxLoaded BY <1>1, <2>3, LargestOfBounded
  <2> QED BY <2>4 DEF At, caches
<1>3. LargestOf(PerfLevels(os, l)) \in 0..MaxLoaded /\ os.hw[l] \in 0..MaxLoaded
  <2>1. PerfLevels(os, l) \subseteq 0..MaxLoaded /\ os.hw[l] \in 0..MaxLoaded BY <1>1 DEF SystemOK
  <2> QED BY <1>1, <2>1, LargestOfBounded
<1>4. DataCacheLevel(os, 1, l) \in 0..MaxLoaded
  <2> HIDE DEF os
  <2>1. CASE PerProcessor(os)
    <3>1. DataCacheLevel(os, 1, l) = At(os, 1, l) BY <2>1 DEF DataCacheLevel, PerProcessor
    <3> QED BY <3>1, <1>2
  <2>2. CASE ~PerProcessor(os) /\ os.interface = "sysctl" BY <2>2, <1>3 DEF DataCacheLevel
  <2>3. CASE ~PerProcessor(os) /\ os.interface # "sysctl" BY <2>3, <1>1 DEF DataCacheLevel
  <2> QED BY <2>1, <2>2, <2>3
<1> QED BY <1>1, <1>4 DEF OSReports

LEMMA SquareMonotone ==
    ASSUME NEW a \in Nat, NEW b \in Nat
    PROVE  /\ a <= b => a * a <= b * b
           /\ a * a < (b + 1) * (b + 1) => a <= b
           /\ a * a <= b * b => a <= b
<1>1. ASSUME NEW c \in Nat, NEW d \in Nat, c <= d PROVE c * c <= d * d
  <2>1. c * c <= c * d BY <1>1
  <2>2. c * d <= d * d BY <1>1
  <2> QED BY <2>1, <2>2
<1>2. ASSUME NEW c \in Nat, NEW d \in Nat, c < d PROVE c * c < d * d
  <2>1. (c + 1) * (c + 1) <= d * d BY <1>2, <1>1
  <2>2. (c + 1) * (c + 1) = c * c + 2 * c + 1 OBVIOUS
  <2> QED BY <2>1, <2>2
<1>3. a * a < (b + 1) * (b + 1) => a <= b
  <2> SUFFICES ASSUME a > b PROVE a * a >= (b + 1) * (b + 1) OBVIOUS
  <2> DEFINE next == b + 1
  <2>1. next \in Nat /\ next <= a OBVIOUS
  <2> HIDE DEF next
  <2>2. next * next <= a * a BY <2>1, <1>1
  <2> QED BY <2>2 DEF next
<1>4. a * a <= b * b => a <= b
  <2> SUFFICES ASSUME b < a PROVE a * a > b * b OBVIOUS
  <2>1. b * b < a * a BY <1>2
  <2> QED BY <2>1
<1> QED BY <1>1, <1>3, <1>4

\* There is a whole number at the geometric middle of a window.
LEMMA LevelWorksetIs ==
    ASSUME NEW lower \in Nat, NEW capacity \in Nat
    PROVE  /\ LevelWorkset(lower, capacity) \in Nat
           /\ lower = 0 => LevelWorkset(lower, capacity) = capacity \div 2
           /\ 0 < lower /\ lower < capacity =>
                  LET r == LevelWorkset(lower, capacity)
                  IN  r * r <= lower * capacity /\ lower * capacity < (r + 1) * (r + 1)
<1>1. CASE ~(0 < lower /\ lower < capacity)
  <2>1. capacity \div 2 \in Nat BY DivBounds
  <2>2. 0 \div 2 = 0 OBVIOUS
  <2> QED BY <1>1, <2>1, <2>2 DEF LevelWorkset
<1>2. CASE 0 < lower /\ lower < capacity
  <2> DEFINE product == lower * capacity
             Middle(r) == r * r <= product /\ product < (r + 1) * (r + 1)
             S == {r \in 0..capacity : r * r <= product}
  <2>1. product \in Nat BY DEF product
  <2>2. lower * lower <= product /\ product < capacity * capacity
    <3>1. lower * lower <= lower * capacity BY <1>2
    <3>2. lower * capacity < capacity * capacity BY <1>2
    <3> QED BY <3>1, <3>2 DEF product
  <2> HIDE DEF product
  <2>3. lower \in S BY <1>2, <2>2
  <2>4. PICK m \in S : \A y \in S : m >= y BY <2>3, MaxOfBounded
  <2>5. m \in Nat /\ m <= capacity /\ m * m <= product /\ lower <= m BY <2>3, <2>4
  <2>6. product < (m + 1) * (m + 1)
    <3>1. CASE m = capacity
      <4>1. (m + 1) * (m + 1) = m * m + 2 * m + 1 BY <2>5
      <4>2. product < m * m /\ product \in Nat BY <3>1, <2>1, <2>2
      <4> QED BY <4>1, <4>2, <2>5
    <3>2. CASE m < capacity
      <4>1. m + 1 \in 0..capacity /\ m + 1 \notin S BY <3>2, <2>4, <2>5
      <4> DEFINE next == m + 1
      <4>2. ~(next * next <= product) BY <4>1
      <4>3. next * next \in Int /\ product \in Int BY <2>1, <2>5
      <4> QED BY <4>2, <4>3
    <3> QED BY <3>1, <3>2, <2>5
  <2>7. \E r \in lower..capacity : Middle(r) BY <2>5, <2>6
  <2> DEFINE r == LevelWorkset(lower, capacity)
  <2>8. r = CHOOSE q \in lower..capacity : Middle(q) BY <1>2 DEF LevelWorkset, product
  <2> HIDE DEF Middle, r
  <2>9. r \in lower..capacity /\ Middle(r) BY <2>7, <2>8
  <2> QED BY <1>2, <2>9 DEF Middle, r, product
<1> QED BY <1>1, <1>2

\* What is settled of a level has a size, and the curve's answer is a number.
LEMMA SettledBounds ==
    ASSUME LoadInvariant, NEW l \in {1, 2}
    PROVE  /\ OSReports(l) \in Nat /\ measured[l] \in Nat /\ theory[l] \in Nat
           /\ loadStage = "rows" => Capacity(l) \in Nat \ {0} /\ source[l] \in Origins
<1>1. OSReports(l) \in Nat BY OSReportsBounded DEF LoadInvariant
<1>2. measured[l] \in Nat
  <2>1. loaded.curve[l] \in Nat BY LoadAssumption DEF LoadInvariant
  <2> QED BY <2>1 DEF LoadInvariant
<1>3. <<FallbackL1, FallbackL2>>[l] \in Nat \ {0} BY LoadAssumption
<1>4. CASE loadStage = "rows"
  <2>1. Settled(l) BY <1>4 DEF LoadInvariant
  <2>2. CASE OSReports(l) > 0
    <3>1. theory[l] = OSReports(l) /\ source[l] = "OS" BY <2>1, <2>2 DEF Settled
    <3> QED BY <1>1, <1>2, <2>2, <3>1 DEF Capacity, Origins
  <2>3. CASE OSReports(l) = 0 /\ measured[l] > 0
    <3>1. theory[l] = 0 /\ source[l] = "none" BY <2>1, <2>3 DEF Settled
    <3> QED BY <1>1, <1>2, <2>3, <3>1 DEF Capacity, Origins
  <2>4. CASE OSReports(l) = 0 /\ measured[l] = 0
    <3>1. theory[l] \in Nat \ {0} /\ source[l] = "fallback"
      BY <1>3, <2>1, <2>4 DEF Settled
    <3> QED BY <1>1, <1>2, <3>1 DEF Capacity, Origins
  <2> QED BY <1>1, <1>2, <2>2, <2>3, <2>4
<1>5. CASE loadStage # "rows"
  <2>1. Unsettled(l) BY <1>5 DEF LoadInvariant
  <2> QED BY <2>1, <1>1, <1>2, <1>5 DEF Unsettled
<1> QED BY <1>4, <1>5

LEMMA LoadInitially == LoadInit => LoadInvariant
<1> SUFFICES ASSUME LoadInit PROVE LoadInvariant OBVIOUS
<1>1. loadRows = << >> /\ DOMAIN loadRows = {} BY DEF LoadInit
<1>2. \A l \in {1, 2} : measured[l] = 0 /\ Unsettled(l) BY DEF LoadInit, Unsettled
<1> QED BY <1>1, <1>2 DEF LoadInit, LoadInvariant

LEMMA CategoryKeeps ==
    ASSUME LoadInvariant, CacheCategory
    PROVE  LoadInvariant'
<1>1. loaded' = loaded /\ tests' = tests /\ loadRows' = loadRows /\ loadStage' = "load"
  BY DEF CacheCategory
<1>2. loadRows = << >> /\ loadStage = "cache" BY DEF LoadInvariant, CacheCategory
<1>3. ASSUME NEW l \in {1, 2} PROVE OSReports(l)' = OSReports(l) BY <1>1 DEF OSReports
<1>4. ASSUME NEW l \in {1, 2}
      PROVE  /\ Unsettled(l)'
             /\ measured'[l] = IF "cache" \in tests THEN loaded.curve[l] ELSE 0
  <2>1. Unsettled(l) /\ measured[l] = 0 BY <1>2 DEF LoadInvariant
  <2>2. OSReports(l) \in Nat BY SettledBounds
  <2>3. CASE "cache" \in tests
    <3>1. theory'[l] = (IF OSReports(l) > 0 THEN OSReports(l) ELSE theory[l])
      BY <2>3 DEF CacheCategory, Read
    <3>2. source'[l] = (IF OSReports(l) > 0 THEN "OS" ELSE source[l])
      BY <2>3 DEF CacheCategory, ReadSource
    <3>3. measured'[l] = loaded.curve[l] BY <2>3 DEF CacheCategory
    <3> QED BY <1>3, <2>1, <2>2, <2>3, <3>1, <3>2, <3>3 DEF Unsettled
  <2>4. CASE "cache" \notin tests
    <3>1. theory' = theory /\ source' = source /\ measured' = measured BY <2>4 DEF CacheCategory
    <3> QED BY <1>3, <2>1, <2>4, <3>1 DEF Unsettled
  <2> QED BY <2>3, <2>4
<1>5. DOMAIN loadRows' = {} BY <1>1, <1>2
<1>6. loaded' \in Loaded BY <1>1 DEF LoadInvariant
<1>7. loadRows' = << >> BY <1>1, <1>2
<1> QED BY <1>1, <1>4, <1>5, <1>6, <1>7 DEF LoadInvariant

LEMMA PrepareKeeps ==
    ASSUME LoadInvariant, PrepareLoad
    PROVE  LoadInvariant'
<1>1. /\ loaded' = loaded /\ tests' = tests /\ loadRows' = loadRows /\ measured' = measured
      /\ loadStage = "load" /\ loadStage' = "rows"
  BY DEF PrepareLoad
<1>2. loadRows = << >> BY <1>1 DEF LoadInvariant
<1>3. ASSUME NEW l \in {1, 2} PROVE OSReports(l)' = OSReports(l) BY <1>1 DEF OSReports
<1>4. ASSUME NEW l \in {1, 2} PROVE Settled(l)'
  <2> DEFINE guess == <<FallbackL1, FallbackL2>>[l]
             read == IF OSReports(l) > 0 THEN OSReports(l) ELSE theory[l]
             missing == read = 0 /\ measured[l] = 0
  <2>1. Unsettled(l) BY <1>1 DEF LoadInvariant
  <2>2. OSReports(l) \in Nat /\ measured[l] \in Nat BY SettledBounds
  <2>3. theory'[l] = IF missing THEN guess ELSE read BY DEF PrepareLoad, Read
  <2>4. source'[l] = IF missing THEN "fallback"
                     ELSE IF OSReports(l) > 0 THEN "OS" ELSE source[l]
    BY DEF PrepareLoad, Read, ReadSource
  <2>5. OSReports(l) = 0 => theory[l] = 0 /\ source[l] = "none" BY <2>1 DEF Unsettled
  <2> HIDE DEF guess
  <2>6. OSReports(l) > 0 => theory'[l] = OSReports(l) /\ source'[l] = "OS"
    BY <2>2, <2>3, <2>4
  <2>7. OSReports(l) = 0 /\ measured[l] > 0 => theory'[l] = 0 /\ source'[l] = "none"
    BY <2>2, <2>3, <2>4, <2>5
  <2>8. OSReports(l) = 0 /\ measured[l] = 0 =>
            theory'[l] = guess /\ source'[l] = "fallback"
    BY <2>2, <2>3, <2>4, <2>5
  <2> QED BY <1>1, <1>3, <2>6, <2>7, <2>8 DEF Settled, guess
<1>5. DOMAIN loadRows' = {} /\ loadRows' = << >> BY <1>1, <1>2
<1>6. loaded' \in Loaded BY <1>1 DEF LoadInvariant
<1>7. \A l \in {1, 2} : measured'[l] = IF "cache" \in tests THEN loaded.curve[l] ELSE 0
  BY <1>1 DEF LoadInvariant
<1> QED BY <1>1, <1>4, <1>5, <1>6, <1>7 DEF LoadInvariant

LEMMA RowKeeps ==
    ASSUME LoadInvariant, LoadRow
    PROVE  LoadInvariant'
<1> DEFINE Records == [level : {1, 2}, workset : Int, from : Origins]
           Lower(l) == IF l = 1 THEN 0 ELSE Capacity(1)
<1>1. /\ loaded' = loaded /\ tests' = tests /\ measured' = measured /\ theory' = theory
      /\ source' = source /\ loadStage = "rows" /\ loadStage' = "rows"
  BY DEF LoadRow
<1>2. PICK l \in {1, 2}, block \in LoadBlocks :
          LET size == LevelWorkset(Lower(l), Capacity(l))
          IN  loadRows' = Append(loadRows,
                  [level |-> l, workset |-> size - (size % block),
                   from |-> IF theory[l] > 0 THEN source[l] ELSE "probe"])
  BY DEF LoadRow
<1> DEFINE size == LevelWorkset(Lower(l), Capacity(l))
           row == [level |-> l, workset |-> size - (size % block),
                   from |-> IF theory[l] > 0 THEN source[l] ELSE "probe"]
<1>3. \A q \in {1, 2} : Settled(q) /\ Settled(q)'
  <2>1. \A q \in {1, 2} : Settled(q) BY <1>1 DEF LoadInvariant
  <2> QED BY <2>1, <1>1 DEF Settled, OSReports
<1>4. row \in Records
  <2>1. Capacity(l) \in Nat /\ Capacity(1) \in Nat /\ source[l] \in Origins BY <1>1, SettledBounds
  <2>2. Lower(l) \in Nat BY <2>1
  <2> HIDE DEF Lower
  <2>3. size \in Nat BY <2>1, <2>2, LevelWorksetIs
  <2>4. block \in Nat \ {0} BY LoadAssumption
  <2> HIDE DEF size
  <2>5. size - (size % block) \in Int BY <2>3, <2>4, ModBounds
  <2>6. (IF theory[l] > 0 THEN source[l] ELSE "probe") \in Origins
    BY <2>1 DEF Origins
  <2> QED BY <2>5, <2>6
<1>5. CutFromItsLevel(row)
  <2>1. row.level = l /\ row.workset = size - (size % block)
        /\ row.from = IF theory[l] > 0 THEN source[l] ELSE "probe"
    OBVIOUS
  <2> HIDE DEF row
  <2> QED BY <2>1 DEF CutFromItsLevel
<1>6. \A r : CutFromItsLevel(r)' <=> CutFromItsLevel(r)
  BY <1>1 DEF CutFromItsLevel, Capacity, LevelWorkset
<1> HIDE DEF row, Records
<1>7. loadRows \in Seq(Records) BY DEF LoadInvariant, Records
<1>8. loadRows' = Append(loadRows, row) BY <1>2 DEF row
<1>9. loadRows' \in Seq(Records) BY <1>4, <1>7, <1>8
<1>10. \A i \in DOMAIN loadRows' : CutFromItsLevel(loadRows'[i])
  <2> SUFFICES ASSUME NEW i \in DOMAIN loadRows' PROVE CutFromItsLevel(loadRows'[i]) OBVIOUS
  <2>1. (i \in DOMAIN loadRows /\ loadRows'[i] = loadRows[i]) \/ loadRows'[i] = row
    BY <1>7, <1>8, <1>4
  <2> QED BY <2>1, <1>5 DEF LoadInvariant
<1>11. loaded' \in Loaded BY <1>1 DEF LoadInvariant
<1>12. \A q \in {1, 2} : measured'[q] = IF "cache" \in tests THEN loaded.curve[q] ELSE 0
  BY <1>1 DEF LoadInvariant
<1> QED BY <1>1, <1>3, <1>6, <1>9, <1>10, <1>11, <1>12 DEF LoadInvariant, Records

\* The invariant of the load rows: every size and source is where the stage says
\* it is, and every row was cut from the window of its level.
THEOREM LoadInvariantHolds == LoadSpec => []LoadInvariant
<1>1. LoadInvariant /\ [LoadNext]_loadVars => LoadInvariant'
  <2> SUFFICES ASSUME LoadInvariant, [LoadNext]_loadVars PROVE LoadInvariant' OBVIOUS
  <2>1. CASE CacheCategory BY <2>1, CategoryKeeps
  <2>2. CASE PrepareLoad BY <2>2, PrepareKeeps
  <2>3. CASE LoadRow BY <2>3, RowKeeps
  <2>4. CASE UNCHANGED loadVars
    <3>1. \A l \in {1, 2} : (Settled(l)' <=> Settled(l)) /\ (Unsettled(l)' <=> Unsettled(l))
      BY <2>4 DEF loadVars, Settled, Unsettled, OSReports
    <3>2. \A r : CutFromItsLevel(r)' <=> CutFromItsLevel(r)
      BY <2>4 DEF loadVars, CutFromItsLevel, Capacity, LevelWorkset
    <3> QED BY <2>4, <3>1, <3>2 DEF loadVars, LoadInvariant
  <2> QED BY <2>1, <2>2, <2>3, <2>4 DEF LoadNext
<1> QED BY LoadInitially, <1>1, PTL DEF LoadSpec

\* A row says "fallback" exactly where nothing else was known of its level.
LEMMA OriginIsTold ==
    ASSUME LoadInvariant, NEW i \in DOMAIN loadRows, NEW row, row = loadRows[i]
    PROVE  row.from = "fallback" <=>
               OSReports(row.level) = 0 /\ ("cache" \in tests => loaded.curve[row.level] = 0)
<1> DEFINE l == row.level
<1>1. CutFromItsLevel(row) /\ loadStage = "rows" BY DEF LoadInvariant
<1>2. l \in {1, 2} BY <1>1 DEF CutFromItsLevel
<1>3. row.from = IF theory[l] > 0 THEN source[l] ELSE "probe" BY <1>1 DEF CutFromItsLevel
<1> HIDE DEF l
<1>4. OSReports(l) \in Nat /\ measured[l] \in Nat /\ Settled(l)
  BY <1>1, <1>2, SettledBounds DEF LoadInvariant
<1>5. measured[l] = 0 <=> ("cache" \in tests => loaded.curve[l] = 0)
  BY <1>1, <1>2 DEF LoadInvariant
<1>6. CASE OSReports(l) > 0
  <2>1. theory[l] > 0 /\ source[l] = "OS" BY <1>4, <1>6 DEF Settled
  <2> QED BY <1>3, <1>6, <2>1 DEF l
<1>7. CASE OSReports(l) = 0 /\ measured[l] > 0
  <2>1. theory[l] = 0 BY <1>4, <1>7 DEF Settled
  <2> QED BY <1>3, <1>5, <1>7, <2>1 DEF l
<1>8. CASE OSReports(l) = 0 /\ measured[l] = 0
  <2>1. <<FallbackL1, FallbackL2>>[l] > 0 BY <1>2, LoadAssumption
  <2>2. theory[l] > 0 /\ source[l] = "fallback" BY <1>4, <1>8, <2>1 DEF Settled
  <2> QED BY <1>3, <1>5, <1>8, <2>2 DEF l
<1> QED BY <1>4, <1>6, <1>7, <1>8

\* What is not a fallback is what is known of the level.
LEMMA CapacityIsKnown ==
    ASSUME LoadInvariant, loadStage = "rows", NEW l \in {1, 2}, source[l] # "fallback"
    PROVE  Capacity(l) = Known(loaded, l) /\ Capacity(l) \in Nat \ {0}
<1>1. OSReports(l) \in Nat /\ measured[l] \in Nat /\ Settled(l) /\ Capacity(l) \in Nat \ {0}
  BY SettledBounds DEF LoadInvariant
<1>2. measured[l] > 0 => measured[l] = loaded.curve[l] BY DEF LoadInvariant
<1>3. CASE OSReports(l) > 0
  <2>1. theory[l] = OSReports(l) BY <1>1, <1>3 DEF Settled
  <2> QED BY <1>1, <1>3, <2>1 DEF Capacity, Known, OSReports
<1>4. CASE OSReports(l) = 0
  <2>1. measured[l] > 0 /\ theory[l] = 0 BY <1>1, <1>4 DEF Settled
  <2>2. Capacity(l) = loaded.curve[l] BY <1>2, <2>1 DEF Capacity
  <2> QED BY <1>1, <1>4, <2>2 DEF Known, OSReports
<1> QED BY <1>1, <1>3, <1>4

\* Half of what is known of the L1, whole loop bodies of it, is in the L1.
LEMMA L1RowFits ==
    ASSUME LoadInvariant, loadStage = "rows", source[1] # "fallback", NEW block \in LoadBlocks,
           NEW size, size = LevelWorkset(0, Capacity(1))
    PROVE  size - (size % block) \in 1..loaded.l1
<1> DEFINE c1 == Capacity(1)
<1>1. c1 = Known(loaded, 1) /\ c1 \in Nat \ {0} BY CapacityIsKnown
<1>2. block \in Nat \ {0} /\ loaded.l1 \in Nat BY LoadAssumption DEF LoadInvariant
<1>3. 2 * block <= c1 /\ c1 <= 2 * loaded.l1
  BY <1>1, AccuracyAssumption DEF LoadInvariant
<1> HIDE DEF c1
<1>4. size = c1 \div 2 BY <1>1, LevelWorksetIs DEF c1
<1>5. size \in Nat /\ block <= size /\ size <= loaded.l1 BY <1>1, <1>2, <1>3, <1>4
<1>6. size - (size % block) \in Nat /\ size - (size % block) <= size
      /\ size - (size % block) > size - block
  BY <1>2, <1>5, ModBounds
<1> QED BY <1>2, <1>5, <1>6

\* The middle of what is known of the two levels, whole loop bodies of it, is in
\* the L2 and no longer in the L1.
LEMMA L2RowFits ==
    ASSUME LoadInvariant, loadStage = "rows", source[1] # "fallback", source[2] # "fallback",
           NEW block \in LoadBlocks, NEW size, size = LevelWorkset(Capacity(1), Capacity(2))
    PROVE  size - (size % block) \in (loaded.l1 + 1)..loaded.l2
<1> DEFINE c1 == Capacity(1)
           c2 == Capacity(2)
           l1 == loaded.l1
           l2 == loaded.l2
           least == l1 + block
<1>1. c1 = Known(loaded, 1) /\ c1 \in Nat \ {0} /\ c2 = Known(loaded, 2) /\ c2 \in Nat \ {0}
  BY CapacityIsKnown
<1>2. block \in Nat \ {0} /\ l1 \in Nat /\ l2 \in Nat BY LoadAssumption DEF LoadInvariant
<1>3. c1 < c2 /\ c1 * c2 <= l2 * l2 /\ least * least <= c1 * c2
  BY <1>1, AccuracyAssumption DEF LoadInvariant
<1>4. least \in Nat /\ least = l1 + block BY <1>2
<1>5. size = LevelWorkset(c1, c2) OBVIOUS
<1> HIDE DEF c1, c2, l1, l2, least
<1>6. size \in Nat /\ size * size <= c1 * c2 /\ c1 * c2 < (size + 1) * (size + 1)
  <2>1. 0 < c1 /\ c1 < c2 /\ c1 \in Nat /\ c2 \in Nat BY <1>1, <1>3
  <2> QED BY <2>1, <1>5, LevelWorksetIs
<1> DEFINE product == c1 * c2
<1>7. product \in Nat BY <1>1
<1>8. size * size <= product /\ product < (size + 1) * (size + 1)
      /\ product <= l2 * l2 /\ least * least <= product
  BY <1>3, <1>6
<1> HIDE DEF product
<1>9. least <= size
  <2> DEFINE next == size + 1
  <2>1. least * least \in Int /\ next * next \in Int BY <1>4, <1>6
  <2>2. least * least < next * next BY <1>7, <1>8, <2>1
  <2> QED BY <1>4, <1>6, <2>2, SquareMonotone
<1>10. size <= l2
  <2>1. size * size \in Int /\ l2 * l2 \in Int BY <1>2, <1>6
  <2>2. size * size <= l2 * l2 BY <1>7, <1>8, <2>1
  <2> QED BY <1>2, <1>6, <2>2, SquareMonotone
<1>11. size - (size % block) \in Nat /\ size - (size % block) <= size
       /\ size - (size % block) > size - block
  BY <1>2, <1>6, ModBounds
<1> DEFINE workset == size - (size % block)
<1> HIDE DEF workset
<1>12. workset \in l1 + 1..l2 BY <1>2, <1>4, <1>6, <1>9, <1>10, <1>11 DEF workset
<1> QED BY <1>12 DEF workset, l1, l2

\* Every read of a load row is served by the level the row names, never by the
\* faster one, whichever of the two capacities is the system's or the curve's,
\* and a row of a fallback says that it is one (prepare_load_capacities and
\* append_load_bandwidth_row).
THEOREM LoadRowsMeasureTheirLevel == LoadSpec => []LoadRowMeasuresItsLevel
<1>1. LoadInvariant => LoadRowMeasuresItsLevel
  <2> SUFFICES ASSUME LoadInvariant, NEW i \in DOMAIN loadRows, NEW row, row = loadRows[i]
               PROVE  /\ row.from = "fallback" <=>
                             OSReports(row.level) = 0
                                 /\ ("cache" \in tests => loaded.curve[row.level] = 0)
                      /\ (\A l \in 1..row.level : source[l] # "fallback") =>
                             /\ row.workset <= <<loaded.l1, loaded.l2>>[row.level]
                             /\ row.workset > <<0, loaded.l1>>[row.level]
    BY DEF LoadRowMeasuresItsLevel
  <2>1. row.from = "fallback" <=>
            OSReports(row.level) = 0 /\ ("cache" \in tests => loaded.curve[row.level] = 0)
    BY OriginIsTold
  <2>2. CutFromItsLevel(row) /\ loadStage = "rows" BY DEF LoadInvariant
  <2>3. loaded.l1 \in Nat /\ loaded.l2 \in Nat BY LoadAssumption DEF LoadInvariant
  <2> SUFFICES ASSUME \A l \in 1..row.level : source[l] # "fallback"
               PROVE  /\ row.workset <= <<loaded.l1, loaded.l2>>[row.level]
                      /\ row.workset > <<0, loaded.l1>>[row.level]
    BY <2>1
  <2>4. CASE row.level = 1
    <3>1. source[1] # "fallback" BY <2>4
    <3>2. PICK block \in LoadBlocks :
              LET size == LevelWorkset(0, Capacity(1))
              IN  row.workset = size - (size % block)
      BY <2>2, <2>4 DEF CutFromItsLevel
    <3>3. row.workset \in 1..loaded.l1 BY <2>2, <3>1, <3>2, L1RowFits
    <3> QED BY <2>3, <2>4, <3>3
  <2>5. CASE row.level = 2
    <3>1. source[1] # "fallback" /\ source[2] # "fallback" BY <2>5
    <3>2. PICK block \in LoadBlocks :
              LET size == LevelWorkset(Capacity(1), Capacity(2))
              IN  row.workset = size - (size % block)
      BY <2>2, <2>5 DEF CutFromItsLevel
    <3>3. row.workset \in (loaded.l1 + 1)..loaded.l2 BY <2>2, <3>1, <3>2, L2RowFits
    <3> QED BY <2>3, <2>5, <3>3
  <2> QED BY <2>2, <2>4, <2>5 DEF CutFromItsLevel
<1> QED BY <1>1, LoadInvariantHolds, PTL

\* Within the table, and without it, the load rows are made as LoadRows says, so
\* they measure their levels there too.
THEOREM TableLoads == TableSpec => LoadSpec /\ []LoadRowMeasuresItsLevel
<1>1. TableInit => LoadInit BY DEF TableInit
<1>2. [TableNext]_tableVars => [LoadNext]_loadVars
  <2>1. CASE Curve BY <2>1 DEF Curve, LoadNext
  <2>2. CASE Probes \/ Prefetch \/ Streams BY <2>2 DEF Probes, Prefetch, Streams
  <2>3. CASE Load BY <2>3 DEF Load, LoadNext
  <2>4. CASE UNCHANGED tableVars BY <2>4 DEF tableVars
  <2> QED BY <2>1, <2>2, <2>3, <2>4 DEF TableNext
<1>3. TableSpec => LoadSpec BY <1>1, <1>2, PTL DEF TableSpec, LoadSpec
<1> QED BY <1>3, LoadRowsMeasureTheirLevel

\* The table runs the probes as CacheProbes says, whatever it measures before and
\* after them, so what they report of the core holds there too.
THEOREM TableProbes == TableSpec => ProbesSpec /\ []GeometryOfTheCore
<1>1. TableInit => ProbesInit BY DEF TableInit
<1>2. [TableNext]_tableVars => [ProbesNext]_probesVars
  <2>1. CASE Curve \/ Prefetch \/ Streams \/ Load
    BY <2>1 DEF Curve, Prefetch, Streams, Load, probesVars
  <2>2. CASE Probes BY <2>2 DEF Probes
  <2>3. CASE UNCHANGED tableVars BY <2>3 DEF tableVars
  <2> QED BY <2>1, <2>2, <2>3 DEF TableNext
<1>3. TableSpec => ProbesSpec BY <1>1, <1>2, PTL DEF TableSpec, ProbesSpec
<1> QED BY <1>3, ProbesFindTheCore
=============================================================================
