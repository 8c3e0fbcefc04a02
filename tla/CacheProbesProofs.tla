-------------------------- MODULE CacheProbesProofs --------------------------
(***************************************************************************)
(* For every core in Cores, every run of the line and set-conflict probes  *)
(* finds its geometry, as GeometryOfTheCore says, disturbed as often as    *)
(* that allows.  First the ratios the line probe reads off a core and the  *)
(* vote of its passes.  Then which sets a ring falls into, in powers of    *)
(* two of bytes, and from that when a ring thrashes them and its control   *)
(* does not.  Last the invariant of the sequence of probes: what a field   *)
(* that has ended holds, and what the samples so far of the one that runs  *)
(* say of the core.                                                        *)
(***************************************************************************)
EXTENDS CacheProbes, FiniteSetTheorems, SequenceTheorems, TLAPS

(***************************************************************************)
(* The pairs of the line probe.                                            *)
(***************************************************************************)

\* A pair <<s, s + s/2>> is in one line, in neighbouring lines or further apart.
LEMMA PairApart ==
    ASSUME core \in Cores, NEW s \in Shifts \cup {1024}
    PROVE  /\ LineOf(s) \in Nat /\ LineOf(s + s \div 2) \in Nat
           /\ s <= core.line => LineOf(s + s \div 2) = LineOf(s)
           /\ s = 2 * core.line => LineOf(s + s \div 2) = LineOf(s) + 1
           /\ s > 2 * core.line => LineOf(s + s \div 2) > LineOf(s) + 1
           /\ s <= core.line \/ s = 2 * core.line \/ s > 2 * core.line
<1>1. core.line \in Shifts BY ProbeAssumption
<1>2. CASE core.line = 16 BY <1>2 DEF LineOf, Shifts
<1>3. CASE core.line = 32 BY <1>3 DEF LineOf, Shifts
<1>4. CASE core.line = 64 BY <1>4 DEF LineOf, Shifts
<1>5. CASE core.line = 128 BY <1>5 DEF LineOf, Shifts
<1>6. CASE core.line = 256 BY <1>6 DEF LineOf, Shifts
<1>7. CASE core.line = 512 BY <1>7 DEF LineOf, Shifts
<1> QED BY <1>1, <1>2, <1>3, <1>4, <1>5, <1>6, <1>7 DEF Shifts

\* What a cold pair costs, and the last stride whose pairs are never cold.
Cold == IF StartCold(core) THEN core.miss ELSE 20
Fetched == IF core.prefetch = {"next", "last"} THEN 2 * core.line ELSE core.line

LEMMA StrideRatioIs ==
    ASSUME core \in Cores, NEW s \in Shifts \cup {1024}
    PROVE  StrideRatio(s) = IF s <= Fetched THEN 3 ELSE Cold
<1> DEFINE a == LineOf(s)
           b == LineOf(s + s \div 2)
           both == core.prefetch = {"next", "last"}
           l == core.line
<1>1. l \in Nat /\ Cold \in Nat /\ Cold > 3 /\ core.prefetch \subseteq {"next", "last"} /\ s \in Nat
  BY ProbeAssumption DEF Cold, Shifts
<1>2. /\ a \in Nat /\ b \in Nat
      /\ s <= l => b = a
      /\ s = 2 * l => b = a + 1
      /\ s > 2 * l => b > a + 1
      /\ s <= l \/ s = 2 * l \/ s > 2 * l
  BY PairApart
<1>3. /\ Below(s) = IF b = a \/ ("next" \in core.prefetch /\ a = b + 1)
                        \/ ("last" \in core.prefetch /\ a = b - 1) THEN 3 ELSE Cold
      /\ Above(s) = IF b = a \/ ("next" \in core.prefetch /\ b = a + 1)
                        \/ ("last" \in core.prefetch /\ b = a - 1) THEN 3 ELSE Cold
  BY DEF Below, Above, ReuseRatio, Cold
<1>4. both <=> "next" \in core.prefetch /\ "last" \in core.prefetch BY <1>1
<1>5. Fetched = IF both THEN 2 * l ELSE l BY DEF Fetched
<1>6. StrideRatio(s) = IF Below(s) > Above(s) THEN Below(s) ELSE Above(s)
  BY DEF StrideRatio, Largest
<1> HIDE DEF a, b, both, l
<1>7. CASE s <= l BY <1>1, <1>2, <1>3, <1>5, <1>6, <1>7
<1>8. CASE s = 2 * l
  <2>1. l > 0 BY ProbeAssumption DEF l, Shifts
  <2>2. Below(s) = (IF "last" \in core.prefetch THEN 3 ELSE Cold) BY <1>1, <1>2, <1>3, <1>8
  <2>3. Above(s) = (IF "next" \in core.prefetch THEN 3 ELSE Cold) BY <1>1, <1>2, <1>3, <1>8
  <2> QED BY <1>1, <1>4, <1>5, <1>6, <1>8, <2>1, <2>2, <2>3
<1>9. CASE s > 2 * l
  <2>1. Below(s) = Cold /\ Above(s) = Cold BY <1>1, <1>2, <1>3, <1>9
  <2> QED BY <1>1, <1>5, <1>6, <1>9, <2>1
<1> QED BY <1>2, <1>7, <1>8, <1>9

\* An undisturbed pass shows the line.
LEMMA CleanPass ==
    ASSUME core \in Cores
    PROVE  LineOfRatios(Ratios) = LineSeen(core)
<1> DEFINE n == 7
           rises == {i \in 1..6 : Ratios[i + 1] - Ratios[i] >= 20 /\ Ratios[i + 1] >= 30}
<1>1. Len(LineStrides) = 7 BY DEF LineStrides
<1>2. \A i \in 1..7 : LineStrides[i] \in Shifts \cup {1024} BY DEF LineStrides, Shifts
<1>3. \A i \in 1..7 : Ratios[i] = IF LineStrides[i] <= Fetched THEN 3 ELSE Cold
  BY <1>1, <1>2, StrideRatioIs DEF Ratios
<1>4. LineOfRatios(Ratios) = IF rises = {} THEN 0 ELSE LineStrides[Min(rises)]
  BY <1>1 DEF LineOfRatios
<1> HIDE DEF rises
<1>5. CASE StartCold(core)
  <2>1. Cold \in Nat /\ Cold >= 30 BY <1>5, ProbeAssumption DEF Cold
  <2>2. Fetched = LineSeen(core) BY <1>5 DEF Fetched, LineSeen
  <2>3. Fetched \in Shifts
    <3>1. core.line \in Shifts /\ LineSeen(core) <= 512 BY ProbeAssumption, ControlAssumption
    <3> QED BY <2>2, <3>1 DEF Fetched, Shifts
  <2>4. PICK k \in 1..6 : LineStrides[k] = Fetched BY <2>3 DEF LineStrides, Shifts
  <2>5. \A i \in 1..7 : LineStrides[i] <= Fetched <=> i <= k BY <2>4 DEF LineStrides
  <2>6. \A i \in 1..7 : Ratios[i] = IF i <= k THEN 3 ELSE Cold BY <1>3, <2>5
  <2>7. \A i \in 1..6 : i \in rises <=> i = k BY <2>1, <2>6 DEF rises
  <2>8. rises = {k} BY <2>7 DEF rises
  <2>9. Min(rises) = k BY <2>8 DEF Min
  <2> QED BY <1>4, <2>2, <2>4, <2>8, <2>9
<1>6. CASE ~StartCold(core)
  <2>1. Cold = 20 BY <1>6 DEF Cold
  <2>2. \A i \in 1..7 : Ratios[i] \in {3, 20} BY <1>3, <2>1
  <2>3. rises = {} BY <2>2 DEF rises
  <2> QED BY <1>4, <2>3, <1>6 DEF LineSeen
<1> QED BY <1>5, <1>6

(***************************************************************************)
(* What has happened: phases come in order, and a disturbance stays with   *)
(* the pass it happened in.                                                *)
(***************************************************************************)

Fields == DOMAIN After
Phases == Fields \cup {"done"}

History ==
    /\ core \in Cores /\ phase \in Phases
    /\ fields = [f \in Fields |-> fields[f]]
    /\ IsFiniteSet(disturbed)
    /\ votes \in Seq({0} \cup Shifts) /\ Len(votes) <= 3

LEMMA FieldsAre ==
    /\ Fields = {"cacheline", "way", "wayBytes", "lineFromSets", "l2way", "l2line"}
    /\ After["cacheline"] = "way" /\ After["way"] = "wayBytes"
    /\ After["wayBytes"] = "lineFromSets" /\ After["lineFromSets"] = "l2way"
    /\ After["l2way"] = "l2line" /\ After["l2line"] = "done"
BY DEF Fields, After

\* Two passes of which at most one was disturbed.
LEMMA OneOfTwo ==
    ASSUME NEW S, IsFiniteSet(S), Cardinality(S) <= 1, NEW a \in S, NEW b \in S
    PROVE  a = b
<1> SUFFICES ASSUME a # b PROVE FALSE OBVIOUS
<1>1. {a, b} \subseteq S OBVIOUS
<1>2. Cardinality({a, b}) <= Cardinality(S) BY <1>1, FS_Subset
<1>3. Cardinality({a}) = 1 BY FS_Singleton
<1>4. IsFiniteSet({a}) BY FS_Singleton
<1>5. Cardinality({a} \cup {b}) = Cardinality({a}) + 1 BY <1>4, FS_AddElement
<1>6. {a, b} = {a} \cup {b} OBVIOUS
<1>7. Cardinality(S) \in Nat BY FS_CardinalityType
<1> QED BY <1>2, <1>3, <1>5, <1>6, <1>7

LEMMA OnePassDisturbed ==
    ASSUME LinePassesClean, NEW i \in 1..3, NEW j \in 1..3, i # j
    PROVE  ~DisturbedIn("cacheline", i) \/ ~DisturbedIn("cacheline", j)
<1> DEFINE S == {k \in 1..3 : DisturbedIn("cacheline", k)}
<1>1. IsFiniteSet(1..3)
  <2> DEFINE three == 3
             one == 1
  <2>1. three \in Int /\ one \in Int OBVIOUS
  <2> HIDE DEF three, one
  <2>2. IsFiniteSet(one..three) BY <2>1, FS_Interval
  <2> QED BY <2>2 DEF three, one
<1>2. IsFiniteSet(S) BY <1>1, FS_Subset
<1> QED BY <1>2, OneOfTwo DEF LinePassesClean

(***************************************************************************)
(* Numbers: powers of two, remainders, and how many lines share one.       *)
(***************************************************************************)

LEMMA DivModIs ==
    ASSUME NEW a \in Nat, NEW n \in Nat \ {0}
    PROVE  a \div n \in Nat /\ a % n \in 0..(n - 1) /\ a = n * (a \div n) + (a % n)
OBVIOUS

LEMMA ModIs ==
    ASSUME NEW a \in Nat, NEW n \in Nat \ {0}
    PROVE  a % n \in Nat /\ a % n \in 0..(n - 1)
OBVIOUS

LEMMA SplitIs ==
    ASSUME NEW d \in Nat \ {0}, NEW q \in Nat, NEW r \in 0..(d - 1)
    PROVE  (q * d + r) \div d = q /\ (q * d + r) % d = r
OBVIOUS

\* Of two sizes the smaller divides the other.
LEMMA SizesDivide ==
    ASSUME NEW a \in Sizes, NEW b \in Sizes, a <= b
    PROVE  /\ a \in Nat \ {0} /\ b \in Nat \ {0}
           /\ b \div a \in Nat \ {0} /\ b = a * (b \div a)
           /\ a < b => 2 * a <= b /\ b \div a >= 2 /\ 2 * a \in Sizes
<1>1. CASE a = 16 BY <1>1 DEF Sizes, Shifts
<1>2. CASE a = 32 BY <1>2 DEF Sizes, Shifts
<1>3. CASE a = 64 BY <1>3 DEF Sizes, Shifts
<1>4. CASE a = 128 BY <1>4 DEF Sizes, Shifts
<1>5. CASE a = 256 BY <1>5 DEF Sizes, Shifts
<1>6. CASE a = 512 BY <1>6 DEF Sizes, Shifts
<1>7. CASE a = 1024 BY <1>7 DEF Sizes, Shifts
<1>8. CASE a = 2048 BY <1>8 DEF Sizes, Shifts
<1>9. CASE a = 4096 BY <1>9 DEF Sizes, Shifts
<1>10. CASE a = 8192 BY <1>10 DEF Sizes, Shifts
<1>11. CASE a = 16384 BY <1>11 DEF Sizes, Shifts
<1>12. CASE a = 32768 BY <1>12 DEF Sizes, Shifts
<1>13. CASE a = 65536 BY <1>13 DEF Sizes, Shifts
<1> QED BY <1>1, <1>2, <1>3, <1>4, <1>5, <1>6, <1>7, <1>8, <1>9, <1>10, <1>11, <1>12, <1>13
        DEF Sizes, Shifts

\* A common factor can be taken out of a remainder.
LEMMA ModScale ==
    ASSUME NEW m \in Nat, NEW e \in Nat \ {0}, NEW q \in Nat \ {0}
    PROVE  (m * e) % (e * q) = e * (m % q)
<1> DEFINE d == m \div q
           r == m % q
           n == e * q
           t == e * r
<1>1. d \in Nat /\ r \in 0..(q - 1) /\ m = q * d + r BY DivModIs
<1>2. n \in Nat \ {0} BY DEF n
<1> HIDE DEF d, r
<1>3. t \in 0..(n - 1)
  <2>1. r \in Nat /\ r + 1 <= q BY <1>1
  <2>2. e * (r + 1) <= e * q BY <2>1
  <2>3. e * (r + 1) = e * r + e BY <2>1
  <2>4. e * r \in Nat BY <2>1
  <2> QED BY <2>2, <2>3, <2>4
<1>4. m * e = d * n + t
  <2>1. m * e = e * (q * d) + e * r BY <1>1
  <2>2. e * (q * d) = d * (e * q) BY <1>1
  <2> QED BY <2>1, <2>2
<1> HIDE DEF n, t
<1>5. (d * n + t) % n = t BY <1>1, <1>2, <1>3, SplitIs
<1> QED BY <1>4, <1>5 DEF n, t, r

\* A remainder of a remainder by a multiple.
LEMMA ModMod ==
    ASSUME NEW a \in Nat, NEW e \in Nat \ {0}, NEW q \in Nat \ {0}
    PROVE  (a % (e * q)) % e = a % e
<1> DEFINE n == e * q
           d == a \div n
           r == a % n
           f == r \div e
           t == r % e
<1>1. n \in Nat \ {0} OBVIOUS
<1> HIDE DEF n
<1>2. d \in Nat /\ r \in 0..(n - 1) /\ a = n * d + r BY <1>1, DivModIs
<1> HIDE DEF d, r
<1>3. f \in Nat /\ t \in 0..(e - 1) /\ r = e * f + t
  <2>1. r \in Nat BY <1>2
  <2> QED BY <2>1, DivModIs
<1> HIDE DEF f, t
<1>4. a = (q * d + f) * e + t
  <2>1. n * d = (q * d) * e BY <1>2 DEF n
  <2>2. (q * d + f) * e = (q * d) * e + f * e BY <1>2, <1>3
  <2>3. f * e = e * f BY <1>3
  <2> QED BY <1>2, <1>3, <2>1, <2>2, <2>3
<1> DEFINE g == q * d + f
<1>5. g \in Nat BY <1>2, <1>3
<1> HIDE DEF g
<1>6. (g * e + t) % e = t BY <1>3, <1>5, SplitIs
<1> QED BY <1>4, <1>6 DEF g, t, r, n

\* Adding a multiple leaves a remainder.
LEMMA ModPlus ==
    ASSUME NEW a \in Nat, NEW k \in Nat, NEW n \in Nat \ {0}
    PROVE  (k * n + a) % n = a % n
<1> DEFINE d == a \div n
           r == a % n
           g == k + d
<1>1. d \in Nat /\ r \in 0..(n - 1) /\ a = n * d + r BY DivModIs
<1> HIDE DEF d, r
<1>2. g \in Nat BY <1>1
<1>3. k * n + a = g * n + r
  <2>1. g * n = k * n + d * n BY <1>1
  <2>2. d * n = n * d BY <1>1
  <2>3. k * n \in Nat /\ n * d \in Nat BY <1>1
  <2> QED BY <1>1, <2>1, <2>2, <2>3
<1> HIDE DEF g
<1>4. (g * n + r) % n = r BY <1>1, <1>2, SplitIs
<1> QED BY <1>3, <1>4 DEF r

LEMMA LinesFinite ==
    ASSUME NEW n \in Nat
    PROVE  IsFiniteSet(Lines(n)) /\ Cardinality(Lines(n)) = n
<1> DEFINE b == n - 1
           z == 0
<1>1. b \in Int /\ z \in Int OBVIOUS
<1>2. (IF z > b THEN 0 ELSE b - z + 1) = n OBVIOUS
<1> HIDE DEF b, z
<1>3. IsFiniteSet(z..b) /\ Cardinality(z..b) = n BY <1>1, <1>2, FS_Interval
<1> QED BY <1>3 DEF Lines, b, z

\* Of n successive numbers no more than b leave the same remainder by q.
LEMMA CountSame ==
    ASSUME NEW n \in Nat, NEW q \in Nat \ {0}, NEW b \in Nat, n <= b * q,
           NEW S, S \subseteq Lines(n), \A i, j \in S : i % q = j % q
    PROVE  IsFiniteSet(S) /\ Cardinality(S) <= b
<1> DEFINE f == [i \in S |-> i \div q]
           T == Lines(b)
<1>1. \A i \in S : i \in Nat /\ i < n BY DEF Lines
<1>2. \A i \in S : i \div q \in T
  <2> SUFFICES ASSUME NEW i \in S PROVE i \div q \in T OBVIOUS
  <2> DEFINE d == i \div q
  <2>1. d \in Nat /\ q * d <= i
    <3>1. i \in Nat BY <1>1
    <3>2. d \in Nat /\ i % q \in 0..(q - 1) /\ i = q * d + (i % q) BY <3>1, DivModIs
    <3> HIDE DEF d
    <3>3. q * d \in Nat BY <3>2
    <3> QED BY <3>2, <3>3
  <2> HIDE DEF d
  <2>2. q * d < b * q
    <3>1. q * d \in Nat /\ b * q \in Nat BY <2>1
    <3> QED BY <2>1, <3>1, <1>1
  <2>3. d < b
    <3> SUFFICES ASSUME d >= b PROVE FALSE BY <2>1
    <3>1. q * b <= q * d BY <2>1
    <3>2. q * b = b * q OBVIOUS
    <3>3. q * d \in Nat /\ b * q \in Nat BY <2>1
    <3> QED BY <2>2, <3>1, <3>2, <3>3
  <2> QED BY <2>1, <2>3 DEF d, Lines
<1>3. \A i, j \in S : i \div q = j \div q => i = j
  <2> SUFFICES ASSUME NEW i \in S, NEW j \in S, i \div q = j \div q PROVE i = j OBVIOUS
  <2>1. i \in Nat /\ j \in Nat /\ i % q = j % q BY <1>1
  <2>2. i = q * (i \div q) + (i % q) BY <2>1, DivModIs
  <2>3. j = q * (j \div q) + (j % q) BY <2>1, DivModIs
  <2> QED BY <2>1, <2>2, <2>3
<1>4. f \in Injection(S, T) BY <1>2, <1>3 DEF Injection, IsInjective
<1>5. IsFiniteSet(T) /\ Cardinality(T) = b BY LinesFinite
<1> HIDE DEF f, T
<1> QED BY <1>4, <1>5, FS_Injection

\* Successors with the same remainder come of numbers with the same remainder.
LEMMA SuccessorsSame ==
    ASSUME NEW i \in Nat, NEW j \in Nat, NEW q \in Nat \ {0}, (i + 1) % q = (j + 1) % q
    PROVE  i % q = j % q
<1>1. ASSUME NEW a \in Nat PROVE (a + 1) % q = IF (a % q) + 1 < q THEN (a % q) + 1 ELSE 0
  <2> DEFINE d == a \div q
             r == a % q
             t == r + 1
             e == d + 1
             z == 0
  <2>1. d \in Nat /\ r \in 0..(q - 1) /\ a = q * d + r BY DivModIs
  <2> HIDE DEF d, r
  <2>2. q * d = d * q BY <2>1
  <2>3. CASE t < q
    <3>1. t \in 0..(q - 1) /\ a + 1 = d * q + t BY <2>1, <2>2, <2>3
    <3> HIDE DEF t
    <3>2. (d * q + t) % q = t BY <2>1, <3>1, SplitIs
    <3> QED BY <2>3, <3>1, <3>2 DEF t, r
  <2>4. CASE ~(t < q)
    <3>1. a + 1 = e * q + z
      <4>1. r = q - 1 BY <2>1, <2>4
      <4>2. e * q = d * q + q BY <2>1
      <4> QED BY <2>1, <2>2, <4>1, <4>2
    <3>2. e \in Nat /\ z \in 0..(q - 1) BY <2>1
    <3> HIDE DEF e, z
    <3>3. (e * q + z) % q = z BY <3>2, SplitIs
    <3> QED BY <2>4, <3>1, <3>3 DEF t, r, z
  <2> QED BY <2>3, <2>4 DEF t, r
<1>2. i % q \in 0..(q - 1) /\ j % q \in 0..(q - 1) BY DivModIs
<1> DEFINE r == i % q
           t == j % q
<1>3. (IF r + 1 < q THEN r + 1 ELSE 0) = (IF t + 1 < q THEN t + 1 ELSE 0) BY <1>1
<1> HIDE DEF r, t
<1>4. r \in 0..(q - 1) /\ t \in 0..(q - 1) BY <1>2 DEF r, t
<1>5. r = t BY <1>3, <1>4
<1> QED BY <1>5 DEF r, t

(***************************************************************************)
(* Lines that share a set.                                                 *)
(***************************************************************************)

LEMMA CoreIs ==
    ASSUME core \in Cores
    PROVE  /\ core.line \in Sizes /\ core.way \in Sizes /\ SlotBytes \in Sizes
           /\ core.line \in Nat \ {0} /\ core.way \in Nat \ {0} /\ SlotBytes \in Nat \ {0}
           /\ core.line <= 512 /\ 1024 <= core.way /\ core.way <= SlotBytes
           /\ 8 * core.line <= core.way
           /\ core.ways \in Nat \ {0} /\ core.ways < MaxLines /\ MaxLines \in Nat
           /\ Collision \in Nat /\ Collision > 1
BY ProbeAssumption DEF Sizes, Shifts

\* The set of a line that lies a whole number of ways, a number of steps and
\* less than a line into the memory.
LEMMA SetOfSteps ==
    ASSUME core \in Cores, NEW step \in Sizes, core.line <= step, step <= core.way,
           NEW k \in Nat, NEW m \in Nat, NEW b \in 0..(core.line - 1)
    PROVE  SetOf(k * core.way + (b + m * step))
               = (step \div core.line) * (m % (core.way \div step))
<1> DEFINE way == core.way
           line == core.line
           q == way \div step
           u == step \div line
           d == m \div q
           r == m % q
           inner == b + step * r
<1>1. way \in Nat \ {0} /\ line \in Nat \ {0} /\ way \in Sizes /\ line \in Sizes BY CoreIs
<1>2. q \in Nat \ {0} /\ way = step * q /\ step \in Nat \ {0} BY <1>1, SizesDivide
<1>3. u \in Nat \ {0} /\ step = line * u BY <1>1, SizesDivide
<1>4. b \in Nat /\ b < line BY <1>1
<1>5. SetOf(k * way + (b + m * step)) = ((k * way + (b + m * step)) % way) \div line BY DEF SetOf
<1> HIDE DEF way, line, q, u
<1>6. d \in Nat /\ r \in 0..(q - 1) /\ m = q * d + r BY <1>2, DivModIs
<1> HIDE DEF d, r
<1>7. inner \in 0..(way - 1)
  <2>1. step * (r + 1) <= step * q BY <1>2, <1>6
  <2>2. step * (r + 1) = step * r + step /\ step * r \in Nat BY <1>2, <1>6
  <2>3. b < step BY <1>3, <1>4, <1>1
  <2> QED BY <1>2, <1>4, <2>1, <2>2, <2>3
<1>8. k * way + (b + m * step) = (k + d) * way + inner
  <2>1. m * step = (q * d) * step + r * step BY <1>2, <1>6
  <2>2. (q * d) * step = d * (step * q) BY <1>2, <1>6
  <2>3. (k + d) * way = k * way + d * way BY <1>1, <1>6
  <2>4. r * step = step * r BY <1>2, <1>6
  <2> QED BY <1>1, <1>2, <1>4, <1>6, <2>1, <2>2, <2>3, <2>4
<1> DEFINE g == k + d
           ur == u * r
<1>9. g \in Nat /\ ur \in Nat BY <1>3, <1>6
<1>10. inner = ur * line + b
  <2>1. step * r = (u * r) * line BY <1>1, <1>3, <1>6
  <2> QED BY <1>4, <2>1, <1>1, <1>6
<1> HIDE DEF g, ur, inner
<1>11. (g * way + inner) % way = inner BY <1>1, <1>7, <1>9, SplitIs
<1>12. b \in 0..(line - 1) BY <1>1, <1>4
<1>13. (ur * line + b) \div line = ur BY <1>1, <1>9, <1>12, SplitIs
<1> QED BY <1>5, <1>8, <1>10, <1>11, <1>13 DEF g, ur, way, line, q, u, r

\* Same-set lines that placement k holds.
HoldsAt(k) == IF k \in core.collide THEN Smallest(core.ways, Collision - 1) ELSE core.ways

LEMMA HoldsIs ==
    ASSUME core \in Cores, NEW k
    PROVE  /\ HoldsAt(k) \in Nat \ {0} /\ HoldsAt(k) <= core.ways
           /\ Held(core) \in Nat \ {0} /\ Held(core) <= HoldsAt(k)
           /\ k \notin core.collide => HoldsAt(k) = core.ways
BY CoreIs DEF HoldsAt, Held, Smallest

LEMMA SetHoldsIs == SetHolds = HoldsAt(pass)
BY DEF SetHolds, HoldsAt

\* A ring in one set thrashes it when it has more lines than the set holds.
LEMMA OneSetThrashes ==
    ASSUME core \in Cores, NEW n \in Nat, NEW o, DOMAIN o = Lines(n),
           \A i, j \in Lines(n) : SetOf(o[i]) = SetOf(o[j])
    PROVE  Thrashes(o) <=> n > SetHolds
<1>1. \A i \in Lines(n) : {j \in Lines(n) : SetOf(o[j]) = SetOf(o[i])} = Lines(n) OBVIOUS
<1>2. Cardinality(Lines(n)) = n BY LinesFinite
<1>3. Thrashes(o) <=> \E i \in Lines(n) : n > SetHolds BY <1>1, <1>2 DEF Thrashes
<1>4. SetHolds \in Nat BY SetHoldsIs, HoldsIs
<1>5. n > SetHolds => 0 \in Lines(n) BY <1>4 DEF Lines
<1> QED BY <1>3, <1>5

\* A ring spread over q sets does not while they hold all its lines.
LEMMA SpreadHolds ==
    ASSUME core \in Cores, NEW n \in Nat, NEW o, DOMAIN o = Lines(n), NEW q \in Nat \ {0},
           \A i, j \in Lines(n) : SetOf(o[i]) = SetOf(o[j]) => i % q = j % q,
           n <= SetHolds * q
    PROVE  ~Thrashes(o)
<1>1. SetHolds \in Nat BY SetHoldsIs, HoldsIs
<1>2. SUFFICES ASSUME NEW i \in Lines(n)
               PROVE  ~(Cardinality({j \in Lines(n) : SetOf(o[j]) = SetOf(o[i])}) > SetHolds)
  BY DEF Thrashes
<1> DEFINE S == {j \in Lines(n) : SetOf(o[j]) = SetOf(o[i])}
           b == SetHolds
<1>3. S \subseteq Lines(n) /\ \A j, k \in S : j % q = k % q OBVIOUS
<1>4. b \in Nat /\ n <= b * q BY <1>1
<1> HIDE DEF S, b
<1>5. IsFiniteSet(S) /\ Cardinality(S) <= b BY <1>3, <1>4, CountSame
<1>6. Cardinality(S) \in Nat BY <1>5, FS_CardinalityType
<1> QED BY <1>4, <1>5, <1>6 DEF S, b

\* A control ring, its lines whole ways and less than a line into the memory, each
\* skewed by one more step, does not thrash.
LEMMA ControlHolds ==
    ASSUME core \in Cores, NEW n \in Nat, NEW step \in Sizes,
           core.line <= step, step <= core.way, n * step <= Held(core) * core.way,
           NEW o, DOMAIN o = Lines(n),
           \A i \in Lines(n) : \E k \in Nat, b \in 0..(core.line - 1) :
               o[i] = k * core.way + (b + (i + 1) * step)
    PROVE  ~Thrashes(o)
<1> DEFINE q == core.way \div step
           u == step \div core.line
           h == Held(core)
           s == SetHolds
<1>1. /\ core.way \in Sizes /\ core.line \in Sizes /\ core.way \in Nat BY CoreIs
<1>2. q \in Nat \ {0} /\ core.way = step * q /\ step \in Nat \ {0} BY <1>1, SizesDivide
<1>3. u \in Nat \ {0} BY <1>1, SizesDivide
<1>4. h \in Nat /\ s \in Nat /\ h <= s BY SetHoldsIs, HoldsIs
<1>5. \A i \in Lines(n) : SetOf(o[i]) = u * ((i + 1) % q)
  <2> SUFFICES ASSUME NEW i \in Lines(n) PROVE SetOf(o[i]) = u * ((i + 1) % q) OBVIOUS
  <2> DEFINE m == i + 1
  <2>1. PICK k \in Nat, b \in 0..(core.line - 1) : o[i] = k * core.way + (b + m * step) OBVIOUS
  <2>2. m \in Nat BY DEF Lines
  <2> HIDE DEF m
  <2>3. SetOf(k * core.way + (b + m * step)) = u * (m % q) BY <2>2, SetOfSteps
  <2> QED BY <2>1, <2>3 DEF m
<1>6. n <= s * q
  <2> HIDE DEF q, h, s
  <2>1. n * step <= (h * q) * step
    <3>1. h * (step * q) = (h * q) * step BY <1>2, <1>4
    <3> QED BY <1>2, <3>1 DEF h
  <2> DEFINE x == h * q
  <2>2. x \in Nat BY <1>2, <1>4
  <2>3. n <= x
    <3> HIDE DEF x
    <3> SUFFICES ASSUME n >= x + 1 PROVE FALSE BY <2>2
    <3>1. n * step >= (x + 1) * step BY <1>2, <2>2
    <3>2. (x + 1) * step = x * step + step BY <1>2, <2>2
    <3>3. n * step <= x * step BY <2>1 DEF x
    <3>4. n * step \in Nat /\ x * step \in Nat BY <1>2, <2>2
    <3> QED BY <1>2, <3>1, <3>2, <3>3, <3>4
  <2>4. h * q <= s * q BY <1>2, <1>4
  <2>5. h * q \in Nat /\ s * q \in Nat BY <1>2, <1>4
  <2> QED BY <2>3, <2>4, <2>5
<1> HIDE DEF q, u
<1>7. \A i, j \in Lines(n) : SetOf(o[i]) = SetOf(o[j]) => i % q = j % q
  <2> SUFFICES ASSUME NEW i \in Lines(n), NEW j \in Lines(n), SetOf(o[i]) = SetOf(o[j])
               PROVE  i % q = j % q
    OBVIOUS
  <2>1. i \in Nat /\ j \in Nat BY DEF Lines
  <2> DEFINE a == (i + 1) % q
             c == (j + 1) % q
  <2>2. u * a = u * c BY <1>5
  <2>3. a \in Nat /\ c \in Nat
    <3> DEFINE i1 == i + 1
               j1 == j + 1
    <3>1. i1 \in Nat /\ j1 \in Nat BY <2>1
    <3> HIDE DEF i1, j1
    <3>2. i1 % q \in 0..(q - 1) /\ j1 % q \in 0..(q - 1) BY <1>2, <3>1, DivModIs
    <3> QED BY <1>2, <3>2 DEF i1, j1
  <2> HIDE DEF a, c
  <2>4. a = c BY <1>3, <2>2, <2>3
  <2> QED BY <1>2, <2>1, <2>4, SuccessorsSame DEF a, c
<1> QED BY <1>2, <1>6, <1>7, SpreadHolds DEF s

\* The set of a line that lies whole ways into the memory, and less than a line.
LEMMA SetOfWhole ==
    ASSUME core \in Cores, NEW k \in Nat, NEW b \in 0..(core.line - 1)
    PROVE  SetOf(k * core.way + b) = 0
<1> DEFINE way == core.way
           line == core.line
           z == 0
<1>1. way \in Nat \ {0} /\ line \in Nat \ {0} /\ 8 * line <= way BY CoreIs
<1>2. b \in 0..(way - 1) /\ b \in 0..(line - 1) /\ z \in Nat /\ b = z * line + b BY <1>1
<1> HIDE DEF way, line, z
<1>3. (k * way + b) % way = b BY <1>1, <1>2, SplitIs
<1>4. (z * line + b) \div line = z BY <1>1, <1>2, SplitIs
<1> QED BY <1>2, <1>3, <1>4 DEF SetOf, way, line, z

\* The line size measured or given.
LEMMA EffectiveIs ==
    ASSUME fields.cacheline = LineSeen(core)
    PROVE  EffectiveLine = SkewOf(core)
BY DEF EffectiveLine, SkewOf

LEMMA SkewIs ==
    ASSUME core \in Cores
    PROVE  /\ SkewOf(core) \in Sizes /\ SkewOf(core) \in Nat
           /\ core.line <= SkewOf(core) /\ SkewOf(core) <= core.way
           /\ 2 * SkewOf(core) <= core.way /\ 2 * SkewOf(core) \in Sizes
           /\ \A n \in Nat : n <= MaxLines => n * SkewOf(core) <= Held(core) * core.way
<1> DEFINE w == SkewOf(core)
           h == Held(core)
<1>1. w \in Sizes /\ core.line <= w /\ 2 * w <= core.way /\ MaxLines * w <= h * core.way
  BY ControlAssumption
<1>2. core.way \in Sizes /\ core.way \in Nat /\ MaxLines \in Nat BY CoreIs
<1>3. h \in Nat BY HoldsIs
<1>4. w \in Nat \ {0} BY <1>1 DEF Sizes, Shifts
<1> HIDE DEF w, h
<1>5. w < core.way BY <1>1, <1>2, <1>4
<1>6. 2 * w \in Sizes BY <1>1, <1>2, <1>4, <1>5, SizesDivide
<1>7. ASSUME NEW n \in Nat, n <= MaxLines PROVE n * w <= h * core.way
  <2>1. n * w <= MaxLines * w BY <1>2, <1>4, <1>7
  <2>2. n * w \in Nat /\ MaxLines * w \in Nat /\ h * core.way \in Nat BY <1>2, <1>3, <1>4
  <2> QED BY <1>1, <2>1, <2>2
<1> QED BY <1>1, <1>2, <1>4, <1>5, <1>6, <1>7 DEF w, h

\* Lines of one set conflict when there are more of them than it holds.
LEMMA SameSetConflicts ==
    ASSUME core \in Cores, NEW n \in Nat, n <= MaxLines
    PROVE  Conflicts(SameSet(n), SkewOf(core)) <=> n > SetHolds
<1> DEFINE w == SkewOf(core)
           o == [i \in Lines(n) |-> SameSet(n)[i] + (i + 1) * w]
<1>1. \A i \in Lines(n) : SameSet(n)[i] = 0 BY DEF SameSet
<1>2. DOMAIN SameSet(n) = Lines(n) BY DEF SameSet
<1>3. Thrashes(SameSet(n)) <=> n > SetHolds
  <2> DEFINE s == SameSet(n)
  <2>1. \A i, j \in Lines(n) : SetOf(s[i]) = SetOf(s[j]) BY <1>1
  <2>2. DOMAIN s = Lines(n) BY <1>2
  <2> HIDE DEF s
  <2>3. Thrashes(s) <=> n > SetHolds BY <2>1, <2>2, OneSetThrashes
  <2> QED BY <2>3 DEF s
<1>4. ~Thrashes(o)
  <2>1. \A i \in Lines(n) : \E k \in Nat, b \in 0..(core.line - 1) :
            o[i] = k * core.way + (b + (i + 1) * w)
    <3> SUFFICES ASSUME NEW i \in Lines(n)
                 PROVE  o[i] = 0 * core.way + (0 + (i + 1) * w) /\ 0 \in 0..(core.line - 1)
      OBVIOUS
    <3>1. i \in Nat BY DEF Lines
    <3>2. w \in Nat /\ core.way \in Nat /\ core.line \in Nat \ {0} BY SkewIs, CoreIs
    <3>3. o[i] = 0 + (i + 1) * w BY <1>1
    <3>4. (i + 1) * w \in Nat /\ 0 * core.way = 0
      <4> HIDE DEF w
      <4> QED BY <3>1, <3>2
    <3> HIDE DEF w, o
    <3> QED BY <3>2, <3>3, <3>4
  <2>2. /\ w \in Sizes /\ core.line <= w /\ w <= core.way
        /\ n * w <= Held(core) * core.way
    BY SkewIs
  <2>3. DOMAIN o = Lines(n) OBVIOUS
  <2> HIDE DEF o, w
  <2> QED BY <2>1, <2>2, <2>3, ControlHolds
<1> QED BY <1>2, <1>3, <1>4 DEF Conflicts

LEMMA RingIs ==
    ASSUME core \in Cores, fields.way \in Nat
    PROVE  /\ RingLines \in Nat /\ RingLines <= MaxLines /\ RingLines <= 2 * fields.way
           /\ fields.way > 0 => RingLines > 0
           /\ \A h \in Nat : fields.way >= h /\ 0 < h /\ h <= core.ways => RingLines > h
BY CoreIs DEF RingLines, Smallest

\* Lines a multiple of a way apart conflict when there are more than a set holds.
LEMMA WayConflicts ==
    ASSUME core \in Cores, fields.way \in Nat, NEW x \in Sizes, core.way <= x, x <= SlotBytes
    PROVE  Conflicts(Strided(x), SkewOf(core)) <=> RingLines > SetHolds
<1> DEFINE w == SkewOf(core)
           n == RingLines
           way == core.way
           c == x \div way
           e == SlotBytes \div x
           s == Strided(x)
           o == [i \in Lines(n) |-> s[i] + (i + 1) * w]
<1>1. n \in Nat /\ n <= MaxLines BY RingIs
<1>2. way \in Sizes /\ SlotBytes \in Sizes /\ way \in Nat \ {0} BY CoreIs
<1>3. c \in Nat \ {0} /\ x = way * c /\ x \in Nat \ {0} BY <1>2, SizesDivide
<1>4. e \in Nat \ {0} /\ SlotBytes = x * e BY <1>2, SizesDivide
<1>5. DOMAIN s = Lines(n) /\ \A i \in Lines(n) : s[i] = (i * x) % SlotBytes BY DEF Strided
<1> HIDE DEF s, n, way, c, e
<1>6. \A i \in Lines(n) : c * (i % e) \in Nat /\ s[i] = (c * (i % e)) * way + 0
  <2> SUFFICES ASSUME NEW i \in Lines(n)
               PROVE  c * (i % e) \in Nat /\ s[i] = (c * (i % e)) * way + 0
    OBVIOUS
  <2>1. i \in Nat BY DEF Lines
  <2>2. (i * x) % (x * e) = x * (i % e) BY <1>3, <1>4, <2>1, ModScale
  <2> DEFINE r == i % e
  <2>3. r \in Nat BY <1>4, <2>1, DivModIs
  <2> HIDE DEF r
  <2>4. x * r = (c * r) * way + 0 /\ c * r \in Nat BY <1>2, <1>3, <2>3
  <2> QED BY <1>4, <1>5, <2>2, <2>4 DEF r
<1>7. \A i \in Lines(n) : SetOf(s[i]) = 0
  <2> SUFFICES ASSUME NEW i \in Lines(n) PROVE SetOf(s[i]) = 0 OBVIOUS
  <2> DEFINE k == c * (i % e)
             b == 0
  <2>1. k \in Nat /\ s[i] = k * way + b BY <1>6
  <2>2. b \in 0..(core.line - 1) BY CoreIs
  <2> HIDE DEF k, b
  <2> QED BY <2>1, <2>2, SetOfWhole DEF way
<1>8. Thrashes(s) <=> n > SetHolds
  <2>1. \A i, j \in Lines(n) : SetOf(s[i]) = SetOf(s[j]) BY <1>7
  <2> QED BY <1>1, <1>5, <2>1, OneSetThrashes
<1>9. ~Thrashes(o)
  <2>1. \A i \in Lines(n) : \E k \in Nat, b \in 0..(core.line - 1) :
            o[i] = k * core.way + (b + (i + 1) * w)
    <3> SUFFICES ASSUME NEW i \in Lines(n)
                 PROVE  \E k \in Nat, b \in 0..(core.line - 1) :
                            o[i] = k * core.way + (b + (i + 1) * w)
      OBVIOUS
    <3> DEFINE k == c * (i % e)
    <3>1. i \in Nat BY DEF Lines
    <3>2. w \in Nat /\ core.line \in Nat \ {0} BY SkewIs, CoreIs
    <3>3. k \in Nat /\ o[i] = (k * way + 0) + (i + 1) * w BY <1>6
    <3>4. (i + 1) * w \in Nat
      <4> HIDE DEF w
      <4> QED BY <3>1, <3>2
    <3>5. k * way \in Nat
      <4> HIDE DEF k
      <4> QED BY <1>2, <3>3
    <3>6. o[i] = k * way + (0 + (i + 1) * w)
      <4> HIDE DEF k, w, o
      <4> QED BY <3>3, <3>4, <3>5
    <3>7. 0 \in 0..(core.line - 1) BY <3>2
    <3> HIDE DEF k, w, o
    <3> QED BY <3>3, <3>6, <3>7 DEF way
  <2>2. /\ w \in Sizes /\ core.line <= w /\ w <= core.way
        /\ n * w <= Held(core) * core.way
    BY <1>1, SkewIs
  <2>3. DOMAIN o = Lines(n) OBVIOUS
  <2> HIDE DEF o, w
  <2> QED BY <1>1, <2>1, <2>2, <2>3, ControlHolds
<1>10. Conflicts(s, w) <=> Thrashes(s) /\ ~Thrashes(o) BY <1>5 DEF Conflicts
<1> QED BY <1>8, <1>9, <1>10 DEF s, n

\* A smaller stride reaches twice the sets or more, and a ring of twice the ways a
\* set holds finds room.
LEMMA PartOfWayHolds ==
    ASSUME core \in Cores, fields.way \in Nat, fields.way <= SetHolds,
           NEW x \in Sizes, x >= 1024, x < core.way
    PROVE  ~Conflicts(Strided(x), SkewOf(core))
<1> DEFINE n == RingLines
           way == core.way
           line == core.line
           q == way \div x
           f == SlotBytes \div way
           u == x \div line
           s == Strided(x)
           h == SetHolds
<1>1. n \in Nat /\ n <= 2 * fields.way BY RingIs
<1>2. /\ way \in Sizes /\ SlotBytes \in Sizes /\ line \in Sizes
      /\ way \in Nat \ {0} /\ line \in Nat \ {0} /\ line <= 512 /\ way <= SlotBytes
  BY CoreIs
<1>3. q \in Nat \ {0} /\ q >= 2 /\ way = x * q /\ x \in Nat \ {0} /\ x <= way
  <2>1. x \in Nat /\ x <= way /\ x < way BY <1>2 DEF Sizes, Shifts
  <2> HIDE DEF way
  <2> QED BY <1>2, <2>1, SizesDivide
<1>4. f \in Nat \ {0} /\ SlotBytes = way * f BY <1>2, SizesDivide
<1>5. u \in Nat \ {0} /\ line <= x BY <1>2, <1>3, SizesDivide
<1>6. DOMAIN s = Lines(n) /\ \A i \in Lines(n) : s[i] = (i * x) % SlotBytes BY DEF Strided
<1>7. h \in Nat BY SetHoldsIs, HoldsIs
<1> HIDE DEF s, n, way, line, q, f, u, h
<1>8. \A i \in Lines(n) : SetOf(s[i]) = u * (i % q)
  <2> SUFFICES ASSUME NEW i \in Lines(n) PROVE SetOf(s[i]) = u * (i % q) OBVIOUS
  <2> DEFINE e == q * f
             m == i % e
             z == 0
  <2>1. i \in Nat BY DEF Lines
  <2>2. e \in Nat \ {0} /\ SlotBytes = x * e
    <3>1. (x * q) * f = x * (q * f) BY <1>3, <1>4
    <3>2. q * f \in Nat \ {0} BY <1>3, <1>4
    <3> QED BY <1>3, <1>4, <3>1, <3>2
  <2>3. q \in Nat \ {0} /\ f \in Nat \ {0} /\ x \in Nat \ {0} BY <1>3, <1>4
  <2>4. m % q = i % q BY <2>3, <2>1, ModMod
  <2>5. e \in Nat \ {0} BY <2>2
  <2> HIDE DEF e
  <2>6. (i * x) % (x * e) = x * m BY <2>3, <2>1, <2>5, ModScale, Zenon
  <2>7. m \in Nat BY <2>1, <2>5, ModIs
  <2> HIDE DEF m
  <2>8. z \in Nat /\ z \in 0..(core.line - 1) BY <1>2 DEF line
  <2>9. core.line <= x /\ x <= core.way BY <1>3, <1>5 DEF way, line
  <2>10. s[i] = z * way + (z + m * x)
    <3>1. x * m = m * x /\ m * x \in Nat BY <1>3, <2>7
    <3> QED BY <1>2, <1>6, <2>2, <2>6, <3>1
  <2> HIDE DEF z
  <2>11. SetOf(z * core.way + (z + m * x)) = (x \div core.line) * (m % (core.way \div x))
    BY <2>9, <2>7, <2>8, SetOfSteps
  <2> QED BY <2>4, <2>10, <2>11 DEF way, line, u, q
<1>9. \A i, j \in Lines(n) : SetOf(s[i]) = SetOf(s[j]) => i % q = j % q
  <2> SUFFICES ASSUME NEW i \in Lines(n), NEW j \in Lines(n), SetOf(s[i]) = SetOf(s[j])
               PROVE  i % q = j % q
    OBVIOUS
  <2>1. i \in Nat /\ j \in Nat BY DEF Lines
  <2> DEFINE a == i % q
             c == j % q
  <2>2. u * a = u * c BY <1>8
  <2>3. a \in Nat /\ c \in Nat
    <3>1. q \in Nat \ {0} BY <1>3
    <3>2. i % q \in Nat BY <2>1, <3>1, ModIs, Zenon
    <3>3. j % q \in Nat BY <2>1, <3>1, ModIs, Zenon
    <3> QED BY <3>2, <3>3
  <2> HIDE DEF a, c
  <2>4. a = c BY <1>5, <2>2, <2>3
  <2> QED BY <2>4 DEF a, c
<1>10. n <= h * q
  <2>1. h * 2 <= h * q BY <1>3, <1>7
  <2>2. h * q \in Nat BY <1>3, <1>7
  <2>3. fields.way <= h BY DEF h
  <2> QED BY <1>1, <1>7, <2>1, <2>2, <2>3
<1>11. ~Thrashes(s) BY <1>1, <1>3, <1>6, <1>9, <1>10, SpreadHolds DEF h
<1> QED BY <1>11 DEF Conflicts, s

\* A ring no larger than a set never conflicts.
LEMMA FewLinesHold ==
    ASSUME core \in Cores, fields.way \in Nat, RingLines <= SetHolds, NEW x, NEW w
    PROVE  ~Conflicts(Strided(x), w)
<1> DEFINE n == RingLines
           q == 1
           s == Strided(x)
<1>1. n \in Nat /\ n <= SetHolds * q BY RingIs, SetHoldsIs, HoldsIs
<1>2. DOMAIN s = Lines(n) BY DEF Strided
<1>3. \A i, j \in Lines(n) : i % q = j % q BY DEF Lines
<1>4. q \in Nat \ {0} OBVIOUS
<1> HIDE DEF n, q, s
<1>5. ~Thrashes(s) BY <1>1, <1>2, <1>3, <1>4, SpreadHolds
<1> QED BY <1>5 DEF Conflicts, s

(***************************************************************************)
(* Rings of which every second line is shifted.                            *)
(***************************************************************************)

LEMMA ControlEighth ==
    ASSUME core \in Cores, fields.way = core.ways
    PROVE  /\ core.way \div 8 \in Sizes /\ core.line <= core.way \div 8
           /\ core.way \div 8 <= core.way /\ core.way \div 8 \in Nat
           /\ RingLines * (core.way \div 8) <= Held(core) * core.way
<1> DEFINE e == core.way \div 8
           h == Held(core)
           n == RingLines
<1>1. core.way \in Sizes /\ core.way >= 1024 /\ 8 * core.line <= core.way /\ core.line \in Nat
      /\ core.ways \in Nat
  BY CoreIs
<1>2. e \in Sizes /\ e \in Nat /\ core.way = 8 * e BY <1>1 DEF Sizes, Shifts
<1>3. n \in Nat /\ n <= 8 * h
  <2>1. n \in Nat BY <1>1, RingIs
  <2>2. n = Smallest(2 * core.ways, MaxLines) BY DEF RingLines
  <2> QED BY <2>1, <2>2, ControlAssumption
<1>4. h \in Nat BY HoldsIs
<1> HIDE DEF e, h, n
<1>5. n * e <= (8 * h) * e BY <1>2, <1>3, <1>4
<1>6. (8 * h) * e = h * (8 * e) BY <1>2, <1>4
<1> QED BY <1>1, <1>2, <1>5, <1>6 DEF e, h, n

\* A shift within the line leaves them in one set.
LEMMA WithinLineConflicts ==
    ASSUME core \in Cores, fields.way = core.ways, fields.wayBytes = core.way,
           NEW x \in Nat, x < core.line
    PROVE  Conflicts(Alternating(x), fields.wayBytes \div 8)
<1> DEFINE w == core.way \div 8
           n == RingLines
           s == Alternating(x)
           o == [i \in Lines(n) |-> s[i] + (i + 1) * w]
<1>1. n \in Nat /\ core.line \in Nat \ {0} /\ core.way \in Nat BY CoreIs, RingIs
<1>2. DOMAIN s = Lines(n) /\ \A i \in Lines(n) : s[i] \in 0..(core.line - 1)
  BY <1>1 DEF Alternating
<1> HIDE DEF s, n
<1>3. \A i \in Lines(n) : SetOf(s[i]) = 0
  <2> SUFFICES ASSUME NEW i \in Lines(n) PROVE SetOf(s[i]) = 0 OBVIOUS
  <2> DEFINE b == s[i]
             z == 0
  <2>1. b \in 0..(core.line - 1) /\ z \in Nat BY <1>2
  <2>2. b = z * core.way + b BY <1>1, <2>1
  <2> HIDE DEF b, z
  <2>3. SetOf(z * core.way + b) = 0 BY <2>1, SetOfWhole
  <2> QED BY <2>2, <2>3 DEF b
<1>4. Thrashes(s) <=> n > SetHolds
  <2>1. \A i, j \in Lines(n) : SetOf(s[i]) = SetOf(s[j]) BY <1>3
  <2> QED BY <1>1, <1>2, <2>1, OneSetThrashes
<1>5. n > SetHolds
  <2>1. SetHolds \in Nat /\ 0 < SetHolds /\ SetHolds <= core.ways BY SetHoldsIs, HoldsIs
  <2>2. fields.way \in Nat BY CoreIs
  <2> QED BY <2>1, <2>2, RingIs DEF n
<1>6. ~Thrashes(o)
  <2>1. \A i \in Lines(n) : \E k \in Nat, b \in 0..(core.line - 1) :
            o[i] = k * core.way + (b + (i + 1) * w)
    <3> SUFFICES ASSUME NEW i \in Lines(n)
                 PROVE  \E k \in Nat, b \in 0..(core.line - 1) :
                            o[i] = k * core.way + (b + (i + 1) * w)
      OBVIOUS
    <3> DEFINE y == s[i] + (i + 1) * w
    <3>1. i \in Nat BY DEF Lines
    <3>2. w \in Nat BY ControlEighth
    <3>3. y \in Nat
      <4> HIDE DEF w
      <4>1. (i + 1) * w \in Nat BY <3>1, <3>2
      <4> QED BY <1>1, <1>2, <4>1
    <3> HIDE DEF y
    <3>4. y = 0 * core.way + y BY <1>1, <3>3
    <3> QED BY <1>2, <3>4 DEF y
  <2>2. /\ w \in Sizes /\ core.line <= w /\ w <= core.way
        /\ n * w <= Held(core) * core.way
    BY ControlEighth DEF n
  <2>3. DOMAIN o = Lines(n) OBVIOUS
  <2> HIDE DEF o, w
  <2> QED BY <1>1, <2>1, <2>2, <2>3, ControlHolds
<1>7. Conflicts(s, w) <=> Thrashes(s) /\ ~Thrashes(o) BY <1>2 DEF Conflicts
<1> QED BY <1>4, <1>5, <1>6, <1>7 DEF s

\* One by a line or more splits them over two sets, which hold them.
LEMMA PastLineHolds ==
    ASSUME core \in Cores, fields.way = core.ways, SetHolds = core.ways,
           NEW x \in Nat, core.line <= x, x <= 512, NEW w
    PROVE  ~Conflicts(Alternating(x), w)
<1> DEFINE n == RingLines
           s == Alternating(x)
           q == 2
<1>1. /\ core.line \in Nat \ {0} /\ core.way \in Nat /\ core.way >= 1024 /\ core.ways \in Nat
      /\ 8 * core.line <= core.way
  BY CoreIs
<1>2. n \in Nat /\ n <= 2 * core.ways BY <1>1, RingIs
<1>3. DOMAIN s = Lines(n) /\ \A i \in Lines(n) : s[i] = IF i % 2 = 1 THEN x ELSE 0
  BY DEF Alternating
<1> HIDE DEF s, n
<1>4. SetOf(0) = 0
  <2> DEFINE z == 0
  <2>1. z \in Nat /\ z \in 0..(core.line - 1) /\ z * core.way + z = 0 BY <1>1
  <2> HIDE DEF z
  <2>2. SetOf(z * core.way + z) = 0 BY <2>1, SetOfWhole
  <2> QED BY <2>1, <2>2
<1>5. SetOf(x) > 0
  <2> DEFINE d == x \div core.line
  <2>1. x % core.way = x BY <1>1
  <2>2. d \in Nat /\ x % core.line \in 0..(core.line - 1) /\ x = core.line * d + (x % core.line)
    <3> DEFINE line == core.line
    <3>1. line \in Nat \ {0} BY <1>1
    <3> HIDE DEF line
    <3>2. x \div line \in Nat /\ x % line \in 0..(line - 1) /\ x = line * (x \div line) + (x % line)
      BY <3>1, DivModIs
    <3> QED BY <3>2 DEF line
  <2>3. d # 0
    <3> SUFFICES ASSUME d = 0 PROVE FALSE OBVIOUS
    <3> DEFINE r == x % core.line
    <3> HIDE DEF d, r
    <3>1. r \in 0..(core.line - 1) /\ x = core.line * d + r BY <2>2 DEF r
    <3> QED BY <1>1, <3>1
  <2> QED BY <2>1, <2>2, <2>3 DEF SetOf
<1>6. \A i, j \in Lines(n) : SetOf(s[i]) = SetOf(s[j]) => i % 2 = j % 2
  <2> SUFFICES ASSUME NEW i \in Lines(n), NEW j \in Lines(n), SetOf(s[i]) = SetOf(s[j])
               PROVE  i % 2 = j % 2
    OBVIOUS
  <2>1. i \in Nat /\ j \in Nat BY DEF Lines
  <2>2. i % 2 \in {0, 1} /\ j % 2 \in {0, 1} BY <2>1
  <2>3. (i % 2 = 1) <=> (j % 2 = 1) BY <1>3, <1>4, <1>5
  <2> QED BY <2>2, <2>3
<1>7. n <= SetHolds * q BY <1>1, <1>2
<1>8. q \in Nat \ {0} OBVIOUS
<1>9. \A i, j \in Lines(n) : SetOf(s[i]) = SetOf(s[j]) => i % q = j % q BY <1>6
<1> HIDE DEF q
<1>10. ~Thrashes(s) BY <1>2, <1>3, <1>7, <1>8, <1>9, SpreadHolds
<1> QED BY <1>10 DEF Conflicts, s

(***************************************************************************)
(* The inductive invariant: what the probe that runs has found so far, and *)
(* what those that have ended have left.                                   *)
(***************************************************************************)

\* A ring of twice the L1 ways found overfills a set in placement k, or nothing
\* disturbs the search for the bytes of a way there.
Good(k) == ~DisturbedIn("wayBytes", k) \/ RingLines > HoldsAt(k)

Clean == core.memory /\ LinePassesClean

LineRunning ==
    phase = "cacheline" =>
        /\ pass = 1 /\ pending = 0 /\ best = 0
        /\ core.memory =>
               \A k \in 1..Len(votes) :
                   ~DisturbedIn("cacheline", k) => votes[k] = LineSeen(core)
        /\ Len(votes) = 3 => votes[1] # votes[2]

LineFound == Clean => fields.cacheline = LineSeen(core)

WayRunning ==
    phase = "way" =>
        /\ pass \in 1..Placements /\ best \in Nat
        /\ at \in 2..MaxLines /\ pending \in {0, at - 1}
        /\ Clean =>
               /\ pending <= HoldsAt(pass) + 1
               /\ at > HoldsAt(pass) + 1 => pending = HoldsAt(pass) + 1
               /\ ~DisturbedIn("way", pass) /\ pending > 0 => pending = HoldsAt(pass) + 1
               /\ best <= core.ways
               /\ \A k \in 1..(pass - 1) : ~DisturbedIn("way", k) => best >= HoldsAt(k)

WayFound ==
    /\ fields.way \in Nat
    /\ ~core.memory => fields.way = 0
    /\ Clean => /\ fields.way <= core.ways
                /\ \A k \in 1..Placements : ~DisturbedIn("way", k) => fields.way >= HoldsAt(k)

WayBytesRunning ==
    phase = "wayBytes" /\ Clean =>
        /\ pass \in 1..Placements /\ best \in Nat
        /\ at \in Sizes /\ 1024 <= at /\ at <= SlotBytes
        /\ pending \in {0, at} /\ (pending > 0 => 2 * at <= SlotBytes)
        /\ IF RingLines > HoldsAt(pass) THEN at <= core.way
           ELSE ~DisturbedIn("wayBytes", pass) => pending = 0
        /\ fields.way = core.ways /\ pass \notin core.collide /\ ~DisturbedIn("wayBytes", pass)
           => at <= core.way /\ (pending > 0 => at = core.way)
        /\ (\A k \in 1..(pass - 1) : Good(k)) => best <= core.way
        /\ fields.way = core.ways
               /\ (\E k \in (1..(pass - 1)) \ core.collide : ~DisturbedIn("wayBytes", k))
           => best >= core.way

WayBytesFound ==
    /\ ~core.memory \/ fields.way = 0 => fields.wayBytes = 0
    /\ Clean =>
           /\ fields.wayBytes \in Nat
           /\ (\A k \in 1..Placements : Good(k)) => fields.wayBytes <= core.way
           /\ fields.way = core.ways /\ CleanPlacement("wayBytes") => fields.wayBytes >= core.way

SetLineRunning ==
    phase = "lineFromSets" /\ Clean /\ fields.way = core.ways /\ fields.wayBytes = core.way =>
        /\ pass \in 1..Placements
        /\ at \in Shifts
        /\ pass \notin core.collide /\ ~DisturbedIn("lineFromSets", pass) => at <= core.line
        /\ best \in Nat /\ (best = 0 \/ best >= core.line)
        /\ (\E k \in (1..(pass - 1)) \ core.collide : ~DisturbedIn("lineFromSets", k))
           => best = core.line

SetLineFound ==
    Clean /\ fields.way = core.ways /\ fields.wayBytes = core.way
        /\ CleanPlacement("lineFromSets")
    => fields.lineFromSets = core.line

\* The ratio of a ring of n lines 2 MiB apart, and when the search must reach the
\* transition of the L2.
Rat(n) == (100 * LoadTime(n, n, n)) \div LoadTime(1, 1, n)

Reachable ==
    /\ core.hugePages /\ fields.way = core.ways
    /\ core.l2ways + 2 <= Smallest(MaxLines, core.tlb)

L2WaysRunning ==
    phase = "l2way" =>
        /\ pass \in 1..2 /\ best \in Int /\ best <= MaxLines - 2
        /\ at \in Nat /\ at >= fields.way + 2 /\ pending \in {0, at - 1}
        /\ at > MaxLines => at = fields.way + 2
        /\ level \in Nat /\ previous \in Nat /\ (level = 0 <=> at = fields.way + 2)
        /\ level = 0 => pending = 0
        /\ ~DisturbedIn("l2way", pass) /\ level > 0 =>
               /\ level >= 125 /\ level = Rat(fields.way + 2) /\ previous = Rat(at - 1)
               /\ IF pending > 0 THEN pending = core.l2ways + 1
                  ELSE 10 * previous < 15 * level
        /\ ~DisturbedIn("l2way", pass) /\ Reachable =>
               at <= core.l2ways + 2 /\ (at = core.l2ways + 2 => pending > 0)
        /\ pass = 2 /\ ~DisturbedIn("l2way", 1) =>
               best \in {0, core.l2ways} /\ (Reachable => best = core.l2ways)

L2WaysFound ==
    /\ fields.l2way \in Int /\ fields.l2way <= MaxLines - 2
    /\ fields.l2way > 0 /\ (~DisturbedIn("l2way", 1) \/ ~DisturbedIn("l2way", 2))
       => fields.l2way = core.l2ways
    /\ Reachable /\ ~DisturbedIn("l2way", 1) /\ ~DisturbedIn("l2way", 2)
       => fields.l2way = core.l2ways

\* The ring that looks for the L2 line, does it miss the huge-page TLB, and its
\* ratio when a load takes x.
L2Ring  == Smallest(2 * fields.l2way, MaxLines)
PastTlb == L2Ring > core.tlb
RatioOf(x) == (100 * (x + (IF PastTlb THEN 200 ELSE 0)))
                  \div LoadTime(CeilDiv(L2Ring, Largest(1, core.way \div 4096)), 1, L2Ring)

L2LineRunning ==
    phase = "l2line" /\ fields.l2way = core.l2ways /\ ~DisturbedIn("l2line", 1) =>
        /\ pass = 1 /\ at \in {32, 64, 128, 256, 512, 1024}
        /\ level \in Nat /\ (level = 0 <=> at = 32)
        /\ level > 0 => level = RatioOf(IF core.l2line = 32 THEN 30 ELSE 70)
        /\ at > core.l2line => PastTlb \/ core.l2line = 32

L2LineFound ==
    fields.l2way = core.l2ways /\ ~DisturbedIn("l2line", 1) => fields.l2line \in {0, core.l2line}

ProbesInvariant ==
    /\ History
    /\ LineRunning /\ WayRunning /\ WayBytesRunning /\ SetLineRunning
    /\ L2WaysRunning /\ L2LineRunning
    /\ Filled("cacheline") => LineFound
    /\ Filled("way") => WayFound
    /\ Filled("wayBytes") => WayBytesFound
    /\ Filled("lineFromSets") => SetLineFound
    /\ Filled("l2way") => L2WaysFound
    /\ Filled("l2line") => L2LineFound

(***************************************************************************)
(* Steps: what an action leaves of the other probes.                       *)
(***************************************************************************)

\* A pass shows no line or one of the strides.
LEMMA LineOfRatiosType ==
    ASSUME NEW ratio
    PROVE  LineOfRatios(ratio) \in {0} \cup Shifts
<1> DEFINE rises == {i \in 1..6 : ratio[i + 1] - ratio[i] >= 20 /\ ratio[i + 1] >= 30}
<1>1. Len(LineStrides) = 7 BY DEF LineStrides
<1>2. LineOfRatios(ratio) = IF rises = {} THEN 0 ELSE LineStrides[Min(rises)]
  BY <1>1 DEF LineOfRatios
<1>3. rises \subseteq 1..6 OBVIOUS
<1> HIDE DEF rises
<1>4. ASSUME rises # {} PROVE Min(rises) \in 1..6
  <2>1. \E x \in rises : \A y \in rises : x <= y
    <3>3. CASE 1 \in rises BY <1>3, <3>3
    <3>4. CASE 2 \in rises /\ 1 \notin rises BY <1>3, <3>4
    <3>5. CASE 3 \in rises /\ 1 \notin rises /\ 2 \notin rises BY <1>3, <3>5
    <3>6. CASE 4 \in rises /\ 1 \notin rises /\ 2 \notin rises /\ 3 \notin rises BY <1>3, <3>6
    <3>7. CASE 5 \in rises /\ 1 \notin rises /\ 2 \notin rises /\ 3 \notin rises /\ 4 \notin rises
      BY <1>3, <3>7
    <3>8. CASE /\ 1 \notin rises /\ 2 \notin rises /\ 3 \notin rises /\ 4 \notin rises
               /\ 5 \notin rises
      <4>1. \A y \in 1..6 : y \in {1, 2, 3, 4, 5, 6} OBVIOUS
      <4>2. rises = {6} BY <1>3, <1>4, <3>8, <4>1
      <4> QED BY <4>2
    <3> QED BY <3>3, <3>4, <3>5, <3>6, <3>7, <3>8
  <2>2. Min(rises) \in rises BY <2>1 DEF Min
  <2> QED BY <1>3, <2>2
<1>5. \A i \in 1..6 : LineStrides[i] \in Shifts BY DEF LineStrides, Shifts
<1> QED BY <1>2, <1>4, <1>5

\* A probe goes on or ends.
Stays == phase' = phase /\ fields' = fields
Ends  == phase' = After[phase] /\ fields' = [fields EXCEPT ![phase] = fields'[phase]]

\* Only the pass that runs is disturbed.
Noise == disturbed' = disturbed \/ \E k : disturbed' = disturbed \cup {<<phase, k>>}

LEMMA ReportEnds ==
    ASSUME History, phase \in Fields, NEW v, Report(v)
    PROVE  Ends /\ fields'[phase] = v /\ core' = core /\ votes' = votes
<1>1. fields = [f \in Fields |-> fields[f]] BY DEF History
<1>2. fields' = [fields EXCEPT ![phase] = v] BY DEF Report
<1>3. fields'[phase] = v BY <1>1, <1>2
<1>4. phase' = After[phase] /\ core' = core /\ votes' = votes BY DEF Report
<1> QED BY <1>2, <1>3, <1>4 DEF Ends

LEMMA NextPassStays ==
    ASSUME NEW v, NextPass(v)
    PROVE  Stays /\ core' = core /\ votes' = votes
BY DEF NextPass, Stays

LEMMA NextSampleStays ==
    ASSUME NEW n, NEW v, NextSample(n, v)
    PROVE  Stays /\ core' = core /\ votes' = votes
BY DEF NextSample, Stays

LEMMA EndPlacementStep ==
    ASSUME History, phase \in Fields, NEW v, EndPlacement(v)
    PROVE  (Stays \/ Ends) /\ core' = core /\ votes' = votes
BY NextPassStays, ReportEnds DEF EndPlacement

LEMMA StepKinds ==
    ASSUME History, ProbesNext
    PROVE  /\ phase \in Fields /\ (Stays \/ Ends) /\ Noise /\ core' = core
           /\ IF phase = "cacheline" THEN votes' \in Seq({0} \cup Shifts) /\ Len(votes') <= 3
              ELSE votes' = votes
<1> DEFINE Goal == /\ phase \in Fields /\ (Stays \/ Ends) /\ Noise /\ core' = core
                   /\ IF phase = "cacheline"
                      THEN votes' \in Seq({0} \cup Shifts) /\ Len(votes') <= 3
                      ELSE votes' = votes
<1>1. CASE LinePass
  <2>1. PICK v : votes' = Append(votes, v) /\ v \in {0} \cup Shifts
    <3>1. LineOfRatios(Ratios) \in {0} \cup Shifts BY LineOfRatiosType
    <3>2. \A ratio : LineOfRatios(ratio) \in {0} \cup Shifts BY LineOfRatiosType
    <3>3. \/ votes' = Append(votes, IF core.memory THEN LineOfRatios(Ratios) ELSE 0)
          \/ \E ratio : votes' = Append(votes, LineOfRatios(ratio))
      BY <1>1 DEF LinePass
    <3>4. CASE votes' = Append(votes, IF core.memory THEN LineOfRatios(Ratios) ELSE 0)
      <4> DEFINE v == IF core.memory THEN LineOfRatios(Ratios) ELSE 0
      <4>1. votes' = Append(votes, v) /\ v \in {0} \cup Shifts BY <3>1, <3>4
      <4> QED BY <4>1
    <3>5. CASE \E ratio : votes' = Append(votes, LineOfRatios(ratio)) BY <3>2, <3>5
    <3> QED BY <3>3, <3>4, <3>5
  <2>2. votes \in Seq({0} \cup Shifts) /\ Len(votes) <= 3 /\ Len(votes) # 3
    BY <1>1 DEF LinePass, History, Decided
  <2>3. votes' \in Seq({0} \cup Shifts) /\ Len(votes') <= 3
    <3> DEFINE S == {0} \cup Shifts
    <3>1. v \in S /\ votes \in Seq(S) BY <2>1, <2>2
    <3> HIDE DEF S
    <3>2. Append(votes, v) \in Seq(S) /\ Len(Append(votes, v)) = Len(votes) + 1 BY <3>1
    <3>3. Len(votes) \in Nat BY <3>1
    <3>4. Len(votes) + 1 <= 3
      <4> DEFINE l == Len(votes)
      <4>1. l \in Nat /\ l <= 3 /\ l # 3 BY <2>2, <3>3
      <4> HIDE DEF l
      <4>2. l + 1 <= 3 BY <4>1
      <4> QED BY <4>2 DEF l
    <3>5. votes' \in Seq(S) /\ Len(votes') <= 3 BY <2>1, <3>2, <3>4
    <3> QED BY <3>5 DEF S
  <2>4. Noise BY <1>1 DEF LinePass, Noise
  <2> QED BY <1>1, <2>3, <2>4, FieldsAre DEF LinePass, Stays
<1>2. CASE LineVote
  <2>1. phase = "cacheline" /\ phase' = "way" /\ core' = core /\ votes' = votes
        /\ disturbed' = disturbed /\ fields' = [fields EXCEPT !.cacheline = Vote(votes)]
    BY <1>2 DEF LineVote
  <2>2. fields'["cacheline"] = Vote(votes) BY <2>1, FieldsAre DEF History
  <2> QED BY <2>1, <2>2, FieldsAre DEF Ends, Noise, History
<1>3. CASE Skip
  <2>1. phase \in Fields \ {"cacheline"} /\ disturbed' = disturbed BY <1>3, FieldsAre DEF Skip
  <2>2. \E v : Report(v) BY <1>3 DEF Skip
  <2> QED BY <2>1, <2>2, ReportEnds DEF Noise
<1>4. CASE WaysSample
  <2>1. phase = "way" /\ Noise BY <1>4 DEF WaysSample, Sees, Noise
  <2>2. (\E v : EndPlacement(v)) \/ (\E n, v : NextSample(n, v)) BY <1>4 DEF WaysSample
  <2> QED BY <2>1, <2>2, EndPlacementStep, NextSampleStays, FieldsAre
<1>5. CASE WayBytesSample
  <2>1. phase = "wayBytes" /\ Noise BY <1>5 DEF WayBytesSample, Sees, Noise
  <2>2. (\E v : EndPlacement(v)) \/ (\E n, v : NextSample(n, v)) BY <1>5 DEF WayBytesSample
  <2> QED BY <2>1, <2>2, EndPlacementStep, NextSampleStays, FieldsAre
<1>6. CASE LineFromSetsSample
  <2>1. phase = "lineFromSets" /\ Noise BY <1>6 DEF LineFromSetsSample, Sees, Noise
  <2>2. (\E v : EndPlacement(v)) \/ (\E n, v : NextSample(n, v)) BY <1>6 DEF LineFromSetsSample
  <2> QED BY <2>1, <2>2, EndPlacementStep, NextSampleStays, FieldsAre
<1>7. CASE L2WaysSample
  <2>1. phase = "l2way" BY <1>7 DEF L2WaysSample
  <2>4. PICK r : SeesRatio(r) BY <1>7 DEF L2WaysSample
  <2>5. Noise BY <2>4 DEF SeesRatio, Noise
  <2>2. (\E v : EndL2Pass(v)) \/ (\E n, v : NextSample(n, v)) BY <1>7 DEF L2WaysSample
  <2>3. (\E v : Report(v)) \/ (\E v : NextPass(v)) \/ (\E n, v : NextSample(n, v))
    BY <2>2 DEF EndL2Pass
  <2> QED BY <2>1, <2>3, <2>5, ReportEnds, NextPassStays, NextSampleStays, FieldsAre
<1>8. CASE L2LineSample
  <2>1. phase = "l2line" BY <1>8 DEF L2LineSample
  <2>3. PICK r : SeesRatio(r) BY <1>8 DEF L2LineSample
  <2>4. Noise BY <2>3 DEF SeesRatio, Noise
  <2>2. (\E v : Report(v)) \/ (\E n, v : NextSample(n, v)) BY <1>8 DEF L2LineSample
  <2> QED BY <2>1, <2>2, <2>4, ReportEnds, NextSampleStays, FieldsAre
<1> QED BY <1>1, <1>2, <1>3, <1>4, <1>5, <1>6, <1>7, <1>8 DEF ProbesNext

\* What the rest of the proof uses of a step.
LEMMA StepKeeps ==
    ASSUME History, ProbesNext
    PROVE  /\ History' /\ core' = core /\ phase \in Fields
           /\ phase' \in {phase, After[phase]}
           /\ \A f \in Fields : f # phase => fields'[f] = fields[f]
           /\ \A p \in Fields : \A k : p # phase => (DisturbedIn(p, k)' <=> DisturbedIn(p, k))
           /\ \A p \in Fields : \A k : DisturbedIn(p, k) => DisturbedIn(p, k)'
           /\ disturbed \subseteq disturbed' /\ IsFiniteSet(disturbed')
<1>1. /\ phase \in Fields /\ (Stays \/ Ends) /\ Noise /\ core' = core
      /\ IF phase = "cacheline" THEN votes' \in Seq({0} \cup Shifts) /\ Len(votes') <= 3
         ELSE votes' = votes
  BY StepKinds
<1>2. fields = [f \in Fields |-> fields[f]] BY DEF History
<1>3. /\ phase' \in Phases /\ phase' \in {phase, After[phase]}
      /\ fields' = [f \in Fields |-> fields'[f]]
      /\ \A f \in Fields : f # phase => fields'[f] = fields[f]
  <2>1. After[phase] \in Phases BY <1>1, FieldsAre DEF Phases
  <2>2. CASE Stays BY <1>1, <1>2, <2>2 DEF Stays, Phases
  <2>3. CASE Ends BY <1>1, <1>2, <2>1, <2>3 DEF Ends
  <2> QED BY <1>1, <2>2, <2>3
<1>4. disturbed \subseteq disturbed' /\ IsFiniteSet(disturbed')
  <2>1. IsFiniteSet(disturbed) BY DEF History
  <2> QED BY <1>1, <2>1, FS_AddElement DEF Noise
<1>5. \A p \in Fields : \A k : p # phase => (DisturbedIn(p, k)' <=> DisturbedIn(p, k))
  BY <1>1 DEF Noise, DisturbedIn
<1>6. \A p \in Fields : \A k : DisturbedIn(p, k) => DisturbedIn(p, k)' BY <1>4 DEF DisturbedIn
<1>7. History' BY <1>1, <1>3, <1>4 DEF History
<1> QED BY <1>1, <1>3, <1>4, <1>5, <1>6, <1>7

LEMMA FilledBy ==
    ASSUME History, ProbesNext, NEW p \in Fields
    PROVE  /\ Filled(p) => phase # p
           /\ Filled(p)' <=> Filled(p) \/ (phase = p /\ phase' # phase)
<1>1. phase \in Fields /\ phase' \in {phase, After[phase]} BY StepKeeps
<1> QED BY <1>1, FieldsAre DEF Filled

LEMMA FilledIs ==
    ASSUME History
    PROVE  /\ Filled("cacheline") <=> phase # "cacheline"
           /\ Filled("way") <=> phase \notin {"cacheline", "way"}
           /\ Filled("wayBytes") <=> phase \notin {"cacheline", "way", "wayBytes"}
           /\ Filled("lineFromSets") <=> phase \in {"l2way", "l2line", "done"}
           /\ Filled("l2way") <=> phase \in {"l2line", "done"}
           /\ Filled("l2line") <=> phase = "done"
BY FieldsAre DEF History, Phases, Filled

LEMMA CleanKept ==
    ASSUME History, ProbesNext
    PROVE  /\ Clean' => Clean
           /\ phase # "cacheline" => (Clean' <=> Clean)
<1> DEFINE S == {k \in 1..3 : DisturbedIn("cacheline", k)}
           T == {k \in 1..3 : DisturbedIn("cacheline", k)'}
<1>1. S \subseteq T /\ (phase # "cacheline" => S = T) BY StepKeeps, FieldsAre
<1>2. IsFiniteSet(T)
  <2> DEFINE three == 3
             one == 1
  <2>1. three \in Int /\ one \in Int OBVIOUS
  <2> HIDE DEF three, one
  <2>2. IsFiniteSet(one..three) BY <2>1, FS_Interval
  <2>3. IsFiniteSet(1..3) BY <2>2 DEF three, one
  <2> QED BY <2>3, FS_Subset
<1>3. Cardinality(S) <= Cardinality(T) /\ Cardinality(S) \in Nat /\ Cardinality(T) \in Nat
  <2> HIDE DEF S, T
  <2> QED BY <1>1, <1>2, FS_Subset, FS_CardinalityType
<1>4. (LinePassesClean <=> Cardinality(S) <= 1) /\ (LinePassesClean' <=> Cardinality(T) <= 1)
  BY DEF LinePassesClean
<1>5. core' = core BY StepKeeps
<1> HIDE DEF S, T
<1> QED BY <1>1, <1>3, <1>4, <1>5 DEF Clean

\* What an ended probe has left stays true.
LEMMA FoundKept ==
    ASSUME History, ProbesNext
    PROVE  /\ Filled("cacheline") /\ LineFound => LineFound'
           /\ Filled("way") /\ WayFound => WayFound'
           /\ Filled("wayBytes") /\ WayBytesFound => WayBytesFound'
           /\ Filled("lineFromSets") /\ SetLineFound => SetLineFound'
           /\ Filled("l2way") /\ L2WaysFound => L2WaysFound'
           /\ Filled("l2line") /\ L2LineFound => L2LineFound'
<1>1. /\ core' = core
      /\ \A f \in Fields : f # phase => fields'[f] = fields[f]
      /\ \A p \in Fields : \A k : p # phase => (DisturbedIn(p, k)' <=> DisturbedIn(p, k))
  BY StepKeeps
<1>2. Filled("cacheline") => phase # "cacheline" BY FilledIs
<1>3. ASSUME NEW k PROVE HoldsAt(k)' = HoldsAt(k) BY <1>1 DEF HoldsAt
<1>4. ASSUME phase # "cacheline" PROVE Clean' <=> Clean BY <1>4, CleanKept
<1>5. ASSUME Filled("cacheline"), LineFound PROVE LineFound'
  BY <1>1, <1>2, <1>4, <1>5, FieldsAre DEF LineFound
<1>6. ASSUME Filled("way"), WayFound PROVE WayFound'
  <2>1. phase \notin {"cacheline", "way"} BY <1>6, FilledIs
  <2>2. fields'["way"] = fields["way"] BY <1>1, <2>1, FieldsAre
  <2>3. \A k : DisturbedIn("way", k)' <=> DisturbedIn("way", k) BY <1>1, <2>1, FieldsAre
  <2> QED BY <1>1, <1>3, <1>4, <1>6, <2>1, <2>2, <2>3 DEF WayFound
<1>7. ASSUME Filled("wayBytes"), WayBytesFound PROVE WayBytesFound'
  <2>1. phase \notin {"cacheline", "way", "wayBytes"} BY <1>7, FilledIs
  <2>2. fields'["way"] = fields["way"] /\ fields'["wayBytes"] = fields["wayBytes"]
    BY <1>1, <2>1, FieldsAre
  <2>3. \A k : DisturbedIn("wayBytes", k)' <=> DisturbedIn("wayBytes", k)
    BY <1>1, <2>1, FieldsAre
  <2>4. \A k : Good(k)' <=> Good(k) BY <1>3, <2>2, <2>3 DEF Good, RingLines
  <2>5. CleanPlacement("wayBytes")' <=> CleanPlacement("wayBytes")
    BY <1>1, <2>3 DEF CleanPlacement
  <2> QED BY <1>1, <1>4, <1>7, <2>1, <2>2, <2>4, <2>5 DEF WayBytesFound
<1>8. ASSUME Filled("lineFromSets"), SetLineFound PROVE SetLineFound'
  <2>1. phase \notin {"cacheline", "way", "wayBytes", "lineFromSets"} BY <1>8, FilledIs
  <2>2. /\ fields'["way"] = fields["way"] /\ fields'["wayBytes"] = fields["wayBytes"]
        /\ fields'["lineFromSets"] = fields["lineFromSets"]
    BY <1>1, <2>1, FieldsAre
  <2>3. CleanPlacement("lineFromSets")' <=> CleanPlacement("lineFromSets")
    BY <1>1, <2>1, FieldsAre DEF CleanPlacement
  <2> QED BY <1>1, <1>4, <1>8, <2>1, <2>2, <2>3 DEF SetLineFound
<1>9. ASSUME Filled("l2way"), L2WaysFound PROVE L2WaysFound'
  <2>1. phase \notin {"cacheline", "way", "wayBytes", "lineFromSets", "l2way"}
    BY <1>9, FilledIs
  <2>2. fields'["way"] = fields["way"] /\ fields'["l2way"] = fields["l2way"]
    BY <1>1, <2>1, FieldsAre
  <2>3. \A k : DisturbedIn("l2way", k)' <=> DisturbedIn("l2way", k) BY <1>1, <2>1, FieldsAre
  <2>4. Reachable' <=> Reachable BY <1>1, <2>2 DEF Reachable
  <2> QED BY <1>1, <1>9, <2>2, <2>3, <2>4 DEF L2WaysFound
<1>10. ASSUME Filled("l2line") PROVE FALSE BY <1>1, <1>10, StepKeeps, FilledIs, FieldsAre
<1> QED BY <1>5, <1>6, <1>7, <1>8, <1>9, <1>10

(***************************************************************************)
(* The line probe.                                                         *)
(***************************************************************************)

LEMMA OnlyActions ==
    ASSUME ProbesNext
    PROVE  /\ phase = "cacheline" => LinePass \/ LineVote
           /\ phase = "way" => WaysSample \/ (~core.memory /\ Report(0) /\ UNCHANGED disturbed)
           /\ phase = "wayBytes" =>
                  \/ WayBytesSample
                  \/ ~core.memory /\ Report(0) /\ UNCHANGED disturbed
                  \/ core.memory /\ fields.way = 0 /\ Report(0) /\ UNCHANGED disturbed
           /\ phase = "lineFromSets" =>
                  \/ LineFromSetsSample
                  \/ Report(0) /\ UNCHANGED disturbed
                     /\ ~(core.memory /\ fields.way > 0 /\ fields.wayBytes > 0)
           /\ phase = "l2way" =>
                  \/ L2WaysSample
                  \/ fields.way = 0 /\ Report(0) /\ UNCHANGED disturbed
                  \/ ~core.hugePages /\ Report(NoHugePages) /\ UNCHANGED disturbed
           /\ phase = "l2line" =>
                  \/ L2LineSample
                  \/ fields.l2way <= 0 /\ Report(fields.l2way) /\ UNCHANGED disturbed
<1>1. /\ LinePass \/ LineVote => phase = "cacheline"
      /\ WaysSample => phase = "way"
      /\ WayBytesSample => phase = "wayBytes"
      /\ LineFromSetsSample => phase = "lineFromSets"
      /\ L2WaysSample => phase = "l2way"
      /\ L2LineSample => phase = "l2line"
  BY DEF LinePass, LineVote, WaysSample, WayBytesSample, LineFromSetsSample, L2WaysSample,
         L2LineSample
<1>2. Skip => /\ UNCHANGED disturbed /\ phase # "cacheline"
              /\ phase = "way" => ~core.memory /\ Report(0)
              /\ phase = "wayBytes" => /\ Report(0)
                                       /\ ~core.memory \/ (core.memory /\ fields.way = 0)
              /\ phase = "lineFromSets" =>
                     Report(0) /\ ~(core.memory /\ fields.way > 0 /\ fields.wayBytes > 0)
              /\ phase = "l2way" => \/ fields.way = 0 /\ Report(0)
                                    \/ ~core.hugePages /\ Report(NoHugePages)
              /\ phase = "l2line" => fields.l2way <= 0 /\ Report(fields.l2way)
  BY DEF Skip
<1> QED BY <1>1, <1>2 DEF ProbesNext

\* Of three passes, one of them disturbed, the vote is for the line.
LEMMA VoteIs ==
    ASSUME History, LineRunning, phase = "cacheline", Clean, Decided(votes)
    PROVE  Vote(votes) = LineSeen(core)
<1> DEFINE l == LineSeen(core)
<1>1. Len(votes) \in Nat /\ (Len(votes) = 2 \/ Len(votes) = 3) BY DEF History, Decided
<1>2. /\ ~DisturbedIn("cacheline", 1) => votes[1] = l
      /\ ~DisturbedIn("cacheline", 2) => votes[2] = l
      /\ Len(votes) = 3 => (~DisturbedIn("cacheline", 3) => votes[3] = l)
  <2>1. \A k \in 1..Len(votes) : ~DisturbedIn("cacheline", k) => votes[k] = l
    BY DEF LineRunning, Clean
  <2>2. 1 \in 1..Len(votes) /\ 2 \in 1..Len(votes) /\ (Len(votes) = 3 => 3 \in 1..Len(votes))
    BY <1>1
  <2> HIDE DEF l
  <2> QED BY <2>1, <2>2
<1>3. /\ ~DisturbedIn("cacheline", 1) \/ ~DisturbedIn("cacheline", 2)
      /\ ~DisturbedIn("cacheline", 1) \/ ~DisturbedIn("cacheline", 3)
      /\ ~DisturbedIn("cacheline", 2) \/ ~DisturbedIn("cacheline", 3)
  BY OnePassDisturbed DEF Clean
<1> HIDE DEF l
<1>4. CASE votes[1] = votes[2] BY <1>2, <1>3, <1>4 DEF Vote, l
<1>5. CASE votes[1] # votes[2]
  <2>1. Len(votes) = 3 BY <1>1, <1>5 DEF Decided
  <2> QED BY <1>2, <1>3, <1>5, <2>1 DEF Vote, l
<1> QED BY <1>4, <1>5

LEMMA LineStep ==
    ASSUME History, LineRunning, phase = "cacheline", ProbesNext
    PROVE  LineRunning' /\ (phase' # "cacheline" => phase' = "way" /\ LineFound' /\ WayRunning')
<1>1. core' = core /\ core \in Cores /\ \A p \in Fields : \A k : DisturbedIn(p, k) => DisturbedIn(p, k)'
  BY StepKeeps DEF History
<1>2. votes \in Seq({0} \cup Shifts) /\ Len(votes) \in Nat /\ "cacheline" \in Fields
  BY FieldsAre DEF History
<1>3. CASE LinePass
  <2>1. phase' = "cacheline" /\ pass' = 1 /\ pending' = 0 /\ best' = 0
    BY <1>3 DEF LinePass, LineRunning, cursor
  <2>0. PICK n \in Nat : n = Len(votes) + 1 BY <1>2
  <2>2. PICK v \in {0} \cup Shifts :
            /\ votes' = Append(votes, v)
            /\ core.memory => DisturbedIn("cacheline", n)' \/ v = LineSeen(core)
    <3>1. LineOfRatios(Ratios) \in {0} \cup Shifts BY LineOfRatiosType
    <3>2. LineOfRatios(Ratios) = LineSeen(core) BY <1>1, CleanPass
    <3>3. CASE votes' = Append(votes, IF core.memory THEN LineOfRatios(Ratios) ELSE 0)
      <4> DEFINE v == IF core.memory THEN LineOfRatios(Ratios) ELSE 0
      <4>1. votes' = Append(votes, v) /\ v \in {0} \cup Shifts BY <3>1, <3>3
      <4>2. core.memory => v = LineSeen(core) BY <3>2
      <4> HIDE DEF v
      <4> QED BY <4>1, <4>2
    <3>4. CASE disturbed' = disturbed \cup {<<phase, n>>}
                   /\ \E ratio : votes' = Append(votes, LineOfRatios(ratio))
      <4>1. PICK ratio : votes' = Append(votes, LineOfRatios(ratio)) BY <3>4
      <4>2. LineOfRatios(ratio) \in {0} \cup Shifts BY LineOfRatiosType
      <4>3. DisturbedIn("cacheline", n)' BY <3>4 DEF DisturbedIn
      <4> QED BY <4>1, <4>2, <4>3
    <3>5. \/ votes' = Append(votes, IF core.memory THEN LineOfRatios(Ratios) ELSE 0)
          \/ disturbed' = disturbed \cup {<<phase, n>>}
                 /\ \E ratio : votes' = Append(votes, LineOfRatios(ratio))
      BY <1>3, <2>0 DEF LinePass
    <3> QED BY <3>3, <3>4, <3>5
  <2>3. /\ Len(votes') = n /\ votes'[n] = v
        /\ \A k \in 1..Len(votes) : votes'[k] = votes[k]
    BY <1>2, <2>0, <2>2
  <2>4. core.memory => \A k \in 1..n : ~DisturbedIn("cacheline", k)' => votes'[k] = LineSeen(core)
    <3> SUFFICES ASSUME core.memory, NEW k \in 1..n, ~DisturbedIn("cacheline", k)'
                 PROVE  votes'[k] = LineSeen(core)
      OBVIOUS
    <3>1. CASE k = n BY <2>2, <2>3, <3>1
    <3>2. CASE k \in 1..Len(votes)
      <4>1. ~DisturbedIn("cacheline", k) BY <1>1, <1>2
      <4> QED BY <2>3, <3>2, <4>1 DEF LineRunning
    <3> QED BY <1>2, <2>0, <3>1, <3>2
  <2>5. n = 3 => votes'[1] # votes'[2]
    <3> SUFFICES ASSUME n = 3 PROVE votes'[1] # votes'[2] OBVIOUS
    <3>1. Len(votes) = 2
      <4> DEFINE l == Len(votes)
      <4>1. l \in Nat /\ n = l + 1 BY <1>2, <2>0
      <4> HIDE DEF l
      <4>2. l = 2 BY <4>1
      <4> QED BY <4>2 DEF l
    <3>2. votes[1] # votes[2] BY <1>3, <3>1 DEF LinePass, Decided
    <3>3. 1 \in 1..Len(votes) /\ 2 \in 1..Len(votes) BY <3>1
    <3> QED BY <2>3, <3>2, <3>3
  <2> QED BY <1>1, <2>1, <2>3, <2>4, <2>5 DEF LineRunning
<1>4. CASE LineVote
  <2>1. /\ phase' = "way" /\ disturbed' = disturbed /\ Decided(votes)
        /\ fields' = [fields EXCEPT !.cacheline = Vote(votes)]
        /\ pass' = pass /\ pending' = pending /\ best' = best
    BY <1>4 DEF LineVote
  <2>2. at' = 2 BY <1>4 DEF LineVote, FirstOf
  <2>3. fields'.cacheline = Vote(votes) BY <1>2, <2>1 DEF History
  <2>4. Clean' => Clean BY CleanKept
  <2>5. LineFound' BY <1>1, <2>1, <2>3, <2>4, VoteIs DEF LineFound
  <2>6. \A k : HoldsAt(k)' \in Nat \ {0} BY <1>1, HoldsIs DEF HoldsAt
  <2>7. HoldsAt(1)' \in Nat /\ HoldsAt(1)' >= 1 BY <2>6
  <2>8. core.ways \in Nat /\ MaxLines \in Nat /\ MaxLines > 2 /\ Placements \in Nat \ {0}
    BY <1>1, CoreIs, ProbeAssumption
  <2>9. pass' = 1 /\ pending' = 0 /\ best' = 0 BY <2>1 DEF LineRunning
  <2> QED BY <1>1, <2>1, <2>2, <2>5, <2>7, <2>8, <2>9 DEF WayRunning, LineRunning
<1> QED BY <1>3, <1>4, OnlyActions

(***************************************************************************)
(* The L1 probes: what a sample shows.                                     *)
(***************************************************************************)

\* A conflict is always seen, and in an undisturbed pass nothing else.
LEMMA SeesIs ==
    ASSUME NEW c \in BOOLEAN, Sees(c), NEW p \in {"way", "wayBytes", "lineFromSets"}, phase = p,
           NEW k, pass = k
    PROVE  (ConflictNow => c) /\ (~DisturbedIn(p, k)' => (c <=> ConflictNow))
<1>1. ConflictNow \in BOOLEAN BY DEF ConflictNow, Conflicts
<1>2. CASE c = ConflictNow BY <1>1, <1>2
<1>3. CASE c /\ disturbed' = disturbed \cup {<<phase, pass>>} BY <1>3 DEF DisturbedIn
<1> QED BY <1>2, <1>3 DEF Sees

LEMMA PlacementsIs == Placements \in Nat \ {0} /\ MaxLines \in Nat /\ MaxLines > 2
BY ProbeAssumption

LEMMA LargestIs ==
    ASSUME NEW a \in Nat, NEW b \in Nat
    PROVE  /\ Largest(a, b) \in Nat /\ Largest(a, b) >= a /\ Largest(a, b) >= b
           /\ Largest(a, b) \in {a, b}
BY DEF Largest

\* The strides of the bytes of a way begin inside a way.
LEMMA FirstStride ==
    ASSUME core \in Cores
    PROVE  /\ Largest(2 * SkewOf(core), 1024) \in Sizes
           /\ 1024 <= Largest(2 * SkewOf(core), 1024)
           /\ Largest(2 * SkewOf(core), 1024) <= core.way
<1> DEFINE w == 2 * SkewOf(core)
<1>1. w \in Sizes /\ w <= core.way BY SkewIs
<1>2. 1024 <= core.way /\ core.way \in Nat BY CoreIs
<1>3. w \in Nat BY <1>1 DEF Sizes, Shifts
<1>4. 1024 \in Sizes BY DEF Sizes
<1> HIDE DEF w
<1>5. /\ Largest(w, 1024) \in Sizes /\ 1024 <= Largest(w, 1024)
      /\ Largest(w, 1024) <= core.way
  BY <1>1, <1>2, <1>3, <1>4 DEF Largest
<1> QED BY <1>5 DEF w

\* A pass over line counts ends with what it found.
LEMMA WayEnds ==
    ASSUME History, LineFound, WayRunning, phase = "way", ProbesNext, core.memory,
           NEW found \in Nat, EndPlacement(found), NEW k \in 1..Placements, pass = k,
           Clean => /\ found <= HoldsAt(k)
                    /\ ~DisturbedIn("way", k)' => found = HoldsAt(k)
    PROVE  /\ WayRunning'
           /\ phase' # "way" => phase' = "wayBytes" /\ WayFound' /\ WayBytesRunning'
<1> DEFINE b == Largest(best, found)
<1>1. /\ core' = core /\ History' /\ core \in Cores
      /\ \A p \in Fields : \A j : DisturbedIn(p, j) => DisturbedIn(p, j)'
      /\ fields'["cacheline"] = fields["cacheline"]
  BY StepKeeps, FieldsAre DEF History
<1>2. best \in Nat BY DEF WayRunning
<1>3. b \in Nat /\ b >= best /\ b >= found /\ b \in {best, found} BY <1>2, LargestIs
<1>4. \A j : HoldsAt(j) \in Nat \ {0} /\ HoldsAt(j) <= core.ways BY <1>1, HoldsIs
<1>5. \A j : HoldsAt(j)' = HoldsAt(j) BY <1>1 DEF HoldsAt
<1>6. Clean' => Clean BY CleanKept
<1>7. core.ways \in Nat BY <1>1, CoreIs
<1>8. Combined(found) = b BY DEF Combined
<1> HIDE DEF b
<1>9. Clean => b <= core.ways BY <1>2, <1>3, <1>4, <1>7 DEF WayRunning
<1>10. Clean => \A j \in 1..k : ~DisturbedIn("way", j)' => b >= HoldsAt(j)
  <2> SUFFICES ASSUME Clean, NEW j \in 1..k, ~DisturbedIn("way", j)' PROVE b >= HoldsAt(j)
    OBVIOUS
  <2>1. HoldsAt(j) \in Nat BY <1>4
  <2>2. CASE j = k BY <1>3, <2>1, <2>2
  <2>3. CASE j \in 1..(pass - 1)
    <3>1. ~DisturbedIn("way", j) BY <1>1, FieldsAre
    <3>2. best >= HoldsAt(j) BY <2>3, <3>1 DEF WayRunning
    <3> QED BY <1>2, <1>3, <2>1, <3>2
  <2> QED BY <2>2, <2>3
<1>11. CASE pass < Placements /\ NextPass(b)
  <2>1. phase' = "way" /\ pass' = k + 1 /\ best' = b /\ pending' = 0 /\ at' = 2
    BY <1>11 DEF NextPass, FirstOf
  <2>2. pass' \in 1..Placements BY <1>11, <2>1, PlacementsIs
  <2>3. at' > HoldsAt(k + 1)' + 1 => FALSE BY <1>4, <1>5, <2>1
  <2>4. 1..(pass' - 1) = 1..k BY <2>1
  <2>5. HoldsAt(k + 1)' \in Nat BY <1>4, <1>5
  <2>6. at' \in 2..MaxLines BY <2>1, PlacementsIs
  <2> QED BY <1>1, <1>3, <1>5, <1>6, <1>9, <1>10, <2>1, <2>2, <2>3, <2>4, <2>5, <2>6
          DEF WayRunning
<1>12. CASE ~(pass < Placements) /\ Report(b)
  <2>1. /\ phase' = "wayBytes" /\ fields' = [fields EXCEPT ![phase] = b]
        /\ pass' = 1 /\ pending' = 0 /\ best' = 0
        /\ at' = FirstOf("wayBytes", [fields EXCEPT ![phase] = b])
    BY <1>12, FieldsAre DEF Report
  <2>2. fields'["way"] = b BY <2>1, FieldsAre DEF History
  <2>3. k = Placements BY <1>12, PlacementsIs
  <2>4. WayFound' BY <1>1, <1>3, <1>5, <1>6, <1>9, <1>10, <2>2, <2>3 DEF WayFound
  <2>5. ASSUME Clean' PROVE at' \in Sizes /\ 1024 <= at' /\ at' <= core.way
    <3>1. EffectiveLine = SkewOf(core) BY <1>6, <2>5, EffectiveIs DEF LineFound
    <3>2. at' = Largest(2 * SkewOf(core), 1024) BY <2>1, <3>1 DEF FirstOf
    <3> QED BY <1>1, <3>2, FirstStride
  <2>6. core.way \in Nat /\ SlotBytes \in Nat /\ core.way <= SlotBytes BY <1>1, CoreIs
  <2>7. WayBytesRunning'
    <3> SUFFICES ASSUME Clean' PROVE WayBytesRunning' BY DEF WayBytesRunning
    <3>1. pass' \in 1..Placements BY <2>1, PlacementsIs
    <3>2. at' \in Sizes /\ 1024 <= at' /\ at' <= core.way /\ at' \in Nat
      BY <2>5 DEF Sizes, Shifts
    <3>3. at' <= SlotBytes BY <2>6, <3>2
    <3> QED BY <1>1, <2>1, <2>6, <3>1, <3>2, <3>3 DEF WayBytesRunning
  <2> QED BY <2>1, <2>4, <2>7 DEF WayRunning
<1> QED BY <1>8, <1>11, <1>12 DEF EndPlacement

LEMMA WayStep ==
    ASSUME History, LineFound, WayRunning, phase = "way", ProbesNext
    PROVE  /\ WayRunning'
           /\ phase' # "way" => phase' = "wayBytes" /\ WayFound' /\ WayBytesRunning'
<1>1. /\ core' = core /\ History' /\ core \in Cores
      /\ \A p \in Fields : \A j : DisturbedIn(p, j) => DisturbedIn(p, j)'
  BY StepKeeps DEF History
<1>2. Clean' => Clean BY CleanKept
<1>3. CASE ~core.memory /\ Report(0)
  <2>1. fields' = [fields EXCEPT ![phase] = 0] /\ phase' = "wayBytes"
    BY <1>3, FieldsAre DEF Report
  <2>2. fields'["way"] = 0 BY <2>1, FieldsAre DEF History
  <2>3. ~Clean' BY <1>1, <1>3 DEF Clean
  <2> QED BY <1>1, <2>1, <2>2, <2>3 DEF WayRunning, WayFound, WayBytesRunning
<1>4. CASE WaysSample
  <2>1. core.memory BY <1>4 DEF WaysSample
  <2>2. PICK c \in BOOLEAN :
            /\ Sees(c)
            /\ IF c /\ pending > 0 THEN EndPlacement(pending - 1)
               ELSE IF at = MaxLines THEN EndPlacement(IF c THEN at - 1 ELSE 0)
               ELSE NextSample(at + 1, IF c THEN at ELSE 0)
    BY <1>4 DEF WaysSample
  <2>3. PICK k \in 1..Placements : pass = k BY DEF WayRunning
  <2>4. /\ at \in 2..MaxLines /\ pending \in {0, at - 1} /\ at \in Nat /\ pending \in Nat
        /\ MaxLines \in Nat /\ best \in Nat
    BY PlacementsIs DEF WayRunning
  <2>5. HoldsAt(k) \in Nat \ {0} /\ HoldsAt(k) <= core.ways /\ core.ways < MaxLines
        /\ core.ways \in Nat
    BY <1>1, HoldsIs, CoreIs
  <2> DEFINE h == HoldsAt(k)
  <2>6. ASSUME Clean PROVE /\ at > h => c
                           /\ ~DisturbedIn("way", k)' => (c <=> at > h)
    <3>1. EffectiveLine = SkewOf(core) BY <2>6, EffectiveIs DEF LineFound
    <3>2. ConflictNow <=> Conflicts(SameSet(at), SkewOf(core)) BY <3>1 DEF ConflictNow
    <3>3. ConflictNow <=> at > h
      <4>1. at <= MaxLines BY <2>4
      <4> QED BY <1>1, <2>3, <2>4, <3>2, <4>1, SameSetConflicts, SetHoldsIs
    <3> QED BY <2>2, <2>3, <3>3, SeesIs
  <2>7. ~DisturbedIn("way", k)' => ~DisturbedIn("way", k) BY <1>1, FieldsAre
  <2>8. ASSUME Clean
        PROVE  /\ pending <= h + 1 /\ (at > h + 1 => pending = h + 1)
               /\ ~DisturbedIn("way", k) /\ pending > 0 => pending = h + 1
               /\ best <= core.ways
               /\ \A j \in 1..(k - 1) : ~DisturbedIn("way", j) => best >= HoldsAt(j)
    BY <2>3, <2>8 DEF WayRunning
  <2>9. CASE c /\ pending > 0
    <3> DEFINE found == pending - 1
    <3>1. found \in Nat /\ EndPlacement(found) BY <2>2, <2>4, <2>9
    <3>2. Clean => found <= h /\ (~DisturbedIn("way", k)' => found = h)
      <4> HIDE DEF h
      <4> QED BY <2>4, <2>5, <2>7, <2>8, <2>9 DEF h
    <3> HIDE DEF found
    <3> QED BY <2>1, <2>3, <3>1, <3>2, WayEnds
  <2>10. CASE ~(c /\ pending > 0) /\ at = MaxLines
    <3> DEFINE found == IF c THEN at - 1 ELSE 0
    <3>1. found \in Nat /\ EndPlacement(found) BY <2>2, <2>4, <2>10
    <3>2. Clean => found <= h /\ (~DisturbedIn("way", k)' => found = h)
      <4> HIDE DEF h
      <4> QED BY <2>4, <2>5, <2>6, <2>7, <2>8, <2>10 DEF h
    <3> HIDE DEF found
    <3> QED BY <2>1, <2>3, <3>1, <3>2, WayEnds
  <2>11. CASE ~(c /\ pending > 0) /\ at # MaxLines
    <3>1. /\ phase' = phase /\ pass' = k /\ best' = best
          /\ at' = at + 1 /\ pending' = IF c THEN at ELSE 0
      BY <2>2, <2>3, <2>11 DEF NextSample
    <3>2. at' \in 2..MaxLines /\ pending' \in {0, at' - 1} BY <2>4, <2>11, <3>1
    <3>3. \A j : HoldsAt(j)' = HoldsAt(j) BY <1>1 DEF HoldsAt
    <3>4. ASSUME Clean
          PROVE  /\ pending' <= h + 1 /\ (at' > h + 1 => pending' = h + 1)
                 /\ ~DisturbedIn("way", k)' /\ pending' > 0 => pending' = h + 1
      <4>1. ~c => at <= h BY <2>4, <2>5, <2>6, <3>4
      <4>2. c => at <= h + 1 BY <2>4, <2>5, <2>8, <2>11, <3>4
      <4> HIDE DEF h
      <4> QED BY <2>4, <2>5, <2>6, <3>1, <3>4, <4>1, <4>2 DEF h
    <3>5. Clean => \A j \in 1..(k - 1) : ~DisturbedIn("way", j)' => best >= HoldsAt(j)
      BY <1>1, <2>8, FieldsAre
    <3> QED BY <1>1, <1>2, <2>3, <2>4, <2>8, <3>1, <3>2, <3>3, <3>4, <3>5 DEF WayRunning
  <2> QED BY <2>9, <2>10, <2>11
<1> QED BY <1>3, <1>4, OnlyActions

(***************************************************************************)
(* The bytes of a way.                                                     *)
(***************************************************************************)

LEMMA SetLineStarts ==
    ASSUME core' \in Cores, phase' = "lineFromSets", pass' = 1, at' = 16, best' = 0
    PROVE  SetLineRunning'
<1>1. core'.line \in Shifts BY ProbeAssumption
<1>2. 16 <= core'.line BY <1>1 DEF Shifts
<1>3. 1 \in 1..Placements BY PlacementsIs
<1> QED BY <1>2, <1>3 DEF SetLineRunning, Shifts

\* A pass over strides ends with what it found.
LEMMA WayBytesEnds ==
    ASSUME History, LineFound, WayBytesRunning, phase = "wayBytes", ProbesNext,
           core.memory, fields.way # 0, NEW found, EndPlacement(found), NEW k, pass = k,
           Clean => /\ found \in Nat
                    /\ ~DisturbedIn("wayBytes", k)' \/ RingLines > HoldsAt(k)
                       => found <= core.way
                    /\ fields.way = core.ways /\ k \notin core.collide
                           /\ ~DisturbedIn("wayBytes", k)'
                       => found = core.way
    PROVE  /\ WayBytesRunning'
           /\ phase' # "wayBytes" => phase' = "lineFromSets" /\ WayBytesFound' /\ SetLineRunning'
<1> DEFINE b == Largest(best, found)
           good(j) == ~DisturbedIn("wayBytes", j)' \/ RingLines > HoldsAt(j)
           clean(j) == fields.way = core.ways /\ j \notin core.collide
                           /\ ~DisturbedIn("wayBytes", j)'
<1>1. /\ core' = core /\ History' /\ core \in Cores
      /\ \A p \in Fields : \A j : DisturbedIn(p, j) => DisturbedIn(p, j)'
      /\ fields'["way"] = fields["way"]
  BY StepKeeps, FieldsAre DEF History
<1>2. \A j : HoldsAt(j)' = HoldsAt(j) BY <1>1 DEF HoldsAt
<1>3. \A j : Good(j)' <=> good(j) BY <1>1, <1>2 DEF Good, RingLines
<1>4. Clean' => Clean BY CleanKept
<1>5. core.way \in Sizes /\ core.way \in Nat /\ SlotBytes \in Nat /\ 1024 <= core.way
      /\ core.way <= SlotBytes
  BY <1>1, CoreIs
<1>6. Combined(found) = b BY DEF Combined
<1>7. ASSUME Clean
      PROVE  /\ k \in 1..Placements /\ b \in Nat
             /\ (\A j \in 1..k : good(j)) => b <= core.way
             /\ (\E j \in 1..k : clean(j)) => b >= core.way
  <2>1. /\ k \in 1..Placements /\ best \in Nat /\ found \in Nat
        /\ (\A j \in 1..(k - 1) : Good(j)) => best <= core.way
        /\ fields.way = core.ways
               /\ (\E j \in (1..(k - 1)) \ core.collide : ~DisturbedIn("wayBytes", j))
           => best >= core.way
    BY <1>7 DEF WayBytesRunning
  <2>2. b \in Nat /\ b >= best /\ b >= found /\ b \in {best, found} BY <2>1, LargestIs
  <2>3. k - 1 \in Int /\ k \in Nat BY <2>1
  <2>4. ASSUME \A j \in 1..k : good(j) PROVE b <= core.way
    <3>1. found <= core.way BY <1>7, <2>1, <2>4
    <3>2. \A j \in 1..(k - 1) : Good(j)
      <4> SUFFICES ASSUME NEW j \in 1..(k - 1) PROVE Good(j) OBVIOUS
      <4>1. j \in 1..k BY <2>3
      <4>2. good(j) BY <2>4, <4>1
      <4> QED BY <1>1, <4>2, FieldsAre DEF Good
    <3> HIDE DEF b, good
    <3> QED BY <2>1, <2>2, <3>1, <3>2
  <2>5. ASSUME NEW j \in 1..k, clean(j) PROVE b >= core.way
    <3> HIDE DEF b
    <3>1. CASE j = k
      <4>1. found = core.way BY <1>7, <2>5, <3>1
      <4> QED BY <1>5, <2>2, <4>1
    <3>2. CASE j \in 1..(k - 1)
      <4>1. ~DisturbedIn("wayBytes", j) BY <1>1, <2>5, FieldsAre
      <4>2. best >= core.way BY <2>1, <2>5, <3>2, <4>1
      <4> QED BY <1>5, <2>1, <2>2, <4>2
    <3> QED BY <2>3, <3>1, <3>2
  <2> HIDE DEF b, good, clean
  <2> QED BY <2>1, <2>2, <2>4, <2>5
<1> HIDE DEF b
<1>8. CASE pass < Placements /\ NextPass(b)
  <2>1. /\ phase' = "wayBytes" /\ pass' = k + 1 /\ best' = b /\ pending' = 0
        /\ at' = Largest(2 * EffectiveLine, 1024)
    BY <1>8 DEF NextPass, FirstOf
  <2>2. SUFFICES ASSUME Clean' PROVE WayBytesRunning' BY <2>1 DEF WayBytesRunning
  <2>3. Clean BY <1>4, <2>2
  <2>4. EffectiveLine = SkewOf(core) BY <2>3, EffectiveIs DEF LineFound
  <2>5. at' \in Sizes /\ 1024 <= at' /\ at' <= core.way BY <1>1, <2>1, <2>4, FirstStride
  <2>6. at' <= SlotBytes
    <3>1. at' \in Nat BY <2>5 DEF Sizes, Shifts
    <3> QED BY <1>5, <2>5, <3>1
  <2>7. pass' \in 1..Placements /\ 1..(pass' - 1) = 1..k
    BY <1>7, <1>8, <2>1, <2>3, PlacementsIs
  <2>8. (\A j \in 1..k : Good(j)') => b <= core.way BY <1>3, <1>7, <2>3
  <2>9. fields.way = core.ways /\ (\E j \in (1..k) \ core.collide : ~DisturbedIn("wayBytes", j)')
        => b >= core.way
    BY <1>7, <2>3
  <2> QED BY <1>1, <1>2, <1>7, <2>1, <2>3, <2>5, <2>6, <2>7, <2>8, <2>9 DEF WayBytesRunning
<1>9. CASE ~(pass < Placements) /\ Report(b)
  <2>1. /\ phase' = "lineFromSets" /\ fields' = [fields EXCEPT ![phase] = b]
        /\ pass' = 1 /\ best' = 0 /\ at' = 16
    BY <1>9, FieldsAre DEF Report, FirstOf
  <2>2. fields'["wayBytes"] = b BY <2>1, FieldsAre DEF History
  <2>3. SetLineRunning' BY <1>1, <2>1, SetLineStarts
  <2>4. ASSUME Clean PROVE k = Placements BY <1>7, <1>9, <2>4, PlacementsIs
  <2>5. ASSUME Clean, \A j \in 1..Placements : Good(j)' PROVE b <= core.way
    BY <1>3, <1>7, <2>4, <2>5
  <2>6. ASSUME Clean, fields.way = core.ways, CleanPlacement("wayBytes")' PROVE b >= core.way
    <3>1. PICK j \in (1..Placements) \ core.collide : ~DisturbedIn("wayBytes", j)'
      BY <1>1, <2>6 DEF CleanPlacement
    <3> QED BY <1>7, <2>4, <2>6, <3>1
  <2>7. WayBytesFound'
    <3> HIDE DEF good, clean
    <3> QED BY <1>1, <1>4, <1>7, <2>2, <2>5, <2>6 DEF WayBytesFound
  <2> QED BY <2>1, <2>3, <2>7 DEF WayBytesRunning
<1> QED BY <1>6, <1>8, <1>9 DEF EndPlacement

LEMMA WayBytesStep ==
    ASSUME History, LineFound, WayFound, WayBytesRunning, phase = "wayBytes", ProbesNext
    PROVE  /\ WayBytesRunning'
           /\ phase' # "wayBytes" => phase' = "lineFromSets" /\ WayBytesFound' /\ SetLineRunning'
<1>1. /\ core' = core /\ History' /\ core \in Cores
      /\ \A p \in Fields : \A j : DisturbedIn(p, j) => DisturbedIn(p, j)'
      /\ fields'["way"] = fields["way"]
  BY StepKeeps, FieldsAre DEF History
<1>2. Clean' => Clean BY CleanKept
<1>3. CASE (~core.memory \/ fields.way = 0) /\ Report(0)
  <2>1. /\ fields' = [fields EXCEPT ![phase] = 0] /\ phase' = "lineFromSets"
        /\ pass' = 1 /\ best' = 0 /\ at' = 16
    BY <1>3, FieldsAre DEF Report, FirstOf
  <2>2. fields'["wayBytes"] = 0 BY <2>1, FieldsAre DEF History
  <2>3. SetLineRunning' BY <1>1, <2>1, SetLineStarts
  <2>4. core.ways # 0 /\ core.way \in Nat BY <1>1, CoreIs
  <2>5. Clean' => fields.way = 0 BY <1>1, <1>3 DEF Clean
  <2> QED BY <1>1, <2>1, <2>2, <2>3, <2>4, <2>5 DEF WayBytesRunning, WayBytesFound
<1>4. CASE WayBytesSample
  <2>1. core.memory /\ fields.way \in Nat /\ fields.way # 0 BY <1>4 DEF WayBytesSample, WayFound
  <2>2. PICK c \in BOOLEAN :
            /\ Sees(c)
            /\ IF c /\ (pending > 0 \/ at = SlotBytes) THEN EndPlacement(at)
               ELSE IF ~c /\ 2 * at > SlotBytes THEN EndPlacement(0)
               ELSE NextSample(IF c THEN at ELSE 2 * at, IF c THEN at ELSE 0)
    BY <1>4 DEF WayBytesSample
  <2>3. PICK k : pass = k OBVIOUS
  <2>4. /\ core.way \in Sizes /\ core.way \in Nat /\ SlotBytes \in Nat /\ SlotBytes \in Sizes
        /\ 1024 <= core.way /\ core.way <= SlotBytes /\ core.ways \in Nat
    BY <1>1, CoreIs
  <2>5. HoldsAt(k) \in Nat \ {0} /\ HoldsAt(k) <= core.ways
        /\ (k \notin core.collide => HoldsAt(k) = core.ways)
    BY <1>1, HoldsIs
  <2>6. RingLines \in Nat /\ (fields.way = core.ways => RingLines > HoldsAt(k))
    <3>1. RingLines \in Nat
          /\ \A h \in Nat : fields.way >= h /\ 0 < h /\ h <= core.ways => RingLines > h
      BY <1>1, <2>1, RingIs
    <3> QED BY <2>4, <2>5, <3>1
  <2> DEFINE h == HoldsAt(k)
             x == IF pending > 0 THEN 2 * at ELSE at
             dirty == DisturbedIn("wayBytes", k)'
             exact == fields.way = core.ways /\ k \notin core.collide /\ ~dirty
  <2>7. ~dirty => ~DisturbedIn("wayBytes", k) BY <1>1, FieldsAre
  <2>8. ASSUME Clean
        PROVE  /\ k \in 1..Placements /\ best \in Nat
               /\ at \in Sizes /\ 1024 <= at /\ at <= SlotBytes /\ at \in Nat
               /\ pending \in {0, at} /\ (pending > 0 => 2 * at <= SlotBytes)
               /\ IF RingLines > h THEN at <= core.way ELSE ~dirty => pending = 0
               /\ exact => at <= core.way /\ (pending > 0 => at = core.way)
    <3>1. /\ k \in 1..Placements /\ best \in Nat
          /\ at \in Sizes /\ 1024 <= at /\ at <= SlotBytes
          /\ pending \in {0, at} /\ (pending > 0 => 2 * at <= SlotBytes)
          /\ IF RingLines > HoldsAt(k) THEN at <= core.way
             ELSE ~DisturbedIn("wayBytes", k) => pending = 0
          /\ fields.way = core.ways /\ k \notin core.collide /\ ~DisturbedIn("wayBytes", k)
             => at <= core.way /\ (pending > 0 => at = core.way)
      BY <2>3, <2>8 DEF WayBytesRunning
    <3>2. at \in Nat BY <3>1 DEF Sizes, Shifts
    <3> HIDE DEF dirty
    <3> QED BY <2>7, <3>1, <3>2
  <2>9. ASSUME Clean
        PROVE  /\ x \in Sizes /\ 1024 <= x /\ x <= SlotBytes /\ x \in Nat
               /\ x >= core.way /\ RingLines > h => c
               /\ RingLines <= h /\ ~dirty => ~c
               /\ exact => (c <=> x >= core.way)
    <3>1. x \in Sizes /\ 1024 <= x /\ x <= SlotBytes /\ x \in Nat
      <4>1. CASE pending > 0
        <5>1. at < SlotBytes BY <2>4, <2>8, <2>9, <4>1
        <5>2. 2 * at \in Sizes BY <2>4, <2>8, <2>9, <5>1, SizesDivide
        <5> QED BY <2>4, <2>8, <2>9, <4>1, <5>2
      <4>2. CASE ~(pending > 0) BY <2>8, <2>9, <4>2
      <4> QED BY <4>1, <4>2
    <3>2. EffectiveLine = SkewOf(core) BY <2>9, EffectiveIs DEF LineFound
    <3>3. ConflictNow <=> Conflicts(Strided(x), SkewOf(core)) BY <3>2 DEF ConflictNow
    <3>4. SetHolds = h BY <2>3, SetHoldsIs
    <3> HIDE DEF x, h
    <3>5. x >= core.way /\ RingLines > h => ConflictNow
      BY <1>1, <2>1, <2>4, <3>1, <3>3, <3>4, WayConflicts
    <3>6. RingLines <= h => ~ConflictNow BY <1>1, <2>1, <3>3, <3>4, FewLinesHold
    <3>7. x < core.way /\ fields.way <= h => ~ConflictNow
      BY <1>1, <2>1, <3>1, <3>3, <3>4, PartOfWayHolds
    <3>8. (ConflictNow => c) /\ (~dirty => (c <=> ConflictNow)) BY <2>2, <2>3, SeesIs
    <3>9. exact => fields.way <= h /\ RingLines > h BY <2>4, <2>5, <2>6 DEF h
    <3>10. exact => ~dirty OBVIOUS
    <3> HIDE DEF exact, dirty
    <3> QED BY <2>4, <3>1, <3>5, <3>6, <3>7, <3>8, <3>9, <3>10
  <2>10. exact => RingLines > h BY <2>5, <2>6
  <2>11. h \in Nat BY <2>5
  <2> HIDE DEF exact, dirty, h
  <2>11a. ASSUME Clean, ~c, RingLines > h PROVE 2 * at <= core.way
    <3>1. x < core.way BY <2>4, <2>9, <2>11a
    <3>2. CASE pending > 0 BY <2>4, <2>8, <2>11a, <3>1, <3>2
    <3>3. CASE ~(pending > 0)
      <4>1. at < core.way /\ at \in Sizes /\ at <= core.way BY <2>4, <2>8, <2>11a, <3>1, <3>3
      <4> QED BY <2>4, <4>1, SizesDivide
    <3> QED BY <3>2, <3>3
  <2>12. CASE c /\ (pending > 0 \/ at = SlotBytes)
    <3>1. EndPlacement(at) BY <2>2, <2>12
    <3>2. ASSUME Clean
          PROVE  /\ at \in Nat /\ (~dirty \/ RingLines > h => at <= core.way)
                 /\ exact => at = core.way
      BY <2>4, <2>6, <2>8, <2>9, <2>11, <2>12, <3>2
    <3> QED BY <2>1, <2>3, <3>1, <3>2, WayBytesEnds DEF exact, dirty, h
  <2>13. CASE ~c /\ 2 * at > SlotBytes
    <3> DEFINE z == 0
    <3>1. EndPlacement(z) BY <2>2, <2>13
    <3>2. z \in Nat /\ z <= core.way BY <2>4
    <3>3. Clean => ~exact BY <2>4, <2>8, <2>10, <2>13, <2>11a
    <3> HIDE DEF z
    <3> QED BY <2>1, <2>3, <3>1, <3>2, <3>3, WayBytesEnds DEF exact, dirty, h
  <2>14. CASE ~(c /\ (pending > 0 \/ at = SlotBytes)) /\ ~(~c /\ 2 * at > SlotBytes)
    <3>1. /\ phase' = phase /\ pass' = k /\ best' = best
          /\ at' = (IF c THEN at ELSE 2 * at) /\ pending' = IF c THEN at ELSE 0
      BY <2>2, <2>3, <2>14 DEF NextSample
    <3>2. SUFFICES ASSUME Clean' PROVE WayBytesRunning' BY <3>1 DEF WayBytesRunning
    <3>3. Clean BY <1>2, <3>2
    <3>4. at' \in Sizes /\ 1024 <= at' /\ at' <= SlotBytes
      BY <2>4, <2>8, <2>14, <3>1, <3>3, SizesDivide
    <3>5. pending' \in {0, at'} /\ (pending' > 0 => 2 * at' <= SlotBytes)
      BY <2>4, <2>8, <2>14, <3>1, <3>3, SizesDivide
    <3>6. RingLines > h => at' <= core.way
      BY <2>8, <2>14, <2>11a, <3>1, <3>3
    <3>7. RingLines <= h /\ ~dirty => pending' = 0 BY <2>9, <3>1, <3>3
    <3>8. exact => at' <= core.way /\ (pending' > 0 => at' = core.way)
      BY <2>4, <2>8, <2>9, <2>10, <2>14, <3>1, <3>3, <3>6
    <3>9. \A j : HoldsAt(j)' = HoldsAt(j) BY <1>1 DEF HoldsAt
    <3>10. RingLines' = RingLines BY <1>1 DEF RingLines
    <3>11. \A j : Good(j)' => Good(j) BY <1>1, <3>9, <3>10, FieldsAre DEF Good
    <3>12. (\A j \in 1..(k - 1) : Good(j)') => best <= core.way
      BY <2>3, <3>3, <3>11 DEF WayBytesRunning
    <3>13. fields.way = core.ways
               /\ (\E j \in (1..(k - 1)) \ core.collide : ~DisturbedIn("wayBytes", j)')
           => best >= core.way
      BY <1>1, <2>3, <3>3, FieldsAre DEF WayBytesRunning
    <3> QED BY <1>1, <2>6, <2>8, <2>11, <3>1, <3>3, <3>4, <3>5, <3>6, <3>7, <3>8, <3>9, <3>10,
              <3>12, <3>13
        DEF WayBytesRunning, exact, dirty, h
  <2> QED BY <2>12, <2>13, <2>14
<1> QED BY <1>3, <1>4, OnlyActions

(***************************************************************************)
(* The line from set conflicts.                                            *)
(***************************************************************************)

\* A search for the transition of the L2 begins.
LEMMA L2WaysStarts ==
    ASSUME core' \in Cores, fields'.way \in Nat, phase' = "l2way", pass' \in 1..2,
           at' = fields'.way + 2, pending' = 0, level' = 0, previous' = 0,
           best' \in Int, best' <= MaxLines - 2,
           pass' = 2 /\ ~DisturbedIn("l2way", 1)' =>
               best' \in {0, core'.l2ways} /\ (Reachable' => best' = core'.l2ways)
    PROVE  L2WaysRunning'
<1>1. core'.l2ways \in Nat /\ core'.l2ways > core'.ways + 1 /\ core'.ways \in Nat
  BY ProbeAssumption
<1>2. Reachable' => fields'.way = core'.ways BY DEF Reachable
<1>3. Reachable' => at' < core'.l2ways + 2 BY <1>1, <1>2
<1> QED BY <1>1, <1>3 DEF L2WaysRunning

\* A pass over shifts ends with what it found.
LEMMA SetLineEnds ==
    ASSUME History, WayFound, SetLineRunning, phase = "lineFromSets", ProbesNext,
           NEW found, EndPlacement(found), NEW k, pass = k,
           Clean /\ fields.way = core.ways /\ fields.wayBytes = core.way =>
               /\ found \in Nat /\ (found = 0 \/ found >= core.line)
               /\ k \notin core.collide /\ ~DisturbedIn("lineFromSets", k)' => found = core.line
    PROVE  /\ SetLineRunning'
           /\ phase' # "lineFromSets" => phase' = "l2way" /\ SetLineFound' /\ L2WaysRunning'
<1> DEFINE b == KeepSmallest(found)
           known == Clean /\ fields.way = core.ways /\ fields.wayBytes = core.way
<1>1. /\ core' = core /\ History' /\ core \in Cores
      /\ \A p \in Fields : \A j : DisturbedIn(p, j) => DisturbedIn(p, j)'
      /\ fields'["way"] = fields["way"] /\ fields'["wayBytes"] = fields["wayBytes"]
  BY StepKeeps, FieldsAre DEF History
<1>2. Clean' <=> Clean BY CleanKept
<1>3. core.line \in Nat \ {0} /\ core.line \in Shifts /\ 16 <= core.line
  BY <1>1, ProbeAssumption DEF Shifts
<1>4. Combined(found) = b BY DEF Combined
<1>5. ASSUME known
      PROVE  /\ k \in 1..Placements
             /\ b \in Nat /\ (b = 0 \/ b >= core.line)
             /\ (\E j \in (1..k) \ core.collide : ~DisturbedIn("lineFromSets", j)')
                => b = core.line
  <2>1. /\ k \in 1..Placements /\ best \in Nat /\ (best = 0 \/ best >= core.line)
        /\ (\E j \in (1..(k - 1)) \ core.collide : ~DisturbedIn("lineFromSets", j))
           => best = core.line
        /\ found \in Nat /\ (found = 0 \/ found >= core.line)
        /\ k \notin core.collide /\ ~DisturbedIn("lineFromSets", k)' => found = core.line
    BY <1>5 DEF SetLineRunning
  <2>2. b \in Nat /\ (b = 0 \/ b >= core.line)
        /\ (best = core.line \/ found = core.line => b = core.line)
    BY <1>3, <2>1 DEF KeepSmallest, Smallest
  <2>3. ASSUME NEW j \in (1..k) \ core.collide, ~DisturbedIn("lineFromSets", j)'
        PROVE  best = core.line \/ found = core.line
    <3>1. ~DisturbedIn("lineFromSets", j) BY <1>1, <2>3, FieldsAre
    <3>2. k \in Nat BY <2>1
    <3> QED BY <2>1, <2>3, <3>1, <3>2
  <2> QED BY <2>1, <2>2, <2>3
<1> HIDE DEF b
<1>6. CASE pass < Placements /\ NextPass(b)
  <2>1. /\ phase' = "lineFromSets" /\ pass' = k + 1 /\ best' = b /\ at' = 16
        /\ fields' = fields
    BY <1>6 DEF NextPass, FirstOf
  <2>2. SUFFICES ASSUME known PROVE SetLineRunning'
    BY <1>1, <1>2, <2>1 DEF SetLineRunning
  <2>3. pass' \in 1..Placements /\ 1..(pass' - 1) = 1..k
    BY <1>5, <1>6, <2>1, <2>2, PlacementsIs
  <2>4. 16 \in Shifts BY DEF Shifts
  <2> QED BY <1>1, <1>3, <1>5, <2>1, <2>2, <2>3, <2>4 DEF SetLineRunning
<1>7. CASE ~(pass < Placements) /\ Report(b)
  <2>1. /\ phase' = "l2way" /\ fields' = [fields EXCEPT ![phase] = b]
        /\ pass' = 1 /\ pending' = 0 /\ best' = 0 /\ level' = 0 /\ previous' = 0
        /\ at' = fields'.way + 2
    BY <1>7, FieldsAre DEF Report, FirstOf
  <2>2. fields'["lineFromSets"] = b BY <2>1, FieldsAre DEF History
  <2>3. fields'.way \in Nat BY <1>1 DEF WayFound
  <2>4. best' \in Int /\ best' <= MaxLines - 2 BY <2>1, PlacementsIs
  <2>5. L2WaysRunning' BY <1>1, <2>1, <2>3, <2>4, L2WaysStarts
  <2>6. ASSUME known, CleanPlacement("lineFromSets")' PROVE b = core.line
    <3>1. PICK j \in (1..Placements) \ core.collide : ~DisturbedIn("lineFromSets", j)'
      BY <1>1, <2>6 DEF CleanPlacement
    <3>2. k = Placements BY <1>5, <1>7, <2>6, PlacementsIs
    <3> QED BY <1>5, <2>6, <3>1, <3>2
  <2>7. SetLineFound' BY <1>1, <1>2, <2>2, <2>6 DEF SetLineFound
  <2> QED BY <2>1, <2>5, <2>7 DEF SetLineRunning
<1> QED BY <1>4, <1>6, <1>7 DEF EndPlacement

LEMMA SetLineStep ==
    ASSUME History, WayFound, SetLineRunning, phase = "lineFromSets", ProbesNext
    PROVE  /\ SetLineRunning'
           /\ phase' # "lineFromSets" => phase' = "l2way" /\ SetLineFound' /\ L2WaysRunning'
<1> DEFINE known == Clean /\ fields.way = core.ways /\ fields.wayBytes = core.way
<1>1. /\ core' = core /\ History' /\ core \in Cores
      /\ \A p \in Fields : \A j : DisturbedIn(p, j) => DisturbedIn(p, j)'
      /\ fields'["way"] = fields["way"] /\ fields'["wayBytes"] = fields["wayBytes"]
  BY StepKeeps, FieldsAre DEF History
<1>2. Clean' <=> Clean BY CleanKept
<1>3. /\ core.line \in Nat \ {0} /\ core.line \in Shifts /\ core.line <= 512 /\ 16 <= core.line
      /\ core.ways \in Nat \ {0} /\ core.way \in Nat \ {0}
  BY <1>1, CoreIs, ProbeAssumption DEF Shifts
<1>4. CASE Report(0) /\ ~(core.memory /\ fields.way > 0 /\ fields.wayBytes > 0)
  <2>1. /\ phase' = "l2way" /\ pass' = 1 /\ pending' = 0 /\ best' = 0 /\ level' = 0
        /\ previous' = 0 /\ at' = fields'.way + 2
    BY <1>4, FieldsAre DEF Report, FirstOf
  <2>2. fields'.way \in Nat BY <1>1 DEF WayFound
  <2>3. best' \in Int /\ best' <= MaxLines - 2 BY <2>1, PlacementsIs
  <2>4. L2WaysRunning' BY <1>1, <2>1, <2>2, <2>3, L2WaysStarts
  <2>5. ~known BY <1>3, <1>4 DEF Clean
  <2> QED BY <1>1, <1>2, <2>1, <2>4, <2>5 DEF SetLineRunning, SetLineFound
<1>5. CASE LineFromSetsSample
  <2>1. PICK c \in BOOLEAN :
            /\ Sees(c)
            /\ IF ~c THEN EndPlacement(at)
               ELSE IF at = 512 THEN EndPlacement(0) ELSE NextSample(2 * at, 0)
    BY <1>5 DEF LineFromSetsSample
  <2>2. PICK k : pass = k OBVIOUS
  <2> DEFINE clean == k \notin core.collide /\ ~DisturbedIn("lineFromSets", k)'
  <2>3. ~DisturbedIn("lineFromSets", k)' => ~DisturbedIn("lineFromSets", k) BY <1>1, FieldsAre
  <2>4. ASSUME known PROVE at \in Shifts /\ at \in Nat /\ at <= 512 /\ (clean => at <= core.line)
    <3>1. at \in Shifts /\ (k \notin core.collide /\ ~DisturbedIn("lineFromSets", k)
                            => at <= core.line)
      BY <2>2, <2>4 DEF SetLineRunning
    <3> QED BY <2>3, <3>1 DEF Shifts
  <2>5. ASSUME known PROVE (at < core.line => c) /\ (clean /\ at >= core.line => ~c)
    <3>1. ConflictNow <=> Conflicts(Alternating(at), fields.wayBytes \div 8) BY DEF ConflictNow
    <3>2. (ConflictNow => c) /\ (~DisturbedIn("lineFromSets", k)' => (c <=> ConflictNow))
      BY <2>1, <2>2, SeesIs
    <3>3. at < core.line => ConflictNow BY <1>1, <2>4, <2>5, <3>1, WithinLineConflicts
    <3>4. k \notin core.collide => SetHolds = core.ways BY <1>1, <2>2, SetHoldsIs, HoldsIs
    <3>5. k \notin core.collide /\ at >= core.line => ~ConflictNow
      BY <1>1, <1>3, <2>4, <2>5, <3>1, <3>4, PastLineHolds
    <3> QED BY <3>2, <3>3, <3>5
  <2> HIDE DEF known, clean
  <2>6. CASE ~c
    <3>1. EndPlacement(at) BY <2>1, <2>6
    <3>2. known => at \in Nat /\ at >= core.line /\ (clean => at = core.line)
      BY <1>3, <2>4, <2>5, <2>6
    <3> QED BY <2>2, <3>1, <3>2, SetLineEnds DEF known, clean
  <2>7. CASE c /\ at = 512
    <3> DEFINE z == 0
    <3>1. EndPlacement(z) BY <2>1, <2>7
    <3>2. known => ~clean BY <1>3, <2>4, <2>5, <2>7
    <3>3. z \in Nat /\ z = 0 OBVIOUS
    <3> HIDE DEF z
    <3> QED BY <2>2, <3>1, <3>2, <3>3, SetLineEnds DEF known, clean
  <2>8. CASE c /\ at # 512
    <3>1. phase' = phase /\ pass' = k /\ best' = best /\ at' = 2 * at
      BY <2>1, <2>2, <2>8 DEF NextSample
    <3>2. SUFFICES ASSUME known PROVE SetLineRunning'
      BY <1>1, <1>2, <3>1 DEF SetLineRunning, known
    <3>3. at' \in Shifts BY <2>4, <2>8, <3>1, <3>2 DEF Shifts
    <3>4. clean => at' <= core.line
      <4> SUFFICES ASSUME clean PROVE 2 * at <= core.line BY <3>1
      <4>1. at < core.line BY <1>3, <2>4, <2>5, <2>8, <3>2
      <4>2. at \in Sizes /\ core.line \in Sizes BY <1>3, <2>4, <3>2 DEF Sizes
      <4> QED BY <1>3, <2>4, <3>2, <4>1, <4>2, SizesDivide
    <3>5. /\ k \in 1..Placements /\ best \in Nat /\ (best = 0 \/ best >= core.line)
          /\ (\E j \in (1..(k - 1)) \ core.collide : ~DisturbedIn("lineFromSets", j)')
             => best = core.line
      BY <1>1, <2>2, <3>2, FieldsAre DEF SetLineRunning, known
    <3> QED BY <1>1, <3>1, <3>3, <3>4, <3>5 DEF SetLineRunning, clean
  <2> QED BY <2>6, <2>7, <2>8
<1> QED BY <1>4, <1>5, OnlyActions

(***************************************************************************)
(* The ways of the L2.                                                     *)
(***************************************************************************)

LEMMA RatIs ==
    ASSUME core \in Cores, NEW n \in Nat \ {0}
    PROVE  /\ n <= core.tlb => Rat(n) = IF n <= core.ways THEN 100
                                        ELSE IF n <= core.l2ways THEN 300 ELSE 700
           /\ n > core.tlb => Rat(n) \in {100, 109, 128}
           /\ Rat(n) \in Nat /\ Rat(n) > 0
<1>1. /\ core.ways \in Nat \ {0} /\ core.l2ways \in Nat /\ core.l2ways > core.ways + 1
      /\ core.tlb \in Nat
  BY ProbeAssumption
<1>2. LoadTime(1, 1, n) = IF n > core.tlb THEN 210 ELSE 10 BY <1>1 DEF LoadTime
<1>3. CASE n <= core.tlb
  <2>1. LoadTime(n, n, n) = IF n <= core.ways THEN 10 ELSE IF n <= core.l2ways THEN 30 ELSE 70
    BY <1>1, <1>3 DEF LoadTime
  <2> QED BY <1>1, <1>2, <1>3, <2>1 DEF Rat
<1>4. CASE n > core.tlb
  <2>1. LoadTime(n, n, n) \in {210, 230, 270} BY <1>1, <1>4 DEF LoadTime
  <2>2. LoadTime(1, 1, n) = 210 BY <1>2, <1>4
  <2>3. 21000 \div 210 = 100 /\ 23000 \div 210 = 109 /\ 27000 \div 210 = 128 OBVIOUS
  <2> QED BY <1>1, <1>4, <2>1, <2>2, <2>3 DEF Rat
<1> QED BY <1>1, <1>3, <1>4

\* In an undisturbed pass a sample shows its ratio, in another perhaps its double.
LEMMA SeesRatioIs ==
    ASSUME NEW r, SeesRatio(r), NEW p \in {"l2way", "l2line"}, phase = p, NEW k, pass = k
    PROVE  (r = L2Ratio \/ r = 2 * L2Ratio) /\ (~DisturbedIn(p, k)' => r = L2Ratio)
BY DEF SeesRatio, DisturbedIn

LEMMA L2LineStarts ==
    ASSUME core' \in Cores, phase' = "l2line", pass' = 1, at' = 32, level' = 0
    PROVE  L2LineRunning'
<1>1. core'.l2line \in Shifts \ {16} BY ProbeAssumption
<1>2. 32 <= core'.l2line /\ core'.l2line \in Nat BY <1>1 DEF Shifts
<1> QED BY <1>2 DEF L2LineRunning

\* A pass over rings of both levels ends with what it found.
LEMMA L2WaysEnds ==
    ASSUME History, WayFound, L2WaysRunning, phase = "l2way", ProbesNext,
           NEW found \in Int, found <= MaxLines - 2, EndL2Pass(found), NEW k, pass = k,
           ~DisturbedIn("l2way", k)' =>
               found \in {0, core.l2ways} /\ (Reachable => found = core.l2ways)
    PROVE  /\ L2WaysRunning'
           /\ phase' # "l2way" => phase' = "l2line" /\ L2WaysFound' /\ L2LineRunning'
<1>1. /\ core' = core /\ History' /\ core \in Cores
      /\ \A p \in Fields : \A j : DisturbedIn(p, j) => DisturbedIn(p, j)'
      /\ fields'["way"] = fields["way"]
  BY StepKeeps, FieldsAre DEF History
<1>2. Reachable' <=> Reachable BY <1>1 DEF Reachable
<1>3. fields'.way \in Nat BY <1>1 DEF WayFound
<1>4. k \in 1..2 /\ best \in Int /\ best <= MaxLines - 2 /\ MaxLines \in Nat /\ MaxLines > 2
  BY PlacementsIs DEF L2WaysRunning
<1>5. CASE pass = 1 /\ NextPass(found)
  <2>1. /\ phase' = "l2way" /\ pass' = 2 /\ best' = found /\ pending' = 0 /\ level' = 0
        /\ previous' = 0 /\ at' = fields'.way + 2
    BY <1>5 DEF NextPass, FirstOf
  <2>2. ~DisturbedIn("l2way", 1)' =>
            found \in {0, core.l2ways} /\ (Reachable => found = core.l2ways)
    BY <1>5
  <2> QED BY <1>1, <1>2, <1>3, <1>4, <2>1, <2>2, L2WaysStarts
<1>6. CASE pass # 1 /\ Report(IF found = best THEN found ELSE Unrepeatable)
  <2> DEFINE v == IF found = best THEN found ELSE Unrepeatable
  <2>1. /\ phase' = "l2line" /\ fields' = [fields EXCEPT ![phase] = v]
        /\ pass' = 1 /\ at' = 32 /\ level' = 0
    BY <1>6, FieldsAre DEF Report, FirstOf
  <2>2. fields'["l2way"] = v BY <2>1, FieldsAre DEF History
  <2>3. L2LineRunning' BY <1>1, <2>1, L2LineStarts
  <2>4. k = 2 BY <1>4, <1>6
  <2>5. v \in Int /\ v <= MaxLines - 2 /\ (v # found => v < 0) /\ (v > 0 => v = found /\ v = best)
    BY <1>4 DEF Unrepeatable
  <2>6. ~DisturbedIn("l2way", 1)' => ~DisturbedIn("l2way", 1) BY <1>1, FieldsAre
  <2>7. ~DisturbedIn("l2way", 1)' =>
            best \in {0, core.l2ways} /\ (Reachable => best = core.l2ways)
    BY <2>4, <2>6 DEF L2WaysRunning
  <2>8. ~DisturbedIn("l2way", 2)' =>
            found \in {0, core.l2ways} /\ (Reachable => found = core.l2ways)
    BY <2>4
  <2>9. v > 0 /\ (~DisturbedIn("l2way", 1)' \/ ~DisturbedIn("l2way", 2)') => v = core.l2ways
    <3> HIDE DEF v
    <3> QED BY <2>5, <2>7, <2>8
  <2>10. Reachable /\ ~DisturbedIn("l2way", 1)' /\ ~DisturbedIn("l2way", 2)' => v = core.l2ways
    BY <2>7, <2>8
  <2> HIDE DEF v
  <2>11. L2WaysFound' BY <1>1, <1>2, <2>2, <2>5, <2>9, <2>10 DEF L2WaysFound
  <2> QED BY <2>1, <2>3, <2>11 DEF L2WaysRunning
<1> QED BY <1>5, <1>6 DEF EndL2Pass

LEMMA L2WaysStep ==
    ASSUME History, WayFound, L2WaysRunning, phase = "l2way", ProbesNext
    PROVE  /\ L2WaysRunning'
           /\ phase' # "l2way" => phase' = "l2line" /\ L2WaysFound' /\ L2LineRunning'
<1>1. /\ core' = core /\ History' /\ core \in Cores
      /\ \A p \in Fields : \A j : DisturbedIn(p, j) => DisturbedIn(p, j)'
      /\ fields'["way"] = fields["way"]
  BY StepKeeps, FieldsAre DEF History
<1>2. Reachable' <=> Reachable BY <1>1 DEF Reachable
<1>3. MaxLines \in Nat /\ MaxLines > 2 BY PlacementsIs
<1>4. ASSUME NEW v \in Int, v < 1, Report(v), ~Reachable
      PROVE  L2WaysRunning' /\ phase' = "l2line" /\ L2WaysFound' /\ L2LineRunning'
  <2>1. /\ phase' = "l2line" /\ fields' = [fields EXCEPT ![phase] = v]
        /\ pass' = 1 /\ at' = 32 /\ level' = 0
    BY <1>4, FieldsAre DEF Report, FirstOf
  <2>2. fields'["l2way"] = v BY <2>1, FieldsAre DEF History
  <2>3. L2LineRunning' BY <1>1, <2>1, L2LineStarts
  <2> QED BY <1>1, <1>2, <1>3, <1>4, <2>1, <2>2, <2>3 DEF L2WaysRunning, L2WaysFound
<1>5. CASE fields.way = 0 /\ Report(0)
  <2>1. core.ways # 0 BY <1>1, CoreIs
  <2> QED BY <1>4, <1>5, <2>1 DEF Reachable
<1>6. CASE ~core.hugePages /\ Report(NoHugePages)
  <2>1. NoHugePages \in Int /\ NoHugePages < 1 BY DEF NoHugePages
  <2> QED BY <1>4, <1>6, <2>1 DEF Reachable
<1>7. CASE L2WaysSample
  <2>1. PICK r :
            /\ SeesRatio(r)
            /\ IF \/ at > MaxLines
                  \/ level = 0 /\ r < 125
                  \/ level > 0 /\ 12 * r < 10 * previous
               THEN EndL2Pass(0)
               ELSE IF level > 0 /\ 10 * r >= 15 * level /\ pending > 0
               THEN EndL2Pass(pending - 1)
               ELSE IF at = MaxLines THEN EndL2Pass(0)
               ELSE /\ NextSample(at + 1, IF level > 0 /\ 10 * r >= 15 * level THEN at ELSE 0)
                    /\ level' = IF level = 0 THEN r ELSE level
                    /\ previous' = r
    BY <1>7 DEF L2WaysSample
  <2>2. PICK k \in 1..2 : pass = k BY DEF L2WaysRunning
  <2> DEFINE s == fields.way + 2
             w == core.ways
             l == core.l2ways
             left == 10 * r >= 15 * level
             quiet == ~DisturbedIn("l2way", k)'
  <2>3. /\ w \in Nat \ {0} /\ l \in Nat /\ l > w + 1 /\ core.tlb \in Nat /\ fields.way \in Nat
        /\ s \in Nat /\ s = fields.way + 2
    BY <1>1, ProbeAssumption DEF WayFound
  <2>4. /\ best \in Int /\ best <= MaxLines - 2
        /\ at \in Nat /\ at >= s /\ pending \in {0, at - 1}
        /\ at > MaxLines => at = s
        /\ level \in Nat /\ previous \in Nat /\ (level = 0 <=> at = s)
        /\ level = 0 => pending = 0
    BY DEF L2WaysRunning
  <2>5. quiet => ~DisturbedIn("l2way", k) BY <1>1, FieldsAre
  <2>6. ASSUME quiet, level > 0
        PROVE  /\ level >= 125 /\ level = Rat(s) /\ previous = Rat(at - 1)
               /\ IF pending > 0 THEN pending = l + 1 ELSE 10 * previous < 15 * level
    BY <2>2, <2>5, <2>6 DEF L2WaysRunning
  <2>7. ASSUME quiet, Reachable
        PROVE  /\ at <= l + 2 /\ (at = l + 2 => pending > 0)
               /\ fields.way = w /\ l + 2 <= MaxLines /\ l + 2 <= core.tlb
    <3>1. at <= l + 2 /\ (at = l + 2 => pending > 0) BY <2>2, <2>5, <2>7 DEF L2WaysRunning
    <3>2. fields.way = w /\ l + 2 <= Smallest(MaxLines, core.tlb) BY <2>7 DEF Reachable
    <3> QED BY <1>3, <2>3, <3>1, <3>2 DEF Smallest
  <2>8. r \in Nat /\ r > 0 /\ (quiet => r = Rat(at))
    <3>1. L2Ratio = Rat(at) BY DEF L2Ratio, Rat
    <3>2. at \in Nat \ {0} BY <2>3, <2>4
    <3>3. Rat(at) \in Nat /\ Rat(at) > 0 BY <1>1, <3>2, RatIs
    <3>4. (r = L2Ratio \/ r = 2 * L2Ratio) /\ (quiet => r = L2Ratio)
      BY <2>1, <2>2, SeesRatioIs
    <3> QED BY <3>1, <3>3, <3>4
  <2> HIDE DEF quiet
  \* What the ratios of the two samples and of the first say.
  <2>9. /\ at <= core.tlb => Rat(at) = IF at <= w THEN 100 ELSE IF at <= l THEN 300 ELSE 700
        /\ at > core.tlb => Rat(at) \in {100, 109, 128}
    BY <1>1, <2>3, <2>4, RatIs
  <2>10. /\ s <= core.tlb => Rat(s) = IF s <= w THEN 100 ELSE IF s <= l THEN 300 ELSE 700
         /\ s > core.tlb => Rat(s) \in {100, 109, 128}
    BY <1>1, <2>3, RatIs
  <2>11. /\ at - 1 <= core.tlb =>
                Rat(at - 1) = IF at - 1 <= w THEN 100 ELSE IF at - 1 <= l THEN 300 ELSE 700
         /\ at - 1 > core.tlb => Rat(at - 1) \in {100, 109, 128}
    <3> DEFINE m == at - 1
    <3>1. m \in Nat \ {0} BY <2>3, <2>4
    <3> HIDE DEF m
    <3>2. /\ m <= core.tlb => Rat(m) = IF m <= w THEN 100 ELSE IF m <= l THEN 300 ELSE 700
          /\ m > core.tlb => Rat(m) \in {100, 109, 128}
      BY <1>1, <3>1, RatIs
    <3> QED BY <3>2 DEF m
  <2>12. ASSUME quiet, Reachable
         PROVE  /\ r = IF at <= l THEN 300 ELSE 700
                /\ level > 0 => /\ level = 300
                                /\ previous = IF at - 1 <= l THEN 300 ELSE 700
    BY <2>3, <2>4, <2>6, <2>7, <2>8, <2>9, <2>10, <2>11, <2>12
  <2> DEFINE Goal == /\ L2WaysRunning'
                     /\ phase' # "l2way" => phase' = "l2line" /\ L2WaysFound' /\ L2LineRunning'
  <2>13. ASSUME EndL2Pass(0), quiet => ~Reachable PROVE Goal
    <3> DEFINE z == 0
    <3>1. z \in Int /\ z <= MaxLines - 2 /\ EndL2Pass(z) /\ z = 0 BY <1>3, <2>13
    <3> HIDE DEF z
    <3> QED BY <2>2, <2>13, <3>1, L2WaysEnds DEF quiet
  <2> HIDE DEF s, w, l, left
  <2>14. CASE \/ at > MaxLines
              \/ level = 0 /\ r < 125
              \/ level > 0 /\ 12 * r < 10 * previous
    <3>1. EndL2Pass(0) BY <2>1, <2>14
    <3>2. quiet => ~Reachable BY <1>3, <2>3, <2>4, <2>7, <2>12, <2>14
    <3> QED BY <2>13, <3>1, <3>2
  <2>15. CASE /\ ~(\/ at > MaxLines
                   \/ level = 0 /\ r < 125
                   \/ level > 0 /\ 12 * r < 10 * previous)
              /\ level > 0 /\ left /\ pending > 0
    <3> DEFINE found == pending - 1
    <3>1. EndL2Pass(found) BY <2>1, <2>15 DEF left
    <3>2. found \in Int /\ found <= MaxLines - 2 BY <1>3, <2>4, <2>15
    <3>3. quiet => found = l BY <2>3, <2>4, <2>6, <2>15
    <3> HIDE DEF found
    <3> QED BY <2>2, <3>1, <3>2, <3>3, L2WaysEnds DEF quiet, l
  <2>16. CASE /\ ~(\/ at > MaxLines
                   \/ level = 0 /\ r < 125
                   \/ level > 0 /\ 12 * r < 10 * previous)
              /\ ~(level > 0 /\ left /\ pending > 0) /\ at = MaxLines
    <3>1. EndL2Pass(0) BY <2>1, <2>16 DEF left
    <3>2. quiet => ~Reachable
      BY <1>3, <2>3, <2>4, <2>7, <2>12, <2>16 DEF left
    <3> QED BY <2>13, <3>1, <3>2
  <2>17. CASE /\ ~(\/ at > MaxLines
                   \/ level = 0 /\ r < 125
                   \/ level > 0 /\ 12 * r < 10 * previous)
              /\ ~(level > 0 /\ left /\ pending > 0) /\ at # MaxLines
    <3>1. /\ phase' = phase /\ pass' = k /\ best' = best /\ at' = at + 1
          /\ pending' = (IF level > 0 /\ left THEN at ELSE 0)
          /\ level' = (IF level = 0 THEN r ELSE level) /\ previous' = r
      BY <2>1, <2>2, <2>17 DEF NextSample, left
    <3>2. /\ at' \in Nat /\ at' >= s /\ pending' \in {0, at' - 1} /\ at' <= MaxLines
          /\ level' \in Nat /\ previous' \in Nat /\ level' > 0 /\ at' > s
      BY <1>3, <2>3, <2>4, <2>8, <2>17, <3>1
    <3>3. ASSUME quiet
          PROVE  /\ level' >= 125 /\ level' = Rat(s) /\ previous' = Rat(at' - 1)
                 /\ IF pending' > 0 THEN pending' = l + 1 ELSE 10 * previous' < 15 * level'
      <4>1. level' >= 125 /\ level' = Rat(s) BY <2>4, <2>6, <2>8, <2>17, <3>1, <3>3
      <4>2. previous' = Rat(at' - 1)
        <5>1. at' - 1 = at BY <2>4, <3>1
        <5> QED BY <2>8, <3>1, <3>3, <5>1
      <4>3. ASSUME level > 0, left PROVE at = l + 1
        <5>1. pending = 0 BY <2>3, <2>4, <2>17, <4>3
        <5>2. level = Rat(s) /\ level >= 125 /\ previous = Rat(at - 1)
              /\ 10 * previous < 15 * level /\ r = Rat(at)
          BY <2>6, <2>8, <3>3, <4>3, <5>1
        <5>3. s <= core.tlb
          <6> SUFFICES ASSUME s > core.tlb PROVE FALSE BY <2>3
          <6>1. level \in {100, 109, 128} BY <2>10, <5>2
          <6>2. at > core.tlb BY <2>3, <2>4
          <6>3. r \in {100, 109, 128} BY <2>9, <5>2, <6>2
          <6> QED BY <4>3, <5>2, <6>1, <6>3 DEF left
        <5>4. level = 300 \/ level = 700 BY <2>3, <2>10, <5>2, <5>3
        <5>5. r = 700 /\ level = 300 /\ at > l
          <6>1. 10 * r >= 4500 BY <2>8, <4>3, <5>4 DEF left
          <6>2. at <= core.tlb BY <2>3, <2>4, <2>9, <5>2, <6>1
          <6>3. r = 700 /\ at > l BY <2>3, <2>4, <2>9, <5>2, <6>1, <6>2
          <6> QED BY <4>3, <5>4, <6>3 DEF left
        <5>6. at - 1 <= l BY <2>3, <2>4, <2>9, <2>11, <5>2, <5>5
        <5> QED BY <2>3, <2>4, <5>5, <5>6
      <4>4. ~(level > 0 /\ left) => 10 * previous' < 15 * level'
        BY <2>4, <2>8, <3>1 DEF left
      <4>5. at > 0 BY <2>3, <2>4
      <4> QED BY <2>4, <3>1, <4>1, <4>2, <4>3, <4>4, <4>5
    <3>4. ASSUME quiet, Reachable
          PROVE  at' <= l + 2 /\ (at' = l + 2 => pending' > 0)
      <4>1. at # l + 2
        <5> SUFFICES ASSUME at = l + 2 PROVE FALSE OBVIOUS
        <5>1. pending > 0 /\ level > 0 BY <2>4, <2>7, <3>4
        <5>2. r = 700 /\ level = 300 BY <2>3, <2>12, <3>4, <5>1
        <5> QED BY <2>17, <5>1, <5>2 DEF left
      <4>2. at = l + 1 => level > 0 /\ left
        <5> SUFFICES ASSUME at = l + 1 PROVE level > 0 /\ left OBVIOUS
        <5>1. level > 0 BY <2>3, <2>4, <2>7, <3>4
        <5>2. r = 700 /\ level = 300 BY <2>3, <2>12, <3>4, <5>1
        <5> QED BY <5>1, <5>2 DEF left
      <4> QED BY <2>3, <2>4, <2>7, <3>1, <3>4, <4>1, <4>2
    <3>5. k = 2 /\ ~DisturbedIn("l2way", 1)' =>
              best \in {0, core.l2ways} /\ (Reachable => best = core.l2ways)
      BY <1>1, <2>2, FieldsAre DEF L2WaysRunning
    <3>6. quiet <=> ~DisturbedIn("l2way", k)' BY DEF quiet
    <3>7. L2WaysRunning'
      <4>1. Rat(fields.way + 2)' = Rat(s) BY <1>1 DEF Rat, LoadTime, s
      <4>2. Rat(at - 1)' = Rat(at' - 1) BY <1>1 DEF Rat, LoadTime
      <4>3. /\ pass' \in 1..2 /\ best' \in Int /\ best' <= MaxLines - 2
            /\ at' \in Nat /\ at' >= fields'.way + 2 /\ pending' \in {0, at' - 1}
            /\ at' > MaxLines => at' = fields'.way + 2
            /\ level' \in Nat /\ previous' \in Nat /\ (level' = 0 <=> at' = fields'.way + 2)
            /\ level' = 0 => pending' = 0
        BY <1>1, <1>3, <2>2, <2>3, <2>4, <3>1, <3>2 DEF s
      <4>4. ~DisturbedIn("l2way", pass)' /\ level' > 0 =>
               /\ level' >= 125 /\ level' = Rat(fields.way + 2)' /\ previous' = Rat(at - 1)'
               /\ IF pending' > 0 THEN pending' = core'.l2ways + 1
                  ELSE 10 * previous' < 15 * level'
        <5>1. DisturbedIn("l2way", pass)' <=> DisturbedIn("l2way", k)' BY <3>1 DEF DisturbedIn
        <5> QED BY <1>1, <3>3, <3>6, <4>1, <4>2, <5>1 DEF l
      <4>5. ~DisturbedIn("l2way", pass)' /\ Reachable' =>
               at' <= core'.l2ways + 2 /\ (at' = core'.l2ways + 2 => pending' > 0)
        <5>1. DisturbedIn("l2way", pass)' <=> DisturbedIn("l2way", k)' BY <3>1 DEF DisturbedIn
        <5> QED BY <1>1, <1>2, <3>4, <3>6, <5>1 DEF l
      <4>6. pass' = 2 /\ ~DisturbedIn("l2way", 1)' =>
               best' \in {0, core'.l2ways} /\ (Reachable' => best' = core'.l2ways)
        BY <1>1, <1>2, <3>1, <3>5
      <4> QED BY <4>3, <4>4, <4>5, <4>6 DEF L2WaysRunning
    <3> QED BY <3>1, <3>7
  <2> QED BY <2>14, <2>15, <2>16, <2>17
<1> QED BY <1>5, <1>6, <1>7, OnlyActions

(***************************************************************************)
(* The line of the L2.                                                     *)
(***************************************************************************)

\* A ring of twice the L2 ways overfills both levels, half of it only the L1.
LEMMA L2RingIs ==
    ASSUME core \in Cores, fields.l2way = core.l2ways, fields.l2way <= MaxLines - 2
    PROVE  /\ L2Ring \in Nat /\ CeilDiv(L2Ring, 2) \in Nat
           /\ L2Ring > core.l2ways /\ L2Ring > core.ways
           /\ CeilDiv(L2Ring, 2) <= core.l2ways
           /\ 2 * core.ways < MaxLines => CeilDiv(L2Ring, 2) > core.ways
<1>1. core.ways \in Nat \ {0} /\ core.l2ways \in Nat /\ core.l2ways > core.ways + 1
      /\ MaxLines \in Nat
  BY ProbeAssumption
<1> DEFINE n == L2Ring
<1>2. n = IF 2 * core.l2ways < MaxLines THEN 2 * core.l2ways ELSE MaxLines
  BY DEF L2Ring, Smallest
<1>3. CeilDiv(L2Ring, 2) = (n + 1) \div 2
  <2>1. n \in Nat BY <1>1, <1>2
  <2> HIDE DEF n
  <2>2. n + 2 - 1 = n + 1 BY <2>1
  <2> QED BY <2>2 DEF CeilDiv, n
<1> HIDE DEF n
<1>4. n \in Nat /\ n > core.l2ways /\ n <= 2 * core.l2ways
      /\ (2 * core.ways < MaxLines => n > 2 * core.ways)
  BY <1>1, <1>2
<1> QED BY <1>1, <1>3, <1>4 DEF n

LEMMA SplitRatioIs ==
    ASSUME core \in Cores, phase = "l2line", fields.l2way = core.l2ways,
           fields.l2way <= MaxLines - 2, at \in Nat
    PROVE  /\ at < core.l2line => L2Ratio = RatioOf(70)
           /\ at >= core.l2line => L2Ratio = RatioOf(30)
                                   \/ (L2Ratio = RatioOf(10) /\ core.l2line >= 64)
<1> DEFINE n == L2Ring
           c == CeilDiv(L2Ring, 2)
           n1 == IF at >= core.line THEN c ELSE n
           n2 == IF at >= core.l2line THEN c ELSE n
           d == LoadTime(CeilDiv(n, Largest(1, core.way \div 4096)), 1, n)
<1>1. /\ core.ways \in Nat \ {0} /\ core.l2ways \in Nat /\ core.l2line \in Nat
      /\ core.line \in Nat
      /\ 2 * core.ways < MaxLines \/ core.l2line \in 64..core.line
  BY ProbeAssumption, ControlAssumption DEF Shifts
<1>2. /\ n \in Nat /\ c \in Nat /\ n > core.l2ways /\ n > core.ways /\ c <= core.l2ways
      /\ 2 * core.ways < MaxLines => c > core.ways
  BY L2RingIs
<1>3. L2Ratio = (100 * LoadTime(n1, n2, n)) \div d
  BY DEF L2Ratio, L2Ring
<1>4. \A x : RatioOf(x) = (100 * (x + (IF PastTlb THEN 200 ELSE 0))) \div d BY DEF RatioOf
<1>5. LoadTime(n1, n2, n) = (IF n1 <= core.ways THEN 10 ELSE IF n2 <= core.l2ways THEN 30 ELSE 70)
                            + (IF PastTlb THEN 200 ELSE 0)
  BY DEF LoadTime, PastTlb
<1> HIDE DEF d, n, c
<1>6. ASSUME at < core.l2line PROVE ~(n1 <= core.ways) /\ ~(n2 <= core.l2ways)
  BY <1>1, <1>2, <1>6
<1>7. ASSUME at >= core.l2line
      PROVE  n2 <= core.l2ways /\ (n1 <= core.ways => core.l2line >= 64)
  BY <1>1, <1>2, <1>7
<1> HIDE DEF n1, n2
<1> QED BY <1>3, <1>4, <1>5, <1>6, <1>7

\* Past the huge-page TLB no ratio falls below two thirds of another; before it
\* the split of the set shows.
LEMMA SplitShows ==
    ASSUME core \in Cores
    PROVE  /\ \A x \in {10, 30, 70} : RatioOf(x) \in Nat /\ RatioOf(x) > 0
                                      /\ ~(15 * RatioOf(x) < 10 * RatioOf(x))
           /\ PastTlb => \A x, y \in {10, 30, 70} : ~(15 * RatioOf(x) < 10 * RatioOf(y))
           /\ ~PastTlb => \A x \in {10, 30} : 15 * RatioOf(x) < 10 * RatioOf(70)
<1> DEFINE m == CeilDiv(L2Ring, Largest(1, core.way \div 4096))
           d == LoadTime(m, 1, L2Ring)
<1>1. core.l2ways \in Nat /\ core.l2ways >= 1 BY ProbeAssumption
<1>2. d \in IF PastTlb THEN {210, 230} ELSE {10, 30} BY <1>1 DEF LoadTime, PastTlb
<1>3. \A x : RatioOf(x) = (100 * (x + (IF PastTlb THEN 200 ELSE 0))) \div d BY DEF RatioOf
<1> HIDE DEF d
<1>4. CASE PastTlb
  <2>1. /\ RatioOf(10) = 21000 \div d /\ RatioOf(30) = 23000 \div d
        /\ RatioOf(70) = 27000 \div d
    BY <1>3, <1>4
  <2>2. 21000 \div 210 = 100 /\ 23000 \div 210 = 109 /\ 27000 \div 210 = 128 OBVIOUS
  <2>3. 21000 \div 230 = 91 /\ 23000 \div 230 = 100 /\ 27000 \div 230 = 117 OBVIOUS
  <2>4. \/ RatioOf(10) = 100 /\ RatioOf(30) = 109 /\ RatioOf(70) = 128
        \/ RatioOf(10) = 91 /\ RatioOf(30) = 100 /\ RatioOf(70) = 117
    BY <1>2, <1>4, <2>1, <2>2, <2>3
  <2> QED BY <1>4, <2>4
<1>5. CASE ~PastTlb
  <2>1. /\ RatioOf(10) = 1000 \div d /\ RatioOf(30) = 3000 \div d
        /\ RatioOf(70) = 7000 \div d
    BY <1>3, <1>5
  <2>2. 1000 \div 10 = 100 /\ 3000 \div 10 = 300 /\ 7000 \div 10 = 700 OBVIOUS
  <2>3. 1000 \div 30 = 33 /\ 3000 \div 30 = 100 /\ 7000 \div 30 = 233 OBVIOUS
  <2>4. \/ RatioOf(10) = 100 /\ RatioOf(30) = 300 /\ RatioOf(70) = 700
        \/ RatioOf(10) = 33 /\ RatioOf(30) = 100 /\ RatioOf(70) = 233
    BY <1>2, <1>5, <2>1, <2>2, <2>3
  <2> QED BY <1>5, <2>4
<1> QED BY <1>4, <1>5

LEMMA L2LineStep ==
    ASSUME History, L2WaysFound, L2LineRunning, phase = "l2line", ProbesNext
    PROVE  /\ L2LineRunning'
           /\ phase' # "l2line" => phase' = "done" /\ L2LineFound'
<1>1. /\ core' = core /\ History' /\ core \in Cores
      /\ \A p \in Fields : \A j : DisturbedIn(p, j) => DisturbedIn(p, j)'
      /\ fields'["l2way"] = fields["l2way"]
  BY StepKeeps, FieldsAre DEF History
<1>2. core.l2line \in {32, 64, 128, 256, 512} /\ core.l2ways > 0 /\ core.l2ways \in Nat
  BY <1>1, ProbeAssumption DEF Shifts
<1>3. fields.l2way \in Int /\ fields.l2way <= MaxLines - 2 BY DEF L2WaysFound
<1>4. ASSUME NEW v, Report(v),
             fields.l2way = core.l2ways /\ ~DisturbedIn("l2line", 1)' => v \in {0, core.l2line}
      PROVE  L2LineRunning' /\ phase' = "done" /\ L2LineFound'
  <2>1. phase' = "done" /\ fields' = [fields EXCEPT ![phase] = v]
    BY <1>4, FieldsAre DEF Report
  <2>2. fields'["l2line"] = v BY <2>1, FieldsAre DEF History
  <2> QED BY <1>1, <1>4, <2>1, <2>2 DEF L2LineRunning, L2LineFound
<1>5. CASE fields.l2way <= 0 /\ Report(fields.l2way)
  <2>1. fields.l2way # core.l2ways BY <1>2, <1>3, <1>5
  <2> QED BY <1>4, <1>5, <2>1
<1>6. CASE L2LineSample
  <2> DEFINE quiet == fields.l2way = core.l2ways /\ ~DisturbedIn("l2line", 1)'
             first == RatioOf(IF core.l2line = 32 THEN 30 ELSE 70)
  <2>1. PICK r :
            /\ SeesRatio(r)
            /\ IF level > 0 /\ 15 * r < 10 * level THEN Report(at)
               ELSE IF at = 1024 THEN Report(0)
               ELSE /\ NextSample(2 * at, 0)
                    /\ level' = IF level = 0 THEN r ELSE level
    BY <1>6 DEF L2LineSample
  <2>2. ASSUME quiet
        PROVE  /\ pass = 1 /\ at \in {32, 64, 128, 256, 512, 1024}
               /\ level \in Nat /\ (level = 0 <=> at = 32)
               /\ level > 0 => level = first
               /\ at > core.l2line => PastTlb \/ core.l2line = 32
    <3>1. ~DisturbedIn("l2line", 1) BY <1>1, <2>2, FieldsAre
    <3> QED BY <2>2, <3>1 DEF L2LineRunning
  <2>3. ASSUME quiet
        PROVE  /\ at < core.l2line => r = RatioOf(70)
               /\ at >= core.l2line => r = RatioOf(30) \/ (r = RatioOf(10) /\ core.l2line >= 64)
    <3>1. pass = 1 /\ at \in Nat BY <2>2, <2>3
    <3>2. r = L2Ratio BY <2>1, <2>3, <3>1, SeesRatioIs
    <3> QED BY <1>1, <1>3, <2>3, <3>1, <3>2, SplitRatioIs
  <2>4. /\ \A x \in {10, 30, 70} : RatioOf(x) \in Nat /\ RatioOf(x) > 0
                                   /\ ~(15 * RatioOf(x) < 10 * RatioOf(x))
        /\ PastTlb => \A x, y \in {10, 30, 70} : ~(15 * RatioOf(x) < 10 * RatioOf(y))
        /\ ~PastTlb => \A x \in {10, 30} : 15 * RatioOf(x) < 10 * RatioOf(70)
    BY <1>1, SplitShows
  <2>5. CASE level > 0 /\ 15 * r < 10 * level
    <3>1. Report(at) BY <2>1, <2>5
    <3>2. ASSUME quiet PROVE at = core.l2line
      <4>1. level = first BY <2>2, <2>5, <3>2
      <4>2. CASE core.l2line = 32
        <5>1. at >= 32 BY <2>2, <3>2
        <5>2. r = RatioOf(30) BY <2>3, <3>2, <4>2, <5>1
        <5> QED BY <2>4, <2>5, <4>1, <4>2, <5>2
      <4>3. CASE core.l2line # 32
        <5>1. level = RatioOf(70) BY <4>1, <4>3
        <5>2. ~(at < core.l2line) BY <2>3, <2>4, <2>5, <3>2, <5>1
        <5>3. ~(at > core.l2line) BY <1>2, <2>2, <2>3, <2>4, <2>5, <3>2, <4>3, <5>1
        <5> QED BY <1>2, <2>2, <3>2, <5>2, <5>3
      <4> QED BY <4>2, <4>3
    <3> QED BY <1>4, <3>1, <3>2
  <2>6. CASE ~(level > 0 /\ 15 * r < 10 * level) /\ at = 1024
    <3> DEFINE z == 0
    <3>1. Report(z) /\ z = 0 BY <2>1, <2>6
    <3> HIDE DEF z
    <3> QED BY <1>4, <3>1
  <2>7. CASE ~(level > 0 /\ 15 * r < 10 * level) /\ at # 1024
    <3>1. /\ phase' = phase /\ pass' = pass /\ fields' = fields /\ at' = 2 * at
          /\ level' = IF level = 0 THEN r ELSE level
      BY <2>1, <2>7 DEF NextSample
    <3>2. ASSUME quiet
          PROVE  /\ pass = 1 /\ at' \in {32, 64, 128, 256, 512, 1024}
                 /\ level' \in Nat /\ level' > 0 /\ at' # 32
                 /\ level' = first
                 /\ at' > core.l2line => PastTlb \/ core.l2line = 32
      <4>1. at' \in {64, 128, 256, 512, 1024} BY <2>2, <2>7, <3>1, <3>2
      <4>2. level' = first
        <5>1. CASE level = 0
          <6>1. at = 32 BY <2>2, <3>2, <5>1
          <6>2. r = first BY <1>2, <2>3, <3>2, <6>1
          <6> QED BY <3>1, <5>1, <6>2
        <5>2. CASE level # 0 BY <2>2, <3>1, <3>2, <5>2
        <5> QED BY <5>1, <5>2
      <4>3. first \in Nat /\ first > 0 BY <2>4
      <4>4. ASSUME at' > core.l2line, core.l2line # 32 PROVE PastTlb
        <5>1. at >= core.l2line BY <1>2, <2>2, <3>1, <3>2, <4>4
        <5>2. CASE at > core.l2line BY <2>2, <3>2, <4>4, <5>2
        <5>3. CASE at = core.l2line
          <6>1. level > 0 /\ level = RatioOf(70) BY <2>2, <3>2, <4>4, <5>3
          <6>2. r = RatioOf(30) \/ r = RatioOf(10) BY <1>2, <2>3, <3>2, <5>3
          <6> QED BY <2>4, <2>7, <6>1, <6>2
        <5> QED BY <1>2, <2>2, <3>2, <5>1, <5>2, <5>3
      <4> HIDE DEF first
      <4> QED BY <2>2, <3>2, <4>1, <4>2, <4>3, <4>4
    <3>3. RatioOf(IF core.l2line = 32 THEN 30 ELSE 70)' = first /\ (PastTlb' <=> PastTlb)
      BY <1>1, <3>1 DEF RatioOf, PastTlb, L2Ring, LoadTime
    <3>4. L2LineRunning'
      <4> HIDE DEF first
      <4> QED BY <1>1, <3>1, <3>2, <3>3 DEF L2LineRunning
    <3> QED BY <3>1, <3>4
  <2> QED BY <2>5, <2>6, <2>7
<1> QED BY <1>5, <1>6, OnlyActions

(***************************************************************************)
(* The theorems.                                                           *)
(***************************************************************************)

LEMMA InvariantStarts ==
    ASSUME ProbesInit
    PROVE  ProbesInvariant
<1>1. phase = "cacheline" /\ fields = [f \in Fields |-> 0] /\ core \in Cores
      /\ disturbed = {} /\ votes = << >> /\ pass = 1 /\ pending = 0 /\ best = 0
  BY DEF ProbesInit, Fields
<1>2. History
  <2>1. IsFiniteSet(disturbed) BY <1>1, FS_EmptySet
  <2>2. votes \in Seq({0} \cup Shifts) /\ Len(votes) <= 3 BY <1>1
  <2> QED BY <1>1, <2>1, <2>2, FieldsAre DEF History, Phases
<1>3. LineRunning BY <1>1 DEF LineRunning
<1>4. /\ WayRunning /\ WayBytesRunning /\ SetLineRunning /\ L2WaysRunning /\ L2LineRunning
  BY <1>1 DEF WayRunning, WayBytesRunning, SetLineRunning, L2WaysRunning, L2LineRunning
<1> QED BY <1>1, <1>2, <1>3, <1>4, FilledIs DEF ProbesInvariant

LEMMA InvariantStutters ==
    ASSUME ProbesInvariant, UNCHANGED probesVars
    PROVE  ProbesInvariant'
<1>1. /\ core' = core /\ phase' = phase /\ votes' = votes /\ fields' = fields
      /\ disturbed' = disturbed /\ pass' = pass /\ at' = at /\ pending' = pending
      /\ best' = best /\ level' = level /\ previous' = previous
  BY DEF probesVars, cursor
<1>2. /\ \A k : HoldsAt(k)' = HoldsAt(k)
      /\ \A p, k : DisturbedIn(p, k)' <=> DisturbedIn(p, k)
  BY <1>1 DEF HoldsAt, DisturbedIn
<1>3. /\ LinePassesClean' <=> LinePassesClean
      /\ RingLines' = RingLines
      /\ \A p : CleanPlacement(p)' <=> CleanPlacement(p)
      /\ \A p : Filled(p)' <=> Filled(p)
  BY <1>1 DEF LinePassesClean, RingLines, DisturbedIn, CleanPlacement, Filled
<1>4. (Clean' <=> Clean) /\ (\A k : Good(k)' <=> Good(k)) /\ (Reachable' <=> Reachable)
  BY <1>1, <1>2, <1>3 DEF Clean, Good, Reachable
<1>5. History' BY <1>1 DEF ProbesInvariant, History
<1>6. LineRunning' /\ (Filled("cacheline")' => LineFound')
  BY <1>1, <1>2, <1>3, <1>4 DEF ProbesInvariant, LineRunning, LineFound
<1>7. WayRunning' /\ (Filled("way")' => WayFound')
  <2>1. WayRunning'
    <3>1. HoldsAt(pass)' = HoldsAt(pass) BY <1>1 DEF HoldsAt
    <3>2. DisturbedIn("way", pass)' <=> DisturbedIn("way", pass) BY <1>1 DEF DisturbedIn
    <3> QED BY <1>1, <1>2, <1>4, <3>1, <3>2 DEF ProbesInvariant, WayRunning
  <2> QED BY <1>1, <1>2, <1>3, <1>4, <2>1 DEF ProbesInvariant, WayFound
<1>8. WayBytesRunning' /\ (Filled("wayBytes")' => WayBytesFound')
  <2>1. WayBytesRunning'
    <3>1. HoldsAt(pass)' = HoldsAt(pass) BY <1>1 DEF HoldsAt
    <3>2. DisturbedIn("wayBytes", pass)' <=> DisturbedIn("wayBytes", pass)
      BY <1>1 DEF DisturbedIn
    <3> QED BY <1>1, <1>2, <1>3, <1>4, <3>1, <3>2 DEF ProbesInvariant, WayBytesRunning
  <2> QED BY <1>1, <1>2, <1>3, <1>4, <2>1 DEF ProbesInvariant, WayBytesFound
<1>9. SetLineRunning' /\ (Filled("lineFromSets")' => SetLineFound')
  <2>1. DisturbedIn("lineFromSets", pass)' <=> DisturbedIn("lineFromSets", pass)
    BY <1>1 DEF DisturbedIn
  <2> QED BY <1>1, <1>2, <1>3, <1>4, <2>1 DEF ProbesInvariant, SetLineRunning, SetLineFound
<1>10. L2WaysRunning' /\ (Filled("l2way")' => L2WaysFound')
  <2>1. DisturbedIn("l2way", pass)' <=> DisturbedIn("l2way", pass) BY <1>1 DEF DisturbedIn
  <2>2. Rat(fields.way + 2)' = Rat(fields.way + 2) /\ Rat(at - 1)' = Rat(at - 1)
    BY <1>1 DEF Rat, LoadTime
  <2>3. L2WaysRunning' BY <1>1, <1>2, <1>4, <2>1, <2>2 DEF ProbesInvariant, L2WaysRunning
  <2> QED BY <1>1, <1>2, <1>3, <1>4, <2>3 DEF ProbesInvariant, L2WaysFound
<1>11. L2LineRunning' /\ (Filled("l2line")' => L2LineFound')
  <2>1. /\ RatioOf(IF core.l2line = 32 THEN 30 ELSE 70)'
               = RatioOf(IF core.l2line = 32 THEN 30 ELSE 70)
        /\ PastTlb' <=> PastTlb
    BY <1>1 DEF RatioOf, PastTlb, L2Ring, LoadTime
  <2> QED BY <1>1, <1>2, <1>3, <2>1 DEF ProbesInvariant, L2LineRunning, L2LineFound
<1> QED BY <1>5, <1>6, <1>7, <1>8, <1>9, <1>10, <1>11 DEF ProbesInvariant

LEMMA InvariantSteps ==
    ASSUME ProbesInvariant, ProbesNext
    PROVE  ProbesInvariant'
<1>1. History /\ History' /\ phase \in Fields /\ phase' \in {phase, After[phase]}
  BY StepKeeps DEF ProbesInvariant
<1>2. /\ LineRunning /\ WayRunning /\ WayBytesRunning /\ SetLineRunning
      /\ L2WaysRunning /\ L2LineRunning
      /\ Filled("cacheline") => LineFound
      /\ Filled("way") => WayFound
      /\ Filled("wayBytes") => WayBytesFound
      /\ Filled("lineFromSets") => SetLineFound
      /\ Filled("l2way") => L2WaysFound
      /\ Filled("l2line") => L2LineFound
  BY DEF ProbesInvariant
<1>3. \A p \in Fields : Filled(p)' <=> Filled(p) \/ (phase = p /\ phase' # phase)
  BY <1>1, FilledBy
<1>4. /\ Filled("cacheline") => LineFound'
      /\ Filled("way") => WayFound'
      /\ Filled("wayBytes") => WayBytesFound'
      /\ Filled("lineFromSets") => SetLineFound'
      /\ Filled("l2way") => L2WaysFound'
      /\ Filled("l2line") => L2LineFound'
  BY <1>1, <1>2, FoundKept
<1>5. /\ Filled("cacheline") <=> phase # "cacheline"
      /\ Filled("way") <=> phase \notin {"cacheline", "way"}
      /\ Filled("l2way") <=> phase \in {"l2line", "done"}
  BY <1>1, FilledIs
<1>6. /\ phase' # "cacheline" => LineRunning'
      /\ phase' # "way" => WayRunning'
      /\ phase' # "wayBytes" => WayBytesRunning'
      /\ phase' # "lineFromSets" => SetLineRunning'
      /\ phase' # "l2way" => L2WaysRunning'
      /\ phase' # "l2line" => L2LineRunning'
  BY DEF LineRunning, WayRunning, WayBytesRunning, SetLineRunning, L2WaysRunning, L2LineRunning
<1>7. /\ phase = "cacheline" =>
             LineRunning' /\ (phase' # phase => phase' = "way" /\ LineFound' /\ WayRunning')
      /\ phase = "way" =>
             WayRunning' /\ (phase' # phase => phase' = "wayBytes" /\ WayFound' /\ WayBytesRunning')
      /\ phase = "wayBytes" =>
             /\ WayBytesRunning'
             /\ phase' # phase => phase' = "lineFromSets" /\ WayBytesFound' /\ SetLineRunning'
  BY <1>1, <1>2, <1>5, LineStep, WayStep, WayBytesStep
<1>8. /\ phase = "lineFromSets" =>
             /\ SetLineRunning'
             /\ phase' # phase => phase' = "l2way" /\ SetLineFound' /\ L2WaysRunning'
      /\ phase = "l2way" =>
             /\ L2WaysRunning'
             /\ phase' # phase => phase' = "l2line" /\ L2WaysFound' /\ L2LineRunning'
      /\ phase = "l2line" =>
             /\ L2LineRunning'
             /\ phase' # phase => phase' = "done" /\ L2LineFound'
  BY <1>1, <1>2, <1>5, SetLineStep, L2WaysStep, L2LineStep
<1>9. /\ LineRunning' /\ WayRunning' /\ WayBytesRunning' /\ SetLineRunning'
      /\ L2WaysRunning' /\ L2LineRunning'
  BY <1>1, <1>6, <1>7, <1>8, FieldsAre
<1>10. /\ Filled("cacheline")' => LineFound'
       /\ Filled("way")' => WayFound'
       /\ Filled("wayBytes")' => WayBytesFound'
       /\ Filled("lineFromSets")' => SetLineFound'
       /\ Filled("l2way")' => L2WaysFound'
       /\ Filled("l2line")' => L2LineFound'
  BY <1>1, <1>3, <1>4, <1>7, <1>8, FieldsAre
<1> QED BY <1>1, <1>9, <1>10 DEF ProbesInvariant

\* What the probes have found and where they stand: the invariant the geometry
\* follows from holds in every state.
THEOREM ProbesInvariantHolds == ProbesSpec => []ProbesInvariant
<1>1. ProbesInit => ProbesInvariant BY InvariantStarts
<1>2. ProbesInvariant /\ [ProbesNext]_probesVars => ProbesInvariant'
  BY InvariantSteps, InvariantStutters
<1> QED BY <1>1, <1>2, PTL DEF ProbesSpec

\* One disturbed pass does not make the product of ways and bytes too large.
LEMMA ProductBound ==
    ASSUME ProbesInvariant, Filled("wayBytes"), LinePassesClean, Cardinality(disturbed) <= 1
    PROVE  fields.way * fields.wayBytes <= core.ways * core.way
<1>1. History /\ core \in Cores /\ IsFiniteSet(disturbed) /\ WayFound /\ WayBytesFound
  BY FilledIs DEF ProbesInvariant, History
<1>2. core.ways \in Nat /\ core.way \in Nat BY <1>1, CoreIs
<1> DEFINE w == fields.way
           b == fields.wayBytes
<1>3. w \in Nat BY <1>1 DEF WayFound
<1>4. CASE ~core.memory \/ w = 0
  <2>1. w = 0 /\ b = 0 BY <1>1, <1>4 DEF WayFound, WayBytesFound
  <2>2. core.ways * core.way \in Nat BY <1>2
  <2> QED BY <2>1, <2>2
<1>5. CASE core.memory /\ w # 0
  <2>1. Clean BY <1>5 DEF Clean
  <2>2. ASSUME NEW k \in 1..Placements PROVE Good(k)
    <3> SUFFICES ASSUME DisturbedIn("wayBytes", k) PROVE RingLines > HoldsAt(k) BY DEF Good
    <3>1. ~DisturbedIn("way", k)
      <4> SUFFICES ASSUME DisturbedIn("way", k) PROVE FALSE OBVIOUS
      <4>1. <<"way", k>> \in disturbed /\ <<"wayBytes", k>> \in disturbed BY DEF DisturbedIn
      <4>2. <<"way", k>> = <<"wayBytes", k>> BY <1>1, <4>1, OneOfTwo
      <4> QED BY <4>2
    <3>2. w >= HoldsAt(k) BY <1>1, <2>1, <3>1 DEF WayFound
    <3>3. HoldsAt(k) \in Nat /\ 0 < HoldsAt(k) /\ HoldsAt(k) <= core.ways BY <1>1, HoldsIs
    <3> QED BY <1>1, <1>3, <3>2, <3>3, RingIs
  <2>3. b \in Nat /\ b <= core.way BY <1>1, <2>1, <2>2 DEF WayBytesFound
  <2>4. w <= core.ways BY <1>1, <2>1 DEF WayFound
  <2> HIDE DEF w, b
  <2>5. w * b <= core.ways * b BY <1>2, <1>3, <2>3, <2>4
  <2>6. core.ways * b <= core.ways * core.way BY <1>2, <2>3
  <2>7. w * b \in Nat /\ core.ways * b \in Nat /\ core.ways * core.way \in Nat
    BY <1>2, <1>3, <2>3
  <2>8. w * b <= core.ways * core.way BY <2>5, <2>6, <2>7
  <2> QED BY <2>8 DEF w, b
<1> QED BY <1>4, <1>5

LEMMA GeometryFollows ==
    ASSUME ProbesInvariant
    PROVE  GeometryOfTheCore
<1>1. History /\ core \in Cores BY DEF ProbesInvariant, History
<1>2. /\ Filled("cacheline") => LineFound
      /\ Filled("way") => WayFound
      /\ Filled("wayBytes") => WayBytesFound
      /\ Filled("lineFromSets") => SetLineFound
      /\ Filled("l2way") => L2WaysFound
      /\ Filled("l2line") => L2LineFound
  BY DEF ProbesInvariant
<1>3. /\ Filled("wayBytes") => Filled("way")
      /\ Filled("lineFromSets") => Filled("wayBytes")
  BY <1>1, FilledIs
<1>4. core.ways \in Nat \ {0} /\ core.way \in Nat BY <1>1, CoreIs
<1>5. LineByMajority BY <1>2 DEF LineByMajority, LineFound, Clean
<1>6. ASSUME LinePassesClean, Filled("way") PROVE fields.way <= core.ways
  BY <1>2, <1>4, <1>6 DEF WayFound, Clean
<1>7. ASSUME LinePassesClean, Filled("way"), core.memory, CleanPlacement("way")
      PROVE  fields.way = core.ways
  <2>1. PICK k \in (1..Placements) \ core.collide : ~DisturbedIn("way", k)
    BY <1>7 DEF CleanPlacement
  <2>2. fields.way >= HoldsAt(k) /\ fields.way \in Nat BY <1>2, <1>7, <2>1 DEF WayFound, Clean
  <2>3. HoldsAt(k) = core.ways BY <1>1, <2>1, HoldsIs
  <2> QED BY <1>4, <1>6, <1>7, <2>2, <2>3
<1>8. ASSUME LinePassesClean, Filled("wayBytes"), core.memory,
             CleanPlacement("way"), CleanPlacement("wayBytes")
      PROVE  fields.wayBytes = core.way
  <2>1. fields.way = core.ways BY <1>3, <1>7, <1>8
  <2>2. \A k \in 1..Placements : Good(k)
    <3> SUFFICES ASSUME NEW k \in 1..Placements PROVE RingLines > HoldsAt(k) BY DEF Good
    <3>1. HoldsAt(k) \in Nat /\ 0 < HoldsAt(k) /\ HoldsAt(k) <= core.ways BY <1>1, HoldsIs
    <3> QED BY <1>1, <1>4, <2>1, <3>1, RingIs
  <2> QED BY <1>2, <1>4, <1>8, <2>1, <2>2 DEF WayBytesFound, Clean
<1>9. ASSUME LinePassesClean, Filled("lineFromSets"), core.memory,
             \A p \in {"way", "wayBytes", "lineFromSets"} : CleanPlacement(p)
      PROVE  fields.lineFromSets = core.line
  <2>1. fields.way = core.ways /\ fields.wayBytes = core.way BY <1>3, <1>7, <1>8, <1>9
  <2> QED BY <1>2, <1>9, <2>1 DEF SetLineFound, Clean
<1>10. L1Geometry BY <1>6, <1>7, <1>8, <1>9, ProductBound DEF L1Geometry
<1>11. L2Geometry BY <1>2 DEF L2Geometry, L2WaysFound, L2LineFound, Reachable
<1> QED BY <1>5, <1>10, <1>11 DEF GeometryOfTheCore

\* Every row the probes fill is true of the core, whatever its geometry and
\* whichever samples are disturbed, as far as GeometryOfTheCore says.
THEOREM ProbesFindTheCore == ProbesSpec => []GeometryOfTheCore
<1>1. ProbesInvariant => GeometryOfTheCore BY GeometryFollows
<1> QED BY <1>1, ProbesInvariantHolds, PTL
=============================================================================
