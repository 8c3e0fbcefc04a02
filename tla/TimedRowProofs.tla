--------------------------- MODULE TimedRowProofs ---------------------------
(***************************************************************************)
(* The row that is timed and the frequency table before it, for any number *)
(* of workers and samples, any selection of CPUs and any host: first the   *)
(* samples of the row, then the clocks of the table, last the invocation   *)
(* of both, which leave each other alone.                                  *)
(***************************************************************************)
EXTENDS TimedRow, FiniteSetTheorems, SequenceTheorems, WellFoundedInduction, TLAPS

-----------------------------------------------------------------------------
(* Sums over a finite set.  The fold of the library is a recursive function *)
(* over the subsets; that there is one is shown by a smallest subset for   *)
(* which there would be none.                                              *)

LEMMA SmallestSubset ==
    ASSUME NEW S, IsFiniteSet(S), NEW B, B \subseteq SUBSET S, B # {}
    PROVE  \E s \in B : \A t \in B : ~(t \subseteq s /\ t # s)
<1> DEFINE R == StrictSubsetOrdering(S)
<1>1. B \subseteq FiniteSubsetsOf(S) BY FS_Subset DEF FiniteSubsetsOf
<1>2. IsWellFoundedOn(R, FiniteSubsetsOf(S)) BY FS_StrictSubsetOrderingWellFounded
<1> HIDE DEF R
<1>3. PICK s \in B : \A t \in B : <<t, s>> \notin R BY <1>1, <1>2, WFMin
<1>4. ASSUME NEW t \in B, t \subseteq s, t # s PROVE FALSE
  <2>1. <<t, s>> \in R BY <1>4 DEF R, StrictSubsetOrdering
  <2> QED BY <1>3, <2>1
<1> QED BY <1>4

Some(s) == CHOOSE x \in s : TRUE
Rest(s) == s \ {Some(s)}

LEMMA RestIsSmaller ==
    ASSUME NEW S, IsFiniteSet(S), NEW s \in SUBSET S, s # {}
    PROVE  /\ Some(s) \in s /\ Some(s) \in S
           /\ Rest(s) \in SUBSET S /\ Rest(s) \subseteq s /\ Rest(s) # s
           /\ Cardinality(s) \in Nat /\ Cardinality(Rest(s)) \in Nat
           /\ Cardinality(Rest(s)) = Cardinality(s) - 1
<1>1. Some(s) \in s BY DEF Some
<1>2. IsFiniteSet(s) /\ Cardinality(s) \in Nat BY FS_Subset, FS_CardinalityType
<1>3. IsFiniteSet(Rest(s)) /\ Cardinality(Rest(s)) = Cardinality(s) - 1
  BY <1>1, <1>2, FS_RemoveElement DEF Rest
<1> QED BY <1>1, <1>2, <1>3, FS_CardinalityType DEF Rest

More(f, g, s) == IF s = {} THEN 0 ELSE g[Some(s)] + f[Rest(s)]
SumsUp(f, g, S) == f = [s \in SUBSET S |-> More(f, g, s)]

LEMMA SumExists ==
    ASSUME NEW S, IsFiniteSet(S), NEW g
    PROVE  \E f : SumsUp(f, g, S)
<1> DEFINE P == SUBSET S
           Fills(f, n) == /\ f = [s \in P |-> f[s]]
                          /\ \A s \in P : Cardinality(s) <= n => f[s] = More(f, g, s)
           Bad == {s \in P : ~\E f : Fills(f, Cardinality(s))}
<1>1. \A s \in P : IsFiniteSet(s) /\ Cardinality(s) \in Nat BY FS_Subset, FS_CardinalityType
<1>2. Bad = {}
  <2> SUFFICES ASSUME Bad # {} PROVE FALSE OBVIOUS
  <2>1. PICK b \in Bad : \A t \in Bad : ~(t \subseteq b /\ t # b)
    <3>1. Bad \subseteq SUBSET S OBVIOUS
    <3> HIDE DEF Bad
    <3> QED BY <3>1, SmallestSubset
  <2> DEFINE n == Cardinality(b)
  <2>2. b \in P /\ n \in Nat BY <1>1, <2>1
  <2>3. CASE b = {}
    <3> DEFINE h == [s \in P |-> 0]
    <3>1. h = [s \in P |-> h[s]] OBVIOUS
    <3>2. \A s \in P : Cardinality(s) <= n => s = {}
      <4> TAKE s \in P
      <4>1. n = 0 BY <2>3, FS_EmptySet
      <4>2. IsFiniteSet(s) /\ Cardinality(s) \in Nat BY <1>1
      <4> HIDE DEF n
      <4>3. Cardinality(s) <= n => Cardinality(s) = 0 BY <4>1, <4>2
      <4> QED BY <4>2, <4>3, FS_EmptySet
    <3>3. \A s \in P : Cardinality(s) <= n => h[s] = More(h, g, s) BY <3>2 DEF More
    <3> HIDE DEF h
    <3>4. Fills(h, n) BY <3>1, <3>3
    <3> QED BY <2>1, <3>4
  <2>4. CASE b # {}
    <3>1. /\ Rest(b) \in P /\ Rest(b) \subseteq b /\ Rest(b) # b
          /\ Cardinality(Rest(b)) = n - 1
      BY <2>2, <2>4, RestIsSmaller
    <3>2. Rest(b) \notin Bad
      <4> HIDE DEF Bad
      <4> QED BY <2>1, <3>1
    <3>3. PICK f : Fills(f, n - 1) BY <3>1, <3>2
    <3> DEFINE h == [s \in P |-> More(f, g, s)]
    <3>4. h = [s \in P |-> h[s]] OBVIOUS
    <3>5. \A s \in P : h[s] = More(f, g, s) OBVIOUS
    <3> HIDE DEF h
    <3>6. \A s \in P : Cardinality(s) <= n => h[s] = More(h, g, s)
      <4> SUFFICES ASSUME NEW s \in P, Cardinality(s) <= n PROVE h[s] = More(h, g, s)
        OBVIOUS
      <4>1. CASE s = {} BY <3>5, <4>1 DEF More
      <4>2. CASE s # {}
        <5>1. Rest(s) \in P /\ Cardinality(Rest(s)) = Cardinality(s) - 1
          BY <4>2, RestIsSmaller
        <5>2. Cardinality(Rest(s)) <= n - 1 BY <1>1, <2>2, <5>1
        <5>3. f[Rest(s)] = More(f, g, Rest(s)) BY <3>3, <5>1, <5>2
        <5>4. h[Rest(s)] = f[Rest(s)] BY <3>5, <5>1, <5>3
        <5> QED BY <3>5, <5>4 DEF More
      <4> QED BY <4>1, <4>2
    <3>7. Fills(h, n) BY <3>4, <3>6
    <3> QED BY <2>1, <3>7
  <2> QED BY <2>3, <2>4
<1>3. S \in P OBVIOUS
<1>4. PICK f : Fills(f, Cardinality(S)) BY <1>2, <1>3
<1>5. \A s \in P : Cardinality(s) <= Cardinality(S) BY FS_Subset
<1>6. f = [s \in P |-> More(f, g, s)]
  <2>1. \A s \in P : f[s] = More(f, g, s) BY <1>4, <1>5
  <2>2. f = [s \in P |-> f[s]] BY <1>4
  <2> QED BY <2>1, <2>2
<1> QED BY <1>6 DEF SumsUp

\* A sum of natural numbers is one.
LEMMA SumIsNat ==
    ASSUME NEW S, IsFiniteSet(S), NEW g, \A x \in S : g[x] \in Nat,
           NEW f, SumsUp(f, g, S)
    PROVE  f[S] \in Nat
<1> DEFINE Bad == {s \in SUBSET S : f[s] \notin Nat}
<1>1. \A s \in SUBSET S : f[s] = More(f, g, s) BY DEF SumsUp
<1>2. Bad = {}
  <2> SUFFICES ASSUME Bad # {} PROVE FALSE OBVIOUS
  <2>1. PICK b \in Bad : \A t \in Bad : ~(t \subseteq b /\ t # b)
    <3>1. Bad \subseteq SUBSET S OBVIOUS
    <3> HIDE DEF Bad
    <3> QED BY <3>1, SmallestSubset
  <2>2. b # {}
    <3> SUFFICES ASSUME b = {} PROVE FALSE OBVIOUS
    <3>1. f[b] = 0 BY <1>1, <2>1 DEF More
    <3> QED BY <2>1, <3>1
  <2>3. /\ Rest(b) \in SUBSET S /\ Rest(b) \subseteq b /\ Rest(b) # b /\ Some(b) \in S
    BY <2>1, <2>2, RestIsSmaller
  <2>4. f[Rest(b)] \in Nat BY <2>1, <2>3
  <2>5. f[b] = g[Some(b)] + f[Rest(b)] BY <1>1, <2>1, <2>2 DEF More
  <2>6. g[Some(b)] \in Nat BY <2>3
  <2>7. f[b] \in Nat BY <2>4, <2>5, <2>6
  <2> QED BY <2>1, <2>7
<1> QED BY <1>2

\* A sum of equal numbers is a multiple of it.
LEMMA SumOfEqual ==
    ASSUME NEW S, IsFiniteSet(S), NEW k \in Nat, NEW g, \A x \in S : g[x] = k,
           NEW f, SumsUp(f, g, S)
    PROVE  f[S] = Cardinality(S) * k
<1> DEFINE Bad == {s \in SUBSET S : f[s] # Cardinality(s) * k}
<1>1. \A s \in SUBSET S : f[s] = More(f, g, s) BY DEF SumsUp
<1>2. Bad = {}
  <2> SUFFICES ASSUME Bad # {} PROVE FALSE OBVIOUS
  <2>1. PICK b \in Bad : \A t \in Bad : ~(t \subseteq b /\ t # b)
    <3>1. Bad \subseteq SUBSET S OBVIOUS
    <3> HIDE DEF Bad
    <3> QED BY <3>1, SmallestSubset
  <2>2. b # {}
    <3> SUFFICES ASSUME b = {} PROVE FALSE OBVIOUS
    <3>1. f[b] = 0 BY <1>1, <2>1 DEF More
    <3>2. Cardinality(b) = 0 BY FS_EmptySet
    <3>3. 0 * k = 0 OBVIOUS
    <3> QED BY <2>1, <3>1, <3>2, <3>3
  <2> DEFINE n == Cardinality(b)
             m == Cardinality(Rest(b))
  <2>3. /\ Rest(b) \in SUBSET S /\ Rest(b) \subseteq b /\ Rest(b) # b /\ Some(b) \in S
        /\ n \in Nat /\ m \in Nat /\ m = n - 1
    BY <2>1, <2>2, RestIsSmaller
  <2>4. f[Rest(b)] = m * k BY <2>1, <2>3
  <2>5. f[b] = k + f[Rest(b)] BY <1>1, <2>1, <2>2, <2>3 DEF More
  <2>6. f[b] # n * k BY <2>1
  <2> HIDE DEF n, m
  <2>7. n * k = k + m * k BY <2>3
  <2> QED BY <2>4, <2>5, <2>6, <2>7
<1> QED BY <1>2

LEMMA TotalIs ==
    ASSUME NEW C, IsFiniteSet(C), \A c \in C : c.cycles \in Nat
    PROVE  Total(C) \in Nat
<1> DEFINE g == [c \in C |-> c.cycles]
           Sums(f) == f = [s \in SUBSET C |->
                              IF s = {} THEN 0 ELSE Some(s).cycles + f[Rest(s)]]
           it == CHOOSE f : Sums(f)
<1>1. Total(C) = it[C] BY DEF Total, MapThenSumSet, MapThenFoldSet, Some, Rest
<1>2. \A f : Sums(f) <=> SumsUp(f, g, C)
  <2> TAKE f
  <2>1. \A s \in SUBSET C : s # {} => Some(s).cycles = g[Some(s)] BY RestIsSmaller
  <2> HIDE DEF g
  <2>2. [s \in SUBSET C |-> IF s = {} THEN 0 ELSE Some(s).cycles + f[Rest(s)]]
            = [s \in SUBSET C |-> More(f, g, s)]
    BY <2>1 DEF More
  <2> QED BY <2>2 DEF SumsUp
<1>3. SumsUp(it, g, C)
  <2>1. \E f : Sums(f) BY <1>2, SumExists
  <2> HIDE DEF Sums
  <2>2. Sums(it) BY <2>1
  <2> QED BY <1>2, <2>2
<1>4. \A c \in C : g[c] \in Nat OBVIOUS
<1> HIDE DEF g, it
<1> QED BY <1>1, <1>3, <1>4, SumIsNat

LEMMA ClocksAddUp ==
    ASSUME NEW k \in Nat, IsFiniteSet(Known), \A i \in Known : freq[i] = k
    PROVE  SumOfClocks = Cardinality(Known) * k
<1> DEFINE Sums(f) == f = [s \in SUBSET Known |->
                              IF s = {} THEN 0 ELSE freq[Some(s)] + f[Rest(s)]]
           it == CHOOSE f : Sums(f)
<1>1. SumOfClocks = it[Known]
  BY DEF SumOfClocks, MapThenSumSet, MapThenFoldSet, Some, Rest
<1>2. \A f : Sums(f) <=> SumsUp(f, freq, Known) BY DEF SumsUp, More
<1>3. SumsUp(it, freq, Known)
  <2>1. \E f : Sums(f) BY <1>2, SumExists
  <2> HIDE DEF Sums
  <2>2. Sums(it) BY <2>1
  <2> QED BY <1>2, <2>2
<1> HIDE DEF it
<1> QED BY <1>1, <1>3, SumOfEqual

-----------------------------------------------------------------------------
(***************************************************************************)
(* The cycles a row reports are those of every worker in one sample.  The  *)
(* pool's contract is a window in which every worker is once inside; the   *)
(* two atomics therefore hold, at any moment of a measured round, the      *)
(* counts of the workers that have counted in it, the second one lagging   *)
(* by those between their two adds.                                        *)
(***************************************************************************)

Callers == {"begin", "warm", "probe", "place", "sample", "measure", "done"}

Sample == [time : Times, read : [Workers -> Nat]]

SamplingTypes ==
    /\ backend \in Backends
    /\ pc \in Callers
    /\ round \in Nat
    /\ samples \in Nat
    /\ wpc \in [Workers -> {"out", "kernel", "added", "counted"}]
    /\ open \in BOOLEAN
    /\ running \in [Workers -> Jobs \cup {"none"}]
    /\ finished \subseteq Workers
    /\ read \in [Workers -> Nat]
    /\ measured \in Seq(Sample)

\* A window is open only while the caller waits for its round, and only then is
\* a worker inside.
Window ==
    /\ open => pc \in {"warm", "probe", "place", "measure"} /\ job = pc
    /\ \A w \in Workers :
           /\ wpc[w] = "out" <=> running[w] = "none"
           /\ running[w] # "none" => open /\ running[w] = job /\ w \notin finished
    /\ ~open => finished = {}

\* Which round it is.
RoundNumber ==
    /\ pc = "begin" => round = 0 /\ ~open
    /\ pc = "place" => round = 1 /\ backend = "cache"
    /\ pc \in {"warm", "probe"} => round = PreRounds
    /\ pc \in {"begin", "place", "warm", "probe"} => measured = <<>>
    /\ pc \in {"sample", "done"} => round = PreRounds + Len(measured) /\ ~open
    /\ pc = "measure" =>
           round = PreRounds + Len(measured) + (IF open THEN 1 ELSE 0)
    /\ pc = "measure" /\ ~open => Len(measured) > 0 /\ measured[Len(measured)].read = read

Counted == {w \in Workers : read[w] # 0 /\ wpc[w] # "added"}

\* What the two atomics hold in a measured round and until it is evaluated.
Atomics ==
    pc = "measure" =>
        /\ sum = {[round |-> round, worker |-> w, cycles |-> read[w]] :
                     w \in {v \in Workers : read[v] # 0}}
        /\ samples = Cardinality(Counted)
        /\ \A w \in Workers :
               /\ wpc[w] \in {"added", "counted"} => read[w] # 0
               /\ wpc[w] = "kernel" => read[w] = 0
               /\ wpc[w] = "out" /\ w \notin finished /\ open => read[w] = 0

SamplingInvariant == SamplingTypes /\ Window /\ RoundNumber /\ Atomics /\ WholeSampleReported

USE DEF poolVars, atomics, result, history, Pool!Open, Pool!Enter, Pool!Leave, Pool!Close

LEMMA SamplingInit == Init => SamplingInvariant
<1> SUFFICES ASSUME Init PROVE SamplingInvariant
  OBVIOUS
<1>1. SamplingTypes
  <2>1. samples \in Nat
    <3>1. PICK C \in SUBSET Workers : samples = Cardinality(C) BY DEF Init
    <3> QED BY <3>1, SamplingAssumption, FS_Subset, FS_CardinalityType
  <2>2. measured \in Seq(Sample) BY DEF Init
  <2>3. backend \in Backends /\ pc \in Callers /\ round \in Nat BY DEF Init, Callers
  <2>4. wpc \in [Workers -> {"out", "kernel", "added", "counted"}] /\ read \in [Workers -> Nat]
    BY DEF Init
  <2>5. /\ open \in BOOLEAN /\ running \in [Workers -> Jobs \cup {"none"}]
        /\ finished \subseteq Workers
    BY DEF Init, Pool!Init
  <2> QED BY <2>1, <2>2, <2>3, <2>4, <2>5 DEF SamplingTypes
<1>2. Window BY DEF Init, Window, Pool!Init
<1>3. RoundNumber /\ Atomics /\ WholeSampleReported
  BY DEF Init, RoundNumber, Atomics, WholeSampleReported, Pool!Init
<1> QED BY <1>1, <1>2, <1>3 DEF SamplingInvariant

\* Nothing is lost of what was reported.
LEMMA ReportKept ==
    ASSUME WholeSampleReported, cycles' = cycles, backend' = backend,
           \/ measured' = measured
           \/ measured \in Seq(Sample) /\ \E s \in Sample : measured' = Append(measured, s)
    PROVE  WholeSampleReported'
<1>1. \A i \in DOMAIN measured : i \in DOMAIN measured' /\ measured'[i] = measured[i]
  OBVIOUS
<1>2. \A i \in DOMAIN measured : (Complete(i))' <=> Complete(i)
  BY <1>1 DEF Complete
<1>3. \A i \in DOMAIN measured : (CountsOf(i))' = CountsOf(i)
  BY <1>1 DEF CountsOf, PreRounds
<1> QED BY <1>1, <1>2, <1>3 DEF WholeSampleReported

\* The caller starts a round that is not measured.
LEMMA RunKeeps ==
    ASSUME SamplingInvariant, NEW j \in {"warm", "probe", "place"}, Run(j), UNCHANGED atomics,
           ~open, measured = <<>>,
           \/ j = "place" /\ backend = "cache" /\ round = 0
           \/ j \in {"warm", "probe"} /\ round + 1 = PreRounds
    PROVE  SamplingInvariant'
<1>1. /\ open' = TRUE /\ job' = j /\ pc' = j /\ round' = round + 1
      /\ read' = [w \in Workers |-> 0]
      /\ UNCHANGED <<running, finished, backend, cycles, wpc, measured, sum, samples>>
  BY DEF Run
<1>2. SamplingTypes' BY <1>1 DEF SamplingInvariant, SamplingTypes, Callers
<1>3. Window' BY <1>1 DEF SamplingInvariant, Window
<1>4. RoundNumber'
  BY <1>1 DEF SamplingInvariant, RoundNumber, PreRounds
<1>5. Atomics' BY <1>1 DEF Atomics
<1>6. WholeSampleReported' BY <1>1, ReportKept DEF SamplingInvariant
<1> QED BY <1>2, <1>3, <1>4, <1>5, <1>6 DEF SamplingInvariant

\* A measured round starts with nothing counted.
LEMMA StartSampleKeeps ==
    ASSUME SamplingInvariant, StartSample
    PROVE  SamplingInvariant'
<1>1. /\ open' = TRUE /\ job' = "measure" /\ pc' = "measure" /\ round' = round + 1
      /\ read' = [w \in Workers |-> 0] /\ sum' = {} /\ samples' = 0 /\ ~open /\ pc = "sample"
      /\ UNCHANGED <<running, finished, backend, cycles, wpc, measured>>
  BY DEF StartSample, Run, ResetCounters
<1>2. SamplingTypes' BY <1>1 DEF SamplingInvariant, SamplingTypes, Callers
<1>3. Window' BY <1>1 DEF SamplingInvariant, Window
<1>4. RoundNumber'
  <2>1. round = PreRounds + Len(measured) /\ PreRounds \in Nat /\ Len(measured) \in Nat
    BY <1>1 DEF SamplingInvariant, RoundNumber, SamplingTypes, PreRounds
  <2>2. PreRounds' = PreRounds BY <1>1 DEF PreRounds
  <2> QED BY <1>1, <2>1, <2>2 DEF RoundNumber
<1>5. Atomics'
  <2>1. \A w \in Workers : wpc[w] = "out" BY <1>1 DEF SamplingInvariant, Window
  <2>2. Counted' = {} BY <1>1 DEF Counted
  <2>3. {[round |-> round', worker |-> w, cycles |-> read'[w]] :
            w \in {v \in Workers : read'[v] # 0}} = {}
    BY <1>1
  <2> QED BY <1>1, <2>1, <2>2, <2>3, FS_EmptySet DEF Atomics
<1>6. WholeSampleReported' BY <1>1, ReportKept DEF SamplingInvariant
<1> QED BY <1>2, <1>3, <1>4, <1>5, <1>6 DEF SamplingInvariant

\* The caller goes on, and nothing else changes.
LEMMA CallerKeeps ==
    ASSUME SamplingInvariant, ~open,
           UNCHANGED <<backend, round, wpc, open, running, finished, job, read, measured, cycles,
                       samples>>,
           \/ pc' \in {"sample", "done"} /\ round = PreRounds + Len(measured)
    PROVE  SamplingInvariant'
<1>1. SamplingTypes' BY DEF SamplingInvariant, SamplingTypes, Callers
<1>2. Window' BY DEF SamplingInvariant, Window
<1>3. RoundNumber' BY DEF SamplingInvariant, RoundNumber, PreRounds
<1>4. Atomics' BY DEF Atomics
<1>5. WholeSampleReported' BY ReportKept DEF SamplingInvariant
<1> QED BY <1>1, <1>2, <1>3, <1>4, <1>5 DEF SamplingInvariant

LEMMA RoundReturnsKeeps ==
    ASSUME SamplingInvariant, NEW t \in Times, RoundReturns(t)
    PROVE  SamplingInvariant'
<1>1. /\ open /\ finished = Workers /\ open' = FALSE /\ finished' = {}
      /\ measured' = IF pc = "measure" THEN Append(measured, [time |-> t, read |-> read]) ELSE measured
      /\ UNCHANGED <<backend, pc, round, cycles, wpc, running, read, sum, samples>>
  BY DEF RoundReturns
<1>2. [time |-> t, read |-> read] \in Sample /\ measured \in Seq(Sample)
  BY DEF SamplingInvariant, SamplingTypes, Sample
<1> DEFINE s == [time |-> t, read |-> read]
<1>3. s.read = read OBVIOUS
<1> HIDE DEF s
<1>4. SamplingTypes'
  <2>1. measured' \in Seq(Sample) BY <1>1, <1>2 DEF s
  <2> QED BY <1>1, <2>1 DEF SamplingInvariant, SamplingTypes
<1>5. Window'
  <2>1. \A w \in Workers : running[w] = "none" BY <1>1 DEF SamplingInvariant, Window
  <2> QED BY <1>1, <2>1 DEF SamplingInvariant, Window
<1>6. RoundNumber'
  <2>1. CASE pc # "measure"
    <3>1. pc \in {"warm", "probe", "place"} BY <1>1, <2>1 DEF SamplingInvariant, Window
    <3> QED BY <1>1, <2>1, <3>1 DEF SamplingInvariant, RoundNumber, PreRounds
  <2>2. CASE pc = "measure"
    <3>1. round = PreRounds + Len(measured) + 1 /\ PreRounds \in Nat /\ PreRounds' = PreRounds
      BY <1>1, <2>2 DEF SamplingInvariant, RoundNumber, PreRounds
    <3>2. measured' = Append(measured, s) /\ s \in Sample BY <1>1, <1>2, <2>2 DEF s
    <3>3. Len(measured') = Len(measured) + 1 /\ Len(measured) \in Nat
          /\ measured'[Len(measured')] = s
      BY <3>2, <1>2
    <3> QED BY <1>1, <1>3, <2>2, <3>1, <3>3 DEF RoundNumber
  <2> QED BY <2>1, <2>2
<1>7. Atomics'
  <2>1. Counted' = Counted BY <1>1 DEF Counted
  <2> QED BY <1>1, <2>1 DEF SamplingInvariant, Atomics
<1>8. WholeSampleReported' BY <1>1, <1>2, ReportKept DEF SamplingInvariant
<1> QED BY <1>4, <1>5, <1>6, <1>7, <1>8 DEF SamplingInvariant

\* If every worker is counted, the sum is of this sample.
LEMMA AllCountedIsWhole ==
    ASSUME SamplingInvariant, pc = "measure", ~open, AllCounted
    PROVE  /\ Len(measured) \in DOMAIN measured
           /\ Complete(Len(measured)) /\ sum = CountsOf(Len(measured))
<1> DEFINE i == Len(measured)
<1>1. /\ i > 0 /\ measured[i].read = read /\ round = PreRounds + i /\ measured \in Seq(Sample)
  BY DEF SamplingInvariant, SamplingTypes, RoundNumber, PreRounds
<1>2. i \in DOMAIN measured BY <1>1
<1>3. Counted = Workers
  <2>1. Counted \subseteq Workers /\ Cardinality(Counted) = Cardinality(Workers)
    BY DEF Counted, SamplingInvariant, Atomics, AllCounted, N
  <2> QED BY <2>1, SamplingAssumption, FS_Subset
<1> HIDE DEF i
<1>4. \A w \in Workers : measured[i].read[w] = read[w] /\ read[w] # 0 BY <1>1, <1>3 DEF Counted
<1>5. Complete(i) BY <1>4 DEF Complete
<1>6. sum = CountsOf(i)
  <2>1. sum = {[round |-> round, worker |-> w, cycles |-> read[w]] : w \in {v \in Workers : read[v] # 0}}
    BY DEF SamplingInvariant, Atomics
  <2>2. {v \in Workers : read[v] # 0} = Workers BY <1>4
  <2>3. sum = {[round |-> round, worker |-> w, cycles |-> read[w]] : w \in Workers} BY <2>1, <2>2
  <2>4. \A w \in Workers : [round |-> round, worker |-> w, cycles |-> read[w]]
                         = [round |-> PreRounds + i, worker |-> w, cycles |-> measured[i].read[w]]
    BY <1>1, <1>4
  <2>5. CountsOf(i) = {[round |-> PreRounds + i, worker |-> w, cycles |-> measured[i].read[w]] : w \in Workers}
    BY DEF CountsOf
  <2> QED BY <2>3, <2>4, <2>5
<1> QED BY <1>2, <1>5, <1>6 DEF i

LEMMA EvaluateKeeps ==
    ASSUME SamplingInvariant, Evaluate
    PROVE  SamplingInvariant'
<1>1. /\ pc = "measure" /\ ~open /\ pc' = "sample"
      /\ UNCHANGED <<backend, round, samples, wpc, open, running, finished, job, read, measured>>
  BY DEF Evaluate
<1>2. cycles' = cycles \/ cycles' = {} \/ (AllCounted /\ cycles' = sum)
  BY DEF Evaluate, EvaluateX64, EvaluateArm64, EvaluateRiscv64, EvaluateCache, PairedCycles
<1>3. WholeSampleReported'
  <2>1. CASE cycles' = cycles BY <1>1, <2>1, ReportKept DEF SamplingInvariant
  <2>2. CASE cycles' = {} BY <2>2 DEF WholeSampleReported
  <2>3. CASE AllCounted /\ cycles' = sum
    <3>1. PICK i \in DOMAIN measured : Complete(i) /\ sum = CountsOf(i)
      BY <1>1, <2>3, AllCountedIsWhole
    <3>2. (Complete(i))' BY <1>1, <3>1 DEF Complete
    <3>3. (CountsOf(i))' = CountsOf(i) BY <1>1 DEF CountsOf, PreRounds
    <3> QED BY <1>1, <2>3, <3>1, <3>2, <3>3 DEF WholeSampleReported
  <2> QED BY <1>2, <2>1, <2>2, <2>3
<1>4. SamplingTypes' BY <1>1 DEF SamplingInvariant, SamplingTypes, Callers
<1>5. Window' BY <1>1 DEF SamplingInvariant, Window
<1>6. RoundNumber'
  <2>1. round = PreRounds + Len(measured)
    BY <1>1 DEF SamplingInvariant, RoundNumber, SamplingTypes, PreRounds
  <2> QED BY <1>1, <2>1 DEF RoundNumber, PreRounds
<1>7. Atomics' BY <1>1 DEF Atomics
<1> QED BY <1>3, <1>4, <1>5, <1>6, <1>7 DEF SamplingInvariant

\* A worker only ever changes what is inside an open window.
LEMMA WorkerKeeps ==
    ASSUME SamplingInvariant, open, WholeSampleReported, SamplingTypes', Window', Atomics',
           UNCHANGED <<backend, pc, round, open, measured, cycles>>
    PROVE  SamplingInvariant'
<1>1. RoundNumber' BY DEF SamplingInvariant, RoundNumber, PreRounds
<1>2. WholeSampleReported' BY ReportKept
<1> QED BY <1>1, <1>2 DEF SamplingInvariant

LEMMA EnterKernelKeeps ==
    ASSUME SamplingInvariant, NEW w \in Workers, EnterKernel(w)
    PROVE  SamplingInvariant'
<1>1. /\ open /\ w \notin finished /\ running[w] = "none" /\ running' = [running EXCEPT ![w] = job]
      /\ wpc' = [wpc EXCEPT ![w] = "kernel"]
      /\ UNCHANGED <<open, job, finished, backend, pc, round, sum, samples, cycles, read, measured>>
  BY DEF EnterKernel
<1>2. /\ wpc \in [Workers -> {"out", "kernel", "added", "counted"}]
      /\ running \in [Workers -> Jobs \cup {"none"}]
  BY DEF SamplingInvariant, SamplingTypes
<1>3. wpc[w] = "out" /\ job = pc /\ pc \in {"warm", "probe", "place", "measure"}
  BY <1>1 DEF SamplingInvariant, Window
<1>4. job \in Jobs /\ job # "none" BY <1>3 DEF Jobs
<1>5. SamplingTypes' BY <1>1, <1>2, <1>4 DEF SamplingInvariant, SamplingTypes
<1>6. Window' BY <1>1, <1>2, <1>3, <1>4 DEF SamplingInvariant, Window
<1>7. Atomics'
  <2>1. Counted' = Counted BY <1>1, <1>2, <1>3 DEF Counted
  <2>2. pc = "measure" => read[w] = 0 BY <1>1, <1>3 DEF SamplingInvariant, Atomics
  <2>3. pc = "measure" =>
          \A v \in Workers :
            /\ wpc'[v] \in {"added", "counted"} => read[v] # 0
            /\ wpc'[v] = "kernel" => read[v] = 0
            /\ wpc'[v] = "out" /\ v \notin finished /\ open => read[v] = 0
    BY <1>1, <1>2, <2>2 DEF SamplingInvariant, Atomics
  <2> QED BY <1>1, <2>1, <2>3 DEF SamplingInvariant, Atomics
<1> QED BY <1>1, <1>5, <1>6, <1>7, WorkerKeeps DEF SamplingInvariant

LEMMA AddCyclesKeeps ==
    ASSUME SamplingInvariant, NEW w \in Workers, NEW c \in Amounts, AddCycles(w, c)
    PROVE  SamplingInvariant'
<1>1. /\ wpc[w] = "kernel" /\ wpc' = [wpc EXCEPT ![w] = "added"] /\ read' = [read EXCEPT ![w] = c]
      /\ sum' = sum \cup {[round |-> round, worker |-> w, cycles |-> c]}
      /\ UNCHANGED <<open, job, running, finished, backend, pc, round, samples, cycles, measured>>
  BY DEF AddCycles
<1>2. /\ wpc \in [Workers -> {"out", "kernel", "added", "counted"}] /\ read \in [Workers -> Nat]
  BY DEF SamplingInvariant, SamplingTypes
<1>3. open /\ c \in Nat \ {0} BY <1>1, SamplingAssumption DEF SamplingInvariant, Window
<1>4. SamplingTypes' BY <1>1, <1>2, <1>3 DEF SamplingInvariant, SamplingTypes
<1>5. Window' BY <1>1, <1>2 DEF SamplingInvariant, Window
<1>6. ASSUME pc = "measure" PROVE Atomics'
  <2>1. /\ sum = {[round |-> round, worker |-> v, cycles |-> read[v]] : v \in {u \in Workers : read[u] # 0}}
        /\ samples = Cardinality(Counted)
        /\ \A v \in Workers :
             /\ wpc[v] \in {"added", "counted"} => read[v] # 0
             /\ wpc[v] = "kernel" => read[v] = 0
             /\ wpc[v] = "out" /\ v \notin finished /\ open => read[v] = 0
    BY <1>6 DEF SamplingInvariant, Atomics
  <2>2. Counted' = Counted BY <1>1, <1>2, <1>3, <2>1 DEF Counted
  <2>3. read'[w] = c /\ \A v \in Workers : v # w => read'[v] = read[v] BY <1>1, <1>2
  <2>4. {u \in Workers : read'[u] # 0} = {u \in Workers : read[u] # 0} \cup {w} BY <2>3, <1>3
  <2>5. sum' = {[round |-> round, worker |-> v, cycles |-> read'[v]] : v \in {u \in Workers : read'[u] # 0}}
    <3>1. read[w] = 0 BY <1>1, <2>1
    <3>2. \A v \in {u \in Workers : read[u] # 0} : v # w /\ read'[v] = read[v] BY <2>3, <3>1
    <3>3. {[round |-> round, worker |-> v, cycles |-> read'[v]] : v \in {u \in Workers : read[u] # 0}} = sum
      BY <2>1, <3>2
    <3> QED BY <1>1, <2>3, <2>4, <3>3
  <2>6. \A v \in Workers :
          /\ wpc'[v] \in {"added", "counted"} => read'[v] # 0
          /\ wpc'[v] = "kernel" => read'[v] = 0
          /\ wpc'[v] = "out" /\ v \notin finished /\ open => read'[v] = 0
    BY <1>1, <1>2, <1>3, <2>1, <2>3
  <2> QED BY <1>1, <2>1, <2>2, <2>5, <2>6 DEF Atomics
<1>7. Atomics' BY <1>1, <1>6 DEF Atomics
<1> QED BY <1>1, <1>3, <1>4, <1>5, <1>7, WorkerKeeps DEF SamplingInvariant

LEMMA CountWorkerKeeps ==
    ASSUME SamplingInvariant, NEW w \in Workers, CountWorker(w)
    PROVE  SamplingInvariant'
<1>1. /\ wpc[w] = "added" /\ wpc' = [wpc EXCEPT ![w] = "counted"] /\ samples' = samples + 1
      /\ UNCHANGED <<open, job, running, finished, backend, pc, round, sum, cycles, read, measured>>
  BY DEF CountWorker
<1>2. wpc \in [Workers -> {"out", "kernel", "added", "counted"}]
  BY DEF SamplingInvariant, SamplingTypes
<1>3. open BY <1>1 DEF SamplingInvariant, Window
<1>4. SamplingTypes' BY <1>1, <1>2 DEF SamplingInvariant, SamplingTypes
<1>5. Window' BY <1>1, <1>2 DEF SamplingInvariant, Window
<1>6. ASSUME pc = "measure" PROVE Atomics'
  <2>1. read[w] # 0 BY <1>1, <1>6 DEF SamplingInvariant, Atomics
  <2>2. Counted' = Counted \cup {w} /\ w \notin Counted BY <1>1, <1>2, <2>1 DEF Counted
  <2>3. IsFiniteSet(Counted) BY SamplingAssumption, FS_Subset DEF Counted
  <2>4. Cardinality(Counted') = Cardinality(Counted) + 1 BY <2>2, <2>3, FS_AddElement
  <2>5. \A v \in Workers :
          /\ wpc'[v] \in {"added", "counted"} => read[v] # 0
          /\ wpc'[v] = "kernel" => read[v] = 0
          /\ wpc'[v] = "out" /\ v \notin finished /\ open => read[v] = 0
    BY <1>1, <1>2, <1>6, <2>1 DEF SamplingInvariant, Atomics
  <2> QED BY <1>1, <1>6, <2>4, <2>5 DEF SamplingInvariant, Atomics
<1>7. Atomics' BY <1>1, <1>6 DEF Atomics
<1> QED BY <1>1, <1>3, <1>4, <1>5, <1>7, WorkerKeeps DEF SamplingInvariant

LEMMA LeaveKernelKeeps ==
    ASSUME SamplingInvariant, NEW w \in Workers, LeaveKernel(w)
    PROVE  SamplingInvariant'
<1>1. /\ wpc[w] \in {"kernel", "counted"} /\ wpc' = [wpc EXCEPT ![w] = "out"]
      /\ running' = [running EXCEPT ![w] = "none"] /\ finished' = finished \cup {w}
      /\ UNCHANGED <<open, job, backend, pc, round, sum, samples, cycles, read, measured>>
  BY DEF LeaveKernel
<1>2. /\ wpc \in [Workers -> {"out", "kernel", "added", "counted"}]
      /\ running \in [Workers -> Jobs \cup {"none"}]
  BY DEF SamplingInvariant, SamplingTypes
<1>3. open BY <1>1 DEF SamplingInvariant, Window
<1>4. SamplingTypes' BY <1>1, <1>2 DEF SamplingInvariant, SamplingTypes
<1>5. Window' BY <1>1, <1>2, <1>3 DEF SamplingInvariant, Window
<1>6. Atomics'
  <2>1. Counted' = Counted BY <1>1, <1>2 DEF Counted
  <2>2. pc = "measure" =>
          \A v \in Workers :
            /\ wpc'[v] \in {"added", "counted"} => read[v] # 0
            /\ wpc'[v] = "kernel" => read[v] = 0
            /\ wpc'[v] = "out" /\ v \notin finished' /\ open => read[v] = 0
    BY <1>1, <1>2 DEF SamplingInvariant, Atomics
  <2> QED BY <1>1, <2>1, <2>2 DEF SamplingInvariant, Atomics
<1> QED BY <1>1, <1>3, <1>4, <1>5, <1>6, WorkerKeeps DEF SamplingInvariant

LEMMA SamplingStep ==
    ASSUME SamplingInvariant, [Next]_vars
    PROVE  SamplingInvariant'
<1>1. CASE WarmUp
  <2>1. Run("warm") /\ UNCHANGED atomics /\ pc = "begin" /\ backend # "cache"
    BY <1>1 DEF WarmUp
  <2>2. ~open /\ measured = <<>> /\ round + 1 = PreRounds
    BY <2>1 DEF SamplingInvariant, RoundNumber, PreRounds
  <2> HIDE DEF atomics
  <2> QED BY <2>1, <2>2, RunKeeps
<1>2. CASE Probe
  <2>1. Run("probe") /\ UNCHANGED atomics /\ pc = "begin" /\ backend = "arm64"
    BY <1>2 DEF Probe
  <2>2. ~open /\ measured = <<>> /\ round + 1 = PreRounds
    BY <2>1 DEF SamplingInvariant, RoundNumber, PreRounds
  <2> HIDE DEF atomics
  <2> QED BY <2>1, <2>2, RunKeeps
<1>3. CASE PlaceBuffers
  BY <1>3, RunKeeps DEF PlaceBuffers, SamplingInvariant, RoundNumber, PreRounds
<1>4. CASE WarmLevel
  <2>1. Run("warm") /\ UNCHANGED atomics /\ pc = "place" /\ ~open
    BY <1>4 DEF WarmLevel
  <2>2. measured = <<>> /\ round + 1 = PreRounds
    BY <2>1 DEF SamplingInvariant, RoundNumber, PreRounds
  <2> HIDE DEF atomics
  <2> QED BY <2>1, <2>2, RunKeeps
<1>5. CASE Calibrate
  <2>1. measured = <<>> /\ round = PreRounds
    BY <1>5 DEF Calibrate, SamplingInvariant, RoundNumber
  <2>2. round = PreRounds + Len(measured) BY <2>1 DEF PreRounds
  <2> QED BY <1>5, <2>2, CallerKeeps DEF Calibrate
<1>6. CASE EndWarmUp
  <2>1. measured = <<>> /\ round = PreRounds
    BY <1>6 DEF EndWarmUp, SamplingInvariant, RoundNumber
  <2>2. round = PreRounds + Len(measured) BY <2>1 DEF PreRounds
  <2> QED BY <1>6, <2>2, CallerKeeps DEF EndWarmUp
<1>7. CASE StartSample BY <1>7, StartSampleKeeps
<1>8. CASE Evaluate BY <1>8, EvaluateKeeps
<1>9. CASE Report
  BY <1>9, CallerKeeps DEF Report, SamplingInvariant, RoundNumber
<1>10. ASSUME NEW t \in Times, RoundReturns(t) PROVE SamplingInvariant'
  BY <1>10, RoundReturnsKeeps
<1>11. ASSUME NEW w \in Workers, EnterKernel(w) PROVE SamplingInvariant'
  BY <1>11, EnterKernelKeeps
<1>12. ASSUME NEW w \in Workers, NEW c \in Amounts, AddCycles(w, c) PROVE SamplingInvariant'
  BY <1>12, AddCyclesKeeps
<1>13. ASSUME NEW w \in Workers, CountWorker(w) PROVE SamplingInvariant'
  BY <1>13, CountWorkerKeeps
<1>14. ASSUME NEW w \in Workers, LeaveKernel(w) PROVE SamplingInvariant'
  BY <1>14, LeaveKernelKeeps
<1>15. CASE UNCHANGED vars
  <2>1. SamplingTypes' /\ Window' BY <1>15 DEF vars, SamplingInvariant, SamplingTypes, Window
  <2>2. RoundNumber' BY <1>15 DEF vars, SamplingInvariant, RoundNumber, PreRounds
  <2>3. Atomics' BY <1>15 DEF vars, SamplingInvariant, Atomics, Counted
  <2>4. WholeSampleReported' BY <1>15, ReportKept DEF vars, SamplingInvariant
  <2> QED BY <2>1, <2>2, <2>3, <2>4 DEF SamplingInvariant
<1> QED
  BY <1>1, <1>2, <1>3, <1>4, <1>5, <1>6, <1>7, <1>8, <1>9, <1>10, <1>11, <1>12, <1>13,
     <1>14, <1>15
  DEF Next, Done

\* Reported hardware cycles are the counts of every worker in one and the same
\* sample, whatever the number of workers and samples: nothing of a warm-up, a
\* probe or an earlier row is left in them (cpubm_run_compute and its like).
THEOREM WholeSample == Spec => []WholeSampleReported
<1>1. SamplingInvariant /\ [Next]_vars => SamplingInvariant'
  BY SamplingStep
<1>2. SamplingInvariant => WholeSampleReported
  BY DEF SamplingInvariant
<1> QED BY SamplingInit, <1>1, <1>2, PTL DEF Spec

-----------------------------------------------------------------------------
(***************************************************************************)
(* The best sample.  At each moment the result is the best of the samples  *)
(* that have been evaluated: all of them, but for the last one between the *)
(* end of its round and its evaluation.                                    *)
(***************************************************************************)

Seen == IF pc = "measure" /\ ~open THEN Len(measured) - 1 ELSE Len(measured)

Accepts(t) == t > 0 \/ backend \in {"arm64", "macos"}
AcceptedTo(n) == {measured[i].time : i \in {i \in 1..n : Accepts(measured[i].time)}}

ShortestTime(n) ==
    IF AcceptedTo(n) = {} THEN bestTime = NoTime
    ELSE bestTime \in AcceptedTo(n) /\ \A t \in AcceptedTo(n) : bestTime <= t

PairedWithTime(n) ==
    cycles # {} /\ backend # "cache" =>
        \E i \in 1..n : cycles = CountsOf(i) /\ measured[i].time = bestTime

FewestCycles(n) ==
    backend = "cache" =>
        \A i \in 1..n : Complete(i) => cycles # {} /\ Total(cycles) <= Total(CountsOf(i))

Best(n) == ShortestTime(n) /\ PairedWithTime(n) /\ FewestCycles(n)

BestOfSeen == \E n \in 0..Len(measured) : n = Seen /\ Best(n)

\* The elapsed time that is evaluated is that of the last sample.
ElapsedIsLast ==
    /\ elapsed \in Nat
    /\ pc = "measure" /\ ~open => measured[Len(measured)].time = elapsed

\* x64 overwrites its result, so it must have one sample only.
OneSampleOfX64 ==
    backend = "x64" => Len(measured) + (IF pc = "measure" /\ open THEN 1 ELSE 0) <= 1

LoopIsMultiple ==
    /\ loopTime \in Nat /\ loopTime <= MaxLoopTime
    /\ \E l \in LoopTimes : loopTime % l = 0
    /\ pc \in {"begin", "probe"} => loopTime \in LoopTimes

BestInvariant ==
    SamplingInvariant /\ BestOfSeen /\ ElapsedIsLast /\ OneSampleOfX64 /\ LoopIsMultiple

LEMMA BestInit == Init => BestInvariant
<1> SUFFICES ASSUME Init PROVE BestInvariant OBVIOUS
<1>1. /\ pc = "begin" /\ measured = <<>> /\ Len(measured) = 0 /\ elapsed = 0 /\ cycles = {}
      /\ bestTime = NoTime /\ loopTime \in LoopTimes
  BY DEF Init
<1>2. Best(0)
  <2>1. 1..0 = {} OBVIOUS
  <2>2. AcceptedTo(0) = {} BY <2>1 DEF AcceptedTo
  <2> QED BY <1>1, <2>1, <2>2 DEF Best, ShortestTime, PairedWithTime, FewestCycles
<1>3. BestOfSeen BY <1>1, <1>2 DEF BestOfSeen, Seen
<1>4. LoopIsMultiple
  <2>1. loopTime \in Nat \ {0} /\ loopTime <= MaxLoopTime BY <1>1, SamplingAssumption
  <2>2. loopTime % loopTime = 0 BY <2>1
  <2> QED BY <1>1, <2>1, <2>2 DEF LoopIsMultiple
<1>5. ElapsedIsLast /\ OneSampleOfX64 BY <1>1 DEF ElapsedIsLast, OneSampleOfX64
<1> QED BY <1>3, <1>4, <1>5, SamplingInit DEF BestInvariant

\* What was evaluated stays so while samples are only added.
LEMMA BestKept ==
    ASSUME NEW n \in Nat, Best(n), UNCHANGED <<backend, bestTime, cycles>>,
           \A i \in 1..n : measured'[i] = measured[i]
    PROVE  (Best(n))'
<1>1. \A i \in 1..n : (CountsOf(i))' = CountsOf(i) /\ ((Complete(i))' <=> Complete(i))
  BY DEF CountsOf, PreRounds, Complete
<1>2. (AcceptedTo(n))' = AcceptedTo(n) BY DEF AcceptedTo, Accepts
<1>3. (ShortestTime(n))' BY <1>2 DEF Best, ShortestTime
<1>4. (PairedWithTime(n))' BY <1>1 DEF Best, PairedWithTime
<1>5. (FewestCycles(n))'
  <2> SUFFICES ASSUME backend = "cache", NEW i \in 1..n, Complete(i)
               PROVE  cycles # {} /\ (Total(cycles))' <= (Total(CountsOf(i)))'
    BY <1>1 DEF FewestCycles
  <2>1. cycles # {} /\ Total(cycles) <= Total(CountsOf(i)) BY DEF Best, FewestCycles
  <2>2. (Total(cycles))' = Total(cycles) OBVIOUS
  <2>3. (Total(CountsOf(i)))' = Total(CountsOf(i)) BY <1>1
  <2> QED BY <2>1, <2>2, <2>3
<1> QED BY <1>3, <1>4, <1>5 DEF Best

\* A step that evaluates nothing: samples may be added, none is seen that was not.
LEMMA OthersKeepBest ==
    ASSUME SamplingInvariant, BestOfSeen, UNCHANGED <<backend, bestTime, cycles>>,
           \/ measured' = measured
           \/ \E s \in Sample : measured' = Append(measured, s),
           Seen' = Seen
    PROVE  BestOfSeen'
<1>1. measured \in Seq(Sample) BY DEF SamplingInvariant, SamplingTypes
<1>2. PICK n \in 0..Len(measured) : n = Seen /\ Best(n) BY DEF BestOfSeen
<1>3. n \in Nat /\ n <= Len(measured) /\ Len(measured) \in Nat BY <1>1, <1>2
<1>4. Len(measured') \in Nat /\ Len(measured') >= Len(measured)
      /\ \A i \in 1..Len(measured) : measured'[i] = measured[i]
  BY <1>1
<1>5. \A i \in 1..n : measured'[i] = measured[i] BY <1>3, <1>4
<1>6. (Best(n))' BY <1>2, <1>3, <1>5, BestKept
<1>7. n \in 0..Len(measured') BY <1>3, <1>4
<1> QED BY <1>2, <1>6, <1>7 DEF BestOfSeen

\* What each step that evaluates nothing leaves alone.
LEMMA OtherSteps ==
    ASSUME SamplingInvariant, [Next]_vars, ~Evaluate
    PROVE  /\ UNCHANGED <<backend, bestTime, cycles>>
           /\ measured' = measured \/ \E s \in Sample : measured' = Append(measured, s)
           /\ Seen' = Seen
<1> DEFINE Goal == /\ UNCHANGED <<backend, bestTime, cycles>>
                   /\ measured' = measured \/ \E s \in Sample : measured' = Append(measured, s)
                   /\ Seen' = Seen
<1> HIDE DEF Goal
<1> SUFFICES Goal BY DEF Goal
<1>1. ASSUME NEW j \in Jobs, Run(j), pc \in {"begin", "place", "sample"} PROVE Goal
  BY <1>1 DEF Run, Seen, Goal
<1>2. CASE WarmUp \/ Probe \/ PlaceBuffers \/ WarmLevel \/ StartSample
  BY <1>1, <1>2 DEF WarmUp, Probe, PlaceBuffers, WarmLevel, StartSample, Jobs
<1>3. CASE Calibrate \/ EndWarmUp \/ Report
  BY <1>3 DEF Calibrate, EndWarmUp, Report, Seen, Goal
<1>4. ASSUME NEW t \in Times, RoundReturns(t) PROVE Goal
  <2>1. /\ open /\ open' = FALSE /\ pc' = pc /\ UNCHANGED <<backend, bestTime, cycles>>
        /\ measured' = IF pc = "measure" THEN Append(measured, [time |-> t, read |-> read])
                       ELSE measured
    BY <1>4 DEF RoundReturns
  <2>2. measured \in Seq(Sample) /\ [time |-> t, read |-> read] \in Sample
    BY DEF SamplingInvariant, SamplingTypes, Sample
  <2>3. CASE pc # "measure" BY <2>1, <2>3 DEF Seen, Goal
  <2>4. CASE pc = "measure"
    <3> DEFINE s == [time |-> t, read |-> read]
    <3>1. measured' = Append(measured, s) /\ s \in Sample BY <2>1, <2>2, <2>4
    <3> HIDE DEF s
    <3>2. Len(measured') = Len(measured) + 1 /\ Len(measured) \in Nat BY <2>2, <3>1
    <3>3. Seen' = Seen BY <2>1, <2>4, <3>2 DEF Seen
    <3> QED BY <2>1, <3>1, <3>3 DEF Goal
  <2> QED BY <2>3, <2>4
<1>5. ASSUME NEW w \in Workers,
             \/ EnterKernel(w) \/ CountWorker(w) \/ LeaveKernel(w)
             \/ \E c \in Amounts : AddCycles(w, c)
      PROVE Goal
  BY <1>5 DEF EnterKernel, CountWorker, LeaveKernel, AddCycles, Seen, Goal
<1>6. CASE UNCHANGED vars BY <1>6 DEF vars, Seen, Goal
<1> QED BY <1>2, <1>3, <1>4, <1>5, <1>6 DEF Next, Done

\* The time handed to evaluation, and the single sample of x64.
LEMMA LastKept ==
    ASSUME SamplingInvariant, ElapsedIsLast, OneSampleOfX64, [Next]_vars
    PROVE  ElapsedIsLast' /\ OneSampleOfX64'
<1> DEFINE Goal == ElapsedIsLast' /\ OneSampleOfX64'
<1> HIDE DEF Goal
<1> SUFFICES Goal BY DEF Goal
<1>0. measured \in Seq(Sample) /\ Len(measured) \in Nat
  BY DEF SamplingInvariant, SamplingTypes
<1>1. ASSUME NEW j \in Jobs, Run(j), ~open,
             backend = "x64" /\ j = "measure" => Len(measured) < 1
      PROVE Goal
  BY <1>0, <1>1 DEF Run, ElapsedIsLast, OneSampleOfX64, Goal
<1>2. CASE WarmUp \/ Probe \/ PlaceBuffers \/ WarmLevel
  <2>1. \E j \in Jobs : j # "measure" /\ Run(j)
    BY <1>2 DEF WarmUp, Probe, PlaceBuffers, WarmLevel, Jobs
  <2>2. ~open BY <2>1 DEF Run
  <2> QED BY <1>1, <2>1, <2>2
<1>3. CASE StartSample
  <2>1. Run("measure") /\ Len(measured) < Samples /\ "measure" \in Jobs
    BY <1>3 DEF StartSample, Jobs
  <2>2. ~open /\ (backend = "x64" => Len(measured) < 1) BY <2>1 DEF Run, Samples
  <2> QED BY <1>1, <2>1, <2>2
<1>4. CASE Calibrate \/ EndWarmUp \/ Report \/ Evaluate
  <2>1. /\ UNCHANGED <<backend, elapsed, measured, open>> /\ pc' \in {"sample", "done"}
    BY <1>4 DEF Calibrate, EndWarmUp, Report, Evaluate
  <2>2. backend = "x64" => Len(measured) <= 1 BY <1>0 DEF OneSampleOfX64
  <2> QED BY <1>0, <2>1, <2>2 DEF ElapsedIsLast, OneSampleOfX64, Goal
<1>5. ASSUME NEW t \in Times, RoundReturns(t) PROVE Goal
  <2> DEFINE s == [time |-> t, read |-> read]
  <2>1. /\ open /\ open' = FALSE /\ pc' = pc /\ backend' = backend /\ elapsed' = t
        /\ measured' = IF pc = "measure" THEN Append(measured, s) ELSE measured
    BY <1>5 DEF RoundReturns
  <2>2. s \in Sample /\ s.time = t /\ t \in Nat
    BY SamplingAssumption DEF SamplingInvariant, SamplingTypes, Sample
  <2> HIDE DEF s
  <2>3. CASE pc # "measure"
    BY <1>0, <2>1, <2>2, <2>3 DEF ElapsedIsLast, OneSampleOfX64, Goal
  <2>4. CASE pc = "measure"
    <3>1. measured' = Append(measured, s) BY <2>1, <2>4
    <3>2. Len(measured') = Len(measured) + 1 /\ measured'[Len(measured')] = s
      BY <1>0, <2>2, <3>1
    <3>3. ElapsedIsLast' BY <2>1, <2>2, <3>2 DEF ElapsedIsLast
    <3>4. OneSampleOfX64' BY <1>0, <2>1, <2>4, <3>2 DEF OneSampleOfX64
    <3> QED BY <3>3, <3>4 DEF Goal
  <2> QED BY <2>3, <2>4
<1>6. ASSUME NEW w \in Workers,
             \/ EnterKernel(w) \/ CountWorker(w) \/ LeaveKernel(w)
             \/ \E c \in Amounts : AddCycles(w, c)
      PROVE Goal
  BY <1>6 DEF EnterKernel, CountWorker, LeaveKernel, AddCycles, ElapsedIsLast, OneSampleOfX64, Goal
<1>7. CASE UNCHANGED vars BY <1>7 DEF vars, ElapsedIsLast, OneSampleOfX64, Goal
<1> QED BY <1>2, <1>3, <1>4, <1>5, <1>6, <1>7 DEF Next, Done

\* The scaled loop is a multiple of the registered one and does not wrap.
LEMMA ScaleFits ==
    ASSUME NEW l \in LoopTimes, NEW t \in Nat
    PROVE  LET m == l * LoopScale(t, l) IN m \in Nat /\ m <= MaxLoopTime /\ m % l = 0
<1> DEFINE k == LoopScale(t, l)
           q == MaxLoopTime \div l
           a == LoopScaleWraps(t, l)
<1>1. l \in Nat \ {0} /\ l <= MaxLoopTime /\ MaxLoopTime \in Nat BY SamplingAssumption
<1>2. q \in Nat /\ l * q <= MaxLoopTime BY <1>1
<1>3. a \in Nat
  <2>1. CASE t > 0 /\ t < TargetTime
    <3>1. TargetTime + t - 1 \in Nat /\ t \in Nat \ {0} BY <2>1, SamplingAssumption
    <3>2. CeilDiv(TargetTime, t) \in Nat BY <3>1 DEF CeilDiv
    <3> QED BY <2>1, <3>2, SamplingAssumption DEF LoopScaleWraps, Smaller
  <2>2. CASE ~(t > 0 /\ t < TargetTime) BY <2>2 DEF LoopScaleWraps
  <2> QED BY <2>1, <2>2
<1>4. k = Smaller(a, q) BY DEF LoopScale
<1> HIDE DEF a, q, k
<1>5. k \in Nat /\ k <= q BY <1>2, <1>3, <1>4 DEF Smaller
<1>6. l * k \in Nat /\ l * k <= l * q BY <1>1, <1>2, <1>5
<1>7. (l * k) % l = 0 BY <1>1, <1>5
<1> QED BY <1>1, <1>2, <1>6, <1>7 DEF k

LEMMA LoopKept ==
    ASSUME LoopIsMultiple, ElapsedIsLast, [Next]_vars
    PROVE  LoopIsMultiple'
<1>1. CASE Calibrate
  <2>1. loopTime \in LoopTimes /\ elapsed \in Nat
    BY <1>1 DEF Calibrate, LoopIsMultiple, ElapsedIsLast
  <2>2. loopTime' = loopTime * LoopScale(elapsed, loopTime) /\ pc' = "sample"
    BY <1>1 DEF Calibrate
  <2>3. loopTime' \in Nat /\ loopTime' <= MaxLoopTime /\ loopTime' % loopTime = 0
    BY <2>1, <2>2, ScaleFits
  <2> QED BY <2>1, <2>2, <2>3 DEF LoopIsMultiple
<1>2. CASE ~Calibrate
  <2>1. loopTime' = loopTime /\ (pc' \in {"begin", "probe"} => pc \in {"begin", "probe"})
    BY <1>2 DEF Next, WarmUp, Probe, PlaceBuffers, WarmLevel, EndWarmUp, StartSample, Evaluate,
       Report, RoundReturns, EnterKernel, CountWorker, LeaveKernel, AddCycles, Done, Run, vars
  <2> QED BY <2>1 DEF LoopIsMultiple
<1> QED BY <1>1, <1>2

\* The counts of a complete sample have a sum.
LEMMA CountsHaveTotal ==
    ASSUME SamplingInvariant, NEW i \in 1..Len(measured)
    PROVE  CountsOf(i) # {} /\ Total(CountsOf(i)) \in Nat
<1>1. measured[i] \in Sample BY DEF SamplingInvariant, SamplingTypes
<1>2. \A w \in Workers : measured[i].read[w] \in Nat BY <1>1 DEF Sample
<1>3. IsFiniteSet(CountsOf(i))
  <2> DEFINE h == [w \in Workers |-> [round |-> PreRounds + i, worker |-> w,
                                      cycles |-> measured[i].read[w]]]
             C == CountsOf(i)
  <2>1. C = {h[w] : w \in Workers} BY DEF CountsOf
  <2>2. h = [w \in Workers |-> h[w]] OBVIOUS
  <2> HIDE DEF h, C
  <2>3. h \in Surjection(Workers, C) BY <2>1, <2>2 DEF Surjection
  <2>4. IsFiniteSet(C) BY <2>3, SamplingAssumption, FS_Surjection
  <2> QED BY <2>4 DEF C
<1>4. \A c \in CountsOf(i) : c.cycles \in Nat BY <1>2 DEF CountsOf
<1>5. CountsOf(i) # {} BY SamplingAssumption DEF CountsOf
<1> QED BY <1>3, <1>4, <1>5, TotalIs

\* If the last sample is complete, every worker was counted.
LEMMA WholeIsAllCounted ==
    ASSUME SamplingInvariant, pc = "measure", ~open, Complete(Len(measured))
    PROVE  AllCounted
<1>1. /\ measured[Len(measured)].read = read
      /\ samples = Cardinality(Counted)
      /\ \A w \in Workers : running[w] = "none" /\ wpc[w] = "out"
  BY DEF SamplingInvariant, RoundNumber, Atomics, Window
<1>2. \A w \in Workers : read[w] # 0 BY <1>1 DEF Complete
<1>3. Counted = Workers BY <1>1, <1>2 DEF Counted
<1> QED BY <1>1, <1>3 DEF AllCounted, N

\* What evaluation does in every back end; in x64 no sample was seen before.
LEMMA EvaluateDoes ==
    ASSUME BestInvariant, Evaluate, NEW n \in Nat, n = Seen, Best(n)
    PROVE  LET better == Accepts(elapsed) /\ (bestTime = NoTime \/ elapsed < bestTime)
           IN  /\ bestTime' = IF better THEN elapsed ELSE bestTime
               /\ backend # "cache" => cycles' = IF better THEN PairedCycles ELSE cycles
               /\ backend = "cache" =>
                      cycles' = IF AllCounted /\ (cycles = {} \/ Total(sum) < Total(cycles))
                                THEN sum ELSE cycles
<1>1. pc = "measure" /\ ~open /\ elapsed \in Nat
  BY DEF Evaluate, BestInvariant, ElapsedIsLast
<1>2. ASSUME backend = "x64" PROVE bestTime = NoTime
  <2>1. Len(measured) \in Nat /\ Len(measured) <= 1
    BY <1>1, <1>2 DEF BestInvariant, OneSampleOfX64, SamplingInvariant, SamplingTypes
  <2>2. n = 0 BY <1>1, <2>1 DEF Seen
  <2>3. AcceptedTo(n) = {} BY <2>2 DEF AcceptedTo
  <2> QED BY <2>3 DEF Best, ShortestTime
<1>3. backend \in Backends BY DEF BestInvariant, SamplingInvariant, SamplingTypes
<1> DEFINE p == Total(sum) < Total(cycles)
<1> HIDE DEF p
<1>4. EvaluateX64 \/ EvaluateArm64 \/ EvaluateRiscv64 \/ EvaluateCache BY DEF Evaluate
<1>5. CASE EvaluateX64 BY <1>1, <1>2, <1>5 DEF EvaluateX64, Accepts
<1>6. CASE EvaluateArm64 BY <1>1, <1>6 DEF EvaluateArm64, Accepts
<1>7. CASE EvaluateRiscv64 BY <1>1, <1>7 DEF EvaluateRiscv64, Accepts
<1>8. CASE EvaluateCache
  <2>1. backend = "cache" /\ (Accepts(elapsed) <=> elapsed > 0) BY <1>8 DEF EvaluateCache, Accepts
  <2>2. bestTime' = IF elapsed > 0 /\ (bestTime = NoTime \/ elapsed < bestTime)
                    THEN elapsed ELSE bestTime
    BY <1>8 DEF EvaluateCache
  <2>3. cycles' = IF AllCounted /\ (cycles = {} \/ Total(sum) < Total(cycles))
                  THEN sum ELSE cycles
    BY <1>8 DEF EvaluateCache
  <2> QED BY <2>1, <2>2, <2>3
<1> QED BY <1>4, <1>5, <1>6, <1>7, <1>8

LEMMA EvaluateKeepsBest == ASSUME BestInvariant, Evaluate PROVE BestOfSeen'
<1> DEFINE m == Len(measured)
           t == elapsed
<1>1. /\ pc = "measure" /\ ~open /\ pc' = "sample" /\ UNCHANGED <<backend, measured>>
  BY DEF Evaluate
<1>2. /\ m \in Nat \ {0} /\ measured[m].time = t /\ t \in Nat
      /\ \A i \in 1..m : measured[i].time \in Nat
  <2>1. measured \in Seq(Sample) /\ m > 0 /\ measured[m].time = t /\ t \in Nat
    BY <1>1 DEF BestInvariant, SamplingInvariant, SamplingTypes, RoundNumber, ElapsedIsLast
  <2>2. \A i \in 1..m : measured[i] \in Sample BY <2>1
  <2>3. \A s \in Sample : s.time \in Nat BY SamplingAssumption DEF Sample
  <2> QED BY <2>1, <2>2, <2>3
<1>3. PICK n \in 0..m : n = Seen /\ Best(n) BY DEF BestInvariant, BestOfSeen
<1>4. n = m - 1 /\ n \in Nat BY <1>1, <1>2, <1>3 DEF Seen
<1>5. PICK k \in Nat : k = m BY <1>2
<1>6. k \in 0..Len(measured') /\ k = Seen' BY <1>1, <1>5 DEF Seen
<1> HIDE DEF m
<1>7. k = n + 1 /\ k \in 1..k /\ 1..k = (1..n) \cup {k} BY <1>2, <1>4, <1>5
<1>8. \A i \in 1..k : (CountsOf(i))' = CountsOf(i) /\ ((Complete(i))' <=> Complete(i))
  BY <1>1 DEF CountsOf, PreRounds, Complete
<1>9. (AcceptedTo(k))' = AcceptedTo(n) \cup {u \in {t} : Accepts(t)}
  <2>1. (AcceptedTo(k))' = AcceptedTo(k) BY <1>1 DEF AcceptedTo, Accepts
  <2>2. AcceptedTo(k) = AcceptedTo(n) \cup {u \in {measured[k].time} : Accepts(measured[k].time)}
    BY <1>7 DEF AcceptedTo
  <2> QED BY <1>2, <1>5, <2>1, <2>2
<1>10. AcceptedTo(n) \subseteq Nat BY <1>2, <1>4 DEF AcceptedTo
<1> DEFINE better == Accepts(t) /\ (bestTime = NoTime \/ t < bestTime)
<1>11. /\ bestTime' = IF better THEN t ELSE bestTime
       /\ backend # "cache" => cycles' = IF better THEN PairedCycles ELSE cycles
       /\ backend = "cache" =>
              cycles' = IF AllCounted /\ (cycles = {} \/ Total(sum) < Total(cycles))
                        THEN sum ELSE cycles
  BY <1>3, <1>4, EvaluateDoes
<1>12. (ShortestTime(k))'
  <2> DEFINE A == AcceptedTo(n)
             B == A \cup {u \in {t} : Accepts(t)}
             b == bestTime'
  <2>1. IF A = {} THEN bestTime = NoTime ELSE bestTime \in A /\ \A u \in A : bestTime <= u
    BY <1>3 DEF Best, ShortestTime
  <2>2. A \subseteq Nat /\ b = IF better THEN t ELSE bestTime BY <1>10, <1>11
  <2>3. IF B = {} THEN b = NoTime ELSE b \in B /\ \A u \in B : b <= u
    <3> HIDE DEF A, b
    <3>1. CASE A = {}
      <4>1. bestTime = NoTime BY <2>1, <3>1
      <4>2. CASE Accepts(t)
        <5>1. b = t /\ B = {t} BY <2>2, <3>1, <4>1, <4>2
        <5> QED BY <1>2, <5>1
      <4>3. CASE ~Accepts(t)
        <5>1. b = NoTime /\ B = {} BY <2>2, <3>1, <4>1, <4>3
        <5> QED BY <5>1
      <4> QED BY <4>2, <4>3
    <3>2. CASE A # {}
      <4>1. bestTime \in Nat /\ bestTime # NoTime
        <5>1. bestTime \in A BY <2>1, <3>2
        <5>2. A \subseteq Nat BY <2>2
        <5>3. bestTime \in Nat BY <5>1, <5>2
        <5>4. NoTime = -1 BY DEF NoTime
        <5> QED BY <5>3, <5>4
      <4>2. CASE ~Accepts(t) BY <2>1, <2>2, <3>2, <4>2
      <4>3. CASE Accepts(t) /\ t < bestTime
        <5>1. b = t /\ B = A \cup {t} BY <2>2, <4>3
        <5>2. \A u \in A : t <= u BY <1>2, <2>1, <2>2, <3>2, <4>1, <4>3
        <5> QED BY <1>2, <5>1, <5>2
      <4>4. CASE Accepts(t) /\ ~(t < bestTime)
        <5>1. b = bestTime /\ B = A \cup {t} BY <2>2, <4>1, <4>4
        <5>2. bestTime <= t BY <1>2, <4>1, <4>4
        <5> QED BY <2>1, <3>2, <5>1, <5>2
      <4> QED BY <4>2, <4>3, <4>4
    <3> QED BY <3>1, <3>2
  <2>4. (AcceptedTo(k))' = B BY <1>9
  <2> HIDE DEF A, B
  <2> QED BY <2>3, <2>4 DEF ShortestTime
<1>13. AllCounted => Complete(k) /\ sum = CountsOf(k)
  BY <1>1, <1>5, AllCountedIsWhole DEF BestInvariant, m
<1>14. (PairedWithTime(k))'
  <2> SUFFICES ASSUME cycles' # {}, backend # "cache"
               PROVE  \E i \in 1..k : cycles' = CountsOf(i) /\ measured[i].time = bestTime'
    BY <1>1, <1>8 DEF PairedWithTime
  <2>1. CASE better
    <3>1. AllCounted /\ cycles' = sum BY <1>11, <2>1 DEF PairedCycles
    <3>2. bestTime' = measured[k].time BY <1>2, <1>5, <1>11, <2>1
    <3> QED BY <1>7, <1>13, <3>1, <3>2
  <2>2. CASE ~better
    <3>1. cycles' = cycles /\ bestTime' = bestTime BY <1>11, <2>2
    <3>2. PICK i \in 1..n : cycles = CountsOf(i) /\ measured[i].time = bestTime
      BY <1>3, <3>1 DEF Best, PairedWithTime
    <3> QED BY <1>7, <3>1, <3>2
  <2> QED BY <2>1, <2>2
<1>15. (FewestCycles(k))'
  <2> SUFFICES ASSUME backend = "cache", NEW i \in 1..k, Complete(i)
               PROVE  cycles' # {} /\ Total(cycles') <= Total(CountsOf(i))
    <3>1. \A i \in 1..k : (Total(CountsOf(i)))' = Total(CountsOf(i)) BY <1>8
    <3>2. backend' = backend BY <1>1
    <3> QED BY <1>8, <3>1, <3>2 DEF FewestCycles
  <2> DEFINE less == Total(sum) < Total(cycles)
  <2>1. cycles' = IF AllCounted /\ (cycles = {} \/ less) THEN sum ELSE cycles BY <1>11
  <2>2. cycles # {} => Total(cycles) \in Nat
    <3> SUFFICES ASSUME cycles # {} PROVE Total(cycles) \in Nat OBVIOUS
    <3>1. PICK j \in DOMAIN measured : cycles = CountsOf(j)
      BY DEF BestInvariant, SamplingInvariant, WholeSampleReported
    <3>2. j \in 1..Len(measured) BY <3>1 DEF BestInvariant, SamplingInvariant, SamplingTypes
    <3> QED BY <3>1, <3>2, CountsHaveTotal DEF BestInvariant
  <2>3. CountsOf(i) # {} /\ Total(CountsOf(i)) \in Nat
    BY <1>5, CountsHaveTotal DEF BestInvariant, m
  <2>4. CountsOf(k) # {} /\ Total(CountsOf(k)) \in Nat
    BY <1>5, <1>7, CountsHaveTotal DEF BestInvariant, m
  <2>5. CASE i = k
    <3>1. AllCounted
      BY <1>1, <1>5, <2>5, WholeIsAllCounted DEF BestInvariant, m
    <3>2. sum = CountsOf(i) BY <1>13, <2>5, <3>1
    <3>3. CASE cycles = {} \/ less
      <4>1. cycles' = CountsOf(i) BY <2>1, <3>1, <3>2, <3>3
      <4> QED BY <2>3, <4>1
    <3>4. CASE ~(cycles = {} \/ less)
      <4>1. cycles' = cycles /\ cycles # {} BY <2>1, <3>4
      <4>2. Total(cycles) <= Total(CountsOf(i)) BY <2>2, <2>3, <3>2, <3>4
      <4> QED BY <4>1, <4>2
    <3> QED BY <3>3, <3>4
  <2>6. CASE i # k
    <3>1. i \in 1..n BY <1>7, <2>6
    <3>2. cycles # {} /\ Total(cycles) <= Total(CountsOf(i))
      BY <1>3, <3>1 DEF Best, FewestCycles
    <3>3. CASE AllCounted /\ less
      <4>1. cycles' = sum /\ sum = CountsOf(k) BY <1>13, <2>1, <3>3
      <4>2. Total(sum) <= Total(CountsOf(i)) BY <2>2, <2>3, <2>4, <3>2, <3>3, <4>1
      <4> QED BY <2>4, <4>1, <4>2
    <3>4. CASE ~(AllCounted /\ less)
      <4>1. cycles' = cycles BY <2>1, <3>2, <3>4
      <4> QED BY <3>2, <4>1
    <3> QED BY <3>3, <3>4
  <2> QED BY <2>5, <2>6
<1>16. (Best(k))' BY <1>12, <1>14, <1>15 DEF Best
<1> QED BY <1>6, <1>16 DEF BestOfSeen

LEMMA BestStep == ASSUME BestInvariant, [Next]_vars PROVE BestInvariant'
<1>1. SamplingInvariant' BY SamplingStep DEF BestInvariant
<1>2. ElapsedIsLast' /\ OneSampleOfX64' BY LastKept DEF BestInvariant
<1>3. LoopIsMultiple' BY LoopKept DEF BestInvariant
<1>4. BestOfSeen'
  <2>1. CASE Evaluate BY <2>1, EvaluateKeepsBest
  <2>2. CASE ~Evaluate
    <3>1. /\ UNCHANGED <<backend, bestTime, cycles>>
          /\ measured' = measured \/ \E s \in Sample : measured' = Append(measured, s)
          /\ Seen' = Seen
      BY <2>2, OtherSteps DEF BestInvariant
    <3> QED BY <3>1, OthersKeepBest DEF BestInvariant
  <2> QED BY <2>1, <2>2
<1> QED BY <1>1, <1>2, <1>3, <1>4 DEF BestInvariant

\* A row's time is the shortest accepted one and its cycles are of the same
\* sample (of the fewest in measure_cache_bandwidth), for any number of workers
\* and samples; the loop that was timed is a multiple of the registered one that
\* does not wrap (cpubm_run_compute, cpubm_measure_compute_time, loop_scale).
THEOREM BestSample == Spec => []BestSampleReported
<1>1. BestInvariant => BestSampleReported
  <2> SUFFICES ASSUME BestInvariant, pc = "done" PROVE BestSampleReported
    BY DEF BestSampleReported
  <2>1. PICK n \in 0..Len(measured) : n = Len(measured) /\ Best(n)
    BY DEF BestInvariant, BestOfSeen, Seen
  <2>2. DOMAIN measured = 1..n BY <2>1 DEF BestInvariant, SamplingInvariant, SamplingTypes
  <2>3. Accepted = AcceptedTo(n) BY <2>2 DEF Accepted, AcceptedTo, Accepts
  <2>4. loopTime <= MaxLoopTime /\ \E l \in LoopTimes : loopTime % l = 0
    BY DEF BestInvariant, LoopIsMultiple
  <2>5. IF Accepted = {} THEN bestTime = NoTime
        ELSE bestTime \in Accepted /\ \A t \in Accepted : bestTime <= t
    BY <2>1, <2>3 DEF Best, ShortestTime
  <2>6. /\ cycles # {} /\ backend # "cache" =>
             \E i \in DOMAIN measured : cycles = CountsOf(i) /\ measured[i].time = bestTime
        /\ backend = "cache" =>
             \A i \in DOMAIN measured :
               Complete(i) => cycles # {} /\ Total(cycles) <= Total(CountsOf(i))
    BY <2>1, <2>2 DEF Best, PairedWithTime, FewestCycles
  <2> QED BY <2>4, <2>5, <2>6 DEF BestSampleReported
<1>2. BestInvariant /\ [Next]_vars => BestInvariant' BY BestStep
<1> QED BY BestInit, <1>1, <1>2, PTL DEF Spec

-----------------------------------------------------------------------------
(***************************************************************************)
(* The clocks of the frequency table: a thread that could be bound is      *)
(* where it was told to run from the moment it opens its counter, what it  *)
(* answers from then on is of that core, and a row is a copy of one answer *)
(* that no step alters.                                                    *)
(***************************************************************************)

Stages == {"spawned", "unbound", "open", "count", "override", "chain", "estimate", "reported",
           "done", "joined"}
Sources == {"unavailable", "counted", "override", "chain", "tsc", "powermetrics", "reported"}
FrequencyData == [reported : Nat, shown : Nat, clock : Nat, source : Sources]
TableRow == [thread : Threads, reported : Nat, shown : Nat, ipc : BOOLEAN, source : Sources,
             unsustained : BOOLEAN]

ClockTypes ==
    /\ platform \in Platforms /\ host \in Hosts
    /\ stage \in [Threads -> Stages]
    /\ on \in [Threads -> CpusOf(host)]
    /\ counter \in [Threads -> Nat]
    /\ data \in [Threads -> FrequencyData]
    /\ rows \in Seq(TableRow)

\* Where a thread is after it was bound.
Placed(i) ==
    stage[i] # "spawned" =>
        /\ platform = "macos" => KindOn(i) = 1
        /\ platform # "macos" /\ Selected[i] \in host.bindable => on[i] = Selected[i]

\* What it has found so far.
Searching(i) ==
    /\ stage[i] \notin {"done", "joined"} => data[i].shown = 0 /\ data[i].source = "unavailable"
    /\ Bound(i) /\ stage[i] = "count" => counter[i] = KindOn(i)
    /\ Bound(i) /\ stage[i] \in {"override", "chain", "estimate", "reported"} => ~host.counters

\* What it answers.
Answer(i) ==
    stage[i] \in {"done", "joined"} =>
        /\ data[i].shown > 0 <=> data[i].source \in {"counted", "chain", "tsc", "powermetrics"}
        /\ Bound(i) /\ data[i].source \in {"counted", "chain"} => data[i].shown = ClockOn(i)
        /\ Bound(i) /\ host.counters => data[i].source = "counted"

RowsAreAnswers ==
    \A k \in DOMAIN rows :
        LET i == rows[k].thread IN
        /\ i \in Threads /\ stage[i] = "joined"
        /\ rows[k].shown = data[i].shown /\ rows[k].source = data[i].source

ClockInvariant ==
    /\ ClockTypes
    /\ platform # "riscv64" =>
           /\ \A i \in Threads : Placed(i) /\ Searching(i) /\ Answer(i)
           /\ RowsAreAnswers

USE DEF At, Goto, Keep, CpusOf, KindOn, ClockOn, Bound

LEMMA ClocksInitHolds == ClocksInit => ClockInvariant
<1> SUFFICES ASSUME ClocksInit PROVE ClockInvariant
  OBVIOUS
<1>1. NoData \in FrequencyData BY DEF NoData, FrequencyData, Sources
<1>2. ClockTypes BY <1>1 DEF ClocksInit, ClockTypes, Stages
<1>3. \A i \in Threads : Placed(i) /\ Searching(i) /\ Answer(i)
  BY DEF ClocksInit, Placed, Searching, Answer, NoData
<1>4. RowsAreAnswers BY DEF ClocksInit, RowsAreAnswers
<1> QED BY <1>2, <1>3, <1>4 DEF ClockInvariant

\* One thread goes on; the others, their answers and the rows stay.  It was not
\* joined, so no row is about it.
LEMMA ThreadKeeps ==
    ASSUME ClockInvariant, NEW i \in Threads, NEW s \in Stages,
           Goto(i, s), UNCHANGED <<platform, host, rows>>, stage[i] # "joined",
           on' \in [Threads -> CpusOf(host)], counter' \in [Threads -> Nat],
           data' \in [Threads -> FrequencyData],
           \A j \in Threads \ {i} : on'[j] = on[j] /\ counter'[j] = counter[j] /\ data'[j] = data[j],
           platform # "riscv64" => (Placed(i) /\ Searching(i) /\ Answer(i))'
    PROVE  ClockInvariant'
<1>1. ClockTypes' BY DEF ClockInvariant, ClockTypes
<1>2. ASSUME platform # "riscv64", NEW j \in Threads PROVE (Placed(j) /\ Searching(j) /\ Answer(j))'
  <2>1. CASE j = i BY <1>2, <2>1
  <2>2. CASE j # i
    <3>1. stage'[j] = stage[j] /\ on'[j] = on[j] /\ counter'[j] = counter[j] /\ data'[j] = data[j]
      BY <2>2 DEF ClockInvariant, ClockTypes
    <3>2. Placed(j) /\ Searching(j) /\ Answer(j) BY <1>2 DEF ClockInvariant
    <3> QED BY <3>1, <3>2 DEF Placed, Searching, Answer
  <2> QED BY <2>1, <2>2
<1>3. ASSUME platform # "riscv64" PROVE RowsAreAnswers'
  <2>1. ASSUME NEW k \in DOMAIN rows
        PROVE  /\ rows[k].thread \in Threads /\ stage'[rows[k].thread] = "joined"
               /\ rows[k].shown = data'[rows[k].thread].shown
               /\ rows[k].source = data'[rows[k].thread].source
    <3>1. /\ rows[k].thread \in Threads /\ stage[rows[k].thread] = "joined"
          /\ rows[k].shown = data[rows[k].thread].shown
          /\ rows[k].source = data[rows[k].thread].source
      BY <1>3 DEF ClockInvariant, RowsAreAnswers
    <3>2. rows[k].thread # i BY <3>1
    <3>3. stage'[rows[k].thread] = stage[rows[k].thread] /\ data'[rows[k].thread] = data[rows[k].thread]
      BY <3>1, <3>2 DEF ClockInvariant, ClockTypes
    <3> QED BY <3>1, <3>3
  <2> QED BY <2>1 DEF RowsAreAnswers
<1> QED BY <1>1, <1>2, <1>3 DEF ClockInvariant

\* A measured and an assumed clock change the answer of one thread.
LEMMA MeasuredSets ==
    ASSUME ClockTypes, NEW i \in Threads, NEW c \in Nat, NEW from \in Sources, Measured(i, c, from)
    PROVE  /\ data' \in [Threads -> FrequencyData]
           /\ data'[i].shown = c /\ data'[i].source = from
           /\ \A j \in Threads \ {i} : data'[j] = data[j]
BY DEF ClockTypes, Measured, FrequencyData

LEMMA AssumedSets ==
    ASSUME ClockTypes, NEW i \in Threads, NEW c \in Nat, NEW from \in Sources, Assumed(i, c, from)
    PROVE  /\ data' \in [Threads -> FrequencyData]
           /\ data'[i].shown = data[i].shown /\ data'[i].source = from
           /\ \A j \in Threads \ {i} : data'[j] = data[j]
BY DEF ClockTypes, Assumed, FrequencyData

\* What is known of the host a thread runs on.
LEMMA OfThisHost ==
    ASSUME ClockTypes, NEW i \in Threads
    PROVE  /\ on[i] \in DOMAIN host.kind /\ KindOn(i) \in Kinds /\ KindOn(i) \in Nat
           /\ ClockOn(i) \in Nat \ {0}
           /\ Selected[i] \in DOMAIN host.kind /\ host.reported[Selected[i]] \in Nat
           /\ host.override \in Nat
<1>1. on[i] \in DOMAIN host.kind /\ host \in Hosts BY DEF ClockTypes
<1>2. KindOn(i) \in Kinds BY <1>1, HostAssumption
<1>3. Kinds \subseteq Nat /\ Clocks \in [Kinds -> Nat \ {0}] BY HostAssumption
<1>4. Selected[i] \in DOMAIN host.kind /\ host.reported[Selected[i]] \in Nat
  BY <1>1, HostAssumption DEF Threads
<1>5. ClockOn(i) \in Nat \ {0}
  <2> DEFINE kind == KindOn(i)
  <2>1. kind \in Kinds /\ ClockOn(i) = Clocks[kind] BY <1>2
  <2> HIDE DEF kind, ClockOn
  <2> QED BY <1>3, <2>1
<1> QED BY <1>1, <1>2, <1>3, <1>4, <1>5, HostAssumption

\* Whatever interrupted it, the best of three runs of the chain is undisturbed.
LEMMA ChainIsExact ==
    ASSUME NEW run \in ChainRuns, ClockTypes, NEW i \in Threads
    PROVE  ChainClock(i, BestElapsed(run)) \in {0, ClockOn(i)}
<1>1. run \in [1..3 -> Nat] /\ \A k \in 1..3 : run[k] # 1 BY HostAssumption
<1>2. CASE Positive(run) = {} BY <1>2 DEF BestElapsed, ChainClock
<1>3. CASE Positive(run) # {}
  <2>1. \E k \in 1..3 : run[k] = 2 BY <1>3, HostAssumption DEF Positive
  <2>2. 2 \in Positive(run) BY <2>1 DEF Positive
  <2>3. \A t \in Positive(run) : t \in Nat /\ 2 <= t BY <1>1 DEF Positive
  <2>4. BestElapsed(run) \in Positive(run) /\ \A u \in Positive(run) : BestElapsed(run) <= u
    BY <1>3, <2>2, <2>3 DEF BestElapsed
  <2>5. BestElapsed(run) = 2 BY <2>2, <2>3, <2>4
  <2>6. ClockOn(i) \in Nat BY OfThisHost
  <2> HIDE DEF ClockOn
  <2> QED BY <2>5, <2>6 DEF ChainClock
<1> QED BY <1>2, <1>3

LEMMA OpenEarlyKeeps == ASSUME ClockInvariant, NEW i \in Threads, OpenEarly(i) PROVE ClockInvariant'
<1>1. CyclesEvent(on[i]) \in Nat BY OfThisHost DEF ClockInvariant, CyclesEvent
<1>2. counter' \in [Threads -> Nat] /\ \A j \in Threads \ {i} : counter'[j] = counter[j]
  BY <1>1 DEF OpenEarly, ClockInvariant, ClockTypes
<1>3. on' \in [Threads -> CpusOf(host)] /\ data' \in [Threads -> FrequencyData]
  BY DEF OpenEarly, ClockInvariant, ClockTypes
<1> QED BY <1>2, <1>3, ThreadKeeps DEF OpenEarly, Stages

LEMMA BindKeeps == ASSUME ClockInvariant, NEW i \in Threads, Bind(i) PROVE ClockInvariant'
<1> DEFINE s == IF platform = "riscv64" THEN "count" ELSE "open"
<1>0. stage' = [stage EXCEPT ![i] = s] /\ s \in Stages /\ stage[i] \in {"spawned", "unbound"}
      /\ UNCHANGED <<platform, host, rows, counter>> /\ (platform # "riscv64" => stage[i] = "spawned")
  BY DEF Bind, Stages
<1>1. PICK cpu \in CpusOf(host) :
        /\ platform = "macos" => host.kind[cpu] = 1
        /\ platform # "macos" => cpu = IF Selected[i] \in host.bindable THEN Selected[i] ELSE on[i]
        /\ on' = [on EXCEPT ![i] = cpu]
  BY DEF Bind
<1>2. on' \in [Threads -> CpusOf(host)] /\ on'[i] = cpu /\ \A j \in Threads \ {i} : on'[j] = on[j]
  BY <1>1 DEF ClockInvariant, ClockTypes
<1>3. /\ data' \in [Threads -> FrequencyData]
      /\ data'[i].shown = data[i].shown /\ data'[i].source = data[i].source
      /\ \A j \in Threads \ {i} : data'[j] = data[j]
  <2>1. data' = [data EXCEPT ![i].reported = host.reported[Selected[i]]] BY DEF Bind
  <2>2. host.reported[Selected[i]] \in Nat BY OfThisHost DEF ClockInvariant
  <2> QED BY <2>1, <2>2 DEF ClockInvariant, ClockTypes, FrequencyData
<1>4. counter' \in [Threads -> Nat] BY <1>0 DEF ClockInvariant, ClockTypes
<1>5. stage'[i] = s BY <1>0 DEF ClockInvariant, ClockTypes
<1>6. ASSUME platform # "riscv64" PROVE (Placed(i) /\ Searching(i) /\ Answer(i))'
  <2>1. stage'[i] = "open" BY <1>5, <1>6
  <2>2. Placed(i)' BY <1>0, <1>1, <1>2 DEF Placed
  <2>3. Searching(i) BY <1>6 DEF ClockInvariant
  <2>4. Searching(i)' BY <1>0, <1>3, <1>6, <2>1, <2>3 DEF Searching
  <2>5. Answer(i)' BY <2>1 DEF Answer
  <2> QED BY <2>2, <2>4, <2>5
<1> HIDE DEF s
<1> QED BY <1>0, <1>2, <1>3, <1>4, <1>6, ThreadKeeps

LEMMA MigrateKeeps == ASSUME ClockInvariant, NEW i \in Threads, Migrate(i) PROVE ClockInvariant'
<1>0. /\ ~Bound(i) /\ stage[i] \notin {"done", "joined"}
      /\ UNCHANGED <<platform, host, rows, stage, counter, data>>
  BY DEF Migrate
<1>1. PICK cpu \in CpusOf(host) : on' = [on EXCEPT ![i] = cpu] BY DEF Migrate
<1>2. ClockTypes /\ stage[i] \in Stages BY DEF ClockInvariant, ClockTypes
<1>3. on' \in [Threads -> CpusOf(host)] /\ \A j \in Threads \ {i} : on'[j] = on[j]
  BY <1>1, <1>2 DEF ClockTypes
<1>4. Goto(i, stage[i]) BY <1>0, <1>2 DEF ClockTypes
<1>5. ASSUME platform # "riscv64" PROVE (Placed(i) /\ Searching(i) /\ Answer(i))'
  <2>1. Searching(i) BY <1>5 DEF ClockInvariant
  <2> QED BY <1>0, <2>1 DEF Placed, Searching, Answer
<1>6. counter' \in [Threads -> Nat] /\ data' \in [Threads -> FrequencyData]
  BY <1>0, <1>2 DEF ClockTypes
<1> DEFINE s == stage[i]
<1>7. s \in Stages /\ Goto(i, s) /\ stage[i] # "joined" BY <1>0, <1>2, <1>4
<1> HIDE DEF s, Goto, Bound
<1> QED BY <1>0, <1>3, <1>5, <1>6, <1>7, ThreadKeeps

LEMMA OpenKeeps == ASSUME ClockInvariant, NEW i \in Threads, Open(i) PROVE ClockInvariant'
<1>0. stage' = [stage EXCEPT ![i] = "count"] /\ "count" \in Stages /\ stage[i] = "open"
      /\ UNCHANGED <<platform, host, rows, on, data>>
      /\ counter' = [counter EXCEPT ![i] = KindOn(i)]
  BY DEF Open, Stages, CyclesEvent
<1>1. KindOn(i) \in Nat BY OfThisHost DEF ClockInvariant
<1>2. counter' \in [Threads -> Nat] /\ counter'[i] = KindOn(i) /\ stage'[i] = "count"
      /\ \A j \in Threads \ {i} : counter'[j] = counter[j]
  BY <1>0, <1>1 DEF ClockInvariant, ClockTypes
<1>3. on' \in [Threads -> CpusOf(host)] /\ data' \in [Threads -> FrequencyData]
  BY <1>0 DEF ClockInvariant, ClockTypes
<1>4. ASSUME platform # "riscv64" PROVE (Placed(i) /\ Searching(i) /\ Answer(i))'
  <2>1. Placed(i) /\ Searching(i) BY <1>4 DEF ClockInvariant
  <2>2. Placed(i)' BY <1>0, <2>1 DEF Placed
  <2>3. Searching(i)' BY <1>0, <1>2, <2>1 DEF Searching
  <2>4. Answer(i)' BY <1>2 DEF Answer
  <2> QED BY <2>2, <2>3, <2>4
<1> QED BY <1>0, <1>2, <1>3, <1>4, ThreadKeeps

\* A rung of the ladder: it answers, and what it answers is true, or the thread
\* goes to the next one.
LEMMA RungKeeps ==
    ASSUME ClockInvariant, NEW i \in Threads, NEW s \in Stages \ {"joined", "spawned", "count"},
           Goto(i, s), UNCHANGED <<platform, host, rows, on, counter>>,
           stage[i] \in {"count", "override", "chain", "estimate", "reported"},
           data' \in [Threads -> FrequencyData],
           \A j \in Threads \ {i} : data'[j] = data[j],
           platform # "riscv64" =>
               /\ s # "done" => data' = data /\ (Bound(i) => ~host.counters)
               /\ s = "done" =>
                    /\ data'[i].shown > 0 <=> data'[i].source \in {"counted", "chain", "tsc", "powermetrics"}
                    /\ Bound(i) /\ data'[i].source \in {"counted", "chain"} =>
                           data'[i].shown = ClockOn(i)
                    /\ Bound(i) /\ host.counters => data'[i].source = "counted"
    PROVE  ClockInvariant'
<1>1. stage'[i] = s BY DEF ClockInvariant, ClockTypes
<1>2. on' \in [Threads -> CpusOf(host)] /\ counter' \in [Threads -> Nat] /\ s \in Stages
  BY DEF ClockInvariant, ClockTypes
<1>3. ASSUME platform # "riscv64" PROVE (Placed(i) /\ Searching(i) /\ Answer(i))'
  <2>1. Placed(i) /\ Searching(i) BY <1>3 DEF ClockInvariant
  <2>2. Placed(i)' BY <1>1, <2>1 DEF Placed
  <2>3. Searching(i)' BY <1>1, <1>3, <2>1 DEF Searching
  <2>4. Answer(i)' BY <1>1, <1>3 DEF Answer
  <2> QED BY <2>2, <2>3, <2>4
<1> QED BY <1>2, <1>3, ThreadKeeps

\* What a counter may read, of a bound thread and of any.
LEMMA ReadingsAre ==
    ASSUME ClockTypes, NEW i \in Threads, NEW clock \in Readings(i)
    PROVE  clock \in Nat /\ (Bound(i) => clock = IF Counts(i) THEN ClockOn(i) ELSE 0)
<1>1. ClockOn(i) \in Nat BY OfThisHost
<1> HIDE DEF ClockOn, Bound
<1> QED BY <1>1 DEF Readings

LEMMA CountCyclesKeeps == ASSUME ClockInvariant, NEW i \in Threads, CountCycles(i) PROVE ClockInvariant'
<1>0. stage[i] = "count" /\ platform # "riscv64" /\ UNCHANGED <<platform, host, rows, on, counter>>
  BY DEF CountCycles
<1>1. ClockTypes /\ (Bound(i) => counter[i] = KindOn(i)) BY <1>0 DEF ClockInvariant, Searching
<1>2. ClockOn(i) \in Nat \ {0} BY <1>1, OfThisHost
<1>3. PICK clock \in Readings(i) :
        IF clock > 0
        THEN Measured(i, clock, "counted") /\ Goto(i, "done")
        ELSE UNCHANGED data /\ Goto(i, "override")
  BY DEF CountCycles
<1>4. clock \in Nat /\ (Bound(i) => clock = IF Counts(i) THEN ClockOn(i) ELSE 0)
  BY <1>1, ReadingsAre
<1>5. CASE clock > 0
  <2>1. Measured(i, clock, "counted") /\ Goto(i, "done") BY <1>3, <1>5
  <2>2. /\ data' \in [Threads -> FrequencyData] /\ data'[i].shown = clock
        /\ data'[i].source = "counted" /\ \A j \in Threads \ {i} : data'[j] = data[j]
    BY <1>1, <1>4, <2>1, MeasuredSets DEF Sources
  <2>3. Bound(i) => clock = ClockOn(i) BY <1>4, <1>5
  <2> HIDE DEF Goto, ClockOn, Bound
  <2> QED BY <1>0, <1>5, <2>1, <2>2, <2>3, RungKeeps DEF Stages
<1>6. CASE ~(clock > 0)
  <2>1. data' = data /\ Goto(i, "override") BY <1>3, <1>6
  <2>2. Bound(i) => ~host.counters BY <1>1, <1>2, <1>4, <1>6 DEF Counts
  <2>3. data' \in [Threads -> FrequencyData] BY <1>1, <2>1 DEF ClockTypes
  <2> HIDE DEF Goto, Bound
  <2> QED BY <1>0, <2>1, <2>2, <2>3, RungKeeps DEF Stages
<1> QED BY <1>5, <1>6

\* The clock and the label of riscv64, and when the clock is the counted one.
LEMMA RiscvAnswers ==
    ASSUME ClockTypes, NEW i \in Threads, CountRiscv(i)
    PROVE  \E c \in Nat, from \in Sources :
               /\ Measured(i, c, from)
               /\ Bound(i) /\ host.vector /\ Counts(i) => c = ClockOn(i)
<1>1. PICK clock \in RiscvReadings(i), label \in RiscvLabels(i) :
        Measured(i, IF clock > 0 THEN clock ELSE data[i].reported, label)
  BY DEF CountRiscv
<1>2. label \in Sources BY <1>1 DEF RiscvLabels, Sources
<1>3. clock \in Nat /\ (Bound(i) /\ host.vector /\ Counts(i) => clock = ClockOn(i))
  <2>1. CASE host.vector BY <1>1, <2>1, ReadingsAre DEF RiscvReadings
  <2>2. CASE ~host.vector BY <1>1, <2>2, HostAssumption DEF RiscvReadings
  <2> QED BY <2>1, <2>2
<1>4. ClockOn(i) \in Nat \ {0} /\ data[i].reported \in Nat
  BY OfThisHost DEF ClockTypes, FrequencyData
<1> DEFINE c == IF clock > 0 THEN clock ELSE data[i].reported
<1>5. c \in Nat /\ (Bound(i) /\ host.vector /\ Counts(i) => c = ClockOn(i)) BY <1>3, <1>4
<1>6. Measured(i, c, label) BY <1>1
<1> HIDE DEF c, ClockOn, Bound
<1> QED BY <1>2, <1>5, <1>6

LEMMA CountRiscvKeeps == ASSUME ClockInvariant, NEW i \in Threads, CountRiscv(i) PROVE ClockInvariant'
<1>0. stage[i] = "count" /\ platform = "riscv64" /\ UNCHANGED <<platform, host, rows, on, counter>>
      /\ Goto(i, "done") /\ ClockTypes
  BY DEF CountRiscv, ClockInvariant
<1>1. PICK c \in Nat, from \in Sources : Measured(i, c, from) BY <1>0, RiscvAnswers
<1>2. data' \in [Threads -> FrequencyData] /\ \A j \in Threads \ {i} : data'[j] = data[j]
  BY <1>0, <1>1, MeasuredSets
<1> HIDE DEF Goto
<1> QED BY <1>0, <1>2, RungKeeps DEF Stages

LEMMA OverrideKeeps == ASSUME ClockInvariant, NEW i \in Threads, Override(i) PROVE ClockInvariant'
<1>0. stage[i] = "override" /\ UNCHANGED <<platform, host, rows, on, counter>> /\ ClockTypes
  BY DEF Override, ClockInvariant
<1>1. platform # "riscv64" => (Bound(i) => ~host.counters) /\ data[i].shown = 0
  BY <1>0 DEF ClockInvariant, Searching
<1>2. host.override \in Nat BY <1>0, OfThisHost
<1>3. CASE host.override > 0
  <2>1. Assumed(i, host.override, "override") /\ Goto(i, "done") BY <1>3 DEF Override
  <2>2. /\ data' \in [Threads -> FrequencyData] /\ data'[i].shown = data[i].shown
        /\ data'[i].source = "override" /\ \A j \in Threads \ {i} : data'[j] = data[j]
    BY <1>0, <1>2, <2>1, AssumedSets DEF Sources
  <2> HIDE DEF Goto, ClockOn
  <2> QED BY <1>0, <1>1, <2>1, <2>2, RungKeeps DEF Stages
<1>4. CASE ~(host.override > 0)
  <2>1. data' = data /\ Goto(i, "chain") BY <1>4 DEF Override
  <2>2. data' \in [Threads -> FrequencyData] BY <1>0, <2>1 DEF ClockTypes
  <2> HIDE DEF Goto
  <2> QED BY <1>0, <1>1, <2>1, <2>2, RungKeeps DEF Stages
<1> QED BY <1>3, <1>4

LEMMA AddChainKeeps == ASSUME ClockInvariant, NEW i \in Threads, AddChain(i) PROVE ClockInvariant'
<1>0. stage[i] = "chain" /\ UNCHANGED <<platform, host, rows, on, counter>> /\ ClockTypes
  BY DEF AddChain, ClockInvariant
<1>1. platform # "riscv64" => (Bound(i) => ~host.counters) BY <1>0 DEF ClockInvariant, Searching
<1>2. PICK run \in ChainRuns :
        LET clock == ChainClock(i, BestElapsed(run)) IN
        IF clock > 0
        THEN Measured(i, clock, "chain") /\ Goto(i, "done")
        ELSE UNCHANGED data /\ Goto(i, "estimate")
  BY DEF AddChain
<1> DEFINE clock == ChainClock(i, BestElapsed(run))
<1>3. ClockOn(i) \in Nat \ {0} /\ clock \in {0, ClockOn(i)} BY <1>0, OfThisHost, ChainIsExact
<1> HIDE DEF clock
<1>4. CASE clock > 0
  <2>1. Measured(i, clock, "chain") /\ Goto(i, "done") BY <1>2, <1>4 DEF clock
  <2>2. clock = ClockOn(i) /\ clock \in Nat BY <1>3, <1>4
  <2>3. /\ data' \in [Threads -> FrequencyData] /\ data'[i].shown = clock
        /\ data'[i].source = "chain" /\ \A j \in Threads \ {i} : data'[j] = data[j]
    BY <1>0, <2>1, <2>2, MeasuredSets DEF Sources
  <2> HIDE DEF Goto, ClockOn
  <2> QED BY <1>0, <1>1, <1>4, <2>1, <2>2, <2>3, RungKeeps DEF Stages
<1>5. CASE ~(clock > 0)
  <2>1. data' = data /\ Goto(i, "estimate") BY <1>2, <1>5 DEF clock
  <2>2. data' \in [Threads -> FrequencyData] BY <1>0, <2>1 DEF ClockTypes
  <2> HIDE DEF Goto
  <2> QED BY <1>0, <1>1, <2>1, <2>2, RungKeeps DEF Stages
<1> QED BY <1>4, <1>5

LEMMA EstimateKeeps == ASSUME ClockInvariant, NEW i \in Threads, Estimate(i) PROVE ClockInvariant'
<1>0. stage[i] = "estimate" /\ UNCHANGED <<platform, host, rows, on, counter>> /\ ClockTypes
  BY DEF Estimate, ClockInvariant
<1>1. platform # "riscv64" => (Bound(i) => ~host.counters) BY <1>0 DEF ClockInvariant, Searching
<1>2. ASSUME NEW c \in Nat \ {0}, NEW from \in {"tsc", "powermetrics"}, Measured(i, c, from), Goto(i, "done")
      PROVE  ClockInvariant'
  <2>1. /\ data' \in [Threads -> FrequencyData] /\ data'[i].shown = c
        /\ data'[i].source = from /\ \A j \in Threads \ {i} : data'[j] = data[j]
    BY <1>0, <1>2, MeasuredSets DEF Sources
  <2> HIDE DEF Goto, ClockOn
  <2> QED BY <1>0, <1>1, <1>2, <2>1, RungKeeps DEF Stages
<1>3. ASSUME data' = data, Goto(i, "reported") PROVE ClockInvariant'
  <2>1. data' \in [Threads -> FrequencyData] BY <1>0, <1>3 DEF ClockTypes
  <2> HIDE DEF Goto
  <2> QED BY <1>0, <1>1, <1>3, <2>1, RungKeeps DEF Stages
<1> HIDE DEF Goto
<1> QED BY <1>2, <1>3, HostAssumption DEF Estimate

LEMMA ReportedKeeps == ASSUME ClockInvariant, NEW i \in Threads, ReportedClock(i) PROVE ClockInvariant'
<1>0. stage[i] = "reported" /\ UNCHANGED <<platform, host, rows, on, counter>> /\ ClockTypes
      /\ Goto(i, "done")
  BY DEF ReportedClock, ClockInvariant
<1>1. platform # "riscv64" =>
          (Bound(i) => ~host.counters) /\ data[i].shown = 0 /\ data[i].source = "unavailable"
  BY <1>0 DEF ClockInvariant, Searching
<1>2. /\ data' \in [Threads -> FrequencyData] /\ data'[i].shown = data[i].shown
      /\ data'[i].source \in {"reported", data[i].source}
      /\ \A j \in Threads \ {i} : data'[j] = data[j]
  <2>1. data[i].reported \in Nat BY <1>0 DEF ClockTypes, FrequencyData
  <2>2. CASE data[i].reported > 0
    BY <1>0, <2>1, <2>2, AssumedSets DEF ReportedClock, Sources
  <2>3. CASE ~(data[i].reported > 0) BY <1>0, <2>3 DEF ReportedClock, ClockTypes
  <2> QED BY <2>2, <2>3
<1> HIDE DEF Goto, ClockOn
<1> QED BY <1>0, <1>1, <1>2, RungKeeps DEF Stages

\* A row is added for a thread that has answered.
LEMMA JoinKeeps ==
    ASSUME ClockInvariant, NEW i \in Threads, stage[i] = "done", Goto(i, "joined"),
           UNCHANGED <<platform, host, on, counter, data>>, rows' \in {rows, Append(rows, Row(i))}
    PROVE  ClockInvariant'
<1>1. Row(i) \in TableRow /\ Row(i).thread = i /\ Row(i).shown = data[i].shown
      /\ Row(i).source = data[i].source
  <2>1. data[i].reported \in Nat /\ data[i].shown \in Nat /\ data[i].source \in Sources
    BY DEF ClockInvariant, ClockTypes, FrequencyData
  <2> QED BY <2>1 DEF Row, TableRow, Unsustained
<1> DEFINE row == Row(i)
           T == TableRow
<1>2. row \in T /\ row.thread = i /\ row.shown = data[i].shown /\ row.source = data[i].source BY <1>1
<1>3. rows \in Seq(T) /\ rows' \in {rows, Append(rows, row)} BY DEF ClockInvariant, ClockTypes
<1> HIDE DEF row, T
<1>4. rows' \in Seq(T)
      /\ \A k \in DOMAIN rows' : (k \in DOMAIN rows /\ rows'[k] = rows[k]) \/ rows'[k] = row
  BY <1>2, <1>3
<1>5. ClockTypes' BY <1>4 DEF ClockInvariant, ClockTypes, Stages, T
<1>6. ASSUME platform # "riscv64" PROVE (\A j \in Threads : Placed(j) /\ Searching(j) /\ Answer(j))'
  <2> SUFFICES ASSUME NEW j \in Threads PROVE (Placed(j) /\ Searching(j) /\ Answer(j))'
    OBVIOUS
  <2>1. Placed(j) /\ Searching(j) /\ Answer(j) BY <1>6 DEF ClockInvariant
  <2>2. stage'[j] = IF j = i THEN "joined" ELSE stage[j] BY DEF ClockInvariant, ClockTypes
  <2> QED BY <2>1, <2>2 DEF Placed, Searching, Answer
<1>7. ASSUME platform # "riscv64" PROVE RowsAreAnswers'
  <2>1. \A j \in Threads : stage[j] = "joined" \/ j = i => stage'[j] = "joined"
    BY DEF ClockInvariant, ClockTypes
  <2>2. RowsAreAnswers BY <1>7 DEF ClockInvariant
  <2> QED BY <1>2, <1>4, <2>1, <2>2 DEF RowsAreAnswers
<1> QED BY <1>5, <1>6, <1>7 DEF ClockInvariant

LEMMA ClockStep == ASSUME ClockInvariant, [ClocksNext]_clockVars PROVE ClockInvariant'
<1>1. ASSUME NEW i \in Threads, OpenEarly(i) PROVE ClockInvariant' BY <1>1, OpenEarlyKeeps
<1>2. ASSUME NEW i \in Threads, Bind(i) PROVE ClockInvariant' BY <1>2, BindKeeps
<1>3. ASSUME NEW i \in Threads, Open(i) PROVE ClockInvariant' BY <1>3, OpenKeeps
<1>13. ASSUME NEW i \in Threads, Migrate(i) PROVE ClockInvariant' BY <1>13, MigrateKeeps
<1>4. ASSUME NEW i \in Threads, CountCycles(i) PROVE ClockInvariant' BY <1>4, CountCyclesKeeps
<1>5. ASSUME NEW i \in Threads, CountRiscv(i) PROVE ClockInvariant' BY <1>5, CountRiscvKeeps
<1>6. ASSUME NEW i \in Threads, Override(i) PROVE ClockInvariant' BY <1>6, OverrideKeeps
<1>7. ASSUME NEW i \in Threads, AddChain(i) PROVE ClockInvariant' BY <1>7, AddChainKeeps
<1>8. ASSUME NEW i \in Threads, Estimate(i) PROVE ClockInvariant' BY <1>8, EstimateKeeps
<1>9. ASSUME NEW i \in Threads, ReportedClock(i) PROVE ClockInvariant' BY <1>9, ReportedKeeps
<1>10. ASSUME NEW i \in Threads, Join(i) PROVE ClockInvariant'
  BY <1>10, JoinKeeps DEF Join
<1>11. ASSUME NEW i \in Threads, JoinMacos(i) PROVE ClockInvariant'
  BY <1>11, JoinKeeps DEF JoinMacos
<1>12. CASE UNCHANGED clockVars
  <2>1. ClockTypes' BY <1>12 DEF clockVars, ClockInvariant, ClockTypes
  <2>2. \A i \in Threads : Placed(i) /\ Searching(i) /\ Answer(i) =>
            (Placed(i) /\ Searching(i) /\ Answer(i))'
    BY <1>12 DEF clockVars, Placed, Searching, Answer
  <2>3. RowsAreAnswers => RowsAreAnswers' BY <1>12 DEF clockVars, RowsAreAnswers
  <2>4. platform' = platform BY <1>12 DEF clockVars
  <2> QED BY <2>1, <2>2, <2>3, <2>4 DEF ClockInvariant
<1> QED
  BY <1>1, <1>2, <1>3, <1>4, <1>5, <1>6, <1>7, <1>8, <1>9, <1>10, <1>11, <1>12, <1>13
  DEF ClocksNext, ClocksDone

\* Every thread keeps to its place and its search until its answer stands, and the
\* clock rows are the answers of threads that were joined.
THEOREM ClockInvariantHolds == ClocksSpec => []ClockInvariant
BY ClocksInitHolds, ClockStep, PTL DEF ClocksSpec

LEMMA ClocksOfTheirCores == ClockInvariant => ShownClockIsOfItsCore /\ CountedWherePermitted
<1> SUFFICES ASSUME ClockInvariant, platform # "riscv64", NEW k \in DOMAIN rows
             PROVE  LET row == rows[k] IN
                    /\ row.shown > 0 <=> row.source \in {"counted", "chain", "tsc", "powermetrics"}
                    /\ row.source \in {"counted", "chain"} /\ Bound(row.thread) =>
                           row.shown = Clocks[IF platform = "macos" THEN 1
                                              ELSE host.kind[Selected[row.thread]]]
                    /\ Bound(row.thread) /\ host.counters => row.source = "counted"
  BY DEF ShownClockIsOfItsCore, CountedWherePermitted
<1> DEFINE i == rows[k].thread
<1>1. i \in Threads /\ stage[i] = "joined" /\ rows[k].shown = data[i].shown
      /\ rows[k].source = data[i].source
  BY DEF ClockInvariant, RowsAreAnswers
<1>2. Placed(i) /\ Answer(i) BY <1>1 DEF ClockInvariant
<1> HIDE DEF i
<1>3. Bound(i) => ClockOn(i) = Clocks[IF platform = "macos" THEN 1 ELSE host.kind[Selected[i]]]
  BY <1>1, <1>2 DEF Bound, Placed
<1> HIDE DEF ClockOn
<1> QED BY <1>1, <1>2, <1>3 DEF Answer, i

\* A clock in the table is one that was measured, and one measured on a bound
\* thread is that of the core its row is about, for every mix of core types and
\* every place the scheduler started the threads at (get_cpu_freq).
THEOREM ShownClocks == ClocksSpec => []ShownClockIsOfItsCore
BY ClockInvariantHolds, ClocksOfTheirCores, PTL

\* Where the counters may be read no row of a thread that was bound falls back to
\* an assumed clock, on any core type (perf_cycles_config_for_current_cpu); one
\* that migrates after it opened its counter may.
THEOREM CountersUsed == ClocksSpec => []CountedWherePermitted
BY ClockInvariantHolds, ClocksOfTheirCores, PTL

-----------------------------------------------------------------------------
LEMMA TimedStep ==
    ASSUME [TimedNext]_timedVars
    PROVE  [Next]_vars /\ [ClocksNext]_clockVars
<1> HIDE DEF poolVars, atomics, result, history
<1>1. CASE MakeTable BY <1>1 DEF MakeTable
<1>2. CASE TimeRow BY <1>2 DEF TimeRow
<1>3. CASE Normalize BY <1>3 DEF Normalize
<1>4. CASE UNCHANGED timedVars BY <1>4 DEF timedVars
<1> QED BY <1>1, <1>2, <1>3, <1>4 DEF TimedNext, Finished

\* The table leaves the row alone, and the row the table (main, get_cpu_freq).
THEOREM RowAndTable == TimedSpec => Spec /\ ClocksSpec
<1>1. TimedInit => Init /\ ClocksInit BY DEF TimedInit
<1> QED BY <1>1, TimedStep, PTL DEF TimedSpec, Spec, ClocksSpec

-----------------------------------------------------------------------------
(***************************************************************************)
(* What a row without counters is divided by: the clock a thread answered  *)
(* with is kept for its core (of all threads for one core on macOS), the   *)
(* table is done before the row begins and stays as it is, and the three   *)
(* rules for the fallback clock agree on it.                               *)
(***************************************************************************)

\* The clock kept for a thread that has answered, and where riscv64 goes.
Divides(i) ==
    /\ stage[i] \in {"done", "joined"} /\ Bound(i) /\ ClockMeasured(i) => data[i].clock = ClockOn(i)
    /\ platform = "riscv64" => stage[i] \in {"spawned", "unbound", "count", "done", "joined"}

\* One clock for each thread that was joined, or that of the last for the first.
KeptClocks ==
    /\ freq \in [Threads -> Nat]
    /\ platform # "macos" =>
           \A i \in Threads : freq[i] = IF stage[i] = "joined" THEN data[i].clock ELSE 0
    /\ platform = "macos" =>
           /\ \A i \in Threads \ {1} : freq[i] = 0
           /\ TableDone => freq[1] = data[Len(Selected)].clock

DivisorInvariant == ClockInvariant /\ (\A i \in Threads : Divides(i)) /\ KeptClocks

\* The estimate is made once, of a finished row and after a finished table.
EstimateInvariant ==
    /\ BestInvariant /\ DivisorInvariant
    /\ backend \in {platform, "cache"}
    /\ pc # "begin" => TableDone
    /\ ipc.from = "estimated" => pc = "done"
    /\ EstimateIsPerCore

LEMMA TheThreads ==
    /\ Threads = 1..Len(Selected) /\ Len(Selected) \in Nat \ {0} /\ 1 \in Threads
    /\ IsFiniteSet(Threads) /\ Cardinality(Threads) = Len(Selected)
<1>1. Selected \in Seq(Nat) /\ Selected # << >> BY HostAssumption
<1>2. Threads = 1..Len(Selected) /\ Len(Selected) \in Nat \ {0} BY <1>1 DEF Threads
<1>3. IsFiniteSet(1..Len(Selected)) /\ Cardinality(1..Len(Selected)) = Len(Selected)
  BY <1>2, FS_Interval
<1> QED BY <1>2, <1>3

\* The table is done when every thread was joined.
LEMMA AllJoined ==
    ASSUME NEW s, Cardinality({i \in Threads : s[i] = "joined"}) = Len(Selected)
    PROVE  \A i \in Threads : s[i] = "joined"
<1> DEFINE J == {i \in Threads : s[i] = "joined"}
<1>1. J \subseteq Threads /\ Cardinality(J) = Cardinality(Threads) BY TheThreads
<1> HIDE DEF J
<1>2. J = Threads BY <1>1, TheThreads, FS_Subset
<1> QED BY <1>2 DEF J

LEMMA DivisorInit == ClocksInit => DivisorInvariant
<1> SUFFICES ASSUME ClocksInit PROVE DivisorInvariant OBVIOUS
<1>1. \A i \in Threads : Divides(i) BY DEF ClocksInit, Divides
<1>2. ~TableDone
  <2>1. \A i \in Threads : stage[i] # "joined" BY DEF ClocksInit
  <2>2. {i \in Threads : stage[i] = "joined"} = {} BY <2>1
  <2>3. Joined = 0 BY <2>2, FS_EmptySet DEF Joined
  <2> QED BY <2>3, TheThreads DEF TableDone
<1>3. KeptClocks BY <1>2 DEF ClocksInit, KeptClocks
<1> QED BY <1>1, <1>3, ClocksInitHolds DEF DivisorInvariant

\* A thread that goes on was not joined, and what is kept is of those that were.
LEMMA ThreadKeepsDivisor ==
    ASSUME DivisorInvariant, ClockInvariant', NEW i \in Threads, NEW s \in Stages \ {"joined"},
           Goto(i, s), UNCHANGED <<platform, host, freq>>, stage[i] # "joined",
           \A j \in Threads \ {i} : on'[j] = on[j] /\ counter'[j] = counter[j] /\ data'[j] = data[j],
           Divides(i)'
    PROVE  DivisorInvariant'
<1>1. /\ stage'[i] = s /\ \A j \in Threads \ {i} : stage'[j] = stage[j]
  BY DEF DivisorInvariant, ClockInvariant, ClockTypes
<1>2. ASSUME NEW j \in Threads PROVE Divides(j)'
  <2>1. CASE j = i BY <2>1
  <2>2. CASE j # i
    <3>1. stage'[j] = stage[j] /\ on'[j] = on[j] /\ counter'[j] = counter[j] /\ data'[j] = data[j]
      BY <1>1, <2>2
    <3>2. Divides(j) BY DEF DivisorInvariant
    <3> QED BY <3>1, <3>2 DEF Divides, ClockMeasured, Counts
  <2> QED BY <2>1, <2>2
<1>3. ~TableDone'
  <2> SUFFICES ASSUME TableDone' PROVE FALSE OBVIOUS
  <2>1. Cardinality({j \in Threads : stage'[j] = "joined"}) = Len(Selected)
    BY DEF TableDone, Joined
  <2>2. stage'[i] = "joined" BY <2>1, AllJoined
  <2> QED BY <1>1, <2>2
<1>4. KeptClocks'
  <2>1. KeptClocks BY DEF DivisorInvariant
  <2>2. freq' \in [Threads -> Nat] BY <2>1 DEF KeptClocks
  <2>3. ASSUME platform' # "macos", NEW j \in Threads
        PROVE  freq'[j] = IF stage'[j] = "joined" THEN data'[j].clock ELSE 0
    <3>1. freq'[j] = IF stage[j] = "joined" THEN data[j].clock ELSE 0 BY <2>1, <2>3 DEF KeptClocks
    <3>2. CASE j = i BY <1>1, <3>1, <3>2
    <3>3. CASE j # i BY <1>1, <3>1, <3>3
    <3> QED BY <3>2, <3>3
  <2>4. platform' = "macos" => \A j \in Threads \ {1} : freq'[j] = 0 BY <2>1 DEF KeptClocks
  <2> QED BY <1>3, <2>2, <2>3, <2>4 DEF KeptClocks
<1> QED BY <1>2, <1>4 DEF DivisorInvariant

LEMMA MeasuredClock ==
    ASSUME ClockTypes, NEW i \in Threads, NEW c, NEW from, Measured(i, c, from)
    PROVE  data'[i].clock = c /\ data'[i].source = from
BY DEF ClockTypes, Measured, FrequencyData

\* Each step of a thread.
LEMMA StepOfThread ==
    ASSUME DivisorInvariant, NEW i \in Threads,
           \/ OpenEarly(i) \/ Bind(i) \/ Migrate(i) \/ Open(i) \/ CountCycles(i) \/ CountRiscv(i)
           \/ Override(i) \/ AddChain(i) \/ Estimate(i) \/ ReportedClock(i)
    PROVE  /\ \E s \in Stages \ {"joined"} : Goto(i, s)
           /\ UNCHANGED <<platform, host, freq>> /\ stage[i] # "joined"
           /\ \A j \in Threads \ {i} :
                  on'[j] = on[j] /\ counter'[j] = counter[j] /\ data'[j] = data[j]
           /\ Divides(i)'
<1>0. ClockInvariant /\ ClockTypes /\ Divides(i) BY DEF DivisorInvariant, ClockInvariant
<1> DEFINE Others == \A j \in Threads \ {i} :
                         on'[j] = on[j] /\ counter'[j] = counter[j] /\ data'[j] = data[j]
           Goal == /\ \E s \in Stages \ {"joined"} : Goto(i, s)
                   /\ UNCHANGED <<platform, host, freq>> /\ stage[i] # "joined"
                   /\ Others /\ Divides(i)'
<1> HIDE DEF Goal
<1> SUFFICES Goal BY DEF Goal
\* a rung is left for another one, or answers
<1>1. ASSUME NEW s \in Stages \ {"joined"}, Goto(i, s), UNCHANGED <<platform, host, freq>>,
             stage[i] # "joined", Others,
             platform = "riscv64" => s \in {"unbound", "count", "done"},
             s = "done" /\ Bound(i) /\ ClockMeasured(i)' => data'[i].clock = ClockOn(i)'
      PROVE  Goal
  <2>1. stage'[i] = s BY <1>0, <1>1 DEF ClockTypes
  <2>2. Divides(i)' BY <1>1, <2>1 DEF Divides
  <2> QED BY <1>1, <2>2 DEF Goal
<1>2. CASE OpenEarly(i)
  <2>1. Others BY <1>0, <1>2 DEF OpenEarly, ClockTypes
  <2> QED BY <1>1, <1>2, <2>1 DEF OpenEarly, Stages
<1>3. CASE Bind(i)
  <2>1. Others BY <1>0, <1>3 DEF Bind, ClockTypes
  <2>2. PICK s \in {"count", "open"} : Goto(i, s) /\ (platform = "riscv64" => s = "count")
    BY <1>3 DEF Bind
  <2>3. stage[i] # "joined" /\ UNCHANGED <<platform, host, freq>> BY <1>3 DEF Bind
  <2> HIDE DEF Others, Goto
  <2> QED BY <1>1, <2>1, <2>2, <2>3 DEF Stages
<1>13. CASE Migrate(i)
  <2>1. /\ stage' = stage /\ stage[i] \notin {"done", "joined"}
        /\ UNCHANGED <<platform, host, freq, counter, data>>
        /\ \E cpu : on' = [on EXCEPT ![i] = cpu]
    BY <1>13 DEF Migrate
  <2>2. Others BY <1>0, <2>1 DEF ClockTypes
  <2>3. stage[i] \in Stages \ {"joined"} /\ Goto(i, stage[i]) BY <1>0, <2>1 DEF ClockTypes
  <2>4. Divides(i)' BY <1>0, <2>1 DEF Divides
  <2> HIDE DEF Others, Goto
  <2> QED BY <2>1, <2>2, <2>3, <2>4 DEF Goal
<1>4. CASE Open(i)
  <2>1. Others BY <1>0, <1>4 DEF Open, ClockTypes
  <2>2. platform # "riscv64" BY <1>0, <1>4 DEF Open, Divides
  <2> QED BY <1>1, <1>4, <2>1, <2>2 DEF Open, Stages
\* from here on the thread stays where it is and keeps its counter
<1>5. ASSUME UNCHANGED <<on, counter, platform, host, freq>>, NEW s \in Stages \ {"joined"}, Goto(i, s),
             stage[i] # "joined", \A j \in Threads \ {i} : data'[j] = data[j],
             platform = "riscv64" => s = "done",
             s = "done" =>
                 \/ data'[i].clock = ClockOn(i)
                 \/ platform # "riscv64" /\ data'[i].source \notin {"counted", "chain"}
                 \/ platform = "riscv64" /\ ~(host.vector /\ Counts(i))
                 \/ ~Bound(i)
      PROVE  Goal
  <2>1. Others BY <1>5
  <2>2. s = "done" /\ Bound(i) /\ ClockMeasured(i)' => data'[i].clock = ClockOn(i)'
    BY <1>5 DEF ClockMeasured, Counts
  <2> HIDE DEF Others, Goto
  <2> QED BY <1>1, <1>5, <2>1, <2>2
<1> DEFINE Stays == UNCHANGED <<on, counter, platform, host, freq>>
           OneAnswer == \A j \in Threads \ {i} : data'[j] = data[j]
<1>6. ASSUME NEW c, NEW from, Measured(i, c, from) \/ Assumed(i, c, from) \/ data' = data
      PROVE  OneAnswer
  BY <1>0, <1>6 DEF Measured, Assumed, ClockTypes
<1>7. CASE CountCycles(i)
  <2>1. Stays /\ stage[i] = "count" /\ platform # "riscv64" BY <1>7 DEF CountCycles
  <2>2. PICK clock \in Readings(i) :
        IF clock > 0
        THEN Measured(i, clock, "counted") /\ Goto(i, "done")
        ELSE UNCHANGED data /\ Goto(i, "override")
    BY <1>7 DEF CountCycles
  <2>3. Bound(i) => clock = IF Counts(i) THEN ClockOn(i) ELSE 0 BY <1>0, ReadingsAre
  <2>4. CASE clock > 0
    <3>1. Measured(i, clock, "counted") /\ Goto(i, "done") BY <2>2, <2>4
    <3>2. data'[i].clock = clock BY <1>0, <3>1, MeasuredClock
    <3>3. data'[i].clock = ClockOn(i) \/ ~Bound(i) BY <2>3, <2>4, <3>2
    <3>4. OneAnswer BY <1>6, <3>1
    <3> HIDE DEF Goto, ClockOn, OneAnswer, Bound
    <3> QED BY <1>5, <2>1, <3>1, <3>3, <3>4 DEF Stages, OneAnswer
  <2>5. CASE ~(clock > 0)
    <3>1. data' = data /\ Goto(i, "override") BY <2>2, <2>5
    <3> HIDE DEF Goto, ClockOn, Bound
    <3> QED BY <1>5, <2>1, <3>1 DEF Stages
  <2> QED BY <2>4, <2>5
<1>8. CASE CountRiscv(i)
  <2>1. Stays /\ stage[i] = "count" /\ platform = "riscv64" /\ Goto(i, "done")
    BY <1>8 DEF CountRiscv
  <2>2. PICK c \in Nat, from \in Sources :
          Measured(i, c, from) /\ (Bound(i) /\ host.vector /\ Counts(i) => c = ClockOn(i))
    BY <1>0, <1>8, RiscvAnswers
  <2>3. data'[i].clock = c /\ OneAnswer BY <1>0, <1>6, <2>2, MeasuredClock
  <2>4. data'[i].clock = ClockOn(i) \/ ~(host.vector /\ Counts(i)) \/ ~Bound(i) BY <2>2, <2>3
  <2> HIDE DEF Goto, ClockOn, Bound
  <2> QED BY <1>5, <2>1, <2>3, <2>4 DEF Stages
<1>9. CASE Override(i)
  <2>1. Stays /\ stage[i] = "override" BY <1>9 DEF Override
  <2>2. platform # "riscv64" BY <1>0, <2>1 DEF Divides
  <2>3. CASE host.override > 0
    <3>1. Assumed(i, host.override, "override") /\ Goto(i, "done") BY <1>9, <2>3 DEF Override
    <3>2. data'[i].source = "override" BY <1>0, <3>1 DEF Assumed, ClockTypes, FrequencyData
    <3>3. OneAnswer BY <1>6, <3>1
    <3> HIDE DEF Goto, ClockOn
    <3> QED BY <1>5, <2>1, <2>2, <3>1, <3>2, <3>3 DEF Stages
  <2>4. CASE ~(host.override > 0)
    <3>1. data' = data /\ Goto(i, "chain") BY <1>9, <2>4 DEF Override
    <3> HIDE DEF Goto, ClockOn
    <3> QED BY <1>5, <2>1, <2>2, <3>1 DEF Stages
  <2> QED BY <2>3, <2>4
<1>10. CASE AddChain(i)
  <2>1. Stays /\ stage[i] = "chain" BY <1>10 DEF AddChain
  <2>2. platform # "riscv64" BY <1>0, <2>1 DEF Divides
  <2>3. PICK run \in ChainRuns :
        LET clock == ChainClock(i, BestElapsed(run)) IN
        IF clock > 0
        THEN Measured(i, clock, "chain") /\ Goto(i, "done")
        ELSE UNCHANGED data /\ Goto(i, "estimate")
    BY <1>10 DEF AddChain
  <2> DEFINE clock == ChainClock(i, BestElapsed(run))
  <2>4. clock \in {0, ClockOn(i)} BY <1>0, ChainIsExact
  <2> HIDE DEF clock
  <2>5. CASE clock > 0
    <3>1. Measured(i, clock, "chain") /\ Goto(i, "done") BY <2>3, <2>5 DEF clock
    <3>2. clock # 0 BY <2>5
    <3>3. data'[i].clock = ClockOn(i) BY <1>0, <2>4, <3>1, <3>2, MeasuredClock
    <3>4. OneAnswer BY <1>6, <3>1
    <3> HIDE DEF Goto, ClockOn
    <3> QED BY <1>5, <2>1, <2>2, <3>1, <3>3, <3>4 DEF Stages
  <2>6. CASE ~(clock > 0)
    <3>1. data' = data /\ Goto(i, "estimate") BY <2>3, <2>6 DEF clock
    <3> HIDE DEF Goto, ClockOn
    <3> QED BY <1>5, <2>1, <2>2, <3>1 DEF Stages
  <2> QED BY <2>5, <2>6
<1>11. CASE Estimate(i)
  <2>1. Stays /\ stage[i] = "estimate" BY <1>11 DEF Estimate
  <2>2. platform # "riscv64" BY <1>0, <2>1 DEF Divides
  <2>3. ASSUME NEW c, NEW from \in {"tsc", "powermetrics"}, Measured(i, c, from), Goto(i, "done")
        PROVE  Goal
    <3>1. data'[i].source = from BY <1>0, <2>3, MeasuredClock
    <3>2. OneAnswer BY <1>6, <2>3
    <3> HIDE DEF Goto, ClockOn
    <3> QED BY <1>5, <2>1, <2>2, <2>3, <3>1, <3>2 DEF Stages
  <2>4. ASSUME data' = data, Goto(i, "reported") PROVE Goal
    <3> HIDE DEF Goto, ClockOn
    <3> QED BY <1>5, <2>1, <2>2, <2>4 DEF Stages
  <2> HIDE DEF Goto
  <2> QED BY <1>11, <2>3, <2>4 DEF Estimate
<1>12. CASE ReportedClock(i)
  <2>1. Stays /\ stage[i] = "reported" /\ Goto(i, "done") BY <1>12 DEF ReportedClock
  <2>2. platform # "riscv64" BY <1>0, <2>1 DEF Divides
  <2>3. data[i].source = "unavailable" BY <1>0, <2>1, <2>2 DEF ClockInvariant, Searching
  <2>4. Assumed(i, data[i].reported, "reported") \/ data' = data BY <1>12 DEF ReportedClock
  <2>5. data'[i].source \in {"reported", "unavailable"}
    BY <1>0, <2>3, <2>4 DEF Assumed, ClockTypes, FrequencyData
  <2>6. OneAnswer BY <1>6, <2>4
  <2> HIDE DEF Goto, ClockOn
  <2> QED BY <1>5, <2>1, <2>2, <2>5, <2>6 DEF Stages
<1> QED BY <1>2, <1>3, <1>4, <1>7, <1>8, <1>9, <1>10, <1>11, <1>12, <1>13

\* A join keeps the clock of the thread that was joined.
LEMMA JoinKeepsDivisor ==
    ASSUME DivisorInvariant, ClockInvariant', NEW i \in Threads, Join(i) \/ JoinMacos(i)
    PROVE  DivisorInvariant'
<1>0. /\ ClockTypes /\ KeptClocks /\ \A j \in Threads : Divides(j)
      /\ Goto(i, "joined") /\ stage[i] = "done" /\ i = Joined + 1
      /\ UNCHANGED <<platform, host, on, counter, data>>
  BY DEF DivisorInvariant, ClockInvariant, Join, JoinMacos
<1>1. /\ stage'[i] = "joined" /\ \A j \in Threads \ {i} : stage'[j] = stage[j]
      /\ \A j \in Threads : data[j].clock \in Nat
  BY <1>0 DEF ClockTypes, FrequencyData
<1>2. ASSUME NEW j \in Threads PROVE Divides(j)'
  <2>1. Divides(j) BY <1>0
  <2>2. stage'[j] \in {"done", "joined"} => stage[j] \in {"done", "joined"} BY <1>0, <1>1
  <2>3. stage'[j] = stage[j] \/ stage'[j] = "joined" BY <1>1
  <2>4. ClockMeasured(j)' <=> ClockMeasured(j) BY <1>0 DEF ClockMeasured, Counts
  <2> QED BY <1>0, <2>1, <2>2, <2>3, <2>4 DEF Divides
<1>3. TableDone' => i = Len(Selected)
  <2> SUFFICES ASSUME TableDone' PROVE i = Len(Selected) OBVIOUS
  <2> DEFINE J == {j \in Threads : stage[j] = "joined"}
  <2>1. Cardinality({j \in Threads : stage'[j] = "joined"}) = Len(Selected)
    BY DEF TableDone, Joined
  <2>2. \A j \in Threads : stage'[j] = "joined" BY <2>1, AllJoined
  <2>3. J = Threads \ {i} BY <1>0, <1>1, <2>2
  <2>4. Cardinality(J) = Len(Selected) - 1
    <3>1. IsFiniteSet(Threads) /\ Cardinality(Threads) = Len(Selected) BY TheThreads
    <3>2. Cardinality(Threads \ {i}) = Cardinality(Threads) - 1 BY <3>1, FS_RemoveElement
    <3> HIDE DEF J
    <3> QED BY <2>3, <3>1, <3>2
  <2>5. Joined = Cardinality(J) BY DEF Joined
  <2> HIDE DEF J
  <2> QED BY <1>0, <2>4, <2>5, TheThreads
<1>4. CASE Join(i)
  <2>1. platform # "macos" /\ freq' = [freq EXCEPT ![i] = data[i].clock] BY <1>4 DEF Join
  <2>2. freq' \in [Threads -> Nat] BY <1>0, <1>1, <2>1 DEF KeptClocks
  <2>3. ASSUME NEW j \in Threads PROVE freq'[j] = IF stage'[j] = "joined" THEN data'[j].clock ELSE 0
    <3>1. freq \in [Threads -> Nat] /\ freq[j] = IF stage[j] = "joined" THEN data[j].clock ELSE 0
      BY <1>0, <2>1 DEF KeptClocks
    <3>2. CASE j = i BY <1>0, <1>1, <2>1, <3>1, <3>2
    <3>3. CASE j # i BY <1>0, <1>1, <2>1, <3>1, <3>3
    <3> QED BY <3>2, <3>3
  <2> QED BY <1>0, <1>2, <2>1, <2>2, <2>3 DEF DivisorInvariant, KeptClocks
<1>5. CASE JoinMacos(i)
  <2>1. /\ platform = "macos"
        /\ i = Len(Selected) => freq' = [freq EXCEPT ![1] = data[i].clock]
        /\ i # Len(Selected) => freq' = freq
    BY <1>5 DEF JoinMacos
  <2>2. freq \in [Threads -> Nat] /\ \A j \in Threads \ {1} : freq[j] = 0
    BY <1>0, <2>1 DEF KeptClocks
  <2>3. freq' \in [Threads -> Nat] /\ \A j \in Threads \ {1} : freq'[j] = 0
    BY <1>1, <2>1, <2>2
  <2>4. TableDone' => freq'[1] = data[Len(Selected)].clock BY <1>3, <2>1, <2>2, TheThreads
  <2> QED BY <1>0, <1>2, <2>1, <2>3, <2>4 DEF DivisorInvariant, KeptClocks
<1> QED BY <1>4, <1>5

LEMMA DivisorStep == ASSUME DivisorInvariant, [ClocksNext]_clockVars PROVE DivisorInvariant'
<1>1. ClockInvariant' BY ClockStep DEF DivisorInvariant
<1>2. ASSUME NEW i \in Threads,
             \/ OpenEarly(i) \/ Bind(i) \/ Migrate(i) \/ Open(i) \/ CountCycles(i) \/ CountRiscv(i)
             \/ Override(i) \/ AddChain(i) \/ Estimate(i) \/ ReportedClock(i)
      PROVE  DivisorInvariant'
  <2>1. PICK s \in Stages \ {"joined"} : Goto(i, s) BY <1>2, StepOfThread
  <2> HIDE DEF Goto
  <2> QED BY <1>1, <1>2, <2>1, StepOfThread, ThreadKeepsDivisor
<1>3. ASSUME NEW i \in Threads, Join(i) \/ JoinMacos(i) PROVE DivisorInvariant'
  BY <1>1, <1>3, JoinKeepsDivisor
<1>4. CASE UNCHANGED clockVars
  <2>1. \A i \in Threads : Divides(i) => Divides(i)'
    BY <1>4 DEF clockVars, Divides, ClockMeasured, Counts
  <2>2. TableDone' <=> TableDone BY <1>4 DEF clockVars, TableDone, Joined
  <2>3. KeptClocks => KeptClocks' BY <1>4, <2>2 DEF clockVars, KeptClocks
  <2> QED BY <1>1, <2>1, <2>3 DEF DivisorInvariant
<1> QED BY <1>2, <1>3, <1>4 DEF ClocksNext, ClocksDone

\* Every clock that is known was measured, on a core of this type.
KnownOf(type) ==
    \A i \in Threads : Missing(i) \/ (Bound(i) /\ KindOn(i) = type /\ ClockMeasured(i))

\* When the table is done and the clocks it has were measured on cores of one type,
\* each of the three rules for the fallback clock is so many cores of that clock.
LEMMA RulesAgree ==
    ASSUME DivisorInvariant, TableDone, backend \in {platform, "cache"}, Estimator.clock > 0,
           NEW type, type = (IF platform = "macos" THEN 1 ELSE host.kind[Selected[1]]),
           KnownOf(type)
    PROVE  /\ Clocks[type] \in Nat /\ Estimator.cores \in Nat
           /\ Estimator.clock = Estimator.cores * Clocks[type]
<1> DEFINE k == Clocks[type]
<1>1. ClockTypes /\ KeptClocks /\ \A i \in Threads : Divides(i)
  BY DEF DivisorInvariant, ClockInvariant
<1>2. \A i \in Threads : stage[i] = "joined" BY AllJoined DEF TableDone, Joined
<1>3. \A i \in Threads : Missing(i) \/ (ClockOn(i) = k /\ data[i].clock = k)
  BY <1>1, <1>2 DEF Divides, KnownOf
<1>4. k \in Nat \ {0}
  <2>1. type \in Kinds
    BY <1>1, OfThisHost, TheThreads, HostAssumption DEF ClockTypes
  <2> QED BY <2>1, HostAssumption
<1> HIDE DEF k
<1>5. freq[1] # 0 => freq[1] = k
  <2>1. CASE platform = "macos"
    <3>1. freq[1] = data[Len(Selected)].clock BY <1>1, <2>1 DEF KeptClocks
    <3>2. Len(Selected) \in Threads BY TheThreads
    <3> QED BY <1>3, <2>1, <3>1, <3>2 DEF Missing
  <2>2. CASE platform # "macos"
    <3>1. freq[1] = data[1].clock BY <1>1, <1>2, <2>2, TheThreads DEF KeptClocks
    <3> QED BY <1>3, <3>1, TheThreads DEF Missing
  <2> QED BY <2>1, <2>2
<1>6. \A i \in Threads : freq[i] \in {0, k}
  <2>1. CASE platform = "macos"
    BY <1>5, <2>1, <1>1, TheThreads DEF KeptClocks
  <2>2. CASE platform # "macos"
    <3>1. \A i \in Threads : freq[i] = data[i].clock BY <1>1, <1>2, <2>2 DEF KeptClocks
    <3> QED BY <1>3, <3>1 DEF Missing
  <2> QED BY <2>1, <2>2
<1>7. backend = "riscv64" => Known = Threads
  <2> SUFFICES ASSUME backend = "riscv64" PROVE Known = Threads OBVIOUS
  <2>1. platform # "macos" OBVIOUS
  <2>2. \A i \in Threads : freq[i] = k BY <1>1, <1>2, <1>3, <2>1 DEF KeptClocks, Missing
  <2> QED BY <1>4, <2>2 DEF Known
<1>8. IsFiniteSet(Known) /\ \A i \in Known : freq[i] = k
  <2>1. IsFiniteSet(Known) BY TheThreads, FS_Subset DEF Known
  <2> QED BY <1>6, <2>1 DEF Known
<1>9. SumOfClocks = Cardinality(Known) * k /\ Cardinality(Known) \in Nat
  BY <1>4, <1>8, ClocksAddUp, FS_CardinalityType
<1>10. CASE backend = "cache"
  <2>1. Estimator.clock = SumOfClocks /\ Estimator.cores = Cardinality(Known)
    BY <1>10 DEF Estimator, MeanClock
  <2> QED BY <1>4, <1>9, <2>1 DEF k
<1>11. CASE backend = "riscv64"
  <2>1. platform = "riscv64" BY <1>11
  <2>2. Estimator.clock = SumOfClocks /\ Estimator.cores = N BY <1>11 DEF Estimator
  <2>3. N = Len(Selected) BY <1>1, <2>1, RowAssumption DEF ClockTypes, N
  <2>4. Cardinality(Known) = Len(Selected) BY <1>7, <1>11, TheThreads
  <2> QED BY <1>4, <1>9, <2>2, <2>3, <2>4 DEF k
<1>12. CASE backend \notin {"cache", "riscv64"}
  <2>1. Estimator.clock = freq[1] /\ Estimator.cores = 1 BY <1>12 DEF Estimator
  <2> QED BY <1>4, <1>5, <2>1 DEF k
<1> QED BY <1>10, <1>11, <1>12

LEMMA BestTimeType == ASSUME BestInvariant PROVE bestTime \in Nat \/ bestTime = NoTime
<1>1. PICK n \in 0..Len(measured) : Best(n) BY DEF BestInvariant, BestOfSeen
<1>2. \A i \in 1..n : measured[i].time \in Nat
  <2>1. measured \in Seq(Sample) BY DEF BestInvariant, SamplingInvariant, SamplingTypes
  <2>2. \A i \in 1..n : measured[i] \in Sample BY <2>1
  <2> QED BY <2>2, SamplingAssumption DEF Sample
<1>3. AcceptedTo(n) \subseteq Nat BY <1>2 DEF AcceptedTo
<1>4. CASE AcceptedTo(n) = {} BY <1>1, <1>4 DEF Best, ShortestTime
<1>5. CASE AcceptedTo(n) # {}
  <2>1. bestTime \in AcceptedTo(n) BY <1>1, <1>5 DEF Best, ShortestTime
  <2> QED BY <1>3, <2>1
<1> QED BY <1>4, <1>5

LEMMA EstimateInit == TimedInit => EstimateInvariant
<1> SUFFICES ASSUME TimedInit PROVE EstimateInvariant OBVIOUS
<1>1. Init /\ ClocksInit BY DEF TimedInit
<1>2. BestInvariant /\ DivisorInvariant BY <1>1, BestInit, DivisorInit
<1>3. pc = "begin" BY <1>1 DEF Init
<1>4. ipc.from = "none" /\ backend \in {platform, "cache"} BY DEF TimedInit, NoIpc
<1> QED BY <1>2, <1>3, <1>4 DEF EstimateInvariant, EstimateIsPerCore

\* The caller leaves no finished row, and starts none.
LEMMA RowEnds ==
    ASSUME [Next]_vars
    PROVE  /\ backend' = backend
           /\ pc = "done" => pc' = "done" /\ bestTime' = bestTime
BY DEF Next, WarmUp, Probe, PlaceBuffers, WarmLevel, Calibrate, EndWarmUp, StartSample, Evaluate,
       Report, Run, RoundReturns, EnterKernel, CountWorker, LeaveKernel, AddCycles, Done, vars

LEMMA EstimateStep == ASSUME EstimateInvariant, [TimedNext]_timedVars PROVE EstimateInvariant'
<1>1. [Next]_vars /\ [ClocksNext]_clockVars BY TimedStep
<1>2. BestInvariant' /\ DivisorInvariant' BY <1>1, BestStep, DivisorStep DEF EstimateInvariant
<1>3. backend' = backend /\ (pc = "done" => pc' = "done" /\ bestTime' = bestTime) BY <1>1, RowEnds
<1> DEFINE Same == UNCHANGED <<clockVars, ipc>>
<1>4. ASSUME Same, pc' # "begin" => TableDone, ipc.from = "estimated" => UNCHANGED bestTime
      PROVE  /\ backend' \in {platform, "cache"}' /\ (pc' # "begin" => TableDone')
             /\ EstimateIsPerCore'
  <2>1. TableDone' <=> TableDone BY <1>4 DEF clockVars, TableDone, Joined
  <2>2. platform' = platform BY <1>4 DEF clockVars
  <2>3. EstimateIsPerCore'
    BY <1>3, <1>4
    DEF clockVars, EstimateInvariant, EstimateIsPerCore, ClockMeasured, Counts, Missing
  <2> QED BY <1>3, <1>4, <2>1, <2>2, <2>3 DEF EstimateInvariant
<1>5. CASE MakeTable
  <2>1. ~TableDone /\ ipc' = ipc /\ pc' = pc BY <1>5 DEF MakeTable, vars
  <2>2. pc = "begin" /\ ipc.from # "estimated" BY <2>1 DEF EstimateInvariant
  <2>3. platform' = platform
    BY <1>5 DEF MakeTable, ClocksNext, OpenEarly, Bind, Migrate, Open, CountCycles, CountRiscv, Override,
                AddChain, Estimate, ReportedClock, Join, JoinMacos, ClocksDone, clockVars
  <2> QED BY <1>2, <1>3, <2>1, <2>2, <2>3 DEF EstimateInvariant, EstimateIsPerCore
<1>6. CASE TimeRow
  <2>1. TableDone /\ Same BY <1>6 DEF TimeRow
  <2>2. ipc.from = "estimated" => pc = "done" BY DEF EstimateInvariant
  <2>3. ipc'.from = "estimated" => pc' = "done" BY <1>3, <2>1, <2>2
  <2> HIDE DEF Same
  <2> QED BY <1>2, <1>3, <1>4, <2>1, <2>2, <2>3 DEF EstimateInvariant
<1>7. CASE Normalize
  <2>1. pc = "done" /\ bestTime > 0 /\ UNCHANGED <<clockVars, pc, bestTime>>
    BY <1>7 DEF Normalize, vars
  <2>2. TableDone BY <2>1 DEF EstimateInvariant
  <2>3. TableDone' <=> TableDone BY <2>1 DEF clockVars, TableDone, Joined
  <2>4. platform' = platform BY <2>1 DEF clockVars
  <2>5. EstimateIsPerCore'
    <3> DEFINE type == IF platform = "macos" THEN 1 ELSE host.kind[Selected[1]]
    <3> SUFFICES ASSUME ipc'.from = "estimated",
                        KnownOf(type)
                 PROVE  ipc'.cycles = ipc'.cores * bestTime * Clocks[type]
      BY <1>3, <2>1 DEF clockVars, EstimateIsPerCore, ClockMeasured, Counts, Missing, KnownOf
    <3>1. cycles = {} /\ Estimator.clock > 0
          /\ ipc' = [from |-> "estimated", cycles |-> bestTime * Estimator.clock,
                                 cores |-> Estimator.cores]
      BY <1>7 DEF Normalize
    <3> HIDE DEF type
    <3>2. /\ Clocks[type] \in Nat /\ Estimator.cores \in Nat
          /\ Estimator.clock = Estimator.cores * Clocks[type]
      BY <2>2, <3>1, RulesAgree DEF EstimateInvariant, type
    <3>3. bestTime \in Nat BY <2>1, BestTimeType DEF EstimateInvariant, NoTime
    <3> DEFINE c == Estimator.cores
               k == Clocks[type]
    <3>4. ipc'.cycles = bestTime * (c * k) /\ ipc'.cores = c BY <3>1, <3>2
    <3>5. c \in Nat /\ k \in Nat BY <3>2
    <3> HIDE DEF c, k
    <3>6. bestTime * (c * k) = c * bestTime * k BY <3>3, <3>5
    <3> QED BY <3>4, <3>6 DEF k
  <2> QED BY <1>2, <1>3, <2>1, <2>2, <2>3, <2>4, <2>5 DEF EstimateInvariant
<1>8. CASE UNCHANGED timedVars
  <2>1. Same /\ UNCHANGED <<pc, bestTime>> BY <1>8 DEF timedVars, vars
  <2>2. (pc # "begin" => TableDone) /\ (ipc'.from = "estimated" => pc' = "done")
    BY <2>1 DEF EstimateInvariant
  <2> HIDE DEF Same
  <2> QED BY <1>2, <1>4, <2>1, <2>2 DEF EstimateInvariant
<1> QED BY <1>5, <1>6, <1>7, <1>8 DEF TimedNext, Finished

\* The fallback clock of a row is that of one core of the measured type, by each
\* of the three rules, with any number of cores and on macOS where one entry of
\* freq is filled (cpubm_run_compute, append_load_bandwidth_row).
THEOREM EstimateOfOneCore == TimedSpec => []EstimateIsPerCore
<1>1. TimedInit => EstimateInvariant BY EstimateInit
<1>2. EstimateInvariant /\ [TimedNext]_timedVars => EstimateInvariant' BY EstimateStep
<1>3. EstimateInvariant => EstimateIsPerCore BY DEF EstimateInvariant
<1> QED BY <1>1, <1>2, <1>3, PTL DEF TimedSpec

\* Of an invocation: the cycles a row divides by are those of every worker in one
\* sample, the best one; where they could not be counted, one core's; and each
\* measured clock the table shows beside it is that of the core it names.
THEOREM TimedRowIsTrue ==
    TimedSpec => [](/\ WholeSampleReported /\ BestSampleReported
                    /\ EstimateIsPerCore /\ ShownClockIsOfItsCore)
BY RowAndTable, WholeSample, BestSample, EstimateOfOneCore, ShownClocks, PTL
=============================================================================
