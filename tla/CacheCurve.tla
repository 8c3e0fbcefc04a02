----------------------------- MODULE CacheCurve -----------------------------
(***************************************************************************)
(* The pointer-chase latency curve (common/cache/cache_curve.cpp) and what *)
(* the cache report takes from it (common/cache/cache_report.cpp).  One    *)
(* thread measures a latency per working set, measures the deciding points *)
(* again, splits the curve into plateaus, reads a capacity off each step   *)
(* and says whether the curve may be believed.                             *)
(*                                                                         *)
(* Sizes are in KiB and latencies in tenths of a nanosecond, 0 for a       *)
(* sample whose clock did not advance.  What a chase answers is the        *)
(* machine's choice among Answers[order][point].                           *)
(***************************************************************************)
EXTENDS Integers, FiniteSets, Sequences, SequencesExt, FiniteSetsExt

CONSTANTS MaxKiB,        \* deepest working set of the sweep
          Octaves,       \* octaves of the size grid above 4 KiB
          ReferenceKiB,  \* region wanted for the memory reference
          Available,     \* what the host may say of its free memory, 0: nothing
          Answers,       \* latencies of a point, by ring order
          References     \* latencies of a ring no cache can hold

Ascending(S) ==
    [k \in 1..Cardinality(S) |-> CHOOSE x \in S : Cardinality({y \in S : y < x}) = k - 1]

Sizes == Ascending({s \in {q * 2^k : q \in 4..7, k \in 0..Octaves} : s <= MaxKiB})
Points == 1..Len(Sizes)
Orders == {"grouped", "global"}

ASSUME GridAssumption ==
    /\ MaxKiB \in Nat /\ Octaves \in Nat
    /\ MaxKiB >= 8 /\ 2^(Octaves + 3) > MaxKiB
    /\ \A k \in 0..Octaves : 2^k \in Nat \ {0}  \* so that proofs may use it
ASSUME AnswersAssumption ==
    /\ DOMAIN Answers = Orders
    /\ \A o \in Orders :
           /\ DOMAIN Answers[o] = Points
           /\ \A i \in Points :
                  Answers[o][i] # {} /\ \A v \in Answers[o][i] : v \in Nat /\ v % 2 = 0
    /\ References \subseteq Nat /\ Available \subseteq Nat

VARIABLES
    pc,         \* where measure_cache_report is
    grouping,   \* order the sweep started with: huge pages or 4 KiB pages
    order,      \* sweep_groups: order of the rings now being measured
    mode,       \* translation_mode
    memory,     \* memory_latency_ns
    points,     \* one [latency, order] for each working set measured so far
    decisive,   \* points still to be measured again
    remeasured, \* points measured three times
    levels,     \* level estimates
    reached,    \* reached_memory
    report      \* capacities and verdict in the cache report

vars == <<pc, grouping, order, mode, memory, points, decisive, remeasured,
          levels, reached, report>>

Latency(pts, i) == pts[i].latency

-----------------------------------------------------------------------------
(* Reading a curve.                                                        *)

Halvings == {ReferenceKiB \div 2^k : k \in 0..Octaves}

RegionKiB(free) ==
    LET spare == {r \in Halvings : r >= 2 * MaxKiB /\ free \div 4 >= r}
    IN  IF free = 0 THEN Max({MaxKiB, ReferenceKiB}) ELSE Max(spare \cup {MaxKiB})

\* kPlateauSlope: a step of the grid multiplies the working set by 5/4, 6/5,
\* 7/6 or 8/7, and the latency by at most that to the power 0.30.
GentlePermille == <<1069, 1056, 1047, 1040>>
Gentle(pts, i) ==
    LET pair == {Latency(pts, i), Latency(pts, i + 1)}
    IN  1000 * Max(pair) <= GentlePermille[((i - 1) % 4) + 1] * Min(pair)

Flat(pts, first, last) ==
    LET span == {Latency(pts, i) : i \in first..last}
    IN  /\ last > first => Min(span) > 0 /\ Max(span) <= 4 * Min(span)
        /\ \A i \in first..(last - 1) : Gentle(pts, i)

\* The k-th smallest entry of s.
Smallest(s, k) ==
    CHOOSE v \in ToSet(s) :
        /\ Cardinality({i \in DOMAIN s : s[i] < v}) < k
        /\ k <= Cardinality({i \in DOMAIN s : s[i] <= v})

Median(s) ==
    LET m == Len(s) \div 2
    IN  IF Len(s) % 2 = 1 THEN Smallest(s, m + 1)
        ELSE (Smallest(s, m) + Smallest(s, m + 1)) \div 2

\* The longest flat run from point s on.
RunEnd(pts, s) == Max({e \in s..Len(pts) : Flat(pts, s, e)})

Plateau(pts, s, e) ==
    [first |-> s, last |-> e,
     latency |-> Median([i \in 1..(e - s + 1) |-> Latency(pts, s + i - 1)])]

PlateausFrom(pts) ==
    LET n == Len(pts)
        from[s \in 1..(n + 1)] ==
            IF s > n THEN << >>
            ELSE IF Latency(pts, s) > 0 /\ RunEnd(pts, s) - s + 1 >= 3
                 THEN <<Plateau(pts, s, RunEnd(pts, s))>> \o from[RunEnd(pts, s) + 1]
                 ELSE from[s + 1]
    IN  from

FindPlateaus(pts) == PlateausFrom(pts)[1]

IsMemory(p, mem) == mem > 0 /\ 2 * p.latency >= mem

\* kMinimumLevelRatio 1.75 and kMinimumLevelDeltaNs 0.20
IsStep(below, above) ==
    /\ 4 * above.latency >= 7 * below.latency
    /\ above.latency - below.latency >= 2

\* The last point still below the third of the step, on a log scale.
CapacityPoint(pts, below, above) ==
    LET fits(j) == Latency(pts, j) * Latency(pts, j) * Latency(pts, j)
                       < below.latency * below.latency * above.latency
    IN  Max({below.last} \cup
            {j \in below.last..(above.first - 1) : \A k \in below.last..j : fits(k)})

\* The steps estimate_cache_levels reports, as indices of the lower plateau.
Steps(plateaus, mem) ==
    {i \in 1..(Len(plateaus) - 1) :
        /\ \A k \in 1..i : ~IsMemory(plateaus[k], mem)
        /\ IsStep(plateaus[i], plateaus[i + 1])}

EstimateLevels(pts, mem) ==
    LET pl == FindPlateaus(pts)
        steps == Ascending(Steps(pl, mem))
    IN  [k \in 1..Len(steps) |->
            LET below == pl[steps[k]] IN
            [capacity |-> Sizes[CapacityPoint(pts, below, pl[steps[k] + 1])],
             latency  |-> below.latency]]

ReachedMemory(pts, mem) ==
    LET pl == FindPlateaus(pts)
    IN  \E i \in Steps(pl, mem) : IsMemory(pl[i + 1], mem)

\* kNoReferenceMemoryNs is 40 ns
NeverReachedMemory(pts, mem) ==
    /\ pts # << >>
    /\ LET deepest == Latency(pts, Len(pts))
       IN  IF mem > 0 THEN 2 * deepest < mem ELSE deepest < 400

\* A fall of 0.5 ns and a tenth, where the curve is still below memory.
Falls(pts, mem) ==
    {i \in 2..Len(pts) :
        LET before == Latency(pts, i - 1)
            after  == Latency(pts, i)
        IN  /\ before > 0 /\ 2 * before < mem
            /\ before - after >= 5 /\ 10 * after <= 9 * before}

\* Mutant: a curve that never reached memory is trusted.
DoubtOnlyFalls(pts, mem, hit) == IF Falls(pts, mem) # {} THEN "fell" ELSE "none"

PrefetchDoubt(pts, mem, hit) ==
    CASE pts = << >>                   -> "none"
      [] pts # << >> /\ Falls(pts, mem) # {} -> "fell"
      [] OTHER ->
            IF hit THEN "none"
            ELSE IF NeverReachedMemory(pts, mem) THEN "prefetched"
                 ELSE IF mem = 0 THEN "unchecked" ELSE "none"

Doubt == PrefetchDoubt(points, memory, reached)

\* Mutant: the lower ends of falls are not measured again.
DecisiveCapacities(pts, mem) ==
    LET caps == {l.capacity : l \in ToSet(EstimateLevels(pts, mem))}
    IN  UNION {(i - 1)..(i + 2) : i \in {p \in Points : Sizes[p] \in caps}} \cap Points

\* The samples that decide an answer: around each capacity and each fall.
Decisive(pts, mem) ==
    LET caps == {l.capacity : l \in ToSet(EstimateLevels(pts, mem))}
        near == UNION {(i - 1)..(i + 2) : i \in {p \in Points : Sizes[p] \in caps}}
    IN  (near \cup UNION {{i - 1, i} : i \in Falls(pts, mem)}) \cap Points

\* assign_curve: the third row is the deepest level, the ones between are
\* named in its note.
Report(lv, doubt) ==
    LET cap(k) == IF k \in DOMAIN lv THEN lv[k].capacity ELSE 0
    IN  [l1 |-> cap(1), l2 |-> cap(2),
         l3 |-> IF Len(lv) >= 3 THEN cap(Len(lv)) ELSE 0,
         between |-> {cap(k) : k \in 3..(Len(lv) - 1)},
         trusted |-> doubt = "none"]

\* cache_report_last_level_bytes: what the L3 stream's workset is capped by.
LastLevel == IF report.trusted /\ report.l3 > 0 THEN report.l3 ELSE 0

NoReport == [l1 |-> 0, l2 |-> 0, l3 |-> 0, between |-> {}, trusted |-> TRUE]

-----------------------------------------------------------------------------
Init ==
    /\ pc = "map" /\ grouping \in Orders
    /\ order = grouping /\ mode = grouping
    /\ memory = 0 /\ points = << >> /\ decisive = {} /\ remeasured = {}
    /\ levels = << >> /\ reached = FALSE /\ report = NoReport

\* Nothing could be mapped: an empty result.
MapFails ==
    /\ pc = "map"
    /\ pc' = "assign"
    /\ UNCHANGED <<grouping, order, mode, memory, points, decisive, remeasured,
                   levels, reached, report>>

\* The region is mapped and, if it is wide enough, the reference measured.
MapRegion ==
    /\ pc = "map"
    /\ \E free \in Available :
           IF RegionKiB(free) >= 2 * MaxKiB THEN memory' \in References ELSE memory' = 0
    /\ pc' = "sweep"
    /\ UNCHANGED <<grouping, order, mode, points, decisive, remeasured, levels,
                   reached, report>>

Sample ==
    /\ pc = "sweep" /\ Len(points) < Len(Sizes)
    /\ \E ns \in Answers[order][Len(points) + 1] :
           points' = Append(points, [latency |-> ns, order |-> order])
    /\ UNCHANGED <<pc, grouping, order, mode, memory, decisive, remeasured,
                   levels, reached, report>>

\* A page-grouped sweep that never left the prefetcher is thrown away.
SweepAgain ==
    /\ pc = "sweep" /\ Len(points) = Len(Sizes)
    /\ grouping = "grouped" /\ order = "grouped" /\ NeverReachedMemory(points, memory)
    /\ order' = "global" /\ mode' = "global" /\ points' = << >>
    /\ UNCHANGED <<pc, grouping, memory, decisive, remeasured, levels, reached, report>>

Decide ==
    /\ pc = "sweep" /\ Len(points) = Len(Sizes)
    /\ ~(order = "grouped" /\ NeverReachedMemory(points, memory))
    /\ decisive' = Decisive(points, memory)
    /\ pc' = "remeasure"
    /\ UNCHANGED <<grouping, order, mode, memory, points, remeasured, levels,
                   reached, report>>

\* Two more independent rings for the next deciding point, median of three.
Remeasure ==
    /\ pc = "remeasure" /\ decisive # {}
    /\ LET i == Min(decisive) IN
       /\ \E a, b \in Answers[order][i] :
              points' = [points EXCEPT ![i] =
                  [latency |-> Median(<<points[i].latency, a, b>>), order |-> order]]
       /\ decisive' = decisive \ {i}
       /\ remeasured' = remeasured \cup {i}
    /\ UNCHANGED <<pc, grouping, order, mode, memory, levels, reached, report>>

Estimate ==
    /\ pc = "remeasure" /\ decisive = {}
    /\ levels' = EstimateLevels(points, memory)
    /\ reached' = ReachedMemory(points, memory)
    /\ pc' = "assign"
    /\ UNCHANGED <<grouping, order, mode, memory, points, decisive, remeasured, report>>

Assign ==
    /\ pc = "assign"
    /\ report' = Report(levels, Doubt)
    /\ pc' = "done"
    /\ UNCHANGED <<grouping, order, mode, memory, points, decisive, remeasured,
                   levels, reached>>

Next == MapFails \/ MapRegion \/ Sample \/ SweepAgain \/ Decide \/ Remeasure
            \/ Estimate \/ Assign

Spec == Init /\ [][Next]_vars

-----------------------------------------------------------------------------
\* The capacities in the report grow from L1 to the last level, nothing the
\* curve resolved is lost between them, and no level is as slow as memory: what
\* append_cache_memory_bandwidth takes as the last level is the deepest one.
LevelsOrdered ==
    /\ \A k \in DOMAIN levels :
           /\ k > 1 => levels[k - 1].capacity < levels[k].capacity
           /\ memory > 0 => 2 * levels[k].latency < memory
    /\ pc = "done" =>
           /\ report.l3 > 0 => report.l1 < report.l2 /\ report.l2 < report.l3
           /\ levels # << >> =>
                  Last(levels).capacity = Max({report.l1, report.l2, report.l3})
           /\ {l.capacity : l \in ToSet(levels)}
                  = ({report.l1, report.l2, report.l3} \cup report.between) \ {0}

\* The curve, once as slow as memory, answers faster again.
Relapses ==
    \E i \in 2..Len(points) :
        2 * Latency(points, i - 1) >= memory /\ 2 * Latency(points, i) < memory

\* A last level that caps the L3 stream comes from a curve that was held against
\* memory: a reference was measured, the deepest working set was as slow as it,
\* and the curve never fell on its way there ("set when the deepest working set
\* is still served faster than memory ... no capacity ... can be trusted",
\* cache_curve.hpp).  A curve that relapses is left out: describe_prefetch_doubt
\* does not look further once the plateaus reach memory.
LastLevelIsBacked ==
    pc = "done" /\ LastLevel > 0 =>
        /\ memory > 0
        /\ ~Relapses => 2 * Last(points).latency >= memory
        /\ \A i \in 2..Len(points) :
               LET before == Latency(points, i - 1)
                   after  == Latency(points, i)
               IN  2 * before < memory /\ before - after >= 5 => 10 * after > 9 * before

\* The cap of the L3 stream can be relied on: levels in order, the deepest of them
\* reported and none lost, and that one held against memory.
LastLevelCanCap == LevelsOrdered /\ LastLevelIsBacked

\* A curve is never doubted for a fall only one ring has seen: of the two samples
\* of every fall that is left, at least one is the median of three rings.
FallsConfirmed ==
    pc \in {"assign", "done"} =>
        \A i \in Falls(points, memory) : {i - 1, i} \cap remeasured # {}

=============================================================================
