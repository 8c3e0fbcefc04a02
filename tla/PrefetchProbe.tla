---------------------------- MODULE PrefetchProbe ----------------------------
(***************************************************************************)
(* The prefetch probe (common/cache/prefetch_probe.cpp): the lines of two  *)
(* working sets are chased in random, strided and segmented order and with *)
(* software prefetches, and what the times say of the prefetchers goes     *)
(* into the cache table.                                                   *)
(*                                                                         *)
(* Sizes are in cache lines; a time is that of one lap of a working set    *)
(* instead of the mean of its loads, which only ever is compared to others *)
(* of that working set, so that nothing has to be rounded.  A share is a   *)
(* percentage of the latency in random order.  The machine serves a link   *)
(* at the share of its stride when the link before it had the same one,    *)
(* and at the full latency otherwise.  The best of three samples is one    *)
(* step, which at most once is Spoiled times too long.                     *)
(***************************************************************************)
EXTENDS Integers, Sequences, FiniteSets, FiniteSetsExt, SequencesExt, TLC

CONSTANTS
    Machines,           \* see MachineAssumption
    Strides, Segments, Distances,  \* kStrides, kSegments, kDistances
    MinimumMemory,      \* kMinimumMemoryWorkset
    PageLines,          \* lines in 4 KiB
    MaxNodes,           \* lines whose words a 32-bit index reaches
    Spoiled

MaxDistance == Max(Range(Distances))
Worksets == {1, 2}  \* PREFETCH_L2_WORKSET, PREFETCH_MEMORY_WORKSET
Columns == <<[workset |-> 1, l2 |-> FALSE], [workset |-> 2, l2 |-> FALSE],
             [workset |-> 2, l2 |-> TRUE]>>

\* Strides are listed in order from 1 and span at most two pages; segments are
\* parts of the longest one and far shorter than the memory working set.
ASSUME GridsAssumption ==
    /\ Strides \in Seq(Nat \ {0}) /\ Segments \in Seq(Nat \ {0}) /\ Distances \in Seq(Nat)
    /\ Strides # << >> /\ Strides[1] = 1
    /\ \A i, j \in DOMAIN Strides : i < j => Strides[i] < Strides[j]
    /\ \A i \in DOMAIN Strides : Strides[i] <= 2 * PageLines
    /\ \E last \in DOMAIN Segments : \A i \in DOMAIN Segments :
           /\ Segments[i] >= 2 /\ Segments[i] <= Segments[last]
           /\ Segments[last] % Segments[i] = 0
           /\ 8 * Segments[i] <= MinimumMemory
    /\ \E i \in DOMAIN Distances : Distances[i] > 0
    /\ MinimumMemory \in Nat \ {0} /\ PageLines \in Nat \ {0} /\ MaxNodes \in Nat
    /\ 8 * PageLines <= MinimumMemory
    /\ Spoiled \in Nat \ {0}

ASSUME MachineAssumption ==
    \A m \in Machines :
        /\ m.levels \in BOOLEAN /\ m.maps \in BOOLEAN
        /\ m.l1 \in Nat /\ m.l2 \in Nat /\ m.deepest \in Nat /\ m.available \in Nat
        /\ m.l1 % PageLines = 0
        \* two levels of a curve are at least three of its points apart
        /\ m.l1 > 0 /\ m.l2 > 0 => 10 * m.l2 >= 16 * m.l1 /\ m.l1 >= 4 * PageLines
        /\ Range(Strides) \subseteq DOMAIN m.share /\ DOMAIN m.share \subseteq Nat \ {0}
        /\ \A s \in DOMAIN m.share : m.share[s] \in 1..100
        /\ m.slow \in [Worksets -> Nat \ {0}] /\ m.fast \in [1..3 -> Nat \ {0}]
        /\ m.room \in Nat \ {0}

VARIABLES
    machine,
    todo,      \* measurements still to be made, in order
    worksets,  \* lines of each working set, 0 where there is none
    ring,      \* the buffer: the line each line links to
    nodes,     \* the side array of the prefetching chase
    order,     \* the order last linked
    ns,        \* time of a lap of each measurement made
    spoiled,   \* the measurement that was disturbed, or none
    report     \* what the rows of the cache table say

prefetchVars == <<machine, todo, worksets, ring, nodes, order, ns, spoiled, report>>

NoTask == [kind |-> "none", workset |-> 0, arg |-> 0]

-----------------------------------------------------------------------------
(* Sizes                                                                   *)

Deepest == Max({machine.l1, machine.l2, machine.deepest})

Quarter == machine.available \div 4
Wanted == Max({MinimumMemory, 4 * Deepest})

\* Halved while a quarter of the free memory does not hold it and it is above
\* the minimum, which may leave it below the minimum.
HalvedMemory ==
    LET halved[b \in 1..Wanted] ==
            IF b <= Quarter \/ b <= MinimumMemory THEN b ELSE halved[b \div 2]
    IN  IF machine.available = 0 THEN Wanted ELSE halved[Wanted]

MemoryLines ==
    IF (machine.available > 0 /\ HalvedMemory > Quarter) \/ HalvedMemory > MaxNodes
    THEN 0 ELSE HalvedMemory

\* The geometric middle, rounded down to a page.
L2Lines ==
    IF machine.l1 = 0 \/ machine.l2 <= machine.l1 THEN 0
    ELSE LET middle == Max({r \in machine.l1..machine.l2 : r * r <= machine.l1 * machine.l2})
         IN  middle - (middle % PageLines)

-----------------------------------------------------------------------------
(* Orders and the ring                                                     *)

Span(first, last, step) ==
    [k \in 1..((last - first) \div step + 1) |-> first + (k - 1) * step]

\* Mutant: the last phase is left out.
OnePhaseShort(n, stride) ==
    FlattenSeq([phase \in 1..Max({1, stride - 1}) |-> Span(phase - 1, n - 1, stride)])

\* Lines 0, s, 2s, ... then 1, 1 + s, ...
StrideOrder(n, stride) ==
    FlattenSeq([phase \in 1..Min({stride, n}) |-> Span(phase - 1, n - 1, stride)])

\* Segments of consecutive lines; the shuffle of the segments is one that
\* leaves no two neighbours together: the odd ones, then the even ones.
SegmentOrder(n, segment) ==
    LET groups == (n + segment - 1) \div segment
        shuffled == Span(1, groups, 2) \o (IF groups > 1 THEN Span(2, groups, 2) ELSE << >>)
    IN  FlattenSeq([i \in 1..groups |->
            Span((shuffled[i] - 1) * segment, Min({n, shuffled[i] * segment}) - 1, 1)])

\* A random order, in which no stride follows itself.
RandomOrder(n) ==
    [i \in 1..n |-> IF i % 2 = 1 THEN i \div 2 ELSE n - (i \div 2)]

Rotated(seq) ==
    LET zero == CHOOSE i \in DOMAIN seq : seq[i] = 0
    IN  SubSeq(seq, zero, Len(seq)) \o SubSeq(seq, 1, zero - 1)

\* The side array goes on past the end of the lap.
Nodes(lap) == [i \in 0..(Len(lap) + MaxDistance - 1) |-> lap[(i % Len(lap)) + 1]]

LinkRing(seq) ==
    LET lap == Rotated(seq)
        place == [line \in Range(lap) |-> CHOOSE i \in DOMAIN lap : lap[i] = line]
    IN  /\ ring' = [line \in DOMAIN ring |->
                       IF line \in Range(lap) THEN lap[(place[line] % Len(lap)) + 1]
                       ELSE ring[line]]
        /\ nodes' = Nodes(lap)
        /\ order' = seq

\* A link after one of the same stride is served at the share of that stride.
Served(links, line) ==
    LET Step(l) == links[l] - l
    IN  IF Step(links[line]) = Step(line) /\ Step(line) \in DOMAIN machine.share
        THEN machine.share[Step(line)] ELSE 100

\* What the machine takes for a lap of n lines.
ChaseTime(links, n, w) ==
    MapThenSumSet(LAMBDA line : Served(links, line), 0..(n - 1)) * machine.slow[w]

\* The entries of the side array are the lines the chase loads, in that order.
FollowsLinks(side, links) ==
    /\ side[0] = 0
    /\ \A i \in DOMAIN side : i > 0 => side[i] = links[side[i - 1]]

\* Prefetched d loads ahead a line is there in a d-th of the time, if the hints
\* name the lines that will be loaded and the core can keep d misses in flight.
PrefetchTime(links, side, c, d) ==
    LET loads == 100 * worksets[Columns[c].workset]
        slow == loads * machine.slow[Columns[c].workset]
        ahead == Min({d, machine.room})
    IN  IF FollowsLinks(side, links)
        THEN Max({loads * machine.fast[c], (slow + ahead - 1) \div ahead}) ELSE slow

-----------------------------------------------------------------------------
(* The measurements, in order                                              *)

Task(kind, w, arg) == [kind |-> kind, workset |-> w, arg |-> arg]

\* Columns of the distances stand where the other tasks have a working set.
Tasks ==
    LET random == <<Task("random", 1, 0), Task("random", 2, 0)>>
        strides == FlattenSeq([k \in DOMAIN Strides |->
                       <<Task("stride", 1, Strides[k]), Task("stride", 2, Strides[k])>>])
        segments == [k \in DOMAIN Segments |-> Task("segment", 2, Segments[k])]
        distances == FlattenSeq([c \in DOMAIN Columns |->
                         [k \in DOMAIN Distances |-> Task("distance", c, Distances[k])]])
    IN  random \o strides \o segments \o distances

\* A stride or a segment no shorter than the working set is not measured.
Measurable(task) ==
    LET w == IF task.kind = "distance" THEN Columns[task.workset].workset ELSE task.workset
    IN  /\ worksets[w] > 0
        /\ task.kind \in {"stride", "segment"} => task.arg < worksets[w]

PrefetchInit ==
    /\ machine \in Machines
    /\ todo = <<Task("worksets", 0, 0)>>
    /\ worksets = [w \in Worksets |-> 0]
    /\ ring = << >> /\ nodes = << >> /\ order = << >>
    /\ ns = << >>
    /\ spoiled = NoTask
    /\ report = [what |-> "nothing"]

Doing(kind) == todo # << >> /\ Head(todo).kind = kind
Measuring(kind) == Doing(kind) /\ Measurable(Head(todo))
Unmeasured(why) ==
    /\ report' = [what |-> why]
    /\ todo' = << >>
    /\ UNCHANGED <<machine, worksets, ring, nodes, order, ns, spoiled>>

NoLevels == Doing("worksets") /\ ~machine.levels /\ Unmeasured("no level")

NothingMapped ==
    /\ Doing("worksets") /\ machine.levels
    /\ ~machine.maps \/ Max({L2Lines, MemoryLines}) < 2
    /\ Unmeasured("no workset")

SizeWorksets ==
    /\ Doing("worksets") /\ machine.levels /\ machine.maps
    /\ Max({L2Lines, MemoryLines}) >= 2
    /\ worksets' = <<L2Lines, MemoryLines>>
    /\ ring' = [line \in 0..(Max({L2Lines, MemoryLines}) - 1) |-> 0]
    /\ todo' = Append(Tasks, Task("rows", 0, 0))
    /\ UNCHANGED <<machine, nodes, order, ns, spoiled, report>>

\* The working set that is missing or too small is passed over.
PassOver ==
    /\ todo # << >> /\ Head(todo).kind \notin {"worksets", "rows"}
    /\ ~Measurable(Head(todo))
    /\ todo' = Tail(todo)
    /\ UNCHANGED <<machine, worksets, ring, nodes, order, ns, spoiled, report>>

\* The times with that of one more measurement.
With(measured, t) ==
    [task \in DOMAIN ns \cup {measured} |-> IF task = measured THEN t ELSE ns[task]]

\* All three samples of a measurement may be disturbed, once, and not when the
\* latencies are measured to which the others are compared.
Timed(t) ==
    /\ \/ ns' = With(Head(todo), t) /\ UNCHANGED spoiled
       \/ /\ spoiled = NoTask /\ Head(todo).kind # "random"
          /\ ~(Head(todo).kind = "stride" /\ Head(todo).arg = 1)
          /\ ns' = With(Head(todo), Spoiled * t)
          /\ spoiled' = Head(todo)
    /\ todo' = Tail(todo)
    /\ UNCHANGED <<machine, worksets, report>>

MeasureOrder(seq, w) ==
    /\ LinkRing(seq)
    /\ Timed(ChaseTime(ring', Len(seq), w))

MeasureRandom ==
    Measuring("random") /\ LET w == Head(todo).workset IN MeasureOrder(RandomOrder(worksets[w]), w)

MeasureStride ==
    /\ Measuring("stride")
    /\ LET w == Head(todo).workset IN MeasureOrder(StrideOrder(worksets[w], Head(todo).arg), w)

MeasureSegment ==
    Measuring("segment") /\ MeasureOrder(SegmentOrder(worksets[2], Head(todo).arg), 2)

\* Each column links its ring once; distance 0 is the plain chase, measured.
MeasureDistance ==
    /\ Measuring("distance")
    /\ LET c == Head(todo).workset
           w == Columns[c].workset
           d == Head(todo).arg
           n == worksets[w]
       IN  IF d = 0
           THEN /\ LinkRing(RandomOrder(n))
                /\ ns' = With(Head(todo), ns[Task("random", w, 0)])
                /\ todo' = Tail(todo)
                /\ UNCHANGED <<machine, worksets, spoiled, report>>
           ELSE Timed(PrefetchTime(ring, nodes, c, d)) /\ UNCHANGED <<ring, nodes, order>>

-----------------------------------------------------------------------------
(* The analysis                                                            *)

Ns(kind, w, arg) ==
    IF Task(kind, w, arg) \in DOMAIN ns THEN ns[Task(kind, w, arg)] ELSE 0

Hidden(w, s) == Ns("random", w, 0) - Ns("stride", w, s)

\* Mutant: a stride that is not followed does not end the reach.
LastFollowed(w) ==
    LET follows == {k \in DOMAIN Strides : 2 * Hidden(w, Strides[k]) >= Hidden(w, 1)}
    IN  IF follows = {} THEN 0 ELSE Strides[Max(follows)]

\* stride_reach: the last stride before the first that hides less than half of
\* what stride 1 hides; none if that is less than a fifth.
StrideReach(w) ==
    LET Follows(k) == /\ Ns("stride", w, Strides[k]) > 0
                      /\ 2 * Hidden(w, Strides[k]) >= Hidden(w, 1)
        followed == {k \in DOMAIN Strides : \A j \in 1..k : Follows(j)}
    IN  IF \/ Ns("random", w, 0) = 0 \/ Ns("stride", w, 1) = 0
           \/ 5 * Hidden(w, 1) < Ns("random", w, 0) \/ followed = {}
        THEN 0 ELSE Strides[Max(followed)]

MeasuredAt(kind, w, args) == {k \in DOMAIN args : Ns(kind, w, args[k]) > 0}

\* Least squares for C in T(S) = T + C/S, T given.
FittedCost(segments, steady) ==
    LET X(k) == Max(Range(Segments)) \div Segments[k]
        xy == MapThenSumSet(LAMBDA k : X(k) * (Ns("segment", 2, Segments[k]) - steady), segments)
        xx == MapThenSumSet(LAMBDA k : X(k) * X(k), segments)
    IN  IF xx = 0 THEN 0 ELSE Max({0, (Max(Range(Segments)) * xy) \div xx})

\* fit_restart_cost; 0 lines when no segment is within a tenth of the steady time.
RestartCost ==
    LET steady == Ns("stride", 2, 1)
        segments == MeasuredAt("segment", 2, Segments)
        close == {k \in segments : 10 * Ns("segment", 2, Segments[k]) <= 11 * steady}
    IN  IF steady = 0 THEN [steady |-> 0, cost |-> 0, lines |-> 0]
        ELSE [steady |-> steady, cost |-> FittedCost(segments, steady),
              lines |-> IF close = {} THEN 0 ELSE Segments[Min(close)]]

\* The first distance within 3 percent of the best.
DistanceNeeded(c, least) ==
    Distances[Min({k \in MeasuredAt("distance", c, Distances) :
                       100 * Ns("distance", c, Distances[k]) <= 103 * least})]

\* summarize_distances
DistanceSummary(c) ==
    LET alone == Ns("distance", c, 0)
        times == {Ns("distance", c, Distances[k]) : k \in MeasuredAt("distance", c, Distances)}
    IN  IF alone = 0 \/ times = {}
        THEN [alone |-> 0, best |-> 0, needed |-> 0, effective |-> FALSE]
        ELSE [alone |-> alone, best |-> Min(times), needed |-> DistanceNeeded(c, Min(times)),
              effective |-> 10 * Min(times) <= 9 * alone]

Rows ==
    /\ Doing("rows")
    /\ report' = [what |-> "rows", reach |-> [w \in Worksets |-> StrideReach(w)],
                  restart |-> RestartCost,
                  distance |-> [c \in DOMAIN Columns |-> DistanceSummary(c)]]
    /\ todo' = << >>
    /\ UNCHANGED <<machine, worksets, ring, nodes, order, ns, spoiled>>

PrefetchNext ==
    \/ NoLevels \/ NothingMapped \/ SizeWorksets
    \/ PassOver \/ MeasureRandom \/ MeasureStride \/ MeasureSegment \/ MeasureDistance
    \/ Rows

PrefetchSpec == PrefetchInit /\ [][PrefetchNext]_prefetchVars

-----------------------------------------------------------------------------
Reported == report.what = "rows"

\* Whatever was linked into the buffer before, by a longer ring perhaps, a lap
\* from word 0 now loads every line of the working set once and comes back; the
\* side array names the lines in that order and on into the next lap.
RingIsOneLap ==
    order # << >> =>
        LET n == Len(order) IN
        /\ n \in Range(worksets)
        /\ FollowsLinks(nodes, ring)
        /\ {nodes[i] : i \in 0..(n - 1)} = 0..(n - 1) /\ nodes[n] = 0

\* No stride within the reported reach hides less than half of what stride 1
\* hides, nor stride 1 less than a fifth, on the machine itself and not just in the
\* sample; and in memory an undisturbed probe reports all of the reach: a stride
\* hides its share of a lap but for the two links that begin each of its runs.
ReachIsFollowed ==
    Reported =>
        LET n == worksets[2]
            Hides(s) == (100 - machine.share[s]) * (n - 2 * s)
            followed == {k \in DOMAIN Strides :
                            \A j \in 1..k : 2 * Hides(Strides[j]) >= Hides(1)}
        IN  /\ \A w \in Worksets, s \in Range(Strides) :
                   s <= report.reach[w] =>
                       /\ machine.share[1] <= 80
                       /\ 2 * (100 - machine.share[s]) >= 100 - machine.share[1]
            /\ n > 0 /\ spoiled.kind # "stride" =>
                   report.reach[2] = IF Hides(1) < 20 * n THEN 0 ELSE Strides[Max(followed)]

\* The fit recovers what starting a stream costs on the machine, two links at the
\* full latency instead of the prefetched one, to within an eighth.  It does so
\* when the longest segments are still a small part of the working set.
RestartCostRecovered ==
    Reported /\ worksets[2] >= MinimumMemory /\ spoiled.kind # "segment" =>
        LET true == 2 * (100 - machine.share[1]) * machine.slow[2] * worksets[2]
        IN  8 * report.restart.cost \in (7 * true - 8)..(8 * true)

\* A distance is recommended only when prefetching helped, then it is one that
\* prefetches ahead, and as many misses as the row says are in flight have had
\* the room to be: alone / best lines need as many lines of distance.
DistanceIsEnough ==
    Reported =>
        \A c \in DOMAIN Columns :
            LET d == report.distance[c] IN
            d.effective => d.needed > 0 /\ 97 * d.alone <= 100 * d.best * d.needed

\* What the rows say of the prefetchers is true of the machine although one
\* measurement was disturbed: the strides they follow (stride_reach), what a new
\* stream costs (fit_restart_cost) and how far ahead to prefetch
\* (summarize_distances).
AnalysesReadTheCore == ReachIsFollowed /\ RestartCostRecovered /\ DistanceIsEnough
=============================================================================
