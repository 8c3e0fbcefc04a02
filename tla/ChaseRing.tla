------------------------------ MODULE ChaseRing ------------------------------
(***************************************************************************)
(* The rings behind the latency curve (common/cache/cache_curve.cpp).  One *)
(* mapping holds, one after the other, a ring of the memory reference and  *)
(* a ring for each working set; a chase loads word 0, then the word whose  *)
(* index it finds there, and so on.  A working set's ring visits all its   *)
(* lines through word 0 of each, then all again in another order through   *)
(* word 1, ..., so that no prefetcher learns it, and returns to word 0.    *)
(*                                                                         *)
(* A shuffle may yield any permutation.  Sizes are in words.               *)
(***************************************************************************)
EXTENDS Integers, Sequences, SequencesExt, FiniteSets, FiniteSetsExt

CONSTANTS
    Words,      \* words of the mapping
    Reference,  \* [lines, stride] of the memory reference
    Cached,     \* lines the machine's last level holds
    Rings,      \* sequence of [lines, stride, slots], one for each working set
    PageLines,  \* lines of a page, where rings are grouped by page
    Latencies,  \* what a load may cost in the probe of a sample, 0: no tick
    MinimumSteps, Budget  \* 50000 loads, 5 ms

ASSUME RingAssumption ==
    /\ Words \in Nat /\ PageLines \in Nat \ {0}
    /\ Reference.lines * Reference.stride <= Words
    /\ \A i \in DOMAIN Rings :
           /\ Rings[i].lines \in Nat /\ Rings[i].stride \in Nat
           /\ Rings[i].lines >= 2 /\ Rings[i].slots \in 1..Rings[i].stride
           /\ Rings[i].lines * Rings[i].stride <= Words
    /\ Latencies \subseteq Nat /\ MinimumSteps \in Nat /\ Budget \in Nat

VARIABLES
    byPage,     \* are the rings grouped by page?
    chase,      \* what measure_cache_curve is doing
    buffer,     \* the mapping; untouched words are 0
    turn,       \* the ring being linked or chased
    slot,       \* the slot that is linked next
    lineOrder,  \* order: the lines in the order this slot visits them
    first,      \* the order of slot 0, to which the last slot returns
    at,         \* word the chase is at
    loads,      \* loads of the reference, of all three samples
    recent,     \* the last level: lines by their last load
    hits,       \* loads of the reference that were served by it
    steps       \* loads of each sample of this ring, 0: no sample

ringVars == <<byPage, chase, buffer, turn, slot, lineOrder, first, at, loads, recent, hits, steps>>

-----------------------------------------------------------------------------
(* build_ring_order                                                        *)

Group(lines, size) == IF size = 0 \/ size >= lines THEN lines ELSE size
Groups(lines, size) == 0..((lines - 1) \div Group(lines, size))

\* Groups shuffled, and the lines of each: a group is not left and entered again.
GroupByGroup(order, size) ==
    \A i, k \in DOMAIN order : order[i] \div size = order[k] \div size =>
        \A j \in i..k : order[j] \div size = order[i] \div size

\* Mutant: the ring starts wherever the shuffle put it.
Shuffled(order) == order

\* "The ring always starts at line 0 because the chase kernels start at word 0."
Rotate(order) ==
    LET zero == CHOOSE i \in DOMAIN order : order[i] = 0
    IN  SubSeq(order, zero, Len(order)) \o SubSeq(order, 1, zero - 1)

RingOrders(lines, size) ==
    {Rotate(order) : order \in
        {o \in SetToSeqs(0..(lines - 1)) : GroupByGroup(o, Group(lines, size))}}

PagedOrders == [i \in DOMAIN Rings |-> RingOrders(Rings[i].lines, PageLines)]
GlobalOrders == [i \in DOMAIN Rings |-> RingOrders(Rings[i].lines, 0)]
OrdersOf(i) == IF byPage THEN PagedOrders[i] ELSE GlobalOrders[i]
ReferenceOrders == RingOrders(Reference.lines, 0)

-----------------------------------------------------------------------------
RingInit ==
    /\ byPage \in BOOLEAN
    /\ chase = "map"
    /\ buffer = [w \in 0..(Words - 1) |-> 0]
    /\ turn = 0 /\ slot = 0 /\ lineOrder = << >> /\ first = << >>
    /\ at = 0 /\ loads = 0 /\ recent = << >> /\ hits = 0 /\ steps = 0

\* measure_memory_latency: one ring over lines spread through the mapping.
LinkReference ==
    /\ chase = "map"
    /\ \E order \in ReferenceOrders :
           LET word(i) == order[i] * Reference.stride IN
           buffer' = [w \in DOMAIN buffer |->
               IF \E i \in DOMAIN order : word(i) = w
               THEN LET i == CHOOSE i \in DOMAIN order : word(i) = w
                    IN  word((i % Reference.lines) + 1)
               ELSE buffer[w]]
    /\ chase' = "reference"
    /\ UNCHANGED <<byPage, turn, slot, lineOrder, first, at, loads, recent, hits, steps>>

ReferenceSteps == Reference.lines \div 4

\* A load; each of the three samples starts at word 0 again.
LoadReference ==
    /\ chase = "reference" /\ loads < 3 * ReferenceSteps
    /\ LET word == IF loads % ReferenceSteps = 0 THEN 0 ELSE at
           line == word \div Reference.stride
           kept == SelectSeq(recent, LAMBDA l : l # line)
       IN  /\ at' = buffer[word]
           /\ hits' = hits + (IF Contains(recent, line) THEN 1 ELSE 0)
           /\ recent' = SubSeq(<<line>> \o kept, 1, Min({Len(kept) + 1, Cached}))
    /\ loads' = loads + 1
    /\ UNCHANGED <<byPage, chase, buffer, turn, slot, lineOrder, first, steps>>

Start(k) ==
    IF k \in DOMAIN Rings
    THEN \E order \in OrdersOf(k) :
             /\ turn' = k /\ slot' = 0 /\ lineOrder' = order /\ first' = order
             /\ chase' = "link"
    ELSE chase' = "swept" /\ UNCHANGED <<turn, slot, lineOrder, first>>

\* The mapping is too small for a reference.
NoReference ==
    /\ chase = "map"
    /\ Start(1)
    /\ UNCHANGED <<byPage, buffer, at, loads, recent, hits, steps>>

EndReference ==
    /\ chase = "reference" /\ loads = 3 * ReferenceSteps
    /\ Start(1) /\ recent' = << >>
    /\ UNCHANGED <<byPage, buffer, at, loads, hits, steps>>

Ring == Rings[turn]
Node(s, l) == l * Ring.stride + s

\* The links of one slot; the last line goes to the first of the next slot.
LinkSlot ==
    /\ chase = "link"
    /\ \E following \in IF slot + 1 < Ring.slots THEN OrdersOf(turn) ELSE {first} :
           LET last == Ring.lines
               next(i) == IF i < last THEN Node(slot, lineOrder[i + 1])
                          ELSE Node((slot + 1) % Ring.slots, following[1])
           IN  /\ buffer' = [w \in DOMAIN buffer |->
                      IF \E i \in 1..last : Node(slot, lineOrder[i]) = w
                      THEN next(CHOOSE i \in 1..last : Node(slot, lineOrder[i]) = w)
                      ELSE buffer[w]]
               /\ lineOrder' = following
    /\ slot' = slot + 1
    /\ chase' = IF slot + 1 < Ring.slots THEN "link" ELSE "probe"
    /\ UNCHANGED <<byPage, turn, first, at, loads, recent, hits, steps>>

\* How long a sample is: about the budget, but a whole lap over the lines.
Probe ==
    /\ chase = "probe"
    /\ \E cost \in Latencies :
           steps' = IF cost = 0 THEN 0
                    ELSE Max({Budget \div cost, MinimumSteps, Ring.lines})
    /\ chase' = "sample"
    /\ UNCHANGED <<byPage, buffer, turn, slot, lineOrder, first, at, loads, recent, hits>>

NextRing ==
    /\ chase = "sample"
    /\ Start(turn + 1)
    /\ UNCHANGED <<byPage, buffer, at, loads, recent, hits, steps>>

Chasing == LinkReference \/ LoadReference \/ LinkSlot \/ Probe
RingNext == Chasing \/ NoReference \/ EndReference \/ NextRing

RingSpec == RingInit /\ [][RingNext]_ringVars

-----------------------------------------------------------------------------
\* The word a chase from word 0 is at after n loads, up to twice round.
Walk ==
    LET walk[n \in 0..(2 * Words)] == IF n = 0 THEN 0 ELSE buffer[walk[n - 1]]
    IN  walk

\* A sample loads every line of its working set, whatever was linked in the
\* mapping before: each of its first laps has every line once, through words of
\* its own, the ring closes after one lap for each slot, and in page-grouped
\* order no page is left before all its lines are loaded, but for the page of
\* line 0, which begins and ends the lap ("a pass of line_count accesses already
\* touches every line once", cache_curve.cpp:223).
SampleCoversItsSet ==
    chase = "sample" /\ steps > 0 =>
        LET n == Ring.lines
            walk == Walk
            line(i) == walk[i] \div Ring.stride
            turns(lap) == {i \in (lap * n + 1)..(lap * n + n - 1) :
                              line(i) \div PageLines # line(i - 1) \div PageLines}
        IN  /\ steps >= n
            /\ \A lap \in 0..(Ring.slots - 1) :
                   {line(lap * n + i) : i \in 0..(n - 1)} = 0..(n - 1)
            /\ Cardinality({walk[i] : i \in 0..(n * Ring.slots - 1)}) = n * Ring.slots
            /\ walk[n * Ring.slots] = 0
            /\ byPage => \A lap \in 0..(Ring.slots - 1) :
                   Cardinality(turns(lap)) <= Cardinality(Groups(n, PageLines))

\* "One cold lap is enough, since nothing here can become cache resident"
\* (cache_curve.cpp:277): no load of the reference is served by a last level that
\* does not hold the reference's lines.
ReferenceIsCold == Cached < Reference.lines => hits = 0
=============================================================================
