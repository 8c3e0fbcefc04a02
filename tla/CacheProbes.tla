----------------------------- MODULE CacheProbes -----------------------------
(***************************************************************************)
(* What cache_report.cpp measures of a core after the latency curve: the   *)
(* line size (cacheline_probe.cpp), then ways, bytes per way and line of   *)
(* the L1 and ways and line of the L2 from lines that compete for one set  *)
(* (associativity_probe.cpp).  Each probe builds on what the ones before   *)
(* it measured, right or wrong.                                            *)
(*                                                                         *)
(* The core under test is `core`, chosen at the start.  A sample of a ring *)
(* is what the layout of its lines over the sets of that core gives, but   *)
(* in at most MaxNoise passes samples are disturbed.  An interrupt can     *)
(* only lengthen a sample, so a disturbed ring looks like one that         *)
(* conflicts; a disturbed walk of the line probe may show any ratio.       *)
(***************************************************************************)
EXTENDS Integers, Sequences, FiniteSets, FiniteSetsExt

CONSTANTS
    Cores,
    MaxLines,      \* kMaxLines
    SlotBytes,     \* kSlotBytes
    Placements,    \* how many: the 1 MiB stride and the random seeds
    Collision,     \* same-set lines that already conflict where a placement collides
    MaxNoise

VARIABLES
    core,      \* the core under test
    phase,     \* the probe of measure_cache_report that runs: the field it fills
    votes,     \* what the passes of the line probe have answered
    pass,      \* the placement, or the pass, of a set-conflict probe
    at,        \* the line count, stride or shift of its next sample
    pending,   \* an unconfirmed transition, 0 if none
    best,      \* what the passes so far have found
    level,     \* the L2 ratio the search compares with, 0 before it is known
    previous,  \* the last L2 ratio
    fields,    \* the test_* fields of CacheData
    disturbed  \* the <<phase, pass>> of the disturbed passes

cursor == <<pass, at, pending, best, level, previous>>
probesVars == <<core, phase, votes, cursor, fields, disturbed>>

Smallest(a, b) == IF a < b THEN a ELSE b
Largest(a, b)  == IF a > b THEN a ELSE b

-----------------------------------------------------------------------------
(* The cores.                                                              *)

\* 1024 * the deepest level of the curve, times four, within its bounds.
EvictionMiB(h) == IF h.curve = 0 THEN 256 ELSE Smallest(512, Largest(64, 4 * h.curve))

\* Do the pairs start cold: flushed, or pushed out of every cache?
StartCold(h) == h.flush \/ EvictionMiB(h) > h.lastLevel

\* The line size an undisturbed pass over the pairs of a core shows.
LineSeen(h) ==
    IF ~StartCold(h) THEN 0
    ELSE IF h.prefetch = {"next", "last"} THEN 2 * h.line ELSE h.line

\* The distance of the lines of a control ring, if that is what is measured.
SkewOf(h) ==
    IF h.reportedLine > 0 THEN h.reportedLine
    ELSE IF LineSeen(h) > 0 THEN LineSeen(h) ELSE h.fallbackLine

\* Same-set lines that never conflict, in any placement.
Held(h) == IF h.collide = {} THEN h.ways ELSE Smallest(h.ways, Collision - 1)

Shifts == {16, 32, 64, 128, 256, 512}
Sizes  == Shifts \cup {1024, 2048, 4096, 8192, 16384, 32768, 65536}

ASSUME ProbeAssumption ==
    /\ MaxLines \in Nat /\ MaxLines > 2 /\ Collision \in Nat /\ Collision > 1
    /\ Placements \in Nat \ {0} /\ MaxNoise \in Nat /\ SlotBytes \in Sizes
    /\ \A h \in Cores :
           /\ h.ways \in 1..MaxLines - 1 /\ h.l2ways \in Nat /\ h.tlb \in Nat
           /\ h.line \in Shifts /\ h.way \in Sizes /\ h.l2line \in Shifts \ {16}
           /\ h.way \in 1024..SlotBytes /\ 8 * h.line <= h.way
           /\ h.prefetch \subseteq {"next", "last"} /\ h.miss \in Nat /\ h.miss >= 30
           /\ h.curve \in Nat /\ h.lastLevel \in Nat /\ h.flush \in BOOLEAN
           /\ h.memory \in BOOLEAN /\ h.hugePages \in BOOLEAN
           \* the probe of the L2 looks for a transition past that of the L1
           /\ h.l2ways > h.ways + 1

\* What the probes need: neighbours fetched with a line stay within the strides;
\* a control ring takes no more lines of a set than it holds, whether skewed by a
\* line or by an eighth of a way; and the L1 line does not show in the L2 rings.
ASSUME ControlAssumption ==
    \A h \in Cores :
        /\ LineSeen(h) <= 512
        /\ SkewOf(h) \in Sizes /\ SkewOf(h) >= h.line /\ 2 * SkewOf(h) <= h.way
        /\ MaxLines * SkewOf(h) <= Held(h) * h.way
        /\ Smallest(2 * h.ways, MaxLines) <= 8 * Held(h)
        /\ 2 * h.ways < MaxLines \/ h.l2line \in 64..h.line

\* What probe_l2_associativity answers when it could not measure.
NoHugePages  == -1
Unrepeatable == -2

Noisy == Cardinality(disturbed) < MaxNoise \/ <<phase, pass>> \in disturbed
DisturbedIn(p, k) == <<p, k>> \in disturbed

-----------------------------------------------------------------------------
(* The line probe.                                                         *)

LineStrides == <<16, 32, 64, 128, 256, 512, 1024>>

LineOf(address) == address \div core.line

\* reuse / cold of the pair <<s, s + s/2>> in percent.  Loading the cold one
\* brings in its line, and the neighbour a prefetcher fetches with it.
ReuseRatio(cold, reuse) ==
    IF \/ LineOf(reuse) = LineOf(cold)
       \/ "next" \in core.prefetch /\ LineOf(reuse) = LineOf(cold) + 1
       \/ "last" \in core.prefetch /\ LineOf(reuse) = LineOf(cold) - 1
    THEN 3
    ELSE IF ~StartCold(core) THEN 20 ELSE core.miss

Below(s) == ReuseRatio(s + s \div 2, s)
Above(s) == ReuseRatio(s, s + s \div 2)

StrideRatio(s) == Largest(Below(s), Above(s))

\* The last stride before the first rise by 20 to 30 percent or more.
LineOfRatios(ratio) ==
    LET rises == {i \in 1..Len(LineStrides) - 1 :
                      ratio[i + 1] - ratio[i] >= 20 /\ ratio[i + 1] >= 30}
    IN  IF rises = {} THEN 0 ELSE LineStrides[Min(rises)]

Ratios == [i \in 1..Len(LineStrides) |-> StrideRatio(LineStrides[i])]

\* Two passes that agree, or a third that agrees with either.
Vote(v) ==
    IF v[1] = v[2] THEN v[1]
    ELSE IF v[3] \in {v[1], v[2]} THEN v[3] ELSE 0

Decided(v) == Len(v) = 3 \/ (Len(v) = 2 /\ v[1] = v[2])

EffectiveLine ==
    IF core.reportedLine > 0 THEN core.reportedLine
    ELSE IF fields.cacheline > 0 THEN fields.cacheline ELSE core.fallbackLine

-----------------------------------------------------------------------------
(* Rings of lines that share an L1 set.                                    *)

SetOf(offset) == (offset % core.way) \div core.line

\* Address-hashed way predictors make some placements conflict early.
SetHolds == IF pass \in core.collide THEN Smallest(core.ways, Collision - 1) ELSE core.ways

\* Some set is given more lines than it holds.
Thrashes(offset) ==
    \E i \in DOMAIN offset :
        Cardinality({j \in DOMAIN offset : SetOf(offset[j]) = SetOf(offset[i])}) > SetHolds

\* The test ring misses and the control ring, every line `skew` further than
\* the one before, does not.
Conflicts(offset, skew) ==
    /\ Thrashes(offset)
    /\ ~Thrashes([i \in DOMAIN offset |-> offset[i] + (i + 1) * skew])

Lines(n) == 0..(n - 1)
RingLines == Smallest(2 * fields.way, MaxLines)

SameSet(n)     == [i \in Lines(n) |-> 0]
Strided(s)     == [i \in Lines(RingLines) |-> (i * s) % SlotBytes]
Alternating(s) == [i \in Lines(RingLines) |-> IF i % 2 = 1 THEN s ELSE 0]

\* Does the sample the running L1 probe takes next show a conflict?
ConflictNow ==
    CASE phase = "way"          -> Conflicts(SameSet(at), EffectiveLine)
      [] phase = "wayBytes"     -> Conflicts(Strided(IF pending > 0 THEN 2 * at ELSE at),
                                             EffectiveLine)
      [] phase = "lineFromSets" -> Conflicts(Alternating(at), fields.wayBytes \div 8)

\* The sample shows a conflict or not; a disturbed one always does.
Sees(conflict) ==
    \/ conflict = ConflictNow /\ UNCHANGED disturbed
    \/ conflict /\ ~ConflictNow /\ Noisy /\ disturbed' = disturbed \cup {<<phase, pass>>}

-----------------------------------------------------------------------------
(* Rings of lines 2 MiB apart, which share a set of both levels.           *)

\* Time of a load when n1 lines share an L1 set and n2 an L2 set; past the
\* huge-page TLB every load also misses that.
LoadTime(n1, n2, pages) ==
    (IF n1 <= core.ways THEN 10 ELSE IF n2 <= core.l2ways THEN 30 ELSE 70)
    + (IF pages > core.tlb THEN 200 ELSE 0)

CeilDiv(a, b) == (a + b - 1) \div b

L2Ratio ==
    IF phase = "l2way"
    THEN (100 * LoadTime(at, at, at)) \div LoadTime(1, 1, at)
    ELSE LET n == Smallest(2 * fields.l2way, MaxLines)
             sharing(line) == IF at >= line THEN CeilDiv(n, 2) ELSE n
         IN  (100 * LoadTime(sharing(core.line), sharing(core.l2line), n))
             \div LoadTime(CeilDiv(n, Largest(1, core.way \div 4096)), 1, n)

SeesRatio(r) ==
    \/ r = L2Ratio /\ UNCHANGED disturbed
    \/ r = 2 * L2Ratio /\ Noisy /\ disturbed' = disturbed \cup {<<phase, pass>>}

-----------------------------------------------------------------------------
(* measure_cache_report: the order of the probes.                          *)

After == [cacheline |-> "way", way |-> "wayBytes", wayBytes |-> "lineFromSets",
          lineFromSets |-> "l2way", l2way |-> "l2line", l2line |-> "done"]

\* Where the samples of a probe begin, given what the others reported.
FirstOf(p, r) ==
    CASE p = "way"          -> 2
      [] p = "wayBytes"     -> Largest(2 * EffectiveLine, 1024)
      [] p = "lineFromSets" -> 16
      [] p = "l2way"        -> r.way + 2
      [] p = "l2line"       -> 32
      [] OTHER              -> 0

Report(value) ==
    LET r == [fields EXCEPT ![phase] = value] IN
    /\ fields' = r
    /\ phase' = After[phase]
    /\ at' = FirstOf(After[phase], r)
    /\ pass' = 1 /\ pending' = 0 /\ best' = 0 /\ level' = 0 /\ previous' = 0
    /\ UNCHANGED <<core, votes>>

NextPass(found) ==
    /\ pass' = pass + 1 /\ best' = found
    /\ at' = FirstOf(phase, fields)
    /\ pending' = 0 /\ level' = 0 /\ previous' = 0
    /\ UNCHANGED <<core, phase, votes, fields>>

NextSample(next, unconfirmed) ==
    /\ at' = next /\ pending' = unconfirmed
    /\ UNCHANGED <<core, phase, votes, pass, best, fields>>

ProbesInit ==
    /\ core \in Cores
    /\ phase = "cacheline" /\ votes = << >>
    /\ pass = 1 /\ at = 0 /\ pending = 0 /\ best = 0 /\ level = 0 /\ previous = 0
    /\ fields = [f \in DOMAIN After |-> 0]
    /\ disturbed = {}

\* One pass over all strides; a disturbed one has one arbitrary ratio.
LinePass ==
    /\ phase = "cacheline" /\ ~Decided(votes)
    /\ LET k == Len(votes) + 1 IN
       \/ votes' = Append(votes, IF core.memory THEN LineOfRatios(Ratios) ELSE 0)
          /\ UNCHANGED disturbed
       \/ /\ core.memory /\ Cardinality(disturbed) < MaxNoise
          /\ \E s \in DOMAIN LineStrides, r \in {3, 15, 29, 90} :
                 votes' = Append(votes, LineOfRatios([Ratios EXCEPT ![s] = r]))
          /\ disturbed' = disturbed \cup {<<phase, k>>}
    /\ UNCHANGED <<core, phase, cursor, fields>>

LineVote ==
    /\ phase = "cacheline" /\ Decided(votes)
    /\ LET r == [fields EXCEPT !.cacheline = Vote(votes)] IN
       fields' = r /\ phase' = "way" /\ at' = FirstOf("way", r)
    /\ UNCHANGED <<core, votes, pass, pending, best, level, previous, disturbed>>

\* A probe that has nothing to build on, or no memory.
Skip ==
    /\ \/ phase \in {"way", "wayBytes", "lineFromSets"} /\ ~core.memory /\ Report(0)
       \/ phase \in {"wayBytes", "lineFromSets"} /\ core.memory /\ fields.way = 0 /\ Report(0)
       \/ phase = "lineFromSets" /\ fields.way > 0 /\ fields.wayBytes = 0 /\ Report(0)
       \/ phase = "l2way" /\ fields.way = 0 /\ Report(0)
       \/ phase = "l2way" /\ fields.way > 0 /\ ~core.hugePages /\ Report(NoHugePages)
       \/ phase = "l2line" /\ fields.l2way <= 0 /\ Report(fields.l2way)
    /\ UNCHANGED disturbed

\* The smallest answer of the placements stands.
KeepSmallest(found) ==
    IF found = 0 THEN best ELSE IF best = 0 THEN found ELSE Smallest(best, found)

\* A collision can only bring a conflict forward or keep it alive: the largest
\* way count and way size stand, the smallest line.
Combined(found) ==
    IF phase = "lineFromSets" THEN KeepSmallest(found) ELSE Largest(best, found)

EndPlacement(found) ==
    IF pass < Placements THEN NextPass(Combined(found)) ELSE Report(Combined(found))

\* probe_with_placement: a transition counts once the next size confirms it.
WaysSample ==
    /\ phase = "way" /\ core.memory
    /\ \E conflict \in BOOLEAN :
           /\ Sees(conflict)
           /\ IF conflict /\ pending > 0 THEN EndPlacement(pending - 1)
              ELSE IF at = MaxLines THEN EndPlacement(IF conflict THEN at - 1 ELSE 0)
              ELSE /\ NextSample(at + 1, IF conflict THEN at ELSE 0)
                   /\ UNCHANGED <<level, previous>>

\* way_bytes_for_placement: a stride must conflict, and so must its double.
WayBytesSample ==
    /\ phase = "wayBytes" /\ core.memory /\ fields.way > 0
    /\ \E conflict \in BOOLEAN :
           /\ Sees(conflict)
           /\ IF conflict /\ (pending > 0 \/ at = SlotBytes) THEN EndPlacement(at)
              ELSE IF ~conflict /\ 2 * at > SlotBytes THEN EndPlacement(0)
              ELSE /\ NextSample(IF conflict THEN at ELSE 2 * at, IF conflict THEN at ELSE 0)
                   /\ UNCHANGED <<level, previous>>

\* probe_l1_line_from_sets: the first shift that splits the set.
LineFromSetsSample ==
    /\ phase = "lineFromSets" /\ core.memory /\ fields.way > 0 /\ fields.wayBytes > 0
    /\ \E conflict \in BOOLEAN :
           /\ Sees(conflict)
           /\ IF ~conflict THEN EndPlacement(at)
              ELSE IF at = 512 THEN EndPlacement(0)
              ELSE /\ NextSample(2 * at, 0)
                   /\ UNCHANGED <<level, previous>>

\* Mutant: the second pass stands.
TakeSecond(found) == IF pass = 1 THEN NextPass(found) ELSE Report(found)

\* A transition that does not repeat on an independent ring is noise.
EndL2Pass(found) ==
    IF pass = 1 THEN NextPass(found)
    ELSE Report(IF found = best THEN found ELSE Unrepeatable)

\* l2_ways_once: the first ratio is the level; the transition must be 1.5
\* times that and be confirmed, and a fall ends the search.
L2WaysSample ==
    /\ phase = "l2way" /\ fields.way > 0 /\ core.hugePages
    /\ \E r \in {L2Ratio, 2 * L2Ratio} :
           LET left == 10 * r >= 15 * level IN
           /\ SeesRatio(r)
           /\ IF \/ at > MaxLines
                 \/ level = 0 /\ r < 125
                 \/ level > 0 /\ 12 * r < 10 * previous
              THEN EndL2Pass(0)
              ELSE IF level > 0 /\ left /\ pending > 0 THEN EndL2Pass(pending - 1)
              ELSE IF at = MaxLines THEN EndL2Pass(0)
              ELSE /\ NextSample(at + 1, IF level > 0 /\ left THEN at ELSE 0)
                   /\ level' = IF level = 0 THEN r ELSE level
                   /\ previous' = r

\* probe_l2_line_from_sets: the first shift well below the thrashing level.
L2LineSample ==
    /\ phase = "l2line" /\ fields.l2way > 0
    /\ \E r \in {L2Ratio, 2 * L2Ratio} :
           /\ SeesRatio(r)
           /\ IF level > 0 /\ 15 * r < 10 * level THEN Report(at)
              ELSE IF at = 1024 THEN Report(0)
              ELSE /\ NextSample(2 * at, 0)
                   /\ level' = IF level = 0 THEN r ELSE level
                   /\ UNCHANGED previous

ProbesNext ==
    \/ LinePass \/ LineVote \/ Skip
    \/ WaysSample \/ WayBytesSample \/ LineFromSetsSample
    \/ L2WaysSample \/ L2LineSample

ProbesSpec == ProbesInit /\ [][ProbesNext]_probesVars

-----------------------------------------------------------------------------
(* Correctness                                                             *)

Filled(p) ==
    \/ phase = "done"
    \/ p = "cacheline" /\ phase # "cacheline"
    \/ p = "way" /\ phase \notin {"cacheline", "way"}
    \/ p = "wayBytes" /\ phase \in {"lineFromSets", "l2way", "l2line"}
    \/ p = "lineFromSets" /\ phase \in {"l2way", "l2line"}
    \/ p = "l2way" /\ phase = "l2line"

\* Of the passes of the line probe at most one was disturbed.
LinePassesClean == Cardinality({k \in 1..3 : DisturbedIn("cacheline", k)}) <= 1

(* The line size measured is the line of the core although one of the      *)
(* passes was disturbed and a prefetcher fetches a neighbour; one that     *)
(* fetches both neighbours makes it twice the line, and pairs that nothing *)
(* makes cold make it none (cacheline_probe.cpp, the vote of three).       *)
LineByMajority ==
    Filled("cacheline") /\ core.memory /\ LinePassesClean => fields.cacheline = LineSeen(core)

\* A placement without collisions of which no sample was disturbed.
CleanPlacement(p) ==
    \E k \in (1..Placements) \ core.collide : ~DisturbedIn(p, k)

(* Disturbance and collisions never make the L1 look larger than it is,    *)
(* which is why its capacity from set conflicts may stand beside the one   *)
(* of the curve, unless two passes were disturbed, for a stride of         *)
(* SlotBytes is not confirmed; and with one clean placement for each probe *)
(* the ways, the bytes of a way and the granule of the set index are those *)
(* of the core.                                                            *)
L1Geometry ==
    LinePassesClean =>
        /\ Filled("way") => fields.way <= core.ways
        /\ Filled("wayBytes") /\ Cardinality(disturbed) <= 1
           => fields.way * fields.wayBytes <= core.ways * core.way
        /\ Filled("way") /\ core.memory /\ CleanPlacement("way") => fields.way = core.ways
        /\ Filled("wayBytes") /\ core.memory
               /\ CleanPlacement("way") /\ CleanPlacement("wayBytes")
           => fields.wayBytes = core.way
        /\ Filled("lineFromSets") /\ core.memory
               /\ (\A p \in {"way", "wayBytes", "lineFromSets"} : CleanPlacement(p))
           => fields.lineFromSets = core.line

(* A number of L2 ways is the number of L2 ways, unless both passes were   *)
(* disturbed; it is found where the search can reach it (huge pages, the   *)
(* L1 ways known, its TLB and kMaxLines past the transition); and the L2   *)
(* line that builds on it is the line of the L2 or none.                   *)
L2Geometry ==
    LET clean(k) == ~DisturbedIn("l2way", k)
        within   == Smallest(MaxLines, core.tlb)
    IN
    /\ Filled("l2way") /\ fields.l2way > 0 /\ (clean(1) \/ clean(2))
       => fields.l2way = core.l2ways
    /\ Filled("l2way") /\ core.hugePages /\ fields.way = core.ways
           /\ clean(1) /\ clean(2) /\ core.l2ways + 2 <= within
       => fields.l2way = core.l2ways
    /\ Filled("l2line") /\ fields.l2way = core.l2ways /\ ~DisturbedIn("l2line", 1)
       => fields.l2line \in {0, core.l2line}

(* What the probes show of the caches of the core is true of it, or nothing *)
(* is shown, each probe standing on what the ones before it measured: the  *)
(* line (row Line), and ways, way size and line "from set conflicts".      *)
GeometryOfTheCore == LineByMajority /\ L1Geometry /\ L2Geometry
=============================================================================
