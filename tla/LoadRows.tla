------------------------------ MODULE LoadRows ------------------------------
(***************************************************************************)
(* The rows of the load category (benchmark_tables.cpp): a load kernel     *)
(* streams a working set that is to live in one level of the cache of a    *)
(* core and not in the level below it.  The capacities come from the       *)
(* operating system, from the latency curve if the cache category has run, *)
(* or from a fallback; the static CacheData keeps them from one category   *)
(* to the next (cache_report.cpp).  How a working set is timed is in       *)
(* CycleSampling.                                                          *)
(*                                                                         *)
(* Sizes are in units of 512 bytes.                                        *)
(***************************************************************************)
EXTENDS CacheTopology

CONSTANTS
    Loaded,       \* [os, l1, l2, curve]: the first core, what is said of it
                  \* and what its latency curve answers
    LoadBlocks,   \* bytes of a loop body
    FallbackL1, FallbackL2,
    MaxLoaded     \* INT_MAX KiB, past which kib_of has no size

ASSUME LoadAssumption ==
    /\ LoadBlocks \subseteq Nat \ {0} /\ {FallbackL1, FallbackL2} \subseteq Nat \ {0}
    /\ MaxLoaded \in Nat
    /\ \A m \in Loaded :
           /\ SystemOK(m.os, MaxLoaded) /\ m.l1 \in Nat /\ m.l2 \in Nat /\ 0 < m.l1 /\ m.l1 < m.l2
           /\ m.curve \in [{1, 2} -> Nat]

\* What can be known of a level of a machine, 0 if nothing can.
Known(m, level) ==
    IF DataCacheLevel(m.os, 1, level) > 0 THEN DataCacheLevel(m.os, 1, level) ELSE m.curve[level]

\* A known L1 is at most twice the L1 of the core, and the middle of what is
\* known of both levels lies between them, a loop body apart from the L1: what
\* the system or the curve says may be wrong, but by less than the levels differ.
ASSUME AccuracyAssumption ==
    \A m \in Loaded, block \in LoadBlocks :
        LET c1 == Known(m, 1)
            c2 == Known(m, 2)
        IN  /\ c1 > 0 => 2 * block <= c1 /\ c1 <= 2 * m.l1
            /\ c1 > 0 /\ c2 > 0 =>
                   /\ c1 < c2 /\ c1 * c2 <= m.l2 * m.l2
                   /\ (m.l1 + block) * (m.l1 + block) <= c1 * c2

VARIABLES
    tests,     \* categories selected: a subset of {"cache", "load"}
    loaded,    \* the machine
    loadStage, \* "cache", "load" or "rows"
    theory,    \* theory_L1 and theory_L2, 0: not reported
    source,    \* their sources: "none", "OS" or "fallback" (conservative fallback)
    measured,  \* test_L1 and test_L2
    loadRows   \* one [level, workset, from] for each row

loadVars == <<tests, loaded, loadStage, theory, source, measured, loadRows>>

LoadInit ==
    /\ tests \in SUBSET {"cache", "load"}
    /\ loaded \in Loaded
    /\ loadStage = "cache"
    /\ theory = <<0, 0>> /\ source = <<"none", "none">> /\ measured = <<0, 0>>
    /\ loadRows = << >>

OSReports(level) == DataCacheLevel(loaded.os, 1, level)

\* read_reported_cache: what is not reported leaves the field as it was.
Read == [level \in {1, 2} |-> IF OSReports(level) > 0 THEN OSReports(level) ELSE theory[level]]
ReadSource == [level \in {1, 2} |-> IF OSReports(level) > 0 THEN "OS" ELSE source[level]]

CacheCategory ==
    /\ loadStage = "cache"
    /\ IF "cache" \in tests
       THEN /\ theory' = Read /\ source' = ReadSource
            /\ measured' = [level \in {1, 2} |-> loaded.curve[level]]
       ELSE UNCHANGED <<theory, source, measured>>
    /\ loadStage' = "load"
    /\ UNCHANGED <<tests, loaded, loadRows>>

\* prepare_load_capacities
PrepareLoad ==
    /\ loadStage = "load" /\ "load" \in tests
    /\ LET missing(level) == Read[level] = 0 /\ measured[level] = 0
       IN  /\ theory' = [level \in {1, 2} |->
                  IF missing(level) THEN <<FallbackL1, FallbackL2>>[level] ELSE Read[level]]
           /\ source' = [level \in {1, 2} |->
                  IF missing(level) THEN "fallback" ELSE ReadSource[level]]
    /\ loadStage' = "rows"
    /\ UNCHANGED <<tests, loaded, measured, loadRows>>

Capacity(level) == IF theory[level] > 0 THEN theory[level] ELSE measured[level]

\* Mutant: half of each level, whatever is below it.
HalfOfLevel(lower, capacity) == capacity \div 2

\* cache_level_workset: the geometric middle of the window.
LevelWorkset(lower, capacity) ==
    IF capacity = 0 THEN 0
    ELSE IF lower = 0 \/ lower >= capacity THEN capacity \div 2
    ELSE CHOOSE r \in lower..capacity :
             r * r <= lower * capacity /\ lower * capacity < (r + 1) * (r + 1)

\* append_load_bandwidth_row, for a kernel registered for this level.
LoadRow ==
    /\ loadStage = "rows" /\ Len(loadRows) < 2
    /\ \E level \in {1, 2}, block \in LoadBlocks :
           LET size == LevelWorkset(IF level = 1 THEN 0 ELSE Capacity(1), Capacity(level))
           IN  loadRows' = Append(loadRows,
                   [level |-> level, workset |-> size - (size % block),
                    from |-> IF theory[level] > 0 THEN source[level] ELSE "probe"])
    /\ UNCHANGED <<tests, loaded, loadStage, theory, source, measured>>

LoadNext == CacheCategory \/ PrepareLoad \/ LoadRow

LoadSpec == LoadInit /\ [][LoadNext]_loadVars

-----------------------------------------------------------------------------
\* Every read of a load row is served by the level the row names, never by the
\* faster one (cache_bandwidth.hpp:8): the working set fits that level of the
\* core and is larger than the one below, whichever of the two capacities is the
\* system's, the curve's or out by a point of the curve's grid.  Only a fallback
\* may be wrong, and the row of the level it stands for says that it is one.
LoadRowMeasuresItsLevel ==
    \A i \in DOMAIN loadRows :
        LET row == loadRows[i] IN
        /\ row.from = "fallback" <=>
               OSReports(row.level) = 0
                   /\ ("cache" \in tests => loaded.curve[row.level] = 0)
        /\ (\A level \in 1..row.level : source[level] # "fallback") =>
               /\ row.workset <= <<loaded.l1, loaded.l2>>[row.level]
               /\ row.workset > <<0, loaded.l1>>[row.level]
=============================================================================
