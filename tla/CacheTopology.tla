---------------------------- MODULE CacheTopology ----------------------------
(***************************************************************************)
(* What the operating system says of the caches of a core                  *)
(* (common/cache/cache_topology.cpp): a list of caches for each processor  *)
(* on Linux and Windows, two kinds of names for the whole machine on       *)
(* macOS.  A system is a record                                            *)
(*                                                                         *)
(*   interface  "sysfs", "windows", "sysctl", or "none"                    *)
(*   caches     for each processor a sequence of [level, type, bytes], in  *)
(*              whatever order they are listed; bytes 0: not exposed       *)
(*   hw, perf   hw.*cachesize, and hw.perflevelN.*cachesize for each N, as *)
(*              functions of the level; 0: no such name                    *)
(***************************************************************************)
EXTENDS Integers, Sequences, SequencesExt, FiniteSets, FiniteSetsExt

LargestOf(S) == Max(S \cup {0})

\* read_linux_data_caches, windows::data_caches.
DataCaches(os, cpu) ==
    {c \in Range(os.caches[cpu]) :
        /\ c.type \in {"data", "unified"} /\ c.bytes > 0
        /\ os.interface = "windows" => c.level <= 3}

PerProcessor(os) == os.interface \in {"sysfs", "windows"}

At(os, cpu, level) == LargestOf({c.bytes : c \in {d \in DataCaches(os, cpu) : d.level = level}})

PerfLevels(os, level) == {p[level] : p \in Range(os.perf)}

\* detect_data_cache_level; macOS has the largest of its performance levels,
\* whichever of them the core belongs to.
DataCacheLevel(os, cpu, level) ==
    CASE PerProcessor(os) -> At(os, cpu, level)
      [] os.interface = "sysctl" ->
            IF LargestOf(PerfLevels(os, level)) > 0 THEN LargestOf(PerfLevels(os, level))
            ELSE os.hw[level]
      [] OTHER -> 0

\* detect_last_level_cache
LastLevelCache(os, cpu) ==
    CASE PerProcessor(os) -> At(os, cpu, LargestOf({c.level : c \in DataCaches(os, cpu)}))
      [] os.interface = "sysctl" ->
            LET outer(level) == LargestOf({os.hw[level]} \cup PerfLevels(os, level))
            IN  IF outer(3) > 0 THEN outer(3) ELSE outer(2)
      [] OTHER -> 0

\* The names hw.* of macOS are those of one of its performance levels, where it
\* has any, and no Mac has an L1 without an L2; size is more than any cache holds.
SystemOK(os, size) ==
    /\ os.interface \in {"sysfs", "windows", "sysctl", "none"}
    /\ IsFiniteSet(DOMAIN os.caches) /\ 1 \in DOMAIN os.caches
    /\ \A cpu \in DOMAIN os.caches :
           /\ \A c \in Range(os.caches[cpu]) :
                  c.level \in 1..4 /\ c.type \in {"data", "unified", "instruction"} /\ c.bytes \in 0..size
           /\ os.interface = "none" => Range(os.caches[cpu]) = {}
    /\ \A level \in 1..3 :
           /\ os.hw[level] \in 0..size /\ PerfLevels(os, level) \subseteq 0..size
           /\ PerfLevels(os, level) \subseteq {0} \/ os.hw[level] \in {0} \cup PerfLevels(os, level)
    /\ {os.hw[2], os.hw[3]} \cup PerfLevels(os, 2) \cup PerfLevels(os, 3) \subseteq {0} =>
           {os.hw[1]} \cup PerfLevels(os, 1) \subseteq {0}
=============================================================================
