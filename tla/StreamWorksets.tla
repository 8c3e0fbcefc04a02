--------------------------- MODULE StreamWorksets ---------------------------
(***************************************************************************)
(* How large the streams of the cache table and of --memory-bandwidth are, *)
(* and which rows come of them (common/cache/memory_bandwidth.cpp): one L3 *)
(* stream per core between its L2 and the shared L3, one memory stream per *)
(* core far above the last level but within the free memory, three store   *)
(* streams over the memory stream's workset.  A stream itself is one step, *)
(* StreamBandwidth has its inside; here it may fail or be refused.         *)
(*                                                                         *)
(* Sizes are numbers from 0 to MaxSize, which stands for 2^64 - 1.         *)
(***************************************************************************)
EXTENDS CacheTopology

CONSTANTS Systems,   \* what the operating system may report, see CacheTopology
          Measured, Budgets, Requests,
          Block,     \* bytes per block of each kernel
          MaxBlocks, \* INT_MAX, as the kernels count blocks in an int
          MiB, MaxSize,
          Fallback,  \* kMinimumStreamWorkset, 256 MiB
          Floor      \* kMinimumAutoStreamBytes, 32 MiB

Stores == {"write", "partial", "nontemporal"}

ASSUME WorksetAssumption ==
    /\ Block \in [{"read"} \cup Stores -> Nat \ {0}]
    /\ {MaxSize, MaxBlocks, Floor, Fallback} \subseteq Nat /\ MiB \in Nat \ {0}
    /\ Floor <= Fallback /\ MaxBlocks * Block["read"] < MaxSize
    /\ \A os \in Systems : SystemOK(os, MaxSize)
    /\ Budgets \cup Requests \cup Measured \subseteq 0..MaxSize
    \* a measured level holds more than a block
    /\ \A m \in Measured : m = 0 \/ m - m \div 4 >= Block["read"]

VARIABLES
    pc,
    host,   \* what the machine reports, and the last level its curve measured
    ask,    \* [table |-> cache table or --memory-bandwidth, mib |-> 0 or the request]
    rows,   \* one [item, bytes, ok] for each row, bytes 0 where nothing was streamed
    status  \* what the caller gets

vars == <<pc, host, ask, rows, status>>

Cpus == DOMAIN host.os.caches
N == Cardinality(Cpus)
WholeBlocks(bytes, kernel) == bytes - (bytes % Block[kernel])

-----------------------------------------------------------------------------
(* Worksets; 0 where there is none.                                        *)

\* select_l3_workset: 3/4 of the L3, or the middle of L2 and L3 if that is
\* still inside L2.
L3Workset(l2, l3) ==
    LET start == l3 - l3 \div 4
        size  == IF l2 > 0 /\ start <= l2 /\ l3 > l2 THEN l2 + (l3 - l2) \div 2 ELSE start
        whole == WholeBlocks(size, "read")
    IN  IF l3 = 0 \/ whole = 0 \/ whole >= l3 \/ (l2 > 0 /\ whole <= l2) THEN 0 ELSE whole

CapToMeasured(bytes) ==
    LET m   == host.measured
        cap == WholeBlocks(m - m \div 4, "read")
    IN  IF m = 0 \/ cap = 0 \/ bytes <= cap THEN bytes ELSE cap

L2(c) == DataCacheLevel(host.os, c, 2)
L3 == DataCacheLevel(host.os, 1, 3)

\* Mutant: the L2 of the first core stands for all.
FrontL2 == L2(1)
LargestL2 == Max({L2(c) : c \in Cpus})

\* Each core's share of the L3 workset; a share its own L2 would hold is none.
ParallelL3Workset ==
    LET aggregate == L3Workset(L2(1), L3)
        share     == WholeBlocks(aggregate \div N, "read")
        capped    == CapToMeasured(IF N = 1 THEN aggregate ELSE share)
    IN  IF aggregate = 0 \/ share = 0 \/ share <= LargestL2 \/ capped <= LargestL2
        THEN 0 ELSE capped

LastLevel == LastLevelCache(host.os, 1)

Recommended ==
    IF LastLevel = 0 THEN Fallback
    ELSE IF LastLevel > MaxSize \div 4 THEN MaxSize
         ELSE Max({Fallback, 4 * LastLevel})

\* Mutant: the shift is not checked.
AcceptAnyRequest(mib) == TRUE
RequestFits(mib) == mib <= MaxSize \div MiB

\* select_memory_workset; the multiplication wraps at MaxSize + 1.
MemoryWorkset ==
    IF ask.mib > 0
    THEN IF RequestFits(ask.mib) THEN (ask.mib * MiB) % (MaxSize + 1) ELSE 0
    ELSE LET share == host.budget \div N IN
         IF host.budget = 0 \/ Recommended <= share THEN Recommended
         ELSE IF share < Floor THEN 0 ELSE WholeBlocks(share, "read")

\* What measure_parallel_stream_bandwidth accepts of a workset.
Accepts(bytes, kernel) ==
    /\ bytes > 0 /\ bytes % Block[kernel] = 0
    /\ bytes <= MaxSize \div N /\ bytes \div Block[kernel] <= MaxBlocks

-----------------------------------------------------------------------------
Init ==
    /\ host \in [os : Systems, measured : Measured, budget : Budgets]
    /\ ask \in [table : BOOLEAN, mib : Requests]
    /\ pc = IF ask.table THEN "L3" ELSE "memory"
    /\ rows = << >>
    /\ status = "running"

Row(item, bytes, ok) == rows' = Append(rows, [item |-> item, bytes |-> bytes, ok |-> ok])
Return(value) == pc' = "done" /\ status' = value

\* No L3, or none to measure between the caches of these cores: no row.
SkipL3 ==
    /\ pc = "L3" /\ ParallelL3Workset = 0
    /\ pc' = "memory"
    /\ UNCHANGED <<host, ask, rows, status>>

\* A failed stream has its row too, and is no reason to give up the others.
StreamL3 ==
    /\ pc = "L3" /\ ParallelL3Workset > 0
    /\ \E ok \in {Accepts(ParallelL3Workset, "read"), FALSE} :
           Row("L3", IF ok THEN ParallelL3Workset ELSE 0, ok)
    /\ pc' = "memory"
    /\ UNCHANGED <<host, ask, status>>

MemoryFails ==
    /\ pc = "memory"
    /\ IF ask.table THEN Row("memory", 0, FALSE) /\ Return("success")
       ELSE Return("failure") /\ UNCHANGED rows
    /\ UNCHANGED <<host, ask>>

StreamMemory ==
    /\ pc = "memory" /\ Accepts(MemoryWorkset, "read")
    /\ Row("memory", MemoryWorkset, TRUE)
    /\ IF ask.table THEN pc' = "write" /\ UNCHANGED status
       ELSE \E saved \in {"success", "failure"} : Return(saved)  \* the file of --save
    /\ UNCHANGED <<host, ask>>

MemoryRead == Max({rows[i].bytes : i \in {k \in DOMAIN rows : rows[k].item = "memory"}})

Successor(kernel) == CASE kernel = "write"       -> "partial"
                       [] kernel = "partial"     -> "nontemporal"
                       [] kernel = "nontemporal" -> "verdict"

StreamStore(kernel) ==
    /\ pc = kernel
    /\ LET bytes == WholeBlocks(MemoryRead, kernel) IN
       \E ok \in {Accepts(bytes, kernel), FALSE} : Row(kernel, IF ok THEN bytes ELSE 0, ok)
    /\ pc' = Successor(kernel)
    /\ UNCHANGED <<host, ask, status>>

\* Mutant: a row is taken for a measurement.
HasRow(item) == \E i \in DOMAIN rows : rows[i].item = item
Streamed(item) == \E i \in DOMAIN rows : rows[i].item = item /\ rows[i].ok

Verdict ==
    /\ pc = "verdict"
    /\ Row("allocate", MemoryRead, Streamed("write") /\ Streamed("partial"))
    /\ Return("success")
    /\ UNCHANGED <<host, ask>>

Next ==
    \/ SkipL3 \/ StreamL3 \/ MemoryFails \/ StreamMemory \/ Verdict
    \/ \E kernel \in Stores : StreamStore(kernel)

Spec == Init /\ [][Next]_vars

-----------------------------------------------------------------------------
(* What the rows may be read as.                                           *)

\* The sizes of level l, data or unified, that the system lists for core c.
Listed(c, l) ==
    IF host.os.interface = "sysctl"
    THEN {host.os.hw[l]} \cup {p[l] : p \in Range(host.os.perf)}
    ELSE {e.bytes : e \in {d \in Range(host.os.caches[c]) :
                               d.level = l /\ d.type # "instruction"}}

\* Those of the outermost level listed for the first core, L3 but on Linux.
Outermost ==
    LET levels == {l \in 1..(IF host.os.interface = "sysfs" THEN 4 ELSE 3) :
                       Listed(1, l) \ {0} # {}}
    IN  IF levels = {} THEN {} ELSE Listed(1, Max(levels))

RowOf(item) == {rows[i] : i \in {k \in DOMAIN rows : rows[k].item = item}}
Measurement(item) == {row \in RowOf(item) : row.ok}

\* An L3 row measures the L3: no stream fits an L2 listed for the core it runs
\* on, all of them together fit an L3 listed for the first, and where the curve
\* measured a smaller last level each stays inside that
\* (select_parallel_l3_workset).
L3RowMeasuresL3 ==
    \A row \in Measurement("L3") :
        /\ \A c \in Cpus : \A b \in Listed(c, 2) : row.bytes > b
        /\ \E b \in Listed(1, 3) : N * row.bytes < b
        /\ host.measured > 0 => row.bytes <= host.measured - host.measured \div 4
        /\ row.bytes % Block["read"] = 0

\* A memory row has the workset its reader thinks it has: the requested number
\* of MiB and nothing that wrapped around; or what the topology recommends,
\* shrunk only when the machine could not hold N of them, and then to no less
\* than the floor and no more than half the free memory.
MemoryRowHonoursRequest ==
    \A row \in Measurement("memory") :
        IF ask.mib > 0 THEN row.bytes = ask.mib * MiB
        ELSE \/ row.bytes = Max({Fallback} \cup {4 * b : b \in Outermost})
             \/ /\ host.budget > 0 /\ N * Recommended > host.budget
                /\ N * row.bytes <= host.budget
                /\ row.bytes > Floor - Block["read"]

\* Whatever streams fail, the table is completed and goes on to the next
\* category: what was measured keeps its row, a failure has one of its own, the
\* stores follow any memory stream there is, and a verdict is a ratio of two
\* streams that ran over the memory stream's workset, but for a block
\* (append_memory_store_rows, "A failed stream must not discard the probes
\* already collected", memory_bandwidth.cpp:931).
RowsSurviveFailures ==
    pc = "done" /\ ask.table =>
        LET stored == <<"write", "partial", "nontemporal", "allocate">>
        IN  /\ status = "success"
            /\ [i \in DOMAIN rows |-> rows[i].item] =
                   (IF ParallelL3Workset > 0 THEN <<"L3">> ELSE << >>) \o <<"memory">>
                   \o (IF Measurement("memory") # {} THEN stored ELSE << >>)
            /\ \A row \in Measurement("allocate"), kernel \in {"write", "partial"} :
                   \E stream \in Measurement(kernel) :
                       row.bytes - stream.bytes \in 0..(Block[kernel] - 1)
=============================================================================
