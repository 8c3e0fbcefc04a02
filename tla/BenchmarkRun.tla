---------------------------- MODULE BenchmarkRun ----------------------------
(***************************************************************************)
(* One invocation of a program, from its command line to its exit status:  *)
(* cpubm_do_bench of x64, arm64 and riscv64 and run_instruction_sweep.     *)
(* What a measurement computes is left to the modules that model it; here  *)
(* it is which tests ran, what ran on the pool, what was printed and saved *)
(* and what was released.                                                  *)
(***************************************************************************)
EXTENDS CommandLine

CONSTANTS
  Threads,       \* CPUs in --thread_pool
  PartOf         \* the pairs <<needle, name>> of which name contains needle

\* parse_thread_pool takes no empty list.
ASSUME ThreadsAssumption == Threads \in Nat \ {0}

VARIABLES
  step,          \* where the benchmark function is
  tables,        \* the five result tables
  pools,         \* the live thread pools
  capacities,    \* are the cache capacities in cache_size known?
  measured,      \* the tests something was measured for
  next, benchesRun,   \* index of the row loop, rows run so far
  rows,          \* history: the benchmarks run, in order
  invocations,   \* has the benchmark pool recorded a worker invocation?
  migration,     \* the system table's "Core Migration" entry
  printed, saved,   \* the printed sections; what the output file holds
  cores, sweepTable   \* sweep: size of the next prefix, rows so far

runVars == <<step, tables, pools, capacities, measured, next, benchesRun, rows,
             invocations, migration, printed, saved, cores, sweepTable>>
vars == <<cliVars, runVars>>

NotSaved == [sections |-> {}, migration |-> "none"]

Init ==
  /\ CliInit
  /\ step = "start"
  /\ tables = "none"
  /\ pools = {}
  /\ capacities = FALSE
  /\ measured = {}
  /\ next = 1 /\ benchesRun = 0 /\ rows = <<>>
  /\ invocations = FALSE
  /\ migration = "pending"
  /\ printed = {} /\ saved = NotSaved
  /\ cores = 1 /\ sweepTable = 0

-----------------------------------------------------------------------------
\* cpubm_do_bench: the order of its parts

After ==
  [x64 |-> [start |-> "frequency", frequency |-> "cache", cache |-> "capacities",
            capacities |-> "issue", issue |-> "pool", pool |-> "rows",
            rows |-> "record", record |-> "print", print |-> "destroy"],
   arm64 |-> [start |-> "warmup", warmup |-> "frequency", frequency |-> "cache",
              cache |-> "capacities", capacities |-> "issue", issue |-> "pool",
              pool |-> "rows", rows |-> "record", record |-> "print",
              print |-> "destroy"],
   riscv64 |-> [start |-> "pool", pool |-> "frequency", frequency |-> "cache",
                cache |-> "riscvLoad", riscvLoad |-> "riscvIssue",
                riscvIssue |-> "rows", rows |-> "record", record |-> "print",
                print |-> "destroy"]]

At(s) == phase = "bench" /\ step = s
Go == step' = After[backend][step] /\ UNCHANGED cliVars

CreateTables ==
  /\ At("start")
  /\ tables' = "held"
  /\ Go
  /\ UNCHANGED <<pools, capacities, measured, next, benchesRun, rows, invocations,
                 migration, printed, saved, cores, sweepTable>>

\* Failing to create a pool frees the tables and ends the program.
GiveUp ==
  /\ tables' = "freed"
  /\ step' = "done"
  /\ Exit("failure")
  /\ UNCHANGED <<backend, given, options, pools, capacities, measured, next,
                 benchesRun, rows, invocations, migration, printed, saved, cores,
                 sweepTable>>

\* arm64: the first compute kernel, on a pool of its own, gone when it returns.
Warmup ==
  /\ At("warmup")
  /\ Go
  /\ UNCHANGED <<tables, pools, capacities, measured, next, benchesRun, rows,
                 invocations, migration, printed, saved, cores, sweepTable>>

WarmupFails == At("warmup") /\ StandaloneWarmup /\ GiveUp

MeasureFrequency ==
  /\ At("frequency")
  /\ measured' = IF NeedsFrequency THEN measured \cup {"freq"} ELSE measured
  /\ Go
  /\ UNCHANGED <<tables, pools, capacities, next, benchesRun, rows, invocations,
                 migration, printed, saved, cores, sweepTable>>

\* The topology or the latency curve may find the sizes.
MeasureCache(found) ==
  /\ At("cache")
  /\ measured' = IF ShouldRunTest("cache") THEN measured \cup {"cache"} ELSE measured
  /\ capacities' = (capacities \/ (ShouldRunTest("cache") /\ found))
  /\ Go
  /\ UNCHANGED <<tables, pools, next, benchesRun, rows, invocations, migration,
                 printed, saved, cores, sweepTable>>

PrepareCapacities ==
  /\ At("capacities")
  \* falling back to conservative sizes when nothing else knows them
  /\ capacities' = (capacities \/ ShouldRunTest("load"))
  /\ Go
  /\ UNCHANGED <<tables, pools, measured, next, benchesRun, rows, invocations,
                 migration, printed, saved, cores, sweepTable>>

\* x64 and arm64 probe the issue width on the main thread.
IssueProbe ==
  /\ At("issue")
  /\ measured' = IF ShouldRunTest("multi_issue") THEN measured \cup {"multi_issue"}
                 ELSE measured
  /\ Go
  /\ UNCHANGED <<tables, pools, capacities, next, benchesRun, rows, invocations,
                 migration, printed, saved, cores, sweepTable>>

CreatePool ==
  /\ At("pool")
  /\ pools' = pools \cup {"bench"}
  /\ Go
  /\ UNCHANGED <<tables, capacities, measured, next, benchesRun, rows, invocations,
                 migration, printed, saved, cores, sweepTable>>

PoolFails == At("pool") /\ GiveUp

\* riscv64 streams on the pool for its load and multi_issue tables.  The braces
\* the indentation suggests are missing: "if (should_run_test ...)" governs
\* prepare_load_capacities alone.  Without capacities the stream returns early.
RiscvStream(test) ==
  LET known == capacities \/ ShouldRunTest(test)
  IN /\ capacities' = known
     /\ invocations' = (invocations \/ known)
     /\ measured' = IF known THEN measured \cup {test} ELSE measured
     /\ Go
     /\ UNCHANGED <<tables, pools, next, benchesRun, rows, migration, printed, saved,
                    cores, sweepTable>>

RiscvLoad == At("riscvLoad") /\ RiscvStream("load")
RiscvIssue == At("riscvIssue") /\ RiscvStream("multi_issue")

-----------------------------------------------------------------------------
\* The row loop

LatencyCandidates(i) ==
  {j \in DOMAIN Items : /\ Item(j).latency /\ Item(j).test = "compute"
                        /\ Item(j).name = Item(i).name /\ Item(j).isa = Item(i).isa}

\* Mutant: a latency kernel is paired with every row of its name.
PairAlways(i) == IF LatencyCandidates(i) = {} THEN 0 ELSE Min(LatencyCandidates(i))

\* pair_benchmark_latencies: a row is paired with the one kernel that has its
\* name and ISA, unless there are two or an earlier row has taken it.
Pair(i) ==
  IF /\ ~Item(i).latency /\ Item(i).test = "compute"
     /\ Cardinality(LatencyCandidates(i)) = 1
     /\ \A k \in 1 .. i - 1 :
          ~Item(k).latency => Item(k).test # "compute"
                                \/ LatencyCandidates(k) # LatencyCandidates(i)
  THEN CHOOSE j \in LatencyCandidates(i) : TRUE
  ELSE 0

\* Mutant: one row more than the limit.
LimitPassed == options.limit > 0 /\ benchesRun > options.limit
LimitReached == options.limit > 0 /\ benchesRun >= options.limit

SkippedIfExcluded(i) == ~ShouldRunBenchmark(i)

Skipped(i) == Item(i).latency \/ ~ShouldRunBenchmark(i)

SkipRow ==
  /\ At("rows")
  /\ next <= Len(Items) /\ ~LimitReached
  /\ Skipped(next)
  /\ next' = next + 1
  /\ UNCHANGED <<cliVars, step, tables, pools, capacities, measured, benchesRun, rows,
                 invocations, migration, printed, saved, cores, sweepTable>>

\* The paired latency kernel, then the kernel; a load row needs the capacities.
RunRow ==
  /\ At("rows")
  /\ next <= Len(Items) /\ ~LimitReached
  /\ ~Skipped(next)
  /\ next' = next + 1
  /\ benchesRun' = benchesRun + 1
  /\ rows' = Append(rows, [item |-> next, latency |-> Pair(next)])
  /\ measured' = measured \cup {Item(next).test}
  /\ invocations' = TRUE
  /\ UNCHANGED <<cliVars, step, tables, pools, capacities, migration, printed, saved,
                 cores, sweepTable>>

RowsDone ==
  /\ At("rows")
  /\ next > Len(Items) \/ LimitReached
  /\ Go
  /\ UNCHANGED <<tables, pools, capacities, measured, next, benchesRun, rows,
                 invocations, migration, printed, saved, cores, sweepTable>>

-----------------------------------------------------------------------------
\* The end of the benchmark

\* record_migration_information.
MigrationEntry == IF invocations THEN "observed" ELSE "not observed"

RecordMigration ==
  /\ At("record")
  /\ migration' = MigrationEntry
  /\ Go
  /\ UNCHANGED <<tables, pools, capacities, measured, next, benchesRun, rows,
                 invocations, printed, saved, cores, sweepTable>>

SaveFile(sections) == saved' = [sections |-> sections, migration |-> migration]

\* Mutant: a section is saved that has no table.
AllSections == Tests
Sections == {t \in Tests : ShouldRunTest(t)}

\* print_and_save_benchmark_tables; an output file that cannot be opened makes
\* the program fail after everything has been printed.
PrintAndSave ==
  /\ At("print")
  /\ printed' = Sections
  /\ IF options.save = "path" THEN SaveFile(Sections) ELSE UNCHANGED saved
  /\ Go
  /\ UNCHANGED <<tables, pools, capacities, measured, next, benchesRun, rows,
                 invocations, migration, cores, sweepTable>>

DestroyPool == pools' = pools \ {"bench"}

SaveStatus == IF options.save = "unwritable" THEN "failure" ELSE "success"

Finish ==
  /\ At("destroy")
  /\ DestroyPool
  /\ tables' = "freed"
  /\ step' = "done"
  /\ Exit(SaveStatus)
  /\ UNCHANGED <<backend, given, options, capacities, measured, next, benchesRun, rows,
                 invocations, migration, printed, saved, cores, sweepTable>>

-----------------------------------------------------------------------------
\* run_instruction_sweep (x64, arm64)

Candidates == {i \in DOMAIN Items : Item(i).test = "compute" /\ ~Item(i).latency}
Exact == {i \in Candidates : Item(i).name = options.sweep}
Partial == {i \in Candidates : <<options.sweep, Item(i).name>> \in PartOf}
PartialMatches == Partial
Matches == IF Exact # {} THEN Exact ELSE Partial

AtSweep(s) == phase = "sweep" /\ step = s

SweepRefused ==
  /\ AtSweep("start")
  /\ Cardinality(Matches) # 1
  /\ step' = "done"
  /\ Exit("failure")
  /\ UNCHANGED <<backend, given, options, tables, pools, capacities, measured, next,
                 benchesRun, rows, invocations, migration, printed, saved, cores,
                 sweepTable>>

SweepPrepare ==
  /\ AtSweep("start")
  /\ Cardinality(Matches) = 1
  /\ measured' = measured \cup {"freq"}
  /\ next' = CHOOSE i \in Matches : TRUE
  /\ step' = "create"
  /\ UNCHANGED <<cliVars, tables, pools, capacities, benchesRun, rows, invocations,
                 migration, printed, saved, cores, sweepTable>>

SweepCreatePool ==
  /\ AtSweep("create")
  /\ cores <= Threads
  /\ pools' = pools \cup {"sweep"}
  /\ step' = "measure"
  /\ UNCHANGED <<cliVars, tables, capacities, measured, next, benchesRun, rows,
                 invocations, migration, printed, saved, cores, sweepTable>>

SweepFails ==
  /\ AtSweep("create")
  /\ cores <= Threads
  /\ step' = "done"
  /\ Exit("failure")
  /\ UNCHANGED <<backend, given, options, tables, pools, capacities, measured, next,
                 benchesRun, rows, invocations, migration, printed, saved, cores,
                 sweepTable>>

SweepMeasure ==
  /\ AtSweep("measure")
  /\ rows' = Append(rows, [item |-> next, latency |-> Pair(next)])
  /\ pools' = pools \ {"sweep"}
  /\ sweepTable' = sweepTable + 1
  /\ cores' = cores + 1
  /\ step' = "create"
  /\ UNCHANGED <<cliVars, tables, capacities, measured, next, benchesRun, invocations,
                 migration, printed, saved>>

SweepSave ==
  /\ AtSweep("create")
  /\ cores > Threads
  /\ printed' = {"instruction_sweep"}
  /\ IF options.save = "path" THEN SaveFile({"instruction_sweep"}) ELSE UNCHANGED saved
  /\ step' = "done"
  /\ Exit(SaveStatus)
  /\ UNCHANGED <<backend, given, options, tables, pools, capacities, measured, next,
                 benchesRun, rows, invocations, migration, cores, sweepTable>>

\* run_memory_bandwidth, see StreamBandwidth: it succeeds or it does not.
MemoryRun(ok) ==
  /\ phase = "memory"
  /\ IF ok /\ options.save = "path" THEN SaveFile({"memory"}) ELSE UNCHANGED saved
  /\ printed' = IF ok THEN {"memory"} ELSE {}
  /\ step' = "done"
  /\ Exit(IF ok THEN SaveStatus ELSE "failure")
  /\ UNCHANGED <<backend, given, options, tables, pools, capacities, measured, next,
                 benchesRun, rows, invocations, migration, cores, sweepTable>>

-----------------------------------------------------------------------------
Done == phase = "exit" /\ UNCHANGED vars

Next ==
  \/ CliNext /\ UNCHANGED runVars
  \/ CreateTables \/ Warmup \/ WarmupFails \/ MeasureFrequency
  \/ \E found \in BOOLEAN : MeasureCache(found)
  \/ PrepareCapacities \/ IssueProbe \/ CreatePool \/ PoolFails
  \/ RiscvLoad \/ RiscvIssue
  \/ SkipRow \/ RunRow \/ RowsDone
  \/ RecordMigration \/ PrintAndSave \/ Finish
  \/ SweepRefused \/ SweepPrepare \/ SweepCreatePool \/ SweepFails \/ SweepMeasure
  \/ SweepSave
  \/ \E ok \in BOOLEAN : MemoryRun(ok)
  \/ Done

Spec == Init /\ [][Next]_vars

-----------------------------------------------------------------------------
BenchDone == phase = "exit" /\ step = "done" /\ tables = "freed" /\ printed # {}
RowItems == {rows[i].item : i \in DOMAIN rows}
Runnable == {i \in DOMAIN Items : ~Item(i).latency /\ ShouldRunBenchmark(i)}

\* A benchmark runs only if the test and ISA filters allow it, at most once, and
\* never more rows than --bench_limit; when the loop ends, every allowed row has
\* run or the limit has been used up.  Latency kernels have no row of their own.
RowsObeyOptions ==
  tables # "none" =>
    /\ RowItems \subseteq Runnable
    /\ Len(rows) = Cardinality(RowItems)
    /\ options.limit > 0 => Len(rows) <= options.limit
    /\ BenchDone => RowItems = Runnable \/ (options.limit > 0 /\ Len(rows) = options.limit)

\* The latency column of a row is that of a kernel of the same name and ISA, and
\* no latency kernel serves two rows (pair_benchmark_latencies).
LatencyPairedOnce ==
  \A i \in {i \in DOMAIN rows : rows[i].latency # 0} :
    /\ Item(rows[i].latency).latency
    /\ Item(rows[i].latency).name = Item(rows[i].item).name
    /\ Item(rows[i].latency).isa = Item(rows[i].item).isa
    /\ \A k \in DOMAIN rows :
         rows[k].latency = rows[i].latency => rows[k].item = rows[i].item
    /\ \A j \in LatencyCandidates(rows[i].item) : j = rows[i].latency

\* Whatever the way out, no pool is left with its threads and no table is lost;
\* and the program succeeds only with everything it was asked for: each selected
\* test printed, and measured unless it has no row; each thread count of a sweep;
\* all of it in the output file, with the final "Core Migration" entry, "not
\* observed" exactly when nothing ran on the benchmark pool ("'no' after zero
\* observations would claim something that was never checked", cli.cpp).
SuccessMeansReported ==
  phase = "exit" =>
    /\ pools = {} /\ tables # "held"
    /\ exit = "success" /\ ~options.list =>
         /\ step = "done"
         /\ options.save # "unwritable"
         /\ options.save = "path" => saved.sections = printed
         /\ BenchDone =>
              /\ printed = Selected
              /\ printed \cap {"freq", "cache"} \subseteq measured
              /\ "multi_issue" \in printed => "multi_issue" \in measured
              /\ \A t \in {"load", "compute"} \cap printed :
                   t \in measured \/ options.limit > 0 \/ ~\E i \in Runnable : Item(i).test = t
              /\ saved # NotSaved =>
                   saved.migration = IF invocations THEN "observed" ELSE "not observed"
         /\ printed = {"instruction_sweep"} =>
              sweepTable = Threads /\ Cardinality(RowItems) = 1

\* "the cache and frequency probes pin their own thread and do not run on the
\* pool, so a --mode=cache run observes nothing" (cli.cpp, record_migration_
\* information).
CacheRunObservesNothing ==
  BenchDone /\ Selected \subseteq {"cache", "freq"} => migration = "not observed"

=============================================================================
