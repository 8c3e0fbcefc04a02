# Verification of cpufb

TLA+ models of cpufb, TLC runs over small instances of them, and proofs for every
instance about those of its state machines that decide what is run and reported.  The models are of the code under
`common`, `x64`, `arm64` and `riscv64` and of the build scripts that decide what
is compiled; every definition that stands for code is listed with its lines in
`PROJECT.json` (`map`).

Contents: [1 the system](#1-the-system), [2 modules](#2-modules),
[3 runs](#3-runs), [4 proofs](#4-proofs),
[5 where code and documentation disagree](#5-where-code-and-documentation-disagree),
[6 what is not modelled](#6-what-is-not-modelled),
[7 what could follow](#7-what-could-follow).

## 1 The system

cpufb is a command-line benchmark.  One process parses its options, runs the
selected tests one after the other, prints one table for each, optionally saves
them, and exits.  Most of it is sequential; the difficulty is that it *measures*:
a wrong order of steps does not crash, it prints a plausible wrong number.

| component | files | state | operations | what makes it correct |
|---|---|---|---|---|
| worker pool | `common/sys/thread_pool.*` | a mutex, five condition variables, seven counters, a queue, two generation numbers, per worker a program counter | create, add work, wait, run all, destroy | no lost wakeup; the timed window contains all the work of the round and nothing else; an unpinned pool runs nothing |
| row timing | `{x64,arm64,riscv64}/cpufb.cpp`, `common/cache/cache_bandwidth.cpp` | two atomics (cycles, participants), the best time and cycles so far, the calibrated loop count | warm up, probe, scale, sample, keep the best, normalise | cycles and time of a row are those of one and the same complete sample; an estimate divides by the clock of one core |
| stream bandwidth | `common/cache/memory_bandwidth.cpp` | an allocation, per worker a slice, stamps and counters, the samples | initialise, warm up, measure on all CPUs or on one, report | each worker streams the slice it first touched; nothing wraps, nothing leaks, no stale stamp |
| stream worksets and rows | same | the measured last level, free memory, rows | choose a workset for L3, memory and stores; append rows | an L3 row streams in L3, a memory row has the size it claims, a failed stream takes no other row with it |
| cache topology | `common/cache/cache_topology.cpp` | none; lists of the operating system | size of a level, last level, recommended workset | the size asked for is one the system lists for that core |
| load rows | `common/benchmark_tables.cpp` | the capacities and sources kept in `CacheData` between categories | prepare capacities, choose a working set | a row is served by the level it names |
| command line | `common/cli.*` | `CliOptions` | parse, resolve the mode, validate, `--list` | what is selected does not depend on the order of arguments |
| benchmark driver and sweep | `*/cpufb.cpp`, `common/cli.cpp` | five tables, pools, the row loop, the migration entry | run the selected tests, pair latencies, print, save | success means everything asked for was measured, printed and saved, and nothing leaks |
| latency curve | `common/cache/cache_curve.*` | one mapping with rings linked over each other, the points and their ring order, plateaus, steps, the memory reference | link, chase, sweep, repeat with another order, re-measure deciding points, detect levels, doubt | a sample loads every line of its set; levels are ordered, none lost; falls are confirmed before they are believed |
| cache report | `common/cache/cache_report.*` | `CacheData` | run the probes in order, fill the rows | each probe gets from earlier ones what it assumes |
| line and set-conflict probes | `cacheline_probe.cpp`, `associativity_probe.cpp` | votes, pending transition, best so far | sample, vote, confirm, combine | one disturbed pass or one colliding placement does not change what is reported |
| prefetch probe | `prefetch_probe.*` | one buffer holding the current ring, a side array of nodes | link rings, chase, fit, summarise | the ring that is chased is the one intended; summaries do not trust one sample |
| issue-width probe | `common/issue/*`, `kernel/issue_*` | the values known along a curve, a bracket, deferred rows | golden-section search, two bisections, verdicts | the maximum of a peaked curve is found; verdicts agree with each other |
| frequency probes | `*/kernel/frequency.cpp`, `perf_pmu.hpp` | one thread, counter and clock per CPU | bind, open a counter, time, fall back, join | only a measured clock is shown as measured, on the core it names |
| build | `CMakeLists.txt`, `cmake/*`, `{arm64,x64}/cpuid.*` | the feature list, the assembled features | detect or override, close, test the toolchain, drop, link | an older toolchain builds; what is compiled says nothing of what may run |
| run-time dispatch | `arm64/runtime_features.*`, `x64/runtime_features.h`, registration in `*/cpufb.cpp`, `*/kernel/*` | the list of rows, each with the feature last required, the available classes | register, filter, select kernels | nothing is executed that the core lacks; every row it can run is there, and credited with the work it does |
| tables, platform layer, macOS counters | see `PROJECT.json` | none, or none that outlives a call | | not modelled, section 6 |

How they interact.  The build decides which kernels exist, `main` which of them may
run.  `main` (command line) calls the driver.  The driver creates one *benchmark
pool* and times every row on it through `tpool_run_all`; the sweep creates a pool for
each prefix of the CPU list.  The stream measurement makes a pool of its own.  The
frequency probes start raw threads and leave the clocks that rows without counters
divide by.  The cache report runs on the calling thread: the curve, then the line,
set-conflict and prefetch probes, each reading `CacheData` fields that the earlier
ones wrote; its last level caps the L3 stream, and its capacities outlive it and
size the load rows.  Everything else is passed by return value or table rows.

Hard behaviours, each listed at its line under `hazards`: waits that only the
step reaching a limit signals; the unlocked gap between `tpool_wait` and arming a
round; thread creation that fails half way; global counters that keep the previous
row's counts; stamps that are never cleared; best time and its cycles chosen in
different branches; sizes that wrap or are cut below the cache they must exceed;
samples measured again with another ring order; votes with a disturbed pass; rings
relinked in one buffer; counters opened before the thread is bound; a feature that
is tested with a flag another feature is about to take away; a registration that
copies a global set by the last call before it.

## 2 Modules

```
 ThreadPool --- implements ---> RunAll <--- instantiated by --- CycleSampling
                                       <--- instantiated by --- StreamBandwidth

 CycleSampling, FrequencyProbe          <-- TimedRow       table, then a row
 CommandLine                            <-- BenchmarkRun   arguments to exit status
 CacheCurve, ChaseRing                  <-- LatencySweep   the curve and its rings
 CacheTopology                          <-- StreamWorksets, LoadRows
 CacheProbes, PrefetchProbe,
   StreamWorksets, LoadRows             <-- CacheRows      the cache table after its curve
 KernelBuild <-- KernelDispatch;  IssueSearch <-- IssueProbe
 KernelDispatch, IssueProbe             <-- MultiIssue     from the build to multi_issue

 proofs:  ThreadPool      <-- ThreadPoolProofs
          TimedRow        <-- TimedRowProofs         (CycleSampling, FrequencyProbe)
          StreamBandwidth <-- StreamBandwidthProofs
          BenchmarkRun    <-- BenchmarkRunProofs     (CommandLine)
          LatencySweep    <-- LatencySweepProofs     (CacheCurve)
          CacheProbes     <-- CacheProbesProofs
          CacheRows, CacheProbesProofs <-- CacheRowsProofs
                                                     (CacheTopology, StreamWorksets,
                                                      PrefetchProbe, LoadRows)
          MultiIssue      <-- MultiIssueProofs       (KernelBuild to IssueProbe)
```
(`<--`: is extended by.  `MC...` modules give the constants their values.)

A composition is a module that extends its parts, gives each part's step as one of
its own with the other parts unchanged, and adds what passes between them.  Where
parts share nothing but their order, a predicate among its constants (`Beside`,
`Together`, `Pair`) says which initial states are looked at together, so that TLC
need not multiply what cannot interact.

**RunAll** is the abstract specification of `tpool_run_all`: a window opens with
no worker in it, every worker enters and leaves once with the caller's job, the
window closes.  **ThreadPool** is the pool in detail.  Its step is one critical
section of `work_mutex`, or the part of one before a `pthread_cond_wait`; a wait
set is the set of threads at a `...Wait` program counter; `Broadcast` and `Signal`
move them to `...Woken`, from where they must reacquire the mutex and test their
condition again.  `call`, `adds`, `completed`, `ran` and `window` are history.
`ContractSpec` says ThreadPool implements RunAll (open = window, running = the
captured jobs of the workers in the kernel, finished = those past it), so
**CycleSampling** and **StreamBandwidth**, which instantiate RunAll for their
pool, rest on what ThreadPool was shown to do.

**CycleSampling** covers the five timing loops (x64, arm64 on Linux, arm64 on macOS,
riscv64, cache bandwidth) in one machine with a `backend` variable because they share
a skeleton and differ in where they reset, what they accept and what they keep.  That
of macOS neither calibrates nor counts: its workers are the blocks of a dispatch group.  The atomic sum is kept as the set of counts added, so
that a property can tell whose count is missing.  **FrequencyProbe** is
`get_cpu_freq` of the four back ends (macOS counts as one), with a thread per CPU,
the ladder of clock sources and the join.  A thread that could not be bound migrates
at any moment (`Migrate`), so its counter may read nothing or a part of the cycles.
**TimedRow** puts a row after the table:
a host that cannot read counters for the one cannot for the other, and the row's
time is then turned into cycles by the table's clocks, with a rule for each back end.

**StreamBandwidth** is one call of `measure_parallel_stream_bandwidth`, or of
`measure_stream_bandwidth` for a list of one CPU; **StreamWorksets** is its
callers: the size of every stream and the rows that come of it, any of which may
fail.  **CacheTopology** is what Linux, Windows and macOS list of the caches
(`host.os`) and what the code makes of it; **LoadRows** the capacities of the load
category, whichever categories ran before it.

**CommandLine** and **BenchmarkRun** are one invocation, from the arguments to the
exit status.  An argument is a record of its option and what its value stands for.
What a measurement computes is left to the other modules.

**CacheCurve** is the sweep over working sets, up to the report's L1, L2 and last
level.  Latencies are integers in 0.1 ns, slopes permille; what the machine
answers to a ring is a choice from `Answers[order][point]`, so TLC tries every
curve over those sets.  **ChaseRing** is the buffer under it, word by word: the
rings of the reference and of the samples, linked one over the other in any order a
shuffle may give, and the chase through them.  **LatencySweep** runs both: a sweep is
followed word by word through its first rings, or through the answers alone.

**CacheProbes** is the order of the five probes of the report on one core (`core`):
ratios are percent, a ring is reduced to how many of its lines share a set, a walk to
the line and the prefetchers of the core, and a disturbed pass may only lengthen a
time, as an interrupt does.

**PrefetchProbe** keeps the buffer itself, word by word, because relinking is what
can go wrong.  A time is that of one lap: the machine serves a link at the share of its
stride when the link before it was of the same stride (`Served`), and in full otherwise,
so a time is what the links in the buffer make it and not what the order's name
promises.  The analyses are the code's, on those times.  **CacheRows** is the table: curve, probes, prefetch rows and streams in
the code's order, then the load rows; without the cache category the memory stream or
the load rows alone.

**KernelBuild** is one configuration: the feature list from an override, a default or
a detector run on the building machine, its closure, the flag each kernel file is
tried with, what is dropped, whether the program links.  **KernelDispatch** is the
program that comes of it, on a core that need not be the builder's: registration with
the global `registration_required_feature`, the erasing of rows, the banner, kernel
selection of frequency, streams and issue classes; `executed` is history, the features
that the instructions run so far need.  A kernel is what the search of
`classify_vector_scale` finds in its name and, apart from that, the work it does; the
scale it is credited with is derived from the first.  A *site* is a build and the machine it runs on.

**IssueSearch** is `search_unimodal_maximum`, one action per loop turn, kept apart
so that it can be proved about; **IssueProbe** extends it to the whole
`run_issue_probe` with its deferred verdicts; **MultiIssue** hands it the classes
KernelDispatch says may run.

## 3 Runs

Every passing run visits all states of its instance, in less than five minutes with
two TLC workers.  The bounds are the smallest at which the interesting cases happen.

| run | bounds | what it shows |
|---|---|---|
| `pool_safety` | 3 workers, 2 jobs, 2 rounds, 2 submissions, spurious wakeups, any pin or creation may fail | With three workers a broadcast has somebody left to wake after the first, and the last to arrive is not the second.  Two rounds are needed for a stale generation, two submissions for a queue that is empty while work is outstanding.  Checks the counters' range, wakeups, the timed window, serialisation of the two modes, the migration report and that the pool implements RunAll |
| `pool_live` | same, one job, no spurious wakeups | Every call returns and submitted work is executed, under the fairness below |
| `timed_row` | 3 workers on CPUs 1, 3, 2, two core types, 2 samples (5 in the code), elapsed times 0, short and long, a loop count at the overflow limit; a row follows on the two plain hosts | A third sample repeats the second's choices: the state carried between samples is the best one only.  The second core type is what makes a plain event count nothing; an index is not a CPU number.  Clocks shown are measured on their core, a row is of one whole sample and the best one, an estimate is that of one core, some clocks missing or not.  CPU 3 cannot be bound on some hosts: the thread told to run there wanders |
| `stream` | 2 workers, 2 repetitions, sizes 0..15 for 64 bits, every error exit | 16 values are enough for a request below, at and above a block, one past INT_MAX blocks and one whose double wraps |
| `benchmark_run` | up to 4 arguments on each back end, a catalogue of rows with equal names, no limit and a limit of 2 | Four arguments are needed for two options given twice in both orders |
| `riscv_cache_mode` | `--mode=cache` on riscv64 | *violation*, section 5 |
| `cache_curve` | 16 working sets (4..56 KiB for 4 KiB..128 MiB), two to three answers at the points that decide; every order of a reference of 5 lines and of rings of 3 and 5 lines over 3 pages, two words a line | Sixteen points hold up to four plateaus with the minimum length between them, and a fall at the end, in the middle and after re-measurement.  Two rings are what it takes for one to be linked over another, two slots for a lap to continue in the next |
| `memory_reference` | the same with a reference of 8 lines and a last level of 3 | *violation*, section 5 |
| `dispatch` | about a thousand sites: five compilers, native and cross builds, overrides, AArch64 8.0 to SME2, Macs, x64 from SSE2 to AMX; the probe's real grid of 23 ratios for peaked curves, all curves over up to 7 ratios | Brackets of three and four ratios, where rounding could lose one, occur in both grids.  Nothing runs that the core lacks, every row it can run is listed, every displayed one scaled as its kernel's work is, the maximum is found and the right resource named |
| `old_toolchain` | compilers from before bf16 and from before SME, every override | *violation*, section 5 |
| `cache_rows` | 141 cores, `MaxNoise` = 1 disturbed pass anywhere; 30 machines for the prefetch probe, one measurement `Spoiled`; 1 to 3 CPUs with equal and unequal caches as three systems list them, every request and free memory, any stream failing; load rows for capacities listed, measured, off by a point of the grid, or missing | Geometries from direct mapped to 47 ways and collisions in none, one, three or four of four placements; rings up to 160 lines, segments of 2, 4 and 8 lines (three points are what a least-squares fit takes to differ from a line through two); every size relation between L2, L3, a measured level, free memory and a request |
| `riscv_clock` | two threads, hosts with one and two core types | *violation*, section 5 |

Runs with `CHECK_DEADLOCK FALSE` model something that returns; the others have an
explicit terminated action.

**Fairness.**  Only `pool_live` assumes any: weak fairness of the client inside a
call, of `tpool_destroy` on a pool that `tpool_create` rejects, and of each
worker's next step.  That is: a thread that can run is eventually scheduled (the
kernels are finite loops, so the step that ends one is eventually taken), and a mutex
that stays free is eventually acquired.  Nothing is assumed of which call the
client makes next.  Spurious wakeups are off in this run: nothing in POSIX bounds
them, and a stream of them that never ends is not something the code can answer
for.  Their effect on safety is in `pool_safety`.

**Bounds by name**: `MaxRounds`, `MaxAdds` (ThreadPool), `Repeats`, `Repetitions`,
`MaxArgs`, `MaxNoise`, `Spoiled` (one measurement of the prefetch probe wrong by
that factor), `MaxNodes`, `MaxLines`, `Octaves`, `Words`.  `MaxSize` (StreamBandwidth,
StreamWorksets) stands for 2^64 - 1, `IntMax`, `MaxBlocks` and `MaxLoaded` for INT_MAX,
`MaxLoopTime` for INT64_MAX: arithmetic wraps, is refused or saturates there exactly
where the code's does.

What the machines assume, beyond the constants' ASSUMEs.

* *probes* (`ProbeAssumption`, `ControlAssumption`): a disturbed pass only lengthens a
  set-conflict sample; with two of them the unconfirmed acceptance at a 64 KiB stride can
  overstate an L1 whose ways were undercounted.  The L2 has more ways than the L1 plus one
  (the code looks for the L2 transition past the L1's).  Lines, ways and strides are
  powers of two, a way is eight lines or more and no longer than `kSlotBytes`.  A control
  ring, skewed by the line that was reported or measured or by an eighth of a way, takes
  no more lines of a set than never conflict: on a core where it does, a thrashing
  control hides the conflict the code looks for.  And `kMaxLines` is past twice the L1
  ways, or the L2 line is of the strides tried and no longer than the L1's: else the rings
  of the L2 line probe stay in the L1, whose line they would show.
* *prefetch probe* (`GridsAssumption`, `MachineAssumption`): the prefetcher serves a
  stride that repeats; of the three samples of a measurement one is undisturbed, but for
  one measurement, and not the random and stride-1 baselines; L1 holds at least four pages
  and an L2 is 1.6 times an L1 or more, as two levels of a curve are.  Strides are listed
  in order from 1 and span at most two pages, segments divide the longest, which is at
  most an eighth of `kMinimumMemoryWorkset`: the code's lists are so (64 lines of stride
  in pages of 64, segments up to 1024 lines in a million).
* *topology* (`SystemOK`): a system lists levels 1 to 4, Apple's machine-wide size of
  a level is one of its performance levels', and a Mac that names an L1 names an L2.
* *load rows* (`AccuracyAssumption`): an L2 is larger than an L1; what the system or the
  curve says of the L1 is at most twice its size, and of both levels wrong by less than
  the levels are apart: the geometric middle lies between them, as in the instance, where
  the curve is a point of its grid off and macOS names another core's caches.
* *frequency*: of three runs of the ADD chain one is not interrupted; a
  thread that migrates takes them on one core (nothing is claimed of its clock).  macOS gives the thread that asks for one a fast core.
  `EmptyClock` stands for the few cycles between start and stop of a counter when a
  riscv64 program without vectors runs nothing in between, 1 for a part of the cycles of
  a thread that moved between core types during the kernel.
* *issue* (`ReadingsAssumption`): a ratio is evaluated once, so noise is part of the
  curve; a grid has both pure streams.
* *sites* (`SitesAssumption`): a compiler that takes a newer extension takes the one it
  rests on; a core has the baseline of its architecture (or, for AArch64, reports nothing at all), AMX
  only on Apple's, tile permission only on Linux; and a macOS program runs on the machine
  that built it, as `arm64/kernel/issue_kernels.cpp:18` assumes, without an override.

## 4 Proofs

TLAPS proves these for every value of the constants (`theorems` in
`PROJECT.json`); the runs above check the same properties on small instances.
The assumptions are the named ASSUMEs of the modules and nothing else.

**ThreadPoolProofs**: any number of workers, rounds and submissions, from
`PoolAssumption` (at least one worker: the code never creates an empty pool; finite
bounds, any readings).  No property of the pool is inductive by itself: "the window
closes when all have run" needs that `parallel_done_cnt` *is* the number of workers
past the kernel, which needs that none of an earlier round is left, which needs how a
round begins, and so on down to who may hold the mutex.  The invariant `IInv` is
therefore built in layers, each preserved using the ones before it:

1. `Types`: ranges without the upper bounds (counters are integers first: that they
   do not wrap is a result, not an assumption);
2. `Created`: which workers exist, by how far the client is in creating them;
3. `Counts`: each counter is the cardinality of a set of workers described by their
   program counters, which is what turns a test of a counter into a fact about
   all workers;
4. `Locks`: who owns `work_mutex`;
5. `Stopping`, `Startup`: what holds once `stop` is set, and that outside creation
   every worker has checked in and is pinned, or the pool is rejected;
6. `Calls`: what a client inside a call has already established;
7. `Round`: the phases of `tpool_run_all`: generations, where each worker may be in
   each phase, which job it carries, how often it ran;
8. `NoLostWakeup`.

`Invariance` is `Spec => []IInv`; `TypeCorrect`, `WakeupCorrect`,
`WindowExclusive`, `Serialized` and `UnpinnedRejected` follow from it, and
`WindowStamps` from `IInv` and the actions that change the window.

**ThreadPoolProofs**, the contract, adds the other three promises of the pool, so that
every property of `pool_safety` is proved.  `PoolImplementsRunAll`: under the mapping of
`Contract` the step that takes the start time is `Open`, the one that calls a
parallel job `Enter`, the one that returns from it `Leave`, the one that takes the
end time `Close`, and every other step leaves the four mapped variables alone
(`Stutters`).  `WaitReturnsDrained` and `MigrationsAccounted` need `Accounts`: `IInv`,
that each item is in the queue, in one worker's hands or completed, and that the
counters of the report are the finished invocations less those a worker is yet to
enter.

**TimedRowProofs**, the row: any number of workers, samples, counts and times, on RunAll
as the pool.  `SamplingInvariant` says a worker is inside only in an open window
(`Window`), which round it is (`RoundNumber`), and what the two atomics hold in a
measured round: the sum is the set of counts of the workers that have added, the
second atomic the number of those that have counted too (`Atomics`).  When it equals
the number of workers, nobody is missing: `WholeSample`.  `BestInvariant` adds that the
result is the best of the samples evaluated so far (`BestOfSeen`: shortest accepted time,
cycles of the sample with that time, or of the fewest in the cache rows), that the
elapsed time at hand is that of the last sample, and that the loop is a multiple of the
registered one: `BestSample`.  It compares sums over sets; that the library's fold, a
recursive function over subsets, has a value is shown by a smallest subset without one
(`SumExists`), no induction theorem being usable.

**TimedRowProofs**, the clocks: `ShownClocks` and `CountersUsed` for any selection of CPUs, any
core types and hosts, from `HostAssumption`.  `ClockInvariant` says where a thread is
once bound (`Placed`), that a bound one's counter is of the core it is on (`Searching`),
what it has answered (`Answer`), and that a row is a copy of the answer of a thread that
was joined.  Of a thread that could not be bound only what `MigrateKeeps` is kept, and
both theorems are silent about its clock: it may count nothing.  `ChainIsExact` is the arithmetic of the best of three.  `DivisorInvariant`
adds which clocks are kept for the rows (`KeptClocks`: one for each joined thread, on
macOS the last one's under the first index), `EstimateInvariant` that a row begins after
the table and an estimate is of a finished row; with `RulesAgree` (the sum of equal
clocks is their number times the clock) they give `EstimateOfOneCore`, also where the
clocks of some cores are `Missing` (on riscv64 the load rows only: its compute rows are
summed over all workers).  It needs
`RowAssumption`: the pool of riscv64, which sums over its workers the clocks of the
selected CPUs, has one worker for each.  `RowAndTable`: the composition implements both
parts, so `TimedRowIsTrue`.

**StreamBandwidthProofs**: any number of CPUs and repetitions, any request, any width
of the integers, from `StreamAssumption`.  `StreamInvariant` says what the caller
holds in each phase (`Holding`), whose slice is whose (`Touching`) and, of a measured
round, that the stamps of those past the clock are of this round and lie between
`began` and `ended`, each of which is one of them (`Stamps`).  All four properties of
run `stream` follow; `NotWrapped` is why the total fits.

**BenchmarkRunProofs**: any arguments and any catalogue of kernels on each back end,
from `CommandLineAssumption`.  `CliInvariant` says what the options have kept of the
arguments so far (`Remembered`: filters are the union of all that were given, of two
`--mode` the last), from which `SelectsAsDocumented` follows once the mode is resolved;
it leaves out a list that names no test, on which code and README differ (section 5).
`RunInvariant` adds what a run holds at each step of the driver's order (`Control`),
how far the row loop has come (`Progress`: the rows before the index that may run are
there, no other, and a row carries the latency that `Pair` finds for it) and what must
have been measured, printed and saved by then (`Reports`).

**LatencySweepProofs**: any grid of working sets, any reference and any latencies, from
`GridAssumption` and `AnswersAssumption` (of the first only that sizes are natural
numbers: what it says of powers of two is arithmetic the provers do not have).  What
`find_plateaus` returns is a chain (`PlateausAre`): plateaus in order, apart, inside the
curve.  The recursion over the points is reached without an induction theorem: the
points from which it would not yield a chain have a greatest one, if any, and that one
does.  So capacities lie in disjoint stretches of an ascending grid (`CapacityIsBelow`,
`SizesAre`) and the levels rise (`LevelsAre`); `ReportIs` is the arithmetic of
`assign_curve`.  Of the sweep, `CurveInvariant` says how long the curve is at each
point, that a fall not yet measured again has both samples among those that will be
(`FallsCovered`: a median of three can end a fall or begin one next to it), and from
what levels and report were computed.  `LevelsAreReliable` and `FallsAreMedians` follow.
That the deepest working set was as slow as memory if anything reached it needs that a
plateau is no slower than all its points: `MedianIs` and `Chain` are stated over any set of
latencies that has everything below its members (`Downward`), and applied to those that
are not memory's.  A curve that `Relapses` is left out (section 5).  By `SweepIsCurve` both hold of the sweep on its own rings.

**LatencySweepProofs**, the rings: any sizes, pages and costs of a load, from `RingAssumption`,
and whatever the shuffles return that keeps groups together.  `OrderIs`: a rotated order
still has every line once, begins with line 0, and turns into a group once (`OneTurn`:
the group of line 0 may be cut in two, and its second part ends the lap).
`RingInvariant` says which slots are linked, each along one of the ring's orders
(`Linked`), and that linking another leaves them alone: `div` and `mod` of a word give its
line and slot.  A chase is then led along the order of slot 0, of slot 1, ... and back to
word 0 (`RingIsWalked`; laps and loads are counted by `UpTo`, a set that has 0 and with
each number the next), and `SamplesCoverTheirSets` follows by counting: words of two
laps differ (`WordsDiffer`), turns into a page inject into the pages (`PageTurns`).
`SweepIsRings` carries it to the sweep of run `cache_curve`.

**CacheRowsProofs**: every list of caches a system can report (`SystemOK`), any number
of cores, any request, free memory and measured level, from `WorksetAssumption`.  The
argument is arithmetic (whole blocks below a bound, `LargestMultiple` and its like),
then topology (what the code asks for is one of what is listed, or nothing), then
worksets, and two invariants: `WorksetInvariant`, that a row that was measured has
the workset chosen for it while host and request do not change, and `RowInvariant`,
which rows stand in which order at each point of the append functions, with failures
anywhere, and that a verdict on write allocation has both its streams.  A largest
element is shown to exist by well-foundedness rather than induction.  `TableStreams`:
probes, prefetch probe and load rows leave the streams alone, so the table's rows have
the same three properties.

**CacheRowsProofs**, the prefetch probe: any sizes of the two working sets, any strides,
segments and distances, from `GridsAssumption` and the sizes in `MachineAssumption`.
Each order the probe links has every line once: the phases of `stride_order` and the
shuffled segments of `segment_order` have no line in common and none is missing
(`Parts`; `FlattenOnce` carries that through the recursion of `FlattenSeq`), the random
order of the model has all (`RandomOrderIs`), and so has what `link_ring` makes of it by
starting at line 0 (`RotatedIs`).  `PrefetchInvariant` says that the buffer holds either
working set, what may still have to be measured, and that the ring last linked is a lap
in the buffer and in the side array, whatever links of longer rings lie around it
(`Linked`); that the sizes are numbers includes that the halving of the free memory
ends (`HalvedIs`).  `RingsAreOneLap` follows by following the lap through the buffer
(`LapFollows`).

**CacheRowsProofs**, what the prefetch probe makes of its times, from the same two
assumptions: `AnalysesAreOfTheCore`.  The links of an order are described by a relation
that each line has to the next (`StrideChain`, `SegmentChain`), which says what the
machine serves each of them at (`RandomServed`, `StrideServed`, `SegmentServed`), and the
time of a lap is a running sum of those: in random order no stride repeats and nothing is
hidden (`RandomTime`); along stride *s* its share is, but for the two links that begin
each of the *s* runs (`StrideTime`); along segments that of stride 1, but for two links
of each segment, one segment more or less (`SegmentTime`).  `TimesInvariant` says that
every time kept is that sum for the order it names, or once `Spoiled` times it (`Told`),
that a measurement that can be made is made or still to come, and that the baselines come
first: without the last, a distance or a stride could be compared with nothing.  Then the
analyses are arithmetic on known numbers.  `ReachFollowed` and `ReachIsWhole`: `Hidden` is
the machine's own difference, less where the sample was spoiled, so a reach cannot grow
by a disturbance, and without one is all there is.  `RestartRecovered`: the numerator of
the fit is bounded term by term (`TermBounds`, `SumAtMost`) and the quotient brought to within
an eighth (`FittedIs`, `QuotientNear`), for which the segments must be short against the
working set.  `SummaryIs` gives the distances: the best time is no shorter than the misses
in flight allow, and what is recommended is within 3 percent of it.  `TablePrefetches`
says the probe is the same inside the table, so its rings are laps and its rows are true
there too.

**CacheRowsProofs**, the load rows: any machines and loop bodies, from `LoadAssumption` and
`AccuracyAssumption`.  `LoadInvariant` says which size and source each level has at each
stage (`Settled`: the system's, else the curve's, else a fallback, never two of them) and
that every row was cut from the window of its level.  `LevelWorksetIs` is the integer
square root of `cache_level_workset`; with the monotony of squares it puts the rows
between the levels (`L1RowFits`, `L2RowFits`).  `LoadRowsMeasureTheirLevel` follows, and
inside the table `TableLoads`.

**CacheProbesProofs**: any set of cores with any lines, ways, prefetchers, collisions and
interfaces, any number of placements and of disturbed passes, from `ProbeAssumption` and
`ControlAssumption`.  First the line probe: the ratio of a stride follows from the line
and the prefetchers (`StrideRatioIs`), so an undisturbed pass shows `LineSeen`, and two
of three outvote the third.  Then the rings: addresses that are multiples of powers of
two fall into sets as quotients say (`SetOfSteps`, `SetOfWhole`), a ring thrashes when
more of its lines share a set than it holds (`Thrashes`), which by counting happens at
the ways, the way size and the granule and not before (`SameSetConflicts`, `WayConflicts`,
`PartOfWayHolds`, `PastLineHolds`), while the control ring holds (`ControlHolds`).  The
invariant, `ProbesInvariant`, has two parts for each of the five probes: what the
samples of the one that runs have established (that the ring one smaller was quiet, that
a pending transition is no earlier than the true one, or that its pass was disturbed), and
what its field says of the core once it has ended.  The second part of one is what the
first of the next stands on: the bytes of a way need that the ways are not overstated,
the granule needs both.  `ProbesFindTheCore` follows, and `TableProbes` says it of the
table.

**MultiIssueProofs**: the whole way from a build to the issue table, for any toolchain,
override, detecting machine and core that `SitesAssumption` allows and any reading of
the probe.  `DispatchInvariant` has three layers.  `BuildInvariant`: the list that is
assembled is closed under what its features imply, on a Mac within what the builder
can run.  `RegistrationInvariant`: at row `at` of the registration table the list
holds the compiled rows before it, each with the feature it is erased by, and the
global holds that of the last row that set one; it needs, as a fact about the table,
that a row which sets none directly follows the one it copies.  `ExecutionInvariant`:
what ran so far is within the core.  `OnlyRunnable`, `ListMatchesCore` and
`WorkFollowsVectors` follow, the last from what the names of the displayed rows hold
(`Classified`) and from the macros each is compiled under; a latency kernel is timed only.  For the probe, `SearchInv` says the bracket stays inside
the ratios with the pure streams known, that each bisection keeps a near ratio at one
bound and one that is not at the other, and gives `Consistent`.  `Maximum` adds
`TopInv`: on a peaked curve some ratio of the level top is known or still in the bracket
(`TopKept`).  Two lemmas carry it: the two probes are distinct and strictly inside any
bracket wider than two (the rounding argument), and discarding an end never discards
the last of the top.  `TableInvariant` is the deferred rows and verdicts, for
`WidthExplains`; `ProbeInvariant` joins them, so that the search's two promises hold
inside the program (`SearchedInProgram`).

Only model-checked: all liveness and fairness (`pool_live`), and whatever needs ENABLED,
which are out of the prover's reach.  Every safety property of a passing run is stated by
a theorem.

## 5 Where code and documentation disagree

Four runs show it (`findings`):

* **riscv_cache_mode**: two `if` statements in `riscv64/cpufb.cpp:280` lack braces,
  so `--mode=cache` also streams on the benchmark pool;
  `common/cli.cpp:451` says such a run observes nothing.
* **riscv_clock**: `riscv64/kernel/frequency.cpp:70` shows, where no cycles
  can be counted, the clock the operating system reports as the tested one;
  `README.md:214` says the column stays `-`.
* **memory_reference**: the three samples of the memory reference each walk the same
  quarter of the ring from word 0 (`cache_curve.cpp:293`), so a last level that holds
  that quarter serves the second and third; line 277 says nothing there can become
  cache resident.
* **old_toolchain**: `_ISSUE_` is tested with the flag of an SME family that is dropped
  in the same loop (`cmake/SimdFlags.cmake:74`), so it is dropped too and the program
  does not link; `CMakeLists.txt:148` says an older toolchain must not fail the build.

Others were met while modelling and are states the models reach, with no run of
their own:

* The automatic memory workset is capped to a share of the free memory and then only
  held against 32 MiB (`memory_bandwidth.cpp:396`), so it can be smaller than the
  last-level cache it is to dwarf (line 388, `cache_topology.hpp:41`).
* The prefetch probe halves its working set while it is above a quarter of the free
  memory, and may end below the minimum its comment gives (`prefetch_probe.cpp:43`, 306).
* `describe_prefetch_doubt` does not look further once the curve has reached memory
  (`cache_curve.cpp:600`), so a curve that climbs to memory and falls at its deepest
  point carries no doubt, against `cache_curve.hpp:150`.  `LastLevelCanCap` leaves the
  case out (`Relapses`).
* A doubted curve's capacities "are then not used to size anything else"
  (`cache_report.hpp:54`), but the load rows, the eviction buffer of the line probe and
  the prefetch probe are sized by them.
* Load rows size the working set of every core by the caches of the first, on macOS by
  the largest performance level: an efficiency core's L1 row may then not fit its L1.
* The compute rows of arm64 fall back to an estimated clock without the warning on
  stderr that `README.md:204` promises (`arm64/cpufb.cpp:356`).
* An `--include-test` list that names nothing selects everything (`cli.cpp:332`),
  against `README.md:389` and 397.  `SelectionAsDocumented` leaves the case out.
* `sme_fmopa2.vv(f64,f64,f64)_latency` (`arm64/cpufb.cpp:1253`) has the name of no row, so
  it is paired with none and, as latency kernels are skipped as rows, never run: the row
  `sme_fmopa.vv(f64,f64,f64)` shows no latency.  Its name has no `opa.vv`, so
  `classify_vector_scale` takes the product for a vector; nothing shows that number.
* A riscv64 program without vectors counts the cycles of an empty window
  (`riscv64/kernel/frequency.cpp:61`) and shows them as a clock; a thread whose binding
  failed goes on with a warning (`arm64/kernel/frequency.cpp:118`) and may show the cycles
  of a part of the kernel.
* A transition at `kMaxLines` is accepted unconfirmed (`associativity_probe.cpp:129`).
* A cross build for macOS defaults to `_BF16_` and `_I8MM_`, and an override there is
  not closed under what its features imply, though `issue_kernels.cpp:18` trusts the
  builder; `SitesAssumption` leaves both out.  The detector's half-precision test is a
  baseline instruction, and the AVX-VNNI kernels need AVX2 beside their own flag.
* The multi-core L3 stream presumes one L3 shared by the selected CPUs, as
  `README.md:265` asks of the user; the model takes the L3 of the first likewise.

## 6 What is not modelled

* Text: tables, messages, `--help`, the tokenising of option strings,
  `parse_thread_pool`, the files of sysfs.  What a text decides (an item is selected, a
  row has a source label, a cache has a size) is modelled as a choice or a small value.
* The loops of the kernels: a kernel is a step that takes some time and needs some
  features.
* Values computed for display only: GFLOPS, bandwidths, the derived rates of the load
  rows, the agreement labels that compare measured with reported sizes, lines, ways
  and sharing as the system lists them, "present; capacity not exposed".
* `riscv64/cpuid.c` (prints what the compiler defined), the Android detector (a
  multi-ISA build returns before it, `DetectSimd.cmake:21`), presets, deployment to a
  phone.
* The platform layer (`system_info.cpp`, `windows_platform.cpp`, `aligned_memory.hpp`)
  and the macOS counters: wrappers without state of their own; where they fail, the
  modules take the failure as a choice.
* How loop counts are calibrated per mix and how triple mixes are generated in the
  issue probe: the values the timer reads stand for both.
* Calls that no caller makes: `tpool_create` with an empty list, use after
  `tpool_destroy`, a `false` from `tpool_run_all`, store kernels that are null.

Remarks on accuracy.  StreamBandwidth lets the allocation fail at any size,
StreamWorksets any stream.  IssueProbe has one pair and one triple, the code has lists
of both that are handled alike.  Of the ways out of the stream measurement, those where
`tpool_run_all` returns `false` are not taken: it does so only for a pool being destroyed.
The catalogue of BenchmarkRun says nothing of which latency kernel ought to have a row, so
one that has none is a state the model reaches and no property refuses.  A row follows the frequency table only on hosts of one
core type in `timed_row`; with two types the table alone is looked at.

## 7 What could follow

* `parse_thread_pool` and the parsing of sysfs lists, as functions over short
  sequences against a reference definition.
