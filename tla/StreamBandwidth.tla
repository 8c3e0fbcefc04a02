-------------------------- MODULE StreamBandwidth --------------------------
(***************************************************************************)
(* The stream measurement of --memory-bandwidth and of the cache tables'   *)
(* memory rows (common/cache/memory_bandwidth.cpp):                        *)
(* measure_parallel_stream_bandwidth on a pool of its own and, for a list  *)
(* of one CPU, measure_stream_bandwidth on the calling thread.  The pool   *)
(* is its contract, module RunAll.  Sizes are small naturals, the width of *)
(* an unsigned 64-bit integer being MaxSize + 1.                           *)
(***************************************************************************)
EXTENDS Integers, Sequences, FiniteSets, FiniteSetsExt, TLC

CONSTANTS
  N,             \* CPUs of the parallel measurement
  Requests,      \* worksets a caller may ask for, in bytes
  Block,         \* kernel.bytes_per_block
  MaxSize,       \* the largest std::uint64_t
  IntMax,        \* the largest inner_loop
  Repetitions

ASSUME StreamAssumption ==
  /\ N \in Nat \ {0, 1}
  /\ MaxSize \in Nat /\ IntMax \in Nat
  /\ Requests \subseteq 0 .. MaxSize
  /\ Block \in Nat \ {0}
  /\ Repetitions \in Nat \ {0}

Worker == 1 .. N
Jobs == {"initialize", "warmup", "measure"}
Stamp == [round : 0 .. Repetitions + 2, tick : 0 .. 2 * N]
Sources == {"perf", "fallback", "unavailable"}

VARIABLES
  pc,
  single,          \* is this the measurement on one CPU?
  requested, total,   \* requested_bytes, total_bytes_u64
  memory,          \* the aligned allocation
  pool,            \* the tpool_t made for this measurement
  counterAvailable,   \* one CPU: did perf_event_open succeed?
  fallback,        \* fallback_frequency_available
  samples, report,
  wpc, slice,      \* worker: position in its function, index it works on
  workerStart, workerEnd, workerCycles,   \* ParallelStreamTask
  tick, round,     \* CLOCK_MONOTONIC_RAW; ticks restart in each round
  touched,         \* history: the worker that first touched each slice,
  began, ended,    \* first start and last end of this round,
  stored,          \* the workers whose counter has stopped in this round
  open, job, running, finished   \* the pool's window, see RunAll

poolVars == <<open, job, running, finished>>
taskVars == <<wpc, slice, workerStart, workerEnd, workerCycles>>
clockVars == <<tick, round, began, ended, stored>>
request == <<single, requested, total>>
vars == <<pc, request, memory, pool, counterAvailable, fallback, samples, report,
          taskVars, clockVars, touched, poolVars>>

Pool == INSTANCE RunAll WITH Workers <- Worker, NoJob <- "none"

NoStamp == [round |-> 0, tick |-> 0]
NoReport == [source |-> "unavailable", median |-> "none"]

Init ==
  /\ pc = "validate"
  /\ single \in BOOLEAN
  /\ requested \in Requests
  /\ total = 0
  /\ memory = "none" /\ pool = "none"
  /\ counterAvailable = FALSE
  /\ fallback = FALSE
  /\ samples = <<>> /\ report = NoReport
  /\ wpc = [w \in Worker |-> "out"]
  /\ slice = [w \in Worker |-> 0]
  /\ workerStart = [w \in Worker |-> NoStamp]
  /\ workerEnd = [w \in Worker |-> NoStamp]
  /\ workerCycles = [w \in Worker |-> 0]
  /\ tick = 0 /\ round = 0 /\ began = NoStamp /\ ended = NoStamp
  /\ stored = {}
  /\ touched = [i \in 0 .. N - 1 |-> 0]
  /\ Pool!Init

-----------------------------------------------------------------------------
\* Validation and acquisition

Streams == IF single THEN 1 ELSE N
WholeBlocks(bytes) == bytes >= Block /\ bytes % Block = 0
AggregateFits(bytes) == bytes <= MaxSize \div Streams
LoopFits(bytes) == bytes \div Block <= IntMax

\* Mutant: the checks of one stream for several.
AcceptableAlone(bytes) == WholeBlocks(bytes) /\ LoopFits(bytes)
Acceptable(bytes) == AcceptableAlone(bytes) /\ AggregateFits(bytes)

Reject ==
  /\ pc = "validate"
  /\ ~Acceptable(requested)
  /\ pc' = "failed"
  /\ UNCHANGED <<request, memory, pool, counterAvailable, fallback, samples, report,
                 taskVars, clockVars, touched, poolVars>>

Allocate ==
  /\ pc = "validate"
  /\ Acceptable(requested)
  /\ total' = (requested * Streams) % (MaxSize + 1)
  /\ memory' = "held"
  /\ pc' = IF single THEN "prepare" ELSE "create"
  /\ UNCHANGED <<single, requested, pool, counterAvailable, fallback, samples, report,
                 taskVars, clockVars, touched, poolVars>>

AllocationFails ==
  /\ pc = "validate"
  /\ Acceptable(requested)
  /\ pc' = "failed"
  /\ UNCHANGED <<request, memory, pool, counterAvailable, fallback, samples, report,
                 taskVars, clockVars, touched, poolVars>>

CreatePool ==
  /\ pc = "create"
  /\ pool' = "alive"
  /\ pc' = "initialize"
  /\ UNCHANGED <<request, memory, counterAvailable, fallback, samples, report,
                 taskVars, clockVars, touched, poolVars>>

\* Mutant: the buffer is not freed.
KeepMemory == UNCHANGED memory
FreeMemory == memory' = "freed"

PoolFails ==
  /\ pc = "create"
  /\ FreeMemory
  /\ pc' = "failed"
  /\ UNCHANGED <<request, pool, counterAvailable, fallback, samples, report,
                 taskVars, clockVars, touched, poolVars>>

-----------------------------------------------------------------------------
\* The rounds of the parallel measurement

\* Mutant: a worker's cycles survive the reset.
KeepCycles == UNCHANGED workerCycles

\* task.reset clears the cycles; the time stamps of the last round stay.
ResetTask == workerCycles' = [w \in Worker |-> 0]

StartRound(j) ==
  /\ ResetTask
  /\ Pool!Open(j)
  /\ round' = round + 1
  /\ tick' = 0 /\ began' = NoStamp /\ ended' = NoStamp /\ stored' = {}
  /\ UNCHANGED <<request, memory, pool, counterAvailable, fallback, samples, report,
                 wpc, slice, workerStart, workerEnd, touched>>

Initialize == pc = "initialize" /\ pc' = "initializing" /\ StartRound("initialize")
Warmup == pc = "warmup" /\ pc' = "warming" /\ StartRound("warmup")

Measure ==
  /\ ~single
  /\ pc = "measure"
  /\ Len(samples) < Repetitions
  /\ pc' = "measuring"
  /\ StartRound("measure")

AfterRound == [initializing |-> "warmup", warming |-> "clock", measuring |-> "evaluate"]

RoundReturns ==
  /\ Pool!Close
  /\ pc' = AfterRound[pc]
  /\ UNCHANGED <<request, memory, pool, counterAvailable, fallback, samples, report,
                 taskVars, clockVars, touched>>

\* Every CPU of the list needs a clock for their sum to be of use.
FallbackClock ==
  /\ pc = "clock"
  /\ fallback' \in BOOLEAN
  /\ pc' = "measure"
  /\ UNCHANGED <<request, memory, pool, counterAvailable, samples, report,
                 taskVars, clockVars, touched, poolVars>>

Before(s, t) == s.round < t.round \/ (s.round = t.round /\ s.tick < t.tick)
Seconds(first, last) ==
  IF first.round = last.round THEN last.tick - first.tick
  ELSE (last.round - first.round) * (2 * N + 1) + last.tick - first.tick

\* From the first worker's start to the last worker's end.
ElapsedOfFirstWorker == Seconds(workerStart[1], workerEnd[1])

Elapsed ==
  LET first == CHOOSE s \in {workerStart[w] : w \in Worker} :
                 \A w \in Worker : ~Before(workerStart[w], s)
      last == CHOOSE s \in {workerEnd[w] : w \in Worker} :
                 \A w \in Worker : ~Before(s, workerEnd[w])
  IN Seconds(first, last)

AllWorkersHaveCycles == \A w \in Worker : workerCycles[w] # 0

\* Where the cycles of a sample come from.
SampleSource(haveCycles) ==
  IF haveCycles THEN "perf" ELSE IF fallback THEN "fallback" ELSE "unavailable"

Keep(sample) ==
  /\ samples' = Append(samples, sample)
  /\ pc' = "measure"
  /\ UNCHANGED <<memory, pool>>

\* An elapsed time of zero is an error: the pool is destroyed, then the memory
\* freed, of which one CPU has only the second.
GiveUp ==
  /\ pc' = "failed"
  /\ pool' = IF single THEN pool ELSE "destroyed"
  /\ FreeMemory
  /\ UNCHANGED samples

Evaluate ==
  /\ pc = "evaluate"
  /\ IF Elapsed > 0
     THEN Keep([seconds |-> Elapsed, source |-> SampleSource(AllWorkersHaveCycles)])
     ELSE GiveUp
  /\ UNCHANGED <<request, counterAvailable, fallback, report, taskVars, clockVars,
                 touched, poolVars>>

-----------------------------------------------------------------------------
\* The measurement on one CPU

Prepare ==
  /\ pc = "prepare"
  /\ fallback' \in BOOLEAN
  /\ counterAvailable' \in BOOLEAN
  /\ pc' = "measure"
  /\ UNCHANGED <<request, memory, pool, samples, report, taskVars, clockVars,
                 touched, poolVars>>

MeasureOnce(seconds, cycles) ==
  /\ single
  /\ pc = "measure"
  /\ Len(samples) < Repetitions
  /\ cycles > 0 => counterAvailable
  /\ IF seconds > 0
     THEN Keep([seconds |-> seconds, source |-> SampleSource(cycles > 0)])
     ELSE GiveUp
  /\ UNCHANGED <<request, counterAvailable, fallback, report, taskVars, clockVars,
                 touched, poolVars>>

-----------------------------------------------------------------------------
\* The report

AllSamplesHaveCycles == \A i \in DOMAIN samples : samples[i].source = "perf"

CycleSource ==
  IF AllSamplesHaveCycles THEN "perf" ELSE IF fallback THEN "fallback" ELSE "unavailable"

\* Sorted by bandwidth, that is by falling time.
Median == SortSeq(samples, LAMBDA a, b : a.seconds > b.seconds)[Len(samples) \div 2 + 1]

Report ==
  /\ pc = "measure"
  /\ Len(samples) = Repetitions
  /\ report' = [source |-> CycleSource, median |-> Median.source]
  /\ pool' = IF single THEN pool ELSE "destroyed"
  /\ FreeMemory
  /\ pc' = "reported"
  /\ UNCHANGED <<request, counterAvailable, fallback, samples, taskVars, clockVars,
                 touched, poolVars>>

-----------------------------------------------------------------------------
\* A worker

\* Mutant: slices by order of arrival.
ArrivalIndex(w) == Cardinality(finished \cup {v \in Worker : running[v] # "none"})

\* tpool_worker_index: the position of the worker in the pool.
PoolIndex(w) == w - 1

Enter(w) ==
  /\ Pool!Enter(w)
  /\ slice' = [slice EXCEPT ![w] = PoolIndex(w)]
  /\ wpc' = [wpc EXCEPT ![w] = job]
  /\ touched' = IF job = "initialize" THEN [touched EXCEPT ![PoolIndex(w)] = w] ELSE touched
  /\ UNCHANGED <<pc, request, memory, pool, counterAvailable, fallback, samples, report,
                 workerStart, workerEnd, workerCycles, clockVars>>

\* The clock is read before the kernel and after it, d ticks later than the
\* last time anyone read it.
Now(d) == [round |-> round, tick |-> tick + d]

StampStart(w, d) ==
  /\ wpc[w] = "measure"
  /\ wpc' = [wpc EXCEPT ![w] = "kernel"]
  /\ tick' = tick + d
  /\ workerStart' = [workerStart EXCEPT ![slice[w] + 1] = Now(d)]
  /\ began' = IF began = NoStamp THEN Now(d) ELSE began
  /\ UNCHANGED <<pc, request, memory, pool, counterAvailable, fallback, samples, report,
                 slice, workerEnd, workerCycles, round, ended, stored, touched, poolVars>>

StampEnd(w, d) ==
  /\ wpc[w] = "kernel"
  /\ wpc' = [wpc EXCEPT ![w] = "stamped"]
  /\ tick' = tick + d
  /\ workerEnd' = [workerEnd EXCEPT ![slice[w] + 1] = Now(d)]
  /\ ended' = Now(d)
  /\ UNCHANGED <<pc, request, memory, pool, counterAvailable, fallback, samples, report,
                 slice, workerStart, workerCycles, round, began, stored, touched, poolVars>>

\* The counter was started; it may still count nothing.
StoreCycles(w, c) ==
  /\ wpc[w] = "stamped"
  /\ wpc' = [wpc EXCEPT ![w] = "counted"]
  /\ workerCycles' = [workerCycles EXCEPT ![slice[w] + 1] = c]
  /\ stored' = IF c # 0 THEN stored \cup {w} ELSE stored
  /\ UNCHANGED <<pc, request, memory, pool, counterAvailable, fallback, samples, report,
                 slice, workerStart, workerEnd, tick, round, began, ended, touched, poolVars>>

\* A worker whose counter did not start leaves right after the second stamp.
Leave(w) ==
  /\ wpc[w] \in {"initialize", "warmup", "stamped", "counted"}
  /\ Pool!Leave(w)
  /\ wpc' = [wpc EXCEPT ![w] = "out"]
  /\ UNCHANGED <<pc, request, memory, pool, counterAvailable, fallback, samples, report,
                 slice, workerStart, workerEnd, workerCycles, clockVars, touched>>

-----------------------------------------------------------------------------
Done == pc \in {"failed", "reported"} /\ UNCHANGED vars

Next ==
  \/ Reject \/ Allocate \/ AllocationFails \/ CreatePool \/ PoolFails
  \/ Initialize \/ Warmup \/ Measure \/ RoundReturns \/ FallbackClock \/ Evaluate
  \/ Prepare \/ Report
  \/ \E s \in 0 .. 2, c \in 0 .. 1 : MeasureOnce(s, c)
  \/ \E w \in Worker :
       \/ Enter(w) \/ Leave(w)
       \/ \E d \in 0 .. 1 : StampStart(w, d) \/ StampEnd(w, d) \/ StoreCycles(w, d)
  \/ Done

Spec == Init /\ [][Next]_vars

-----------------------------------------------------------------------------
\* Every stream lies inside the allocation, whatever was asked for: the size of
\* all streams together has not wrapped (memory_bandwidth.cpp, the checks before
\* aligned_allocate).
StreamsInsideAllocation == memory = "held" => \A i \in 1 .. Streams : i * requested <= total

\* "the worker that first touches a slice is the one that streams it in every
\* later phase": NUMA node and L3 domain of a slice are those of its worker, and
\* two workers never stream the same slice at once.
FirstTouchStreams ==
  \A w \in Worker :
    /\ running[w] \in {"warmup", "measure"} => touched[slice[w]] = w
    /\ \A v \in Worker \ {w} :
         running[w] # "none" /\ running[v] # "none" => slice[w] # slice[v]

\* A kernel only runs on memory that is held and in a pool that exists, and no
\* way out leaves either behind.
ReleasedOnEveryExit ==
  /\ (\E w \in Worker : running[w] # "none") => memory = "held" /\ pool = "alive"
  /\ pc \in {"failed", "reported"} => memory # "held" /\ pool # "alive"

\* A sample is made of its own round only, though the stamps of earlier rounds
\* are never cleared: its time runs from the first start to the last end of any
\* worker in this round, and it counts as measured by perf only if every worker's
\* counter has run in this round.
SampleOfItsRound ==
  [][Len(samples') > Len(samples) /\ ~single =>
       LET sample == samples'[Len(samples')]
       IN /\ sample.seconds = ended.tick - began.tick
          /\ sample.source = "perf" => stored = Worker]_vars

=============================================================================
