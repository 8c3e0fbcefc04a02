--------------------------- MODULE CycleSampling ---------------------------
(***************************************************************************)
(* How one row is timed on the worker pool, by the three compute back ends *)
(* (cpubm_run_compute of x64, riscv64, cpubm_measure_compute_time of       *)
(* arm64, on Linux and, "macos", on Apple, where the workers are the       *)
(* blocks of a dispatch group, one for each thread of the pool) and by     *)
(* measure_cache_bandwidth ("cache").  Each runs some rounds               *)
(* that are not measured and then its samples; every worker adds the core  *)
(* cycles it counted to one atomic and 1 to a second one; the caller       *)
(* decides from both, after the round, what it reports.  The pool is its   *)
(* contract, module RunAll.                                                *)
(***************************************************************************)
EXTENDS Integers, Sequences, FiniteSets, FiniteSetsExt

CONSTANTS
  Workers,
  Repeats,       \* samples of all but x64; the code has 5
  Amounts,       \* the positive cycle counts a worker may read
  Times,         \* the elapsed times a round may take; 0 below the clock's step
  LoopTimes,     \* registered loop counts
  TargetTime,    \* kTargetSeconds, in the unit of Times
  MaxLoopScale,  \* kMaxLoopScale
  MaxLoopTime    \* INT64_MAX

Backends == {"x64", "arm64", "macos", "riscv64", "cache"}

ASSUME SamplingAssumption ==
  /\ IsFiniteSet(Workers) /\ Workers # {}
  /\ Repeats \in Nat \ {0}
  /\ Amounts \subseteq Nat \ {0}
  /\ Times \subseteq Nat
  /\ LoopTimes \subseteq 1 .. MaxLoopTime
  /\ TargetTime \in Nat /\ MaxLoopScale \in Nat \ {0} /\ MaxLoopTime \in Nat

Jobs == {"warm", "probe", "place", "measure"}

VARIABLES
  backend,
  pc,             \* the caller: the round it is about to run, or is in
  round,          \* rounds started so far; 0 stands for an earlier row
  sum, samples,   \* the two atomics; sum as the set of counts added to it
  elapsed,        \* end - start of the round just finished
  loopTime,       \* loop_time of the item that is run
  bestTime, cycles,  \* the best sample so far and the counts kept with it
  wpc,            \* worker: inside the kernel, between or after the two adds
  open, job, running, finished,   \* the pool, see RunAll
  read,           \* history: what each worker counted in this round, 0: nothing
  measured        \* history: elapsed time and counts of each sample

poolVars == <<open, job, running, finished>>
atomics == <<sum, samples>>
result == <<bestTime, cycles>>
history == <<read, measured>>
vars == <<backend, pc, round, atomics, elapsed, loopTime, result, wpc,
          poolVars, history>>

Pool == INSTANCE RunAll WITH NoJob <- "none"

Rounds == 0 .. Repeats + 2
Count == [round : Rounds, worker : Workers, cycles : Amounts]
NoTime == -1
N == Cardinality(Workers)
Samples == IF backend = "x64" THEN 1 ELSE Repeats
Total(counts) == MapThenSumSet(LAMBDA c : c.cycles, counts)

Init ==
  /\ backend \in Backends
  /\ pc = "begin"
  /\ round = 0
  \* compute_cycle_sum of arm64 is global: it still holds the previous row's
  \* last sample.  The other back ends construct theirs.
  /\ \E C \in (IF backend = "arm64" THEN SUBSET Workers ELSE {{}}), a \in Amounts :
       /\ sum = {[round |-> 0, worker |-> w, cycles |-> a] : w \in C}
       /\ samples = Cardinality(C)
  /\ elapsed = 0
  /\ loopTime \in LoopTimes
  /\ bestTime = NoTime
  /\ cycles = {}
  /\ wpc = [w \in Workers |-> "out"]
  /\ read = [w \in Workers |-> 0]
  /\ measured = <<>>
  /\ Pool!Init

-----------------------------------------------------------------------------
\* The caller

Run(j) ==
  /\ Pool!Open(j)
  /\ round' = round + 1
  /\ pc' = j
  /\ read' = [w \in Workers |-> 0]
  /\ UNCHANGED <<backend, elapsed, loopTime, result, wpc, measured>>

\* A run without counters, its outcome ignored; shorter but on macOS.
WarmUp ==
  /\ backend \in {"x64", "macos", "riscv64"}
  /\ pc = "begin"
  /\ Run("warm")
  /\ UNCHANGED atomics

\* The calibration run of arm64 counts as every run does.
Probe ==
  /\ backend = "arm64"
  /\ pc = "begin"
  /\ Run("probe")
  /\ UNCHANGED atomics

\* Every worker first touches its own buffer; nothing is counted.
PlaceBuffers ==
  /\ backend = "cache"
  /\ pc = "begin"
  /\ Run("place")
  /\ UNCHANGED atomics

\* One counted pass over the buffers: the job's counters are already live.
WarmLevel ==
  /\ backend = "cache"
  /\ pc = "place" /\ ~open
  /\ Run("warm")
  /\ UNCHANGED atomics

Smaller(a, b) == IF a < b THEN a ELSE b
CeilDiv(a, b) == (a + b - 1) \div b

\* Mutant: the product of loop count and time wraps.
LoopScaleWraps(probeTime, registered) ==
  IF probeTime > 0 /\ probeTime < TargetTime
  THEN Smaller(CeilDiv(TargetTime, probeTime), MaxLoopScale) ELSE 1

\* How often to repeat the registered loop to fill the measuring window.
LoopScale(probeTime, registered) ==
  Smaller(LoopScaleWraps(probeTime, registered), MaxLoopTime \div registered)

\* arm64 scales the item once, from the probe's elapsed time.
Calibrate ==
  /\ pc = "probe" /\ ~open
  /\ loopTime' = loopTime * LoopScale(elapsed, loopTime)
  /\ pc' = "sample"
  /\ UNCHANGED <<backend, round, atomics, elapsed, result, wpc, poolVars, history>>

EndWarmUp ==
  /\ pc = "warm" /\ ~open
  /\ pc' = "sample"
  /\ UNCHANGED <<backend, round, atomics, elapsed, loopTime, result, wpc,
                 poolVars, history>>

\* Mutant: the counters run on from the warm-up.
KeepCounters == UNCHANGED atomics

\* The counters a sample starts with: two atomics of its own in x64 and
\* riscv64; in arm64 the globals and in cache the job's, stored 0.
ResetCounters ==
  /\ sum' = {}
  /\ samples' = 0

StartSample ==
  /\ pc = "sample"
  /\ Len(measured) < Samples
  /\ Run("measure")
  /\ ResetCounters

\* tpool_run_all returns; t is end - start.
RoundReturns(t) ==
  /\ Pool!Close
  /\ elapsed' = t
  /\ measured' = IF pc = "measure" THEN Append(measured, [time |-> t, read |-> read])
                                   ELSE measured
  /\ UNCHANGED <<backend, pc, round, atomics, loopTime, result, wpc, read>>

AllCounted == samples = N

\* The counts of this sample, or none unless every worker has counted.
PairedCycles == IF AllCounted THEN sum ELSE {}

\* x64 has a single sample.  A time of zero yields no result at all.
EvaluateX64 ==
  /\ backend = "x64"
  /\ IF elapsed > 0
     THEN bestTime' = elapsed /\ cycles' = PairedCycles
     ELSE UNCHANGED result

\* The first sample is taken whatever its time (best_time is 1e30 before it).
EvaluateArm64 ==
  /\ backend \in {"arm64", "macos"}
  /\ IF bestTime = NoTime \/ elapsed < bestTime
     THEN bestTime' = elapsed /\ cycles' = PairedCycles
     ELSE UNCHANGED result

\* Mutant: the shortest time with the last sample's cycles.
LatestCycles ==
  /\ backend = "riscv64"
  /\ bestTime' = IF elapsed > 0 /\ (bestTime = NoTime \/ elapsed < bestTime)
                 THEN elapsed ELSE bestTime
  /\ cycles' = PairedCycles

EvaluateRiscv64 ==
  /\ backend = "riscv64"
  /\ IF elapsed > 0 /\ (bestTime = NoTime \/ elapsed < bestTime)
     THEN bestTime' = elapsed /\ cycles' = PairedCycles
     ELSE UNCHANGED result

\* Time and cycles are minimised independently of each other.
EvaluateCache ==
  /\ backend = "cache"
  /\ bestTime' = IF elapsed > 0 /\ (bestTime = NoTime \/ elapsed < bestTime)
                 THEN elapsed ELSE bestTime
  /\ cycles' = IF AllCounted /\ (cycles = {} \/ Total(sum) < Total(cycles))
               THEN sum ELSE cycles

Evaluate ==
  /\ pc = "measure" /\ ~open
  /\ EvaluateX64 \/ EvaluateArm64 \/ EvaluateRiscv64 \/ EvaluateCache
  /\ pc' = "sample"
  /\ UNCHANGED <<backend, round, atomics, elapsed, loopTime, wpc, poolVars, history>>

Report ==
  /\ pc = "sample"
  /\ Len(measured) = Samples
  /\ pc' = "done"
  /\ UNCHANGED <<backend, round, atomics, elapsed, loopTime, result, wpc,
                 poolVars, history>>

-----------------------------------------------------------------------------
\* A worker

\* Is the job one whose cycles thread_func (or cache's worker) counts?  The
\* dispatched blocks of macOS call the kernel themselves and have no counter.
Counting(w) ==
  \/ running[w] \in {"probe", "measure"} /\ backend # "macos"
  \/ backend = "cache" /\ running[w] = "warm"

EnterKernel(w) ==
  /\ Pool!Enter(w)
  /\ wpc' = [wpc EXCEPT ![w] = "kernel"]
  /\ UNCHANGED <<backend, pc, round, atomics, elapsed, loopTime, result, history>>

\* The counter was available and has read c > 0.
AddCycles(w, c) ==
  /\ wpc[w] = "kernel"
  /\ Counting(w)
  /\ sum' = sum \cup {[round |-> round, worker |-> w, cycles |-> c]}
  /\ read' = [read EXCEPT ![w] = c]
  /\ wpc' = [wpc EXCEPT ![w] = "added"]
  /\ UNCHANGED <<backend, pc, round, samples, elapsed, loopTime, result, poolVars,
                 measured>>

CountWorker(w) ==
  /\ wpc[w] = "added"
  /\ samples' = samples + 1
  /\ wpc' = [wpc EXCEPT ![w] = "counted"]
  /\ UNCHANGED <<backend, pc, round, sum, elapsed, loopTime, result, poolVars,
                 history>>

\* Leaving without counting: no counter, a count of zero, or not a counted job.
LeaveKernel(w) ==
  /\ wpc[w] \in {"kernel", "counted"}
  /\ Pool!Leave(w)
  /\ wpc' = [wpc EXCEPT ![w] = "out"]
  /\ UNCHANGED <<backend, pc, round, atomics, elapsed, loopTime, result, history>>

-----------------------------------------------------------------------------
Done == pc = "done" /\ UNCHANGED vars

Next ==
  \/ WarmUp \/ Probe \/ PlaceBuffers \/ WarmLevel
  \/ Calibrate \/ EndWarmUp \/ StartSample \/ Evaluate \/ Report
  \/ \E t \in Times : RoundReturns(t)
  \/ \E w \in Workers :
       \/ EnterKernel(w) \/ CountWorker(w) \/ LeaveKernel(w)
       \/ \E c \in Amounts : AddCycles(w, c)
  \/ Done

Spec == Init /\ [][Next]_vars

-----------------------------------------------------------------------------
PreRounds == IF backend = "cache" THEN 2 ELSE 1

\* What the workers counted in the i-th sample, when all of them did.
CountsOf(i) ==
  {[round |-> PreRounds + i, worker |-> w, cycles |-> measured[i].read[w]] : w \in Workers}
Complete(i) == \A w \in Workers : measured[i].read[w] # 0

\* Reported hardware cycles are the counts of every worker in one and the same
\* sample: nothing of a warm-up, a probe or an earlier row is left in them and
\* no worker is missing (compute_cycle_samples == thread_num and its like).
WholeSampleReported ==
  cycles # {} => \E i \in DOMAIN measured : Complete(i) /\ cycles = CountsOf(i)

\* The times of the samples that a back end accepts.
Accepted == {measured[i].time : i \in
              {i \in DOMAIN measured : measured[i].time > 0 \/ backend \in {"arm64", "macos"}}}

\* The reported time is the smallest accepted one, and there is none only when
\* no sample was accepted; the cycles of cache are the smallest complete count.
\* "cycles_per_core comes from that same invocation, preserving a paired
\* time/cycle sample" (arm64), and so in x64 and riscv64: IPC never divides the
\* cycles of one sample by the time of another.
\* And the loop that was timed is a whole multiple of the registered one that a
\* 64-bit count can hold, whatever the probe's elapsed time.
BestSampleReported ==
  pc = "done" =>
    /\ loopTime <= MaxLoopTime /\ \E l \in LoopTimes : loopTime % l = 0
    /\ IF Accepted = {} THEN bestTime = NoTime
       ELSE bestTime \in Accepted /\ \A t \in Accepted : bestTime <= t
    /\ cycles # {} /\ backend # "cache" =>
         \E i \in DOMAIN measured : cycles = CountsOf(i) /\ measured[i].time = bestTime
    /\ backend = "cache" =>
         \A i \in DOMAIN measured :
           Complete(i) => cycles # {} /\ Total(cycles) <= Total(CountsOf(i))
=============================================================================
