------------------------------ MODULE TimedRow ------------------------------
(***************************************************************************)
(* A frequency table and a row timed after it, as one invocation makes     *)
(* them: get_cpu_freq fills the clocks (freq) of the selected CPUs, then a *)
(* row is timed on the pool and its time turned into instructions per      *)
(* cycle, by the cycles its workers counted or, where they could not, by   *)
(* the clocks of the table.                                                *)
(***************************************************************************)
EXTENDS CycleSampling, FrequencyProbe

CONSTANTS
    RowFollows(_),       \* the hosts on which a row is timed after the table
    Beside(_, _, _, _, _) \* which starts are looked at together

\* tpool_create(set_of_threads) of riscv64: a worker for each selected CPU.
ASSUME RowAssumption == "riscv64" \in Platforms => Cardinality(Workers) = Len(Selected)

VARIABLE ipc  \* what the row's instructions are divided by, and from where

timedVars == <<clockVars, vars, ipc>>

NoIpc == [from |-> "none", cycles |-> 0, cores |-> 0]

TimedInit ==
    /\ ClocksInit
    /\ Init
    /\ backend \in {platform, "cache"}  \* a compute row or one of cache bandwidth
    /\ Beside(platform, host, on, backend, loopTime)
    /\ ipc = NoIpc

TableDone == Joined = Len(Selected)

MakeTable == ~TableDone /\ ClocksNext /\ UNCHANGED <<vars, ipc>>

\* Who cannot read counters for the frequency cannot read them in a kernel, and
\* no kernel of macOS does.
TimeRow ==
    /\ TableDone /\ RowFollows(host)
    /\ Next
    /\ ~host.counters \/ platform = "macos" => \A w \in Workers : read'[w] = 0
    /\ UNCHANGED <<clockVars, ipc>>

Known == {i \in Threads : freq[i] > 0}
SumOfClocks == MapThenSumSet(LAMBDA i : freq[i], Known)

\* Mutant: the mean over all selected cores.
MeanOverAll == [clock |-> SumOfClocks, cores |-> Len(Selected)]

\* append_load_bandwidth_row: "the mean over the measured cores (macOS fills one)"
MeanClock == [clock |-> SumOfClocks, cores |-> Cardinality(Known)]

\* x64 and arm64 divide a worker's instructions by the first clock, riscv64
\* those of all workers by all clocks.
Estimator ==
    CASE backend = "cache"   -> MeanClock
      [] backend = "riscv64" -> [clock |-> SumOfClocks, cores |-> N]
      [] OTHER               -> [clock |-> freq[1], cores |-> 1]

Normalize ==
    /\ pc = "done" /\ bestTime > 0 /\ ipc = NoIpc
    /\ IF cycles # {}
       THEN ipc' = [from |-> "counted", cycles |-> Total(cycles), cores |-> N]
       ELSE /\ Estimator.clock > 0
            /\ ipc' = [from |-> "estimated", cycles |-> bestTime * Estimator.clock,
                       cores |-> Estimator.cores]
    /\ UNCHANGED <<clockVars, vars>>

Finished == TableDone /\ UNCHANGED timedVars

TimedNext == MakeTable \/ TimeRow \/ Normalize \/ Finished

TimedSpec == TimedInit /\ [][TimedNext]_timedVars

-----------------------------------------------------------------------------
\* Was the clock of a thread measured on the core it ran on?  The source that
\* riscv64 names is that of another counter.
ClockMeasured(i) ==
    IF platform = "riscv64" THEN host.vector /\ Counts(i)
    ELSE data[i].source \in {"counted", "chain"}

\* No clock is known of this core.  macOS has one for all; riscv64 takes its
\* compute rows to have every one.
Missing(i) == freq[i] = 0 /\ platform # "macos" /\ backend # "riscv64"

\* On cores of one type whose clocks were measured, those that are known at all,
\* a row without counters is divided by the cycles one of its cores spent in the
\* best sample: every rule for the fallback clock must come to this, though freq
\* has one entry on macOS and one for each core elsewhere, some of them 0
\* (README.md:201, benchmark_tables.cpp:103).
EstimateIsPerCore ==
    ipc.from = "estimated" =>
        LET type == IF platform = "macos" THEN 1 ELSE host.kind[Selected[1]] IN
        (\A i \in Threads :
            Missing(i) \/ (Bound(i) /\ KindOn(i) = type /\ ClockMeasured(i))) =>
                ipc.cycles = ipc.cores * bestTime * Clocks[type]
=============================================================================
