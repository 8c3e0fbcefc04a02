--------------------------- MODULE FrequencyProbe ---------------------------
(***************************************************************************)
(* Where the frequency table gets its clocks from (kernel/frequency.cpp of *)
(* x64, arm64 and riscv64).  get_cpu_freq starts one thread per selected   *)
(* CPU; each binds itself, opens a cycle counter, times a kernel and goes  *)
(* down the back end's ladder of clock sources until one answers; the      *)
(* caller joins them in order, writes a row for each and keeps the clocks  *)
(* (freq) and the name of a source for the benchmarks that have no         *)
(* counter.  "macos" is the arm64 back end on Apple.                       *)
(*                                                                         *)
(* A host may have several core types, each with a performance-monitoring  *)
(* unit and a clock of its own.  0 is a clock that is not known.           *)
(***************************************************************************)
EXTENDS Integers, Sequences, FiniteSets

CONSTANTS
    Platforms,
    Selected,    \* --thread_pool, a sequence of CPUs
    Kinds,       \* core types, numbers; 1 is the fastest
    Clocks,      \* [Kinds -> clock]
    Hosts,       \* the machines, see HostAssumption
    TscClock, PowerClock,  \* what a time-stamp counter and powermetrics read
    EmptyClock,  \* the cycles between the start and the stop of a counter, over
                 \* that time, when nothing is run in between
    ChainRuns    \* elapsed times three runs of the ADD chain may have

ASSUME HostAssumption ==
    /\ Kinds \subseteq Nat \ {0} /\ 1 \in Kinds /\ Clocks \in [Kinds -> Nat \ {0}]
    /\ Selected \in Seq(Nat) /\ Selected # << >>
    /\ TscClock \in Nat \ {0} /\ PowerClock \in Nat \ {0} /\ EmptyClock \in Nat \ {0}
    /\ \A h \in Hosts :
        /\ \A i \in DOMAIN Selected : Selected[i] \in DOMAIN h.kind
        /\ \A c \in DOMAIN h.kind : h.kind[c] \in Kinds
        /\ \A c \in DOMAIN h.kind : h.reported[c] \in Nat
        /\ h.bindable \subseteq DOMAIN h.kind
        /\ h.override \in Nat /\ h.counters \in BOOLEAN /\ h.vector \in BOOLEAN
    \* an elapsed time is 0 when the clock did not advance, 2 undisturbed and
    \* more when the thread was interrupted; one run in three is not
    /\ \A run \in ChainRuns :
        /\ run \in [1..3 -> Nat]
        /\ (\A k \in 1..3 : run[k] = 0) \/ (\E k \in 1..3 : run[k] = 2)
        /\ \A k \in 1..3 : run[k] # 1

VARIABLES
    platform, host,
    stage,       \* where each thread is
    on,       \* the CPU each thread runs on
    counter,  \* the core type whose cycles each thread's counter counts
    data,     \* FrequencyData of each thread
    freq,     \* clocks kept for the benchmarks
    source,   \* freq_counter_source
    rows      \* the frequency table

clockVars == <<platform, host, stage, on, counter, data, freq, source, rows>>

Threads == DOMAIN Selected
CpusOf(h) == DOMAIN h.kind
KindOn(i) == host.kind[on[i]]
ClockOn(i) == Clocks[KindOn(i)]
Bound(i) == platform = "macos" \/ Selected[i] \in host.bindable

NoData == [reported |-> 0, shown |-> 0, clock |-> 0, source |-> "unavailable"]

ClocksInit ==
    /\ platform \in Platforms
    /\ host \in Hosts
    /\ stage = [i \in Threads |-> "spawned"]
    /\ on \in [Threads -> CpusOf(host)]  \* wherever the scheduler started them
    /\ counter = [i \in Threads |-> 0]
    /\ data = [i \in Threads |-> NoData]
    /\ freq = [i \in Threads |-> 0]
    /\ source = "unavailable"
    /\ rows = << >>

-----------------------------------------------------------------------------
(* A thread.  It shares nothing with the others until it is joined.        *)

At(i, p) == stage[i] = p
Goto(i, p) == stage' = [stage EXCEPT ![i] = p]
Keep == UNCHANGED <<platform, host, freq, source, rows>>

\* Mutant: a plain cycles event, which binds to the first PMU of the host.
PlainEvent(cpu) == 1

\* perf_cycles_config_for_current_cpu: the PMU that covers this CPU.
CyclesEvent(cpu) == host.kind[cpu]

\* riscv64 constructs its counter before it binds the thread.
OpenEarly(i) ==
    /\ platform = "riscv64" /\ At(i, "spawned")
    /\ counter' = [counter EXCEPT ![i] = CyclesEvent(on[i])]
    /\ Goto(i, "unbound")
    /\ UNCHANGED <<on, data>> /\ Keep

\* Apple does not bind a thread, it asks for a fast core, which is taken to be
\* given; elsewhere a thread that cannot be bound goes on with a warning.
Bind(i) ==
    /\ At(i, IF platform = "riscv64" THEN "unbound" ELSE "spawned")
    /\ \E cpu \in CpusOf(host) :
        /\ CASE platform = "macos" -> host.kind[cpu] = 1
             [] platform # "macos" ->
                    cpu = IF Selected[i] \in host.bindable THEN Selected[i] ELSE on[i]
        /\ on' = [on EXCEPT ![i] = cpu]
    /\ data' = [data EXCEPT ![i].reported = host.reported[Selected[i]]]
    /\ Goto(i, IF platform = "riscv64" THEN "count" ELSE "open")
    /\ UNCHANGED counter /\ Keep

Open(i) ==
    /\ At(i, "open")
    /\ counter' = [counter EXCEPT ![i] = CyclesEvent(on[i])]
    /\ Goto(i, "count")
    /\ UNCHANGED <<on, data>> /\ Keep

\* sched_setaffinity has failed: the scheduler moves the thread as it likes, also
\* between opening the counter and the timed kernel.
Migrate(i) ==
    /\ ~Bound(i) /\ stage[i] \notin {"done", "joined"}
    /\ \E cpu \in CpusOf(host) : on' = [on EXCEPT ![i] = cpu]
    /\ UNCHANGED <<stage, counter, data>> /\ Keep

Counts(i) == host.counters /\ counter[i] = KindOn(i)

\* The clocks the counter of a timed kernel may come to.  A counter of another
\* core type reads 0; of a thread that moves to or from one during the kernel,
\* any part of the cycles, which 1 stands for.
Readings(i) ==
    {IF Counts(i) THEN ClockOn(i) ELSE 0} \cup
    {part \in {1} : /\ host.counters /\ ~Bound(i)
                    /\ \E cpu \in CpusOf(host) : host.kind[cpu] # counter[i]}

\* A measured clock is shown; a supplied or reported one only divides.
Measured(i, clock, from) ==
    data' = [data EXCEPT ![i].shown = clock, ![i].clock = clock, ![i].source = from]
Assumed(i, clock, from) ==
    data' = [data EXCEPT ![i].clock = clock, ![i].source = from]
CountCycles(i) ==
    /\ At(i, "count") /\ platform # "riscv64"
    /\ \E clock \in Readings(i) :
        IF clock > 0
        THEN Measured(i, clock, "counted") /\ Goto(i, "done")
        ELSE UNCHANGED data /\ Goto(i, "override")
    /\ UNCHANGED <<on, counter>> /\ Keep

\* Without vectors riscv64 runs no kernel between start and stop.
RiscvReadings(i) ==
    IF host.vector THEN Readings(i)
    ELSE {0} \cup {empty \in {EmptyClock} : host.counters}

\* The row is labelled by a second counter, opened for the load kernel, which
\* needs vectors.  It reads nothing if the thread moves to another core type.
RiscvLabels(i) ==
    {IF host.vector /\ host.counters THEN "counted" ELSE "reported"} \cup
    {moved \in {"reported"} : ~Bound(i)}

\* riscv64 has two sources and shows the clock of either.
CountRiscv(i) ==
    /\ At(i, "count") /\ platform = "riscv64"
    /\ \E clock \in RiscvReadings(i), label \in RiscvLabels(i) :
        Measured(i, IF clock > 0 THEN clock ELSE data[i].reported, label)
    /\ Goto(i, "done")
    /\ UNCHANGED <<on, counter>> /\ Keep

\* CPUFB_FREQ_GHZ, if it is a positive number.
Override(i) ==
    /\ At(i, "override")
    /\ IF host.override > 0
       THEN Assumed(i, host.override, "override") /\ Goto(i, "done")
       ELSE UNCHANGED data /\ Goto(i, "chain")
    /\ UNCHANGED <<on, counter>> /\ Keep

Positive(run) == {run[k] : k \in {k \in 1..3 : run[k] > 0}}

\* Mutant: the last run decides.
LastElapsed(run) == run[3]

\* The best of three; interruptions only lengthen a run.  0 if none advanced.
BestElapsed(run) ==
    IF Positive(run) = {} THEN 0
    ELSE CHOOSE t \in Positive(run) : \A u \in Positive(run) : t <= u

\* One dependent ADD retires per cycle: the clock is the length of the chain
\* over the elapsed time, in units in which an undisturbed run takes 2.
ChainClock(i, elapsed) == IF elapsed = 0 THEN 0 ELSE (2 * ClockOn(i)) \div elapsed

AddChain(i) ==
    /\ At(i, "chain")
    /\ \E run \in ChainRuns :
        LET clock == ChainClock(i, BestElapsed(run)) IN
        IF clock > 0
        THEN Measured(i, clock, "chain") /\ Goto(i, "done")
        ELSE UNCHANGED data /\ Goto(i, "estimate")
    /\ UNCHANGED <<on, counter>> /\ Keep

\* x64: the invariant time-stamp counter; macOS: a powermetrics sample, if the
\* user may take one.  arm64 elsewhere has neither.
Estimate(i) ==
    /\ At(i, "estimate")
    /\ \/ platform = "x64" /\ Measured(i, TscClock, "tsc") /\ Goto(i, "done")
       \/ platform = "macos" /\ Measured(i, PowerClock, "powermetrics") /\ Goto(i, "done")
       \/ UNCHANGED data /\ Goto(i, "reported")
    /\ UNCHANGED <<on, counter>> /\ Keep

ReportedClock(i) ==
    /\ At(i, "reported")
    /\ IF data[i].reported > 0
       THEN Assumed(i, data[i].reported, "reported")
       ELSE UNCHANGED data
    /\ Goto(i, "done")
    /\ UNCHANGED <<on, counter>> /\ Keep

-----------------------------------------------------------------------------
(* The caller                                                              *)

\* "; reported maximum not sustained under load", below 85 percent of it.
Unsustained(d) == d.reported > 0 /\ d.shown > 0 /\ 100 * d.shown < 85 * d.reported

Row(i) == [thread |-> i, reported |-> data[i].reported, shown |-> data[i].shown,
           ipc |-> data[i].clock > 0, source |-> data[i].source,
           unsustained |-> platform # "riscv64" /\ Unsustained(data[i])]

Joined == Cardinality({i \in Threads : At(i, "joined")})

\* The named source is that of the first clock, which normalizes the rest.
\* riscv64 names none.
NameFirst(i) ==
    IF i = 1 /\ platform # "riscv64" THEN source' = data[i].source ELSE UNCHANGED source

Join(i) ==
    /\ platform # "macos"
    /\ i = Joined + 1 /\ At(i, "done")
    /\ freq' = [freq EXCEPT ![i] = data[i].clock]
    /\ NameFirst(i)
    /\ rows' = Append(rows, Row(i))
    /\ Goto(i, "joined")
    /\ UNCHANGED <<platform, host, on, counter, data>>

\* The threads of macOS are samples of the same cores: one row, of the last.
JoinMacos(i) ==
    /\ platform = "macos"
    /\ i = Joined + 1 /\ At(i, "done")
    /\ IF i = Len(Selected)
       THEN /\ freq' = [freq EXCEPT ![1] = data[i].clock]
            /\ source' = data[i].source
            /\ rows' = Append(rows, Row(i))
       ELSE UNCHANGED <<freq, source, rows>>
    /\ Goto(i, "joined")
    /\ UNCHANGED <<platform, host, on, counter, data>>

ClocksDone == Joined = Len(Selected) /\ UNCHANGED clockVars

ClocksNext ==
    \/ \E i \in Threads :
        \/ OpenEarly(i) \/ Bind(i) \/ Migrate(i) \/ Open(i) \/ CountCycles(i) \/ CountRiscv(i)
        \/ Override(i) \/ AddChain(i) \/ Estimate(i) \/ ReportedClock(i)
        \/ Join(i) \/ JoinMacos(i)
    \/ ClocksDone

ClocksSpec == ClocksInit /\ [][ClocksNext]_clockVars

-----------------------------------------------------------------------------
\* "Only measured clocks are shown as Test Freq", and a clock measured on a
\* bound thread is that of the core the row is about, whatever interrupted the
\* runs and whatever clock the other core types have; a time-stamp counter and
\* a powermetrics sample are estimates and say so.
ShownClockIsOfItsCore ==
    platform # "riscv64" =>
        \A k \in DOMAIN rows :
            LET row == rows[k] IN
            /\ row.shown > 0 <=> row.source \in {"counted", "chain", "tsc", "powermetrics"}
            /\ row.source \in {"counted", "chain"} /\ Bound(row.thread) =>
                   row.shown = Clocks[IF platform = "macos" THEN 1
                                      ELSE host.kind[Selected[row.thread]]]

\* Where counters may be read they are, for every thread that could be bound,
\* whatever the core type it is bound to (perf_pmu.hpp: a plain event "opens
\* without error and counts nothing" on all but the first): neither the override
\* nor an estimate is used.  A thread that migrates may count nothing.
CountedWherePermitted ==
    host.counters /\ platform # "riscv64" =>
        \A k \in DOMAIN rows : Bound(rows[k].thread) => rows[k].source = "counted"

\* README.md:214, of a host whose counters may not be read: with the OS-reported
\* frequency "`Test Freq` stays `-` and the source reads `OS-reported frequency
\* (not measured)`".
ReportedClockNotShown ==
    ~host.counters =>
        \A k \in DOMAIN rows : rows[k].source = "reported" => rows[k].shown = 0
=============================================================================
