------------------------- MODULE BenchmarkRunProofs -------------------------
(***************************************************************************)
(* The command line and the benchmark driver, for every list of arguments, *)
(* every catalogue of rows and any number of threads: what is selected is  *)
(* what the documentation says, the row loop obeys it, a latency kernel    *)
(* serves one row, and success means that all that was asked for was       *)
(* measured, printed and saved.  The invariant is built in layers: types,  *)
(* what the options remember of the arguments, where the driver is and     *)
(* what it holds there, how far the row loop has come, and what has been   *)
(* measured and reported by then.                                          *)
(***************************************************************************)
EXTENDS BenchmarkRun, FiniteSetTheorems, SequenceTheorems, TLAPS

\* What the options take of text, what they start from and what a mode adds.
Words == STRING \cup {"unset", "", "off"} \cup Tests

Options ==
    [threads : Words, mode : Modes, modeExplicit : BOOLEAN,
     includeTest : SUBSET Words, includeExplicit : BOOLEAN,
     excludeTest : SUBSET STRING, includeIsa : SUBSET STRING,
     excludeIsa : SUBSET STRING, list : BOOLEAN, sweep : Words,
     memory : BOOLEAN, memorySize : BOOLEAN, scaled : BOOLEAN, limit : Nat,
     save : Words]

CliTypes ==
    /\ backend \in Backends
    /\ phase \in {"parse", "main", "memory", "sweep", "bench", "exit"}
    /\ given \subseteq Args
    /\ options \in Options
    /\ exit \in {"running", "success", "failure"}

\* What --include-test and --mode come to after the last argument.
Resolved ==
    IF Gave("mode") /\ options.mode = "all" THEN {}
    ELSE IF ~Gave("include-test") /\ options.mode # "all" THEN ModeTests[options.mode]
    ELSE GivenNames("include-test")

\* What the options remember of the arguments.
Remembered ==
    phase # "exit" =>
        /\ options.excludeTest = GivenNames("exclude-test")
        /\ options.modeExplicit <=> Gave("mode")
        /\ \A a \in given : a.option = "mode" => a.value = options.mode
        /\ ~Gave("mode") => options.mode = "all"
        /\ phase = "parse" => /\ options.includeTest = GivenNames("include-test")
                              /\ options.includeExplicit <=> Gave("include-test")
        /\ phase # "parse" => options.includeTest = Resolved
        /\ phase \in {"sweep", "bench"} => FilterValid

CliInvariant == CliTypes /\ Remembered

Steps == {"start", "warmup", "frequency", "cache", "capacities", "issue", "pool",
          "riscvLoad", "riscvIssue", "rows", "record", "print", "destroy",
          "create", "measure", "done"}

RunTypes ==
    /\ step \in Steps
    /\ tables \in {"none", "held", "freed"}
    /\ pools \subseteq {"bench", "sweep"}
    /\ capacities \in BOOLEAN
    /\ measured \subseteq Tests
    /\ next \in Nat \ {0}
    /\ benchesRun \in Nat
    /\ rows \in Seq([item : Nat \ {0}, latency : Nat])
    /\ invocations \in BOOLEAN
    /\ migration \in {"pending", "observed", "not observed"}
    /\ printed \in SUBSET (Tests \cup {"instruction_sweep", "memory"})
    /\ cores \in Nat \ {0}
    /\ sweepTable \in Nat

Last4 == {"rows", "record", "print", "destroy"}

\* The steps of the driver of each back end.
DriverSteps ==
    CASE backend = "x64"     -> {"start", "frequency", "cache", "capacities", "issue", "pool"}
      [] backend = "arm64"   -> {"start", "warmup", "frequency", "cache", "capacities",
                                 "issue", "pool"}
      [] backend = "riscv64" -> {"start", "pool", "frequency", "cache", "riscvLoad",
                                 "riscvIssue"}

\* Those at which the pool has not been made.
BeforePool == IF backend = "riscv64" THEN {"start", "pool"} ELSE DriverSteps

\* Where the program is and what it holds there.
Control ==
    /\ step = "start" =>
           /\ tables = "none" /\ pools = {} /\ measured = {} /\ next = 1
           /\ benchesRun = 0 /\ rows = << >> /\ cores = 1 /\ sweepTable = 0
    /\ phase \in {"parse", "main", "memory"} => step = "start"
    /\ phase # "exit" => step # "done" /\ tables # "freed" /\ exit = "running"
    /\ phase # "exit" /\ step # "destroy" => printed = {} /\ saved = NotSaved
    /\ phase = "bench" =>
           /\ step \in DriverSteps \cup Last4
           /\ tables = IF step = "start" THEN "none" ELSE "held"
           /\ pools = IF step \in BeforePool THEN {} ELSE {"bench"}
    /\ phase = "sweep" =>
           /\ step \in {"start", "create", "measure"}
           /\ tables = "none"
           /\ pools = IF step = "measure" THEN {"sweep"} ELSE {}
           /\ step # "start" => next \in Matches
           /\ cores = sweepTable + 1 /\ Len(rows) = sweepTable
           /\ step = "create" => cores <= Threads + 1
           /\ step = "measure" => cores <= Threads
           /\ \A i \in DOMAIN rows : rows[i].item = next
    /\ phase = "exit" /\ tables = "none" =>
           \A i \in DOMAIN rows : rows[i].item = next /\ next \in Matches

\* How far the row loop has come.
Progress ==
    /\ tables # "none" =>
        /\ next <= Len(Items) + 1
        /\ benchesRun = Len(rows)
        /\ \A i \in DOMAIN rows : rows[i].item \in Runnable /\ rows[i].item < next
        /\ IsFiniteSet(RowItems) /\ Len(rows) = Cardinality(RowItems)
        /\ \A j \in Runnable : j < next => j \in RowItems
        /\ options.limit > 0 => Len(rows) <= options.limit
        /\ \A i \in DOMAIN rows : Item(rows[i].item).test \in measured
        /\ step \in {"record", "print", "destroy"} => next > Len(Items) \/ LimitReached
        /\ step = "done" => printed = {} \/ next > Len(Items) \/ LimitReached
    /\ \A i \in DOMAIN rows : rows[i].latency = Pair(rows[i].item)

\* Where a back end still has to go when the frequency, the cache latencies and
\* the issue width are known; riscv64 makes its pool before all of them.
LatePool == IF backend = "riscv64" THEN {} ELSE {"pool"}
AfterIssue == LatePool \cup Last4
AfterCache == {"capacities", "issue", "riscvLoad", "riscvIssue"} \cup AfterIssue
AfterFrequency == {"cache"} \cup AfterCache

\* What has been measured and reported by then.
Reports ==
    phase = "bench" =>
        /\ step \in AfterFrequency /\ ShouldRunTest("freq") => "freq" \in measured
        /\ step \in AfterCache /\ ShouldRunTest("cache") => "cache" \in measured
        /\ step \in AfterIssue /\ ShouldRunTest("multi_issue") =>
               "multi_issue" \in measured
        /\ step \in {"print", "destroy"} => migration = MigrationEntry
        /\ step = "destroy" =>
               /\ printed = Selected
               /\ saved = IF options.save = "path"
                          THEN [sections |-> Selected, migration |-> migration] ELSE NotSaved

RunInvariant ==
    /\ CliInvariant /\ RunTypes /\ Control /\ Progress /\ Reports /\ SuccessMeansReported

-----------------------------------------------------------------------------
(* The options.                                                            *)

LEMMA WellFormed ==
    ASSUME NEW a \in Args, ~Malformed(a)
    PROVE  \/ a.option \in Filters /\ a.names \in SUBSET STRING
           \/ a.option \in Numbers /\ a.number \in Nat
           \/ /\ a.option \in Texts /\ a.option # "unknown" /\ a.value \in STRING
              /\ a.option = "mode" => a.value \in Modes
<1>1. ~("value" \in DOMAIN a /\ a.value = "malformed") /\ a.option # "unknown"
  BY DEF Malformed, UnknownOption
<1>2. \/ a.option \in Filters /\ a.names \in SUBSET STRING
      \/ a.option \in Numbers /\ a.number \in Nat
      \/ /\ a.option \in Texts /\ DOMAIN a = {"option", "value"} /\ a.value \in STRING
         /\ a.option = "mode" => a.value \in Modes \cup {"malformed"}
      \/ DOMAIN a = {"option", "value"} /\ a.option \in STRING /\ a.value = "malformed"
  BY CommandLineAssumption
<1> QED BY <1>1, <1>2

\* A well-formed argument leaves well-formed options.
LEMMA ApplyTyped ==
    ASSUME NEW o \in Options, NEW a \in Args, ~Malformed(a)
    PROVE  /\ Apply(o, a) \in Options
           /\ a.option = "mode" => Apply(o, a).modeExplicit /\ Apply(o, a).mode = a.value
           /\ a.option # "mode" => /\ Apply(o, a).modeExplicit = o.modeExplicit
                                   /\ Apply(o, a).mode = o.mode
           /\ a.option = "include-test" =>
                  /\ Apply(o, a).includeTest = o.includeTest \cup a.names
                  /\ Apply(o, a).includeExplicit
           /\ a.option # "include-test" =>
                  /\ Apply(o, a).includeTest = o.includeTest
                  /\ Apply(o, a).includeExplicit = o.includeExplicit
           /\ Apply(o, a).excludeTest =
                  IF a.option = "exclude-test" THEN o.excludeTest \cup a.names
                  ELSE o.excludeTest
<1>1. CASE a.option \in Filters /\ a.names \in SUBSET STRING
  <2>1. CASE a.option = "include-test"
    BY <1>1, <2>1 DEF Apply, Options, Words
  <2>2. CASE a.option = "exclude-test"
    BY <1>1, <2>2 DEF Apply, Options
  <2>3. CASE a.option = "include-isa"
    BY <1>1, <2>3 DEF Apply, Options
  <2>4. CASE a.option = "exclude-isa"
    BY <1>1, <2>4 DEF Apply, Options
  <2> QED BY <1>1, <2>1, <2>2, <2>3, <2>4 DEF Filters
<1>2. CASE a.option \in Numbers /\ a.number \in Nat
  <2>1. CASE a.option = "loop_scale"
    <3>1. CASE a.number > 1
      <4>1. Apply(o, a) = [o EXCEPT !.scaled = TRUE] BY <2>1, <3>1 DEF Apply
      <4> QED BY <2>1, <4>1 DEF Options
    <3>2. CASE ~(a.number > 1)
      <4> DEFINE b == a.number > 1
      <4>0. b = FALSE BY <3>2
      <4>2. Apply(o, a) = [o EXCEPT !.scaled = b] BY <2>1 DEF Apply
      <4> HIDE DEF b
      <4>1. Apply(o, a) = [o EXCEPT !.scaled = FALSE] BY <4>0, <4>2
      <4> QED BY <2>1, <4>1 DEF Options
    <3> QED BY <3>1, <3>2
  <2>2. CASE a.option = "bench_limit"
    BY <1>2, <2>2 DEF Apply, Options
  <2> QED BY <1>2, <2>1, <2>2 DEF Numbers
<1>3. CASE /\ a.option \in Texts /\ a.option # "unknown" /\ a.value \in STRING
           /\ a.option = "mode" => a.value \in Modes
  <2>1. CASE a.option = "thread_pool"
    BY <1>3, <2>1 DEF Apply, Options, Words
  <2>2. CASE a.option = "mode"
    BY <1>3, <2>2 DEF Apply, Options
  <2>3. CASE a.option = "list"
    BY <1>3, <2>3 DEF Apply, Options
  <2>4. CASE a.option = "sweep-instruction"
    BY <1>3, <2>4 DEF Apply, Options, Words
  <2>5. CASE a.option = "memory-bandwidth"
    BY <1>3, <2>5 DEF Apply, Options
  <2>6. CASE a.option = "memory-size-mib"
    BY <1>3, <2>6 DEF Apply, Options
  <2>7. CASE a.option = "save"
    BY <1>3, <2>7 DEF Apply, Options, Words
  <2> QED BY <1>3, <2>1, <2>2, <2>3, <2>4, <2>5, <2>6, <2>7 DEF Texts
<1> QED BY <1>1, <1>2, <1>3, WellFormed

\* The driver leaves the options alone; all it does to the command line is exit.
LEMMA DriverKeepsOptions ==
    ASSUME [Next]_vars, ~(CliNext /\ UNCHANGED runVars)
    PROVE  /\ UNCHANGED <<backend, given, options>>
           /\ \/ UNCHANGED <<phase, exit>>
              \/ phase' = "exit" /\ exit' \in {"success", "failure"} /\ phase # "exit"
<1>1. CASE CreateTables \/ Warmup \/ MeasureFrequency \/ PrepareCapacities \/ IssueProbe
             \/ CreatePool \/ RowsDone \/ RecordMigration \/ PrintAndSave
  BY <1>1 DEF CreateTables, Warmup, MeasureFrequency, PrepareCapacities, IssueProbe,
     CreatePool, RowsDone, RecordMigration, PrintAndSave, Go, cliVars
<1>2. CASE RiscvLoad \/ RiscvIssue \/ (\E found \in BOOLEAN : MeasureCache(found))
  BY <1>2 DEF RiscvLoad, RiscvIssue, RiscvStream, MeasureCache, Go, cliVars
<1>3. CASE SkipRow \/ RunRow \/ SweepPrepare \/ SweepCreatePool \/ SweepMeasure
  BY <1>3 DEF SkipRow, RunRow, SweepPrepare, SweepCreatePool, SweepMeasure, cliVars
<1>4. CASE WarmupFails \/ PoolFails
  BY <1>4 DEF WarmupFails, PoolFails, GiveUp, Exit, At
<1>5. CASE SweepRefused \/ SweepFails
  BY <1>5 DEF SweepRefused, SweepFails, Exit, AtSweep
<1>6. CASE Finish \/ SweepSave \/ (\E ok \in BOOLEAN : MemoryRun(ok))
  BY <1>6 DEF Finish, SweepSave, MemoryRun, Exit, At, AtSweep, SaveStatus
<1>7. CASE Done \/ UNCHANGED vars
  BY <1>7 DEF Done, vars, cliVars
<1> QED BY <1>1, <1>2, <1>3, <1>4, <1>5, <1>6, <1>7 DEF Next

LEMMA CliInit0 == Init => CliInvariant
<1> SUFFICES ASSUME Init PROVE CliInvariant
  OBVIOUS
<1>1. options \in Options
  <2>1. {} \in SUBSET STRING /\ {} \in SUBSET Words OBVIOUS
  <2>2. "all" \in Modes BY DEF Modes
  <2>3. DefaultOptions \in Options BY <2>1, <2>2 DEF DefaultOptions, Options, Words
  <2> QED BY <2>3 DEF Init, CliInit
<1>2. CliTypes
  BY <1>1 DEF Init, CliInit, CliTypes
<1>3. Remembered
  BY DEF Init, CliInit, DefaultOptions, Remembered, GivenNames, Gave
<1> QED BY <1>2, <1>3 DEF CliInvariant

LEMMA ParseKeepsCli ==
    ASSUME CliInvariant, NEW a \in Args, ParseArgument(a)
    PROVE  CliInvariant'
<1> USE DEF CliInvariant
<1>1. CASE Malformed(a)
  BY <1>1 DEF ParseArgument, Exit, CliTypes, Remembered
<1>2. CASE ~Malformed(a)
  <2>1. /\ phase = "parse" /\ options' = Apply(options, a)
        /\ given' = {g \in given : a.option # "mode" \/ g.option # "mode"} \cup {a}
        /\ UNCHANGED <<backend, phase, exit>>
    BY <1>2 DEF ParseArgument
  <2>2. CliTypes'
    BY <1>2, <2>1, ApplyTyped DEF CliTypes
  <2>3. GivenNames("include-test")' =
            IF a.option = "include-test" THEN GivenNames("include-test") \cup a.names
            ELSE GivenNames("include-test")
    BY <2>1 DEF GivenNames
  <2>4. GivenNames("exclude-test")' =
            IF a.option = "exclude-test" THEN GivenNames("exclude-test") \cup a.names
            ELSE GivenNames("exclude-test")
    BY <2>1 DEF GivenNames
  <2>5. /\ Gave("mode")' <=> Gave("mode") \/ a.option = "mode"
        /\ Gave("include-test")' <=> Gave("include-test") \/ a.option = "include-test"
    <3>1. \A n : n # "mode" \/ a.option = "mode" =>
              ((\E g \in given' : g.option = n) <=> (\E g \in given : g.option = n) \/ a.option = n)
      BY <2>1
    <3>2. (\E g \in given' : g.option = "mode") <=> (\E g \in given : g.option = "mode") \/ a.option = "mode"
      BY <2>1
    <3> QED BY <3>1, <3>2 DEF Gave
  <2>6. \A g \in given' : g.option = "mode" => g.value = options'.mode
    <3>1. CASE a.option = "mode"
      <4>1. \A g \in given' : g.option = "mode" => g = a BY <2>1, <3>1
      <4>2. options'.mode = a.value BY <1>2, <2>1, <3>1, ApplyTyped DEF CliTypes
      <4> QED BY <4>1, <4>2
    <3>2. CASE a.option # "mode"
      <4>1. \A g \in given' : g.option = "mode" => g \in given BY <2>1, <3>2
      <4>2. options'.mode = options.mode BY <1>2, <2>1, <3>2, ApplyTyped DEF CliTypes
      <4> QED BY <2>1, <4>1, <4>2 DEF Remembered
    <3> QED BY <3>1, <3>2
  <2>7. Remembered'
    BY <1>2, <2>1, <2>3, <2>4, <2>5, <2>6, ApplyTyped DEF CliTypes, Remembered
  <2> QED BY <2>2, <2>7
<1> QED BY <1>1, <1>2

LEMMA ModeResolved ==
    ASSUME NEW o, ~(o.modeExplicit /\ o.mode = "all"), ~o.includeExplicit, o.mode # "all"
    PROVE  ResolveMode(o) = [o EXCEPT !.includeTest = @ \cup ModeTests[o.mode]]
BY DEF ResolveMode

LEMMA EndKeepsCli == ASSUME CliInvariant, EndOfArguments PROVE CliInvariant'
<1> USE DEF CliInvariant
<1>1. CASE phase' = "exit"
  BY <1>1 DEF EndOfArguments, Exit, CliTypes, Remembered
<1>2. CASE phase' # "exit"
  <2>1. options' = ResolveMode(options) /\ phase' = "main" /\ UNCHANGED <<backend, given, exit>>
    BY <1>2 DEF EndOfArguments, Exit
  <2>2. /\ UNCHANGED <<Gave("mode"), Gave("include-test"), GivenNames("include-test")>>
        /\ UNCHANGED GivenNames("exclude-test")
    BY <2>1 DEF Gave, GivenNames
  <2>3. options' \in Options /\ options'.includeTest = Resolved /\ options'.mode = options.mode
        /\ options'.modeExplicit = options.modeExplicit
        /\ options'.excludeTest = options.excludeTest
    <3>0. /\ options \in Options /\ phase = "parse"
          /\ options.includeTest = GivenNames("include-test")
          /\ options.includeExplicit <=> Gave("include-test")
          /\ options.modeExplicit <=> Gave("mode")
          /\ ~Gave("mode") => options.mode = "all"
      BY DEF EndOfArguments, CliTypes, Remembered
    <3>1. CASE options.modeExplicit /\ options.mode = "all"
      <4>1. options' = [options EXCEPT !.includeTest = {}, !.includeExplicit = FALSE]
        BY <2>1, <3>1 DEF ResolveMode
      <4>2. Resolved = {} BY <3>0, <3>1 DEF Resolved
      <4> HIDE DEF EndOfArguments
      <4> QED BY <3>0, <4>1, <4>2 DEF Options
    <3>2. CASE ~(options.modeExplicit /\ options.mode = "all") /\ ~options.includeExplicit
               /\ options.mode # "all"
      <4>1. options' = [options EXCEPT !.includeTest = @ \cup ModeTests[options.mode]]
        <5>1. options' = ResolveMode(options) BY <2>1
        <5>2. ~options.includeExplicit BY <3>2
        <5>3. options.mode # "all" BY <3>2
        <5>4. ~(options.modeExplicit /\ options.mode = "all") BY <5>3
        <5> QED BY ONLY <5>1, <5>2, <5>3, <5>4, ModeResolved
      <4>2. ModeTests[options.mode] \in SUBSET Words
        <5>1. options.mode \in {"cache", "compute"} BY <3>0, <3>2 DEF Options, Modes
        <5>2. ModeTests["cache"] \subseteq Words /\ ModeTests["compute"] \subseteq Words
          BY DEF ModeTests, Words, Tests
        <5> QED BY <5>1, <5>2
      <4>3. Resolved = ModeTests[options.mode] BY <3>0, <3>2 DEF Resolved
      <4>4. options.includeTest = {}
        BY <3>0, <3>2 DEF GivenNames, Gave
      <4> QED BY <3>0, <4>1, <4>2, <4>3, <4>4 DEF Options
    <3>3. CASE ~(options.modeExplicit /\ options.mode = "all")
               /\ ~(~options.includeExplicit /\ options.mode # "all")
      <4>1. options' = options
        BY <2>1, <3>3 DEF ResolveMode
      <4>2. Resolved = GivenNames("include-test") BY <3>0, <3>3 DEF Resolved
      <4> QED BY <3>0, <4>1, <4>2
    <3> QED BY <3>1, <3>2, <3>3
  <2>4. Resolved' = Resolved
    BY <2>2, <2>3 DEF Resolved
  <2>5. /\ options.excludeTest = GivenNames("exclude-test")
        /\ options.modeExplicit <=> Gave("mode")
        /\ \A a \in given : a.option = "mode" => a.value = options.mode
        /\ ~Gave("mode") => options.mode = "all"
    BY DEF EndOfArguments, Remembered
  <2>6. CliTypes' BY <2>1, <2>3 DEF CliTypes
  <2>7. Remembered'
    BY <2>1, <2>2, <2>3, <2>4, <2>5 DEF Remembered
  <2> QED BY <2>6, <2>7
<1> QED BY <1>1, <1>2

\* What main decides before anything is measured.
LEMMA MainKeepsCli == ASSUME CliInvariant, List \/ Refuse \/ Start PROVE CliInvariant'
<1>1. UNCHANGED <<backend, given, options>> /\ phase = "main"
  BY DEF List, Refuse, Start
<1>2. CASE List \/ Refuse
  BY <1>1, <1>2 DEF List, Refuse, Exit, CliInvariant, CliTypes, Remembered
<1>3. CASE Start
  <2>1. phase' \in {"memory", "sweep", "bench"} /\ UNCHANGED exit
    BY <1>3 DEF Start
  <2>2. phase' \in {"sweep", "bench"} => FilterValid
    BY <1>3 DEF Start
  <2>3. UNCHANGED FilterValid
    BY <1>1 DEF FilterValid, IsasKnown, Items, Item
  <2>4. /\ UNCHANGED <<Gave("mode"), Gave("include-test"), Resolved>>
        /\ UNCHANGED <<GivenNames("exclude-test"), GivenNames("include-test")>>
    BY <1>1 DEF Gave, GivenNames, Resolved
  <2>5. CliTypes' BY <1>1, <2>1 DEF CliInvariant, CliTypes
  <2>6. Remembered'
    BY <1>1, <2>1, <2>2, <2>3, <2>4 DEF CliInvariant, Remembered
  <2> QED BY <2>5, <2>6 DEF CliInvariant
<1> QED BY <1>2, <1>3

LEMMA DriverKeepsCli ==
    ASSUME CliInvariant, [Next]_vars, ~(CliNext /\ UNCHANGED runVars)
    PROVE  CliInvariant'
<1>1. /\ UNCHANGED <<backend, given, options>>
      /\ \/ UNCHANGED <<phase, exit>>
         \/ phase' = "exit" /\ exit' \in {"success", "failure"}
  BY DriverKeepsOptions
<1>2. CliTypes'
  BY <1>1 DEF CliInvariant, CliTypes
<1>3. UNCHANGED FilterValid
  BY <1>1 DEF FilterValid, IsasKnown, Items, Item
<1>4. /\ UNCHANGED <<Gave("mode"), Gave("include-test"), Resolved>>
      /\ UNCHANGED <<GivenNames("exclude-test"), GivenNames("include-test")>>
  BY <1>1 DEF Gave, GivenNames, Resolved
<1>5. Remembered'
  BY <1>1, <1>3, <1>4 DEF CliInvariant, Remembered
<1> QED BY <1>2, <1>5 DEF CliInvariant

LEMMA CliStep == CliInvariant /\ [Next]_vars => CliInvariant'
<1>1. CASE CliNext /\ UNCHANGED runVars
  BY <1>1, ParseKeepsCli, EndKeepsCli, MainKeepsCli DEF CliNext
<1>2. CASE ~(CliNext /\ UNCHANGED runVars)
  BY <1>2, DriverKeepsCli
<1> QED BY <1>1, <1>2

LEMMA SelectionFollows == CliInvariant => SelectionAsDocumented
<1> DEFINE named == GivenNames("include-test")
           wanted == IF LastMode = "all" \/ (LastMode = "none" /\ ~Gave("include-test"))
                     THEN Tests
                     ELSE IF Gave("include-test") THEN named ELSE ModeTests[LastMode]
           documented == LastMode = "all" \/ (Gave("include-test") => named # {})
<1> SUFFICES ASSUME CliInvariant, phase \in {"bench", "sweep"}, documented
             PROVE  Selected = wanted \ GivenNames("exclude-test")
  BY DEF SelectionAsDocumented
<1>1. /\ options.excludeTest = GivenNames("exclude-test")
      /\ ~Gave("mode") => options.mode = "all"
      /\ options.includeTest = Resolved
      /\ options.includeTest \subseteq Tests
      /\ options.mode \in Modes
  BY DEF CliInvariant, CliTypes, Options, Remembered, FilterValid
<1>2. LastMode = IF Gave("mode") THEN options.mode ELSE "none"
  <2>1. CASE Gave("mode")
    <3>1. \A a \in given : a.option = "mode" => a.value = options.mode
      BY DEF CliInvariant, Remembered
    <3>2. PICK a \in given : a.option = "mode" BY <2>1 DEF Gave
    <3>3. LastMode = (CHOOSE x \in given : x.option = "mode").value
      BY <2>1 DEF LastMode
    <3> QED BY <2>1, <3>1, <3>2, <3>3
  <2>2. CASE ~Gave("mode")
    BY <2>2 DEF LastMode
  <2> QED BY <2>1, <2>2
<1>3. Selected = (IF Resolved = {} THEN Tests ELSE Resolved) \ GivenNames("exclude-test")
  <2>1. \A t : ShouldRunTest(t) <=> t \notin GivenNames("exclude-test")
                                       /\ (Resolved = {} \/ t \in Resolved)
    BY <1>1 DEF ShouldRunTest, Allows
  <2>2. Resolved \subseteq Tests BY <1>1
  <2> QED BY <2>1, <2>2 DEF Selected
<1>4. wanted = IF Resolved = {} THEN Tests ELSE Resolved
  <2>1. CASE Gave("mode") /\ options.mode = "all"
    BY <1>2, <2>1 DEF Resolved
  <2>2. CASE ~Gave("include-test") /\ options.mode # "all"
    <3>1. named = {} BY <2>2 DEF GivenNames, Gave
    <3>2. LastMode = options.mode /\ options.mode \in {"cache", "compute"}
      BY <1>1, <1>2, <2>2 DEF Modes
    <3>3. Resolved = ModeTests[options.mode] BY <2>2 DEF Resolved
    <3>4. ModeTests["cache"] # {} /\ ModeTests["compute"] # {} BY DEF ModeTests
    <3>5. Resolved # {} BY <3>2, <3>3, <3>4
    <3>6. wanted = ModeTests[LastMode] BY <2>2, <3>2
    <3> QED BY <3>2, <3>3, <3>5, <3>6
  <2>3. CASE /\ ~(Gave("mode") /\ options.mode = "all")
             /\ ~(~Gave("include-test") /\ options.mode # "all")
    <3>1. Resolved = named BY <2>3 DEF Resolved
    <3>2. LastMode # "all" BY <1>2, <2>3
    <3>3. CASE Gave("include-test")
      BY <3>1, <3>2, <3>3
    <3>4. CASE ~Gave("include-test")
      <4>1. named = {} BY <3>4 DEF GivenNames, Gave
      <4>2. LastMode = "none" BY <1>1, <1>2, <2>3, <3>4
      <4> QED BY <3>1, <3>4, <4>1, <4>2
    <3> QED BY <3>3, <3>4
  <2> QED BY <2>1, <2>2, <2>3
<1> QED BY <1>3, <1>4

\* Whatever is given on the command line and in whatever order, the tests that
\* run are those the documentation of --mode and the filters says, but for a list
\* that names no test (parse_cli_options, should_run_test).
THEOREM SelectsAsDocumented == Spec => []SelectionAsDocumented
<1>1. Init => CliInvariant BY CliInit0
<1>2. CliInvariant /\ [Next]_vars => CliInvariant' BY CliStep
<1>3. CliInvariant => SelectionAsDocumented BY SelectionFollows
<1> QED BY <1>1, <1>2, <1>3, PTL DEF Spec

-----------------------------------------------------------------------------
(* The driver.                                                             *)

\* What is decided by the options and the catalogue alone.
LEMMA SameDecisions ==
    ASSUME UNCHANGED <<backend, given, options>>
    PROVE  /\ \A t : ShouldRunTest(t)' <=> ShouldRunTest(t)
           /\ UNCHANGED <<Items, Selected, Matches, Runnable, DriverSteps, BeforePool>>
           /\ UNCHANGED <<AfterIssue, AfterCache, AfterFrequency>>
           /\ \A i : Item(i)' = Item(i) /\ Pair(i)' = Pair(i)
<1>1. \A t : ShouldRunTest(t)' <=> ShouldRunTest(t)
  BY DEF ShouldRunTest
<1>2. \A i : Item(i)' = Item(i)
  BY DEF Item, Items
<1>3. UNCHANGED Items BY DEF Items
<1>4. UNCHANGED Selected BY DEF Selected, ShouldRunTest
<1>5. UNCHANGED Matches
  BY DEF Matches, Exact, Partial, Candidates, Item, Items
<1>6. UNCHANGED Runnable
  BY DEF Runnable, ShouldRunBenchmark, ShouldRunTest, Item, Items
<1>7. UNCHANGED <<DriverSteps, BeforePool>>
  BY DEF DriverSteps, BeforePool
<1>8. UNCHANGED <<AfterIssue, AfterCache, AfterFrequency>>
  BY DEF AfterIssue, AfterCache, AfterFrequency, LatePool
<1>9. \A i : Pair(i)' = Pair(i)
  BY DEF Pair, LatencyCandidates, Item, Items
<1> QED BY <1>1, <1>2, <1>3, <1>4, <1>5, <1>6, <1>7, <1>8, <1>9

LEMMA ItemsSequence ==
    ASSUME CliInvariant
    PROVE  /\ Items \in Seq(Benchmark) /\ Len(Items) \in Nat
           /\ DOMAIN Items = 1 .. Len(Items)
           /\ Runnable \subseteq DOMAIN Items
           /\ options.limit \in Nat
           /\ \A i \in DOMAIN Items : Item(i).test \in Tests
<1>1. Items \in Seq(Benchmark)
  BY CommandLineAssumption DEF CliInvariant, CliTypes, Items
<1>2. \A i \in DOMAIN Items : Items[i] \in Benchmark
  BY <1>1
<1>3. \A b \in Benchmark : b.test \in Tests
  BY DEF Benchmark, Tests
<1>4. options.limit \in Nat
  BY DEF CliInvariant, CliTypes, Options
<1> QED BY <1>1, <1>2, <1>3, <1>4 DEF Item, Runnable

\* What the row loop knows stays true while no row is run.
LEMMA KeepsProgress ==
    ASSUME RunTypes, Progress, CliInvariant,
           UNCHANGED <<backend, given, options, next, benchesRun, rows>>,
           tables' # "none" => tables # "none", measured \subseteq measured',
           tables # "none" /\ step' \in {"record", "print", "destroy"}
               => next > Len(Items) \/ LimitReached,
           tables # "none" /\ step' = "done"
               => printed' = {} \/ next > Len(Items) \/ LimitReached
    PROVE  Progress'
<1>1. UNCHANGED <<Items, Runnable, LimitReached, RowItems>>
  BY SameDecisions DEF LimitReached, RowItems
<1>2. \A i : Item(i)' = Item(i) /\ Pair(i)' = Pair(i)
  BY SameDecisions
<1>3. (\A i \in DOMAIN rows : rows[i].latency = Pair(rows[i].item))'
  BY <1>2 DEF Progress
<1>4. CASE tables' = "none"
  BY <1>3, <1>4 DEF Progress
<1>5. CASE tables' # "none"
  <2>1. /\ next <= Len(Items) + 1
        /\ benchesRun = Len(rows)
        /\ \A i \in DOMAIN rows : rows[i].item \in Runnable /\ rows[i].item < next
        /\ IsFiniteSet(RowItems) /\ Len(rows) = Cardinality(RowItems)
        /\ \A j \in Runnable : j < next => j \in RowItems
        /\ options.limit > 0 => Len(rows) <= options.limit
        /\ \A i \in DOMAIN rows : Item(rows[i].item).test \in measured
    BY <1>5 DEF Progress
  <2>2. (\A i \in DOMAIN rows : Item(rows[i].item).test \in measured)'
    BY <1>2, <2>1
  <2>3. /\ (step \in {"record", "print", "destroy"} => next > Len(Items) \/ LimitReached)'
        /\ (step = "done" => printed = {} \/ next > Len(Items) \/ LimitReached)'
    BY <1>1, <1>5
  <2> QED BY <1>1, <1>3, <2>1, <2>2, <2>3 DEF Progress
<1> QED BY <1>4, <1>5

\* Before anything has started.
LEMMA StartOfDriver ==
    ASSUME CliInvariant, RunTypes, Control, phase \in {"parse", "main", "memory"}
    PROVE  /\ step = "start" /\ tables = "none" /\ pools = {} /\ rows = << >>
           /\ printed = {} /\ saved = NotSaved /\ sweepTable = 0 /\ cores = 1
BY DEF Control

LEMMA Beginning ==
    ASSUME CliTypes
    PROVE  /\ "start" \in DriverSteps /\ "start" \in BeforePool
           /\ "start" \notin AfterFrequency \cup AfterCache \cup AfterIssue \cup Last4
<1>1. backend \in {"x64", "arm64", "riscv64"}
  BY CommandLineAssumption DEF CliTypes
<1> QED
  BY <1>1 DEF DriverSteps, BeforePool, AfterFrequency, AfterCache, AfterIssue, LatePool, Last4

LEMMA CliKeepsRun ==
    ASSUME RunInvariant, CliInvariant', CliNext, UNCHANGED runVars
    PROVE  RunInvariant'
<1> USE DEF RunInvariant
<1>1. /\ phase \in {"parse", "main"} /\ exit = "running" /\ UNCHANGED backend
      /\ phase' = "exit" \/ exit' = exit
      /\ phase' = "exit" /\ exit' = "success" => options'.list
  <2>1. CASE \E a \in Args : ParseArgument(a)
    BY <2>1 DEF ParseArgument, Exit, Control
  <2>2. CASE EndOfArguments
    BY <2>2 DEF EndOfArguments, Exit, Control
  <2>3. CASE List
    BY <2>3 DEF List, Exit, Control
  <2>4. CASE Refuse
    BY <2>4 DEF Refuse, Exit, Control
  <2>5. CASE Start
    BY <2>5 DEF Start, Control
  <2> QED BY <2>1, <2>2, <2>3, <2>4, <2>5 DEF CliNext
<1>2. /\ step = "start" /\ tables = "none" /\ pools = {} /\ rows = << >>
      /\ printed = {} /\ saved = NotSaved /\ sweepTable = 0 /\ cores = 1
      /\ measured = {} /\ next = 1 /\ benchesRun = 0
  BY <1>1 DEF Control
<1>3. /\ UNCHANGED <<step, tables, pools, measured, next, benchesRun, rows, printed, saved>>
      /\ UNCHANGED <<cores, sweepTable, capacities, invocations, migration>>
  BY DEF runVars
<1>4. RunTypes'
  BY <1>3 DEF RunTypes
<1>5. /\ "start" \in DriverSteps' /\ "start" \in BeforePool'
      /\ "start" \notin (AfterFrequency \cup AfterCache \cup AfterIssue \cup Last4)'
  <2>1. /\ UNCHANGED <<DriverSteps, BeforePool, AfterFrequency, AfterCache>>
        /\ UNCHANGED <<AfterIssue, Last4>>
    BY <1>1 DEF DriverSteps, BeforePool, AfterFrequency, AfterCache, AfterIssue, LatePool,
       Last4
  <2> QED BY <2>1, Beginning DEF CliInvariant
<1>6. DOMAIN rows = {} /\ Len(rows) = 0
  BY <1>2
<1>7. Control'
  <2>1. phase' # "exit" => exit' = "running" BY <1>1
  <2>2. Threads \in Nat \ {0} BY ThreadsAssumption
  <2> QED BY <1>2, <1>3, <1>5, <1>6, <2>1, <2>2 DEF Control
<1>8. Progress'
  BY <1>2, <1>3, <1>6 DEF Progress
<1>9. Reports'
  BY <1>2, <1>3, <1>5 DEF Reports
<1>10. SuccessMeansReported'
  BY <1>1, <1>2, <1>3 DEF SuccessMeansReported
<1> QED BY <1>4, <1>7, <1>8, <1>9, <1>10

\* Where the driver goes from each of its steps.
LEMMA GoesTo ==
    ASSUME CliTypes, step \in DriverSteps \cup Last4, step # "destroy", Go
    PROVE  /\ step' \in (DriverSteps \cup Last4) \ {"start"}
           /\ step # "pool" => (step' \in BeforePool <=> step \in BeforePool)
           /\ step = "pool" => step \in BeforePool /\ step' \notin BeforePool
           /\ step' \in AfterFrequency => step \in AfterFrequency \cup {"frequency"}
           /\ step' \in AfterCache => step \in AfterCache \cup {"cache"}
           /\ step' \in AfterIssue => step \in AfterIssue \cup {"issue", "riscvIssue"}
           /\ step' = "record" => step = "rows"
           /\ step' = "print" => step = "record"
           /\ step' = "destroy" <=> step = "print"
<1> DEFINE to == After[backend][step]
<1>0. step' = to BY DEF Go
<1>1. CASE backend = "x64"
  <2>1. step \in {"start", "frequency", "cache", "capacities", "issue", "pool", "rows",
                  "record", "print"}
    BY <1>1 DEF DriverSteps, Last4
  <2>2. to = [start |-> "frequency", frequency |-> "cache", cache |-> "capacities",
              capacities |-> "issue", issue |-> "pool", pool |-> "rows",
              rows |-> "record", record |-> "print", print |-> "destroy"][step]
    BY <1>1 DEF After
  <2> HIDE DEF to
  <2> QED BY <1>0, <1>1, <2>1, <2>2
          DEF DriverSteps, BeforePool, AfterFrequency, AfterCache, AfterIssue, LatePool, Last4
<1>2. CASE backend = "arm64"
  <2>1. step \in {"start", "warmup", "frequency", "cache", "capacities", "issue", "pool",
                  "rows", "record", "print"}
    BY <1>2 DEF DriverSteps, Last4
  <2>2. to = [start |-> "warmup", warmup |-> "frequency", frequency |-> "cache",
              cache |-> "capacities", capacities |-> "issue", issue |-> "pool",
              pool |-> "rows", rows |-> "record", record |-> "print",
              print |-> "destroy"][step]
    BY <1>2 DEF After
  <2> HIDE DEF to
  <2> QED BY <1>0, <1>2, <2>1, <2>2
          DEF DriverSteps, BeforePool, AfterFrequency, AfterCache, AfterIssue, LatePool, Last4
<1>3. CASE backend = "riscv64"
  <2>1. step \in {"start", "pool", "frequency", "cache", "riscvLoad", "riscvIssue", "rows",
                  "record", "print"}
    BY <1>3 DEF DriverSteps, Last4
  <2>2. to = [start |-> "pool", pool |-> "frequency", frequency |-> "cache",
              cache |-> "riscvLoad", riscvLoad |-> "riscvIssue",
              riscvIssue |-> "rows", rows |-> "record", record |-> "print",
              print |-> "destroy"][step]
    BY <1>3 DEF After
  <2> HIDE DEF to
  <2> QED BY <1>0, <1>3, <2>1, <2>2
          DEF DriverSteps, BeforePool, AfterFrequency, AfterCache, AfterIssue, LatePool, Last4
<1> QED BY <1>1, <1>2, <1>3, CommandLineAssumption DEF CliTypes

LEMMA SameMigration ==
    ASSUME UNCHANGED invocations PROVE MigrationEntry' = MigrationEntry
BY DEF MigrationEntry

\* One step of the driver outside the row loop that runs nothing of the catalogue.
LEMMA GoKeepsRun ==
    ASSUME RunInvariant, CliInvariant', RunTypes', Go, phase = "bench", step # "destroy",
           tables' = "held", UNCHANGED <<next, benchesRun, rows, cores, sweepTable>>,
           measured \subseteq measured',
           pools' = IF step = "pool" THEN pools \cup {"bench"} ELSE pools,
           step = "frequency" /\ ShouldRunTest("freq") => "freq" \in measured',
           step = "cache" /\ ShouldRunTest("cache") => "cache" \in measured',
           step \in {"issue", "riscvIssue"} /\ ShouldRunTest("multi_issue")
               => "multi_issue" \in measured',
           step = "rows" => next > Len(Items) \/ LimitReached,
           step # "print" => UNCHANGED <<printed, saved>>,
           step = "record" => migration' = MigrationEntry /\ UNCHANGED invocations,
           step = "print" =>
               /\ UNCHANGED <<migration, invocations>> /\ printed' = Selected
               /\ saved' = IF options.save = "path"
                           THEN [sections |-> Selected, migration |-> migration]
                           ELSE saved
    PROVE  RunInvariant'
<1> USE DEF RunInvariant
<1>1. UNCHANGED <<backend, given, options, phase, exit>>
  BY DEF Go, cliVars
<1>2. step \in DriverSteps \cup Last4
  BY DEF Control
<1>3. /\ step' \in (DriverSteps \cup Last4) \ {"start"}
      /\ step # "pool" => (step' \in BeforePool <=> step \in BeforePool)
      /\ step = "pool" => step \in BeforePool /\ step' \notin BeforePool
      /\ step' \in AfterFrequency => step \in AfterFrequency \cup {"frequency"}
      /\ step' \in AfterCache => step \in AfterCache \cup {"cache"}
      /\ step' \in AfterIssue => step \in AfterIssue \cup {"issue", "riscvIssue"}
      /\ step' = "record" => step = "rows"
      /\ step' = "print" => step = "record"
      /\ step' = "destroy" <=> step = "print"
  BY <1>2, GoesTo DEF CliInvariant
<1>4. /\ UNCHANGED <<Items, Selected, DriverSteps, BeforePool>>
      /\ UNCHANGED <<AfterIssue, AfterCache, AfterFrequency>>
      /\ \A t : ShouldRunTest(t)' <=> ShouldRunTest(t)
  BY <1>1, SameDecisions
<1>5. step' # "done"
  <2>1. "done" \notin DriverSteps \cup Last4
    BY CommandLineAssumption DEF CliInvariant, CliTypes, DriverSteps, Last4
  <2> QED BY <1>3, <2>1
<1>6. Control'
  <2>1. /\ tables = IF step = "start" THEN "none" ELSE "held"
        /\ pools = IF step \in BeforePool THEN {} ELSE {"bench"}
        /\ exit = "running"
        /\ step # "destroy" => printed = {} /\ saved = NotSaved
    BY DEF Control
  <2>2. pools' = IF step' \in BeforePool THEN {} ELSE {"bench"}
    BY <1>3, <2>1
  <2>3. step' # "destroy" => printed' = {} /\ saved' = NotSaved
    BY <1>3, <2>1
  <2> QED BY <1>1, <1>3, <1>4, <1>5, <2>1, <2>2, <2>3 DEF Control
<1>7. Progress'
  <2>1. CASE step = "start"
    <3>1. next' = 1 /\ benchesRun' = 0 /\ rows' = << >> BY <2>1 DEF Control
    <3>2. DOMAIN rows' = {} /\ Len(rows') = 0 BY <3>1
    <3>3. RowItems' = {} BY <3>2 DEF RowItems
    <3>4. IsFiniteSet({}) /\ Cardinality({}) = 0 BY FS_EmptySet
    <3>5. Runnable' \subseteq Nat \ {0} /\ Len(Items') \in Nat /\ options'.limit \in Nat
      <4>1. UNCHANGED Runnable BY <1>1, SameDecisions
      <4> QED BY <1>1, <1>4, <4>1, ItemsSequence
    <3>6. step' \notin {"record", "print", "destroy", "done"} BY <1>3, <1>5, <2>1
    <3> QED BY <3>1, <3>2, <3>3, <3>4, <3>5, <3>6 DEF Progress
  <2>2. CASE step # "start"
    <3>1. tables = "held" BY <2>2 DEF Control
    <3>2. step' \in {"record", "print", "destroy"} => next > Len(Items) \/ LimitReached
      BY <1>3, <3>1 DEF Progress
    <3> QED BY <1>1, <1>5, <3>1, <3>2, KeepsProgress
  <2> QED BY <2>1, <2>2
<1>8. Reports'
  <2>1. /\ (step \in AfterFrequency /\ ShouldRunTest("freq") => "freq" \in measured)'
        /\ (step \in AfterCache /\ ShouldRunTest("cache") => "cache" \in measured)'
        /\ (step \in AfterIssue /\ ShouldRunTest("multi_issue") => "multi_issue" \in measured)'
    BY <1>3, <1>4 DEF Reports
  <2>2. (step \in {"print", "destroy"} => migration = MigrationEntry)'
    <3>1. UNCHANGED invocations => MigrationEntry' = MigrationEntry BY SameMigration
    <3>2. step' = "print" => migration' = MigrationEntry' BY <1>3, <3>1
    <3>3. step' = "destroy" => migration' = MigrationEntry' BY <1>3, <3>1 DEF Reports
    <3> QED BY <3>2, <3>3
  <2>3. (step = "destroy" =>
            /\ printed = Selected
            /\ saved = IF options.save = "path"
                       THEN [sections |-> Selected, migration |-> migration] ELSE NotSaved)'
    <3>1. step = "print" => saved = NotSaved BY DEF Control
    <3> QED BY <1>1, <1>3, <1>4, <3>1
  <2> QED BY <2>1, <2>2, <2>3 DEF Reports
<1>9. SuccessMeansReported'
  BY <1>1 DEF SuccessMeansReported
<1> QED BY <1>6, <1>7, <1>8, <1>9

\* The order of the driver's parts, each of them.
LEMMA PartKeepsRun ==
    ASSUME RunInvariant, CliInvariant',
           \/ CreateTables \/ Warmup \/ MeasureFrequency
           \/ \E found \in BOOLEAN : MeasureCache(found)
           \/ PrepareCapacities \/ IssueProbe \/ CreatePool \/ RiscvLoad \/ RiscvIssue
           \/ RowsDone \/ RecordMigration \/ PrintAndSave
    PROVE  RunInvariant'
<1> USE DEF RunInvariant
<1>1. phase = "bench" => tables = IF step = "start" THEN "none" ELSE "held"
  BY DEF Control
<1>2. {"freq", "cache", "multi_issue", "load"} \subseteq Tests
  BY DEF Tests
<1>3. /\ measured \subseteq Tests /\ capacities \in BOOLEAN /\ invocations \in BOOLEAN
      /\ step \in Steps /\ pools \subseteq {"bench", "sweep"}
  BY DEF RunTypes
<1>4. \A s \in DriverSteps \cup Last4 : s \in Steps
  BY CommandLineAssumption DEF CliInvariant, CliTypes, DriverSteps, Last4, Steps
<1>5. Go /\ phase = "bench" /\ step # "destroy" => step' \in Steps
  BY <1>4, GoesTo DEF Control, CliInvariant
<1>6. CASE CreateTables
  <2>1. RunTypes' BY <1>5, <1>6 DEF CreateTables, At, RunTypes
  <2> QED BY <1>6, <2>1, GoKeepsRun DEF CreateTables, At
<1>7. CASE Warmup
  <2>1. RunTypes' BY <1>5, <1>7 DEF Warmup, At, RunTypes
  <2> QED BY <1>1, <1>7, <2>1, GoKeepsRun DEF Warmup, At
<1>8. CASE MeasureFrequency
  <2>1. RunTypes' BY <1>2, <1>5, <1>8 DEF MeasureFrequency, At, RunTypes
  <2>2. ShouldRunTest("freq") => NeedsFrequency
    BY <1>2 DEF NeedsFrequency, Selected
  <2> QED BY <1>1, <1>8, <2>1, <2>2, GoKeepsRun DEF MeasureFrequency, At
<1>9. CASE \E found \in BOOLEAN : MeasureCache(found)
  <2>1. PICK found \in BOOLEAN : MeasureCache(found) BY <1>9
  <2>2. capacities' \in BOOLEAN BY <1>3, <2>1 DEF MeasureCache
  <2>3. RunTypes' BY <1>2, <1>5, <2>1, <2>2 DEF MeasureCache, At, RunTypes
  <2> QED BY <1>1, <2>1, <2>3, GoKeepsRun DEF MeasureCache, At
<1>10. CASE PrepareCapacities
  <2>1. capacities' \in BOOLEAN BY <1>3, <1>10 DEF PrepareCapacities
  <2>2. RunTypes' BY <1>5, <1>10, <2>1 DEF PrepareCapacities, At, RunTypes
  <2> QED BY <1>1, <1>10, <2>2, GoKeepsRun DEF PrepareCapacities, At
<1>11. CASE IssueProbe
  <2>1. RunTypes' BY <1>2, <1>5, <1>11 DEF IssueProbe, At, RunTypes
  <2> QED BY <1>1, <1>11, <2>1, GoKeepsRun DEF IssueProbe, At
<1>12. CASE CreatePool
  <2>1. RunTypes' BY <1>5, <1>12 DEF CreatePool, At, RunTypes
  <2> QED BY <1>1, <1>12, <2>1, GoKeepsRun DEF CreatePool, At
<1>13. CASE RiscvLoad
  <2>1. capacities' \in BOOLEAN /\ invocations' \in BOOLEAN
    BY <1>3, <1>13 DEF RiscvLoad, RiscvStream
  <2>2. RunTypes' BY <1>2, <1>5, <1>13, <2>1 DEF RiscvLoad, RiscvStream, At, RunTypes
  <2> QED BY <1>1, <1>13, <2>2, GoKeepsRun DEF RiscvLoad, RiscvStream, At
<1>14. CASE RiscvIssue
  <2>1. capacities' \in BOOLEAN /\ invocations' \in BOOLEAN
    BY <1>3, <1>14 DEF RiscvIssue, RiscvStream
  <2>2. RunTypes' BY <1>2, <1>5, <1>14, <2>1 DEF RiscvIssue, RiscvStream, At, RunTypes
  <2>3. ShouldRunTest("multi_issue") => "multi_issue" \in measured'
    BY <1>14 DEF RiscvIssue, RiscvStream
  <2> QED BY <1>1, <1>14, <2>2, <2>3, GoKeepsRun DEF RiscvIssue, RiscvStream, At
<1>15. CASE RowsDone
  <2>1. RunTypes' BY <1>5, <1>15 DEF RowsDone, At, RunTypes
  <2> QED BY <1>1, <1>15, <2>1, GoKeepsRun DEF RowsDone, At
<1>16. CASE RecordMigration
  <2>1. migration' \in {"observed", "not observed"}
    BY <1>16 DEF RecordMigration, MigrationEntry
  <2>2. RunTypes' BY <1>5, <1>16, <2>1 DEF RecordMigration, At, RunTypes
  <2> QED BY <1>1, <1>16, <2>2, GoKeepsRun DEF RecordMigration, At
<1>17. CASE PrintAndSave
  <2>1. Sections = Selected /\ Selected \subseteq Tests BY DEF Sections, Selected
  <2>2. RunTypes' BY <1>5, <1>17, <2>1 DEF PrintAndSave, At, RunTypes
  <2>3. saved' = IF options.save = "path"
                 THEN [sections |-> Selected, migration |-> migration] ELSE saved
    BY <1>17, <2>1 DEF PrintAndSave, SaveFile
  <2> QED BY <1>1, <1>17, <2>1, <2>2, <2>3, GoKeepsRun DEF PrintAndSave, At
<1> QED BY <1>6, <1>7, <1>8, <1>9, <1>10, <1>11, <1>12, <1>13, <1>14, <1>15, <1>16, <1>17

\* Giving up, and the end of the benchmark.
LEMMA EndKeepsRun ==
    ASSUME RunInvariant, CliInvariant', WarmupFails \/ PoolFails \/ Finish
    PROVE  RunInvariant'
<1> USE DEF RunInvariant
<1>1. /\ phase = "bench" /\ phase' = "exit" /\ step' = "done" /\ tables' = "freed"
      /\ exit' \in {"success", "failure"}
      /\ UNCHANGED <<backend, given, options, capacities, measured, next, benchesRun, rows>>
      /\ UNCHANGED <<invocations, migration, printed, saved, cores, sweepTable>>
  BY DEF WarmupFails, PoolFails, GiveUp, Finish, At, Exit, SaveStatus
<1>2. tables = "held" /\ pools = IF step \in BeforePool THEN {} ELSE {"bench"}
  <2>1. step # "start" BY DEF WarmupFails, PoolFails, Finish, At
  <2> QED BY <1>1, <2>1 DEF Control
<1>3. pools' = {}
  <2>1. CASE Finish
    BY <1>2, <2>1 DEF Finish, DestroyPool
  <2>2. CASE WarmupFails \/ PoolFails
    <3>1. step \in BeforePool
      BY <1>1, <2>2, CommandLineAssumption
         DEF WarmupFails, PoolFails, At, Control, BeforePool, DriverSteps, Last4, CliInvariant,
             CliTypes
    <3> QED BY <1>2, <2>2, <3>1 DEF WarmupFails, PoolFails, GiveUp
  <2> QED BY <2>1, <2>2
<1>4. RunTypes'
  BY <1>1, <1>3 DEF RunTypes, Steps
<1>5. Control'
  BY <1>1 DEF Control
<1>6. WarmupFails \/ PoolFails => printed = {} /\ exit' = "failure"
  BY <1>1 DEF WarmupFails, PoolFails, GiveUp, At, Control, Exit
<1>7. Finish => step = "destroy" /\ (next > Len(Items) \/ LimitReached)
  BY <1>2 DEF Finish, At, Progress
<1>8. Progress'
  <2>1. printed' = {} \/ next > Len(Items) \/ LimitReached BY <1>1, <1>6, <1>7
  <2> QED BY <1>1, <1>2, <2>1, KeepsProgress
<1>9. Reports'
  BY <1>1 DEF Reports
<1>10. SuccessMeansReported'
  <2>1. CASE exit' # "success"
    BY <1>1, <1>3, <2>1 DEF SuccessMeansReported
  <2>2. CASE exit' = "success"
    <3>1. Finish BY <1>6, <2>2
    <3>2. /\ step = "destroy" /\ (next > Len(Items) \/ LimitReached)
          /\ options.save # "unwritable"
      BY <1>7, <2>2, <3>1 DEF Finish, Exit, SaveStatus
    <3>3. /\ printed = Selected
          /\ saved = IF options.save = "path"
                     THEN [sections |-> Selected, migration |-> migration] ELSE NotSaved
          /\ migration = MigrationEntry
          /\ ShouldRunTest("freq") => "freq" \in measured
          /\ ShouldRunTest("cache") => "cache" \in measured
          /\ ShouldRunTest("multi_issue") => "multi_issue" \in measured
      BY <1>1, <3>2 DEF Reports, AfterFrequency, AfterCache, AfterIssue, Last4
    <3>4. printed' = Selected' /\ Runnable' = Runnable /\ \A i : Item(i)' = Item(i)
      BY <1>1, <3>3, SameDecisions
    <3>5. /\ printed \cap {"freq", "cache"} \subseteq measured
          /\ "multi_issue" \in printed => "multi_issue" \in measured
          /\ "instruction_sweep" \notin printed
      BY <3>3 DEF Selected, Tests
    <3>6. ASSUME NEW t, options.limit = 0, NEW i \in Runnable, Item(i).test = t
          PROVE  t \in measured
      <4>1. next > Len(Items) BY <3>2, <3>6 DEF LimitReached
      <4>2. i < next
        <5>1. i \in 1 .. Len(Items) /\ Len(Items) \in Nat BY <3>6, ItemsSequence
        <5>2. next \in Nat BY DEF RunTypes
        <5> QED BY <4>1, <5>1, <5>2
      <4>3. i \in RowItems BY <1>2, <4>2 DEF Progress
      <4>4. PICK k \in DOMAIN rows : rows[k].item = i BY <4>3 DEF RowItems
      <4> QED BY <1>2, <3>6, <4>4 DEF Progress
    <3>7. \A t : t \in measured \/ options.limit > 0 \/ ~\E i \in Runnable : Item(i).test = t
      BY <3>6, ItemsSequence
    <3>8. saved # NotSaved => saved.migration = MigrationEntry
      BY <3>3
    <3>9. options.save = "path" => saved.sections = printed
      BY <3>3
    <3>10. (\A t \in {"load", "compute"} \cap printed :
               t \in measured \/ options.limit > 0 \/ ~\E i \in Runnable : Item(i).test = t)'
      BY <1>1, <3>4, <3>7
    <3>11. (saved # NotSaved =>
               saved.migration = IF invocations THEN "observed" ELSE "not observed")'
      BY <1>1, <3>8, Zenon DEF MigrationEntry, NotSaved
    <3> QED BY <1>1, <1>3, <3>2, <3>4, <3>5, <3>9, <3>10, <3>11 DEF SuccessMeansReported
  <2> QED BY <2>1, <2>2
<1> QED BY <1>4, <1>5, <1>8, <1>9, <1>10

\* The row loop.
LEMMA SkipKeepsRun ==
    ASSUME RunInvariant, CliInvariant', SkipRow PROVE RunInvariant'
<1> USE DEF RunInvariant
<1>1. /\ phase = "bench" /\ step = "rows" /\ next <= Len(Items) /\ next' = next + 1
      /\ Item(next).latency \/ ~ShouldRunBenchmark(next)
      /\ UNCHANGED <<cliVars, step, tables, pools, capacities, measured, benchesRun, rows>>
      /\ UNCHANGED <<invocations, migration, printed, saved, cores, sweepTable>>
  BY DEF SkipRow, At, Skipped
<1>2. UNCHANGED <<backend, given, options, phase, exit>>
  BY <1>1 DEF cliVars
<1>3. RunTypes'
  <2>1. next' \in Nat \ {0}
    <3>1. next \in Nat \ {0} BY DEF RunTypes
    <3> QED BY <1>1, <3>1
  <2> QED BY <1>1, <2>1 DEF RunTypes
<1>4. /\ UNCHANGED <<Items, Selected, DriverSteps, BeforePool, Runnable, LimitReached>>
      /\ UNCHANGED <<AfterIssue, AfterCache, AfterFrequency, RowItems>>
      /\ \A t : ShouldRunTest(t)' <=> ShouldRunTest(t)
      /\ \A i : Item(i)' = Item(i) /\ Pair(i)' = Pair(i)
  BY <1>1, <1>2, SameDecisions DEF LimitReached, RowItems
<1>5. Control'
  BY <1>1, <1>2, <1>4 DEF Control
<1>6. Progress'
  <2>1. next \notin Runnable BY <1>1 DEF Runnable
  <2>2. tables = "held" BY <1>1 DEF Control
  <2>3. /\ next \in Nat /\ Len(Items) \in Nat /\ Runnable \subseteq Nat
        /\ rows \in Seq([item : Nat \ {0}, latency : Nat])
    <3>1. next \in Nat \ {0} BY DEF RunTypes
    <3>2. rows \in Seq([item : Nat \ {0}, latency : Nat]) BY DEF RunTypes
    <3> QED BY <3>1, <3>2, ItemsSequence
  <2>4. \A i \in DOMAIN rows : rows[i].item < next /\ rows[i].item \in Nat
    BY <2>2, <2>3 DEF Progress
  <2>5. (\A i \in DOMAIN rows : rows[i].item \in Runnable /\ rows[i].item < next)'
    BY <1>1, <1>4, <2>2, <2>3, <2>4 DEF Progress
  <2>6. (\A j \in Runnable : j < next => j \in RowItems)'
    BY <1>1, <1>4, <2>1, <2>2, <2>3 DEF Progress
  <2>7. next' <= Len(Items)' + 1
    BY <1>1, <1>4, <2>3
  <2>8. (\A i \in DOMAIN rows : Item(rows[i].item).test \in measured)'
    BY <1>1, <1>4, <2>2 DEF Progress
  <2>9. (\A i \in DOMAIN rows : rows[i].latency = Pair(rows[i].item))'
    BY <1>1, <1>4 DEF Progress
  <2> QED BY <1>1, <1>2, <1>4, <2>2, <2>5, <2>6, <2>7, <2>8, <2>9 DEF Progress
<1>7. Reports'
  BY <1>1, <1>2, <1>4 DEF Reports
<1>8. SuccessMeansReported'
  BY <1>1, <1>2 DEF SuccessMeansReported
<1> QED BY <1>3, <1>5, <1>6, <1>7, <1>8

\* The candidates of a row are rows of the catalogue.
LEMMA PairInCatalogue ==
    ASSUME CliInvariant, NEW i PROVE Pair(i) \in Nat
<1>1. LatencyCandidates(i) \subseteq Nat
  BY ItemsSequence DEF LatencyCandidates
<1>2. CASE Pair(i) = 0
  BY <1>2
<1>3. CASE Pair(i) # 0
  <2>1. Cardinality(LatencyCandidates(i)) = 1 /\ Pair(i) = CHOOSE j \in LatencyCandidates(i) : TRUE
    BY <1>3 DEF Pair
  <2>2. LatencyCandidates(i) # {} BY <2>1, FS_EmptySet
  <2> QED BY <1>1, <2>1, <2>2
<1> QED BY <1>2, <1>3

LEMMA RunRowKeepsRun ==
    ASSUME RunInvariant, CliInvariant', RunRow PROVE RunInvariant'
<1> USE DEF RunInvariant
<1>1. /\ phase = "bench" /\ step = "rows" /\ next <= Len(Items) /\ next' = next + 1
      /\ ~LimitReached /\ ~Item(next).latency /\ ShouldRunBenchmark(next)
      /\ benchesRun' = benchesRun + 1 /\ invocations' = TRUE
      /\ rows' = Append(rows, [item |-> next, latency |-> Pair(next)])
      /\ measured' = measured \cup {Item(next).test}
      /\ UNCHANGED <<cliVars, step, tables, pools, capacities, migration, printed, saved>>
      /\ UNCHANGED <<cores, sweepTable>>
  BY DEF RunRow, At, Skipped
<1>2. UNCHANGED <<backend, given, options, phase, exit>>
  BY <1>1 DEF cliVars
<1>3. /\ UNCHANGED <<Items, Selected, DriverSteps, BeforePool, Runnable>>
      /\ UNCHANGED <<AfterIssue, AfterCache, AfterFrequency>>
      /\ \A t : ShouldRunTest(t)' <=> ShouldRunTest(t)
      /\ \A i : Item(i)' = Item(i) /\ Pair(i)' = Pair(i)
  BY <1>2, SameDecisions
<1>4. tables = "held" BY <1>1 DEF Control
<1>5. /\ next \in Nat \ {0} /\ Len(Items) \in Nat /\ Runnable \subseteq Nat
      /\ next \in DOMAIN Items /\ Item(next).test \in Tests
      /\ rows \in Seq([item : Nat \ {0}, latency : Nat])
      /\ Pair(next) \in Nat /\ options.limit \in Nat /\ benchesRun \in Nat
  <2>1. next \in Nat \ {0} /\ benchesRun \in Nat BY DEF RunTypes
  <2>2. rows \in Seq([item : Nat \ {0}, latency : Nat]) BY DEF RunTypes
  <2>3. next \in DOMAIN Items BY <1>1, <2>1, ItemsSequence
  <2> QED BY <2>1, <2>2, <2>3, ItemsSequence, PairInCatalogue
<1>6. next \in Runnable BY <1>1, <1>5 DEF Runnable
<1> DEFINE row == [item |-> next, latency |-> Pair(next)]
<1>7. row \in [item : Nat \ {0}, latency : Nat] BY <1>5
<1>8. /\ rows' \in Seq([item : Nat \ {0}, latency : Nat])
      /\ Len(rows') = Len(rows) + 1
      /\ DOMAIN rows' = 1 .. Len(rows) + 1 /\ DOMAIN rows = 1 .. Len(rows)
      /\ \A i \in DOMAIN rows : rows'[i] = rows[i]
      /\ rows'[Len(rows) + 1] = row
      /\ Len(rows) \in Nat
  BY <1>1, <1>5, <1>7
<1>9. RunTypes'
  <2>1. next' \in Nat \ {0} /\ benchesRun' \in Nat /\ invocations' \in BOOLEAN
    BY <1>1, <1>5
  <2>2. measured' \subseteq Tests
    <3>1. measured \subseteq Tests BY DEF RunTypes
    <3> QED BY <1>1, <1>5, <3>1
  <2>3. rows' \in Seq([item : Nat \ {0}, latency : Nat]) BY <1>8
  <2> HIDE DEF row
  <2> QED BY <1>1, <2>1, <2>2, <2>3 DEF RunTypes
<1>10. Control'
  BY <1>1, <1>2, <1>3 DEF Control
<1>11. Progress'
  <2>1. \A i \in DOMAIN rows' : i \in DOMAIN rows \/ i = Len(rows) + 1
    BY <1>8
  <2>2. RowItems' = RowItems \cup {next}
    <3>1. row.item = next OBVIOUS
    <3> HIDE DEF row
    <3>2. Len(rows) + 1 \in DOMAIN rows' /\ DOMAIN rows \subseteq DOMAIN rows' BY <1>8
    <3>3. \A x \in RowItems : x \in RowItems' BY <1>8, <3>2 DEF RowItems
    <3>4. next \in RowItems' BY <1>8, <3>1, <3>2 DEF RowItems
    <3>5. \A x \in RowItems' : x \in RowItems \cup {next}
      <4>1. TAKE x \in RowItems'
      <4>2. PICK i \in DOMAIN rows' : rows'[i].item = x BY DEF RowItems
      <4> QED BY <1>8, <2>1, <3>1, <4>2 DEF RowItems
    <3> QED BY <3>3, <3>4, <3>5
  <2>3. next \notin RowItems
    <3>1. \A i \in DOMAIN rows : rows[i].item < next BY <1>4 DEF Progress
    <3> QED BY <1>5, <3>1 DEF RowItems
  <2>4. IsFiniteSet(RowItems') /\ Len(rows') = Cardinality(RowItems')
    <3>1. IsFiniteSet(RowItems) /\ Len(rows) = Cardinality(RowItems) BY <1>4 DEF Progress
    <3> QED BY <1>8, <2>2, <2>3, <3>1, FS_AddElement
  <2>5. (\A i \in DOMAIN rows : rows[i].item \in Runnable /\ rows[i].item < next)'
    <3>1. \A i \in DOMAIN rows : rows[i].item \in Runnable /\ rows[i].item < next
      BY <1>4 DEF Progress
    <3>2. row.item = next OBVIOUS
    <3> HIDE DEF row
    <3> QED BY <1>1, <1>3, <1>5, <1>6, <1>8, <2>1, <3>1, <3>2
  <2>6. (\A j \in Runnable : j < next => j \in RowItems)'
    <3>1. \A j \in Runnable : j < next => j \in RowItems BY <1>4 DEF Progress
    <3> QED BY <1>1, <1>3, <1>5, <2>2, <3>1
  <2>7. options'.limit > 0 => Len(rows') <= options'.limit
    <3>1. benchesRun = Len(rows) BY <1>4 DEF Progress
    <3> QED BY <1>1, <1>2, <1>5, <1>8, <3>1 DEF LimitReached
  <2>8. (\A i \in DOMAIN rows : Item(rows[i].item).test \in measured)'
    <3>1. \A i \in DOMAIN rows : Item(rows[i].item).test \in measured BY <1>4 DEF Progress
    <3>2. row.item = next OBVIOUS
    <3> HIDE DEF row
    <3> QED BY <1>1, <1>3, <1>8, <2>1, <3>1, <3>2
  <2>9. (\A i \in DOMAIN rows : rows[i].latency = Pair(rows[i].item))'
    <3>1. \A i \in DOMAIN rows : rows[i].latency = Pair(rows[i].item) BY DEF Progress
    <3>2. row.item = next /\ row.latency = Pair(next) OBVIOUS
    <3> HIDE DEF row
    <3> QED BY <1>3, <1>8, <2>1, <3>1, <3>2
  <2>10. next' <= Len(Items)' + 1 /\ benchesRun' = Len(rows')
    <3>1. benchesRun = Len(rows) BY <1>4 DEF Progress
    <3> QED BY <1>1, <1>3, <1>5, <1>8, <3>1
  <2> QED BY <1>1, <2>4, <2>5, <2>6, <2>7, <2>8, <2>9, <2>10 DEF Progress
<1>12. Reports'
  BY <1>1, <1>2, <1>3 DEF Reports
<1>13. SuccessMeansReported'
  BY <1>1, <1>2 DEF SuccessMeansReported
<1> QED BY <1>9, <1>10, <1>11, <1>12, <1>13

\* The sweep over the thread counts.
LEMMA MatchesInCatalogue ==
    ASSUME CliInvariant PROVE Matches \subseteq Nat \ {0}
BY ItemsSequence DEF Matches, Exact, Partial, Candidates

LEMMA SweepKeepsRun ==
    ASSUME RunInvariant, CliInvariant', SweepPrepare \/ SweepCreatePool
    PROVE  RunInvariant'
<1> USE DEF RunInvariant
<1>1. /\ phase = "sweep" /\ UNCHANGED cliVars
      /\ UNCHANGED <<tables, capacities, benchesRun, rows, invocations, migration, printed>>
      /\ UNCHANGED <<saved, cores, sweepTable>>
  BY DEF SweepPrepare, SweepCreatePool, AtSweep
<1>2. UNCHANGED <<backend, given, options, phase, exit>>
  BY <1>1 DEF cliVars
<1>3. /\ UNCHANGED <<Items, Matches>>
      /\ \A i : Item(i)' = Item(i) /\ Pair(i)' = Pair(i)
  BY <1>2, SameDecisions
<1>4. tables = "none" BY <1>1 DEF Control
<1>5. CASE SweepPrepare
  <2>1. /\ step = "start" /\ step' = "create" /\ Cardinality(Matches) = 1
        /\ next' = (CHOOSE i \in Matches : TRUE) /\ measured' = measured \cup {"freq"}
        /\ UNCHANGED pools
    BY <1>5 DEF SweepPrepare, AtSweep
  <2>2. next' \in Matches
    <3>1. Matches # {} BY <2>1, FS_EmptySet
    <3> QED BY <2>1, <3>1
  <2>3. next' \in Nat \ {0} BY <2>2, MatchesInCatalogue
  <2>4. RunTypes'
    <3>1. measured' \subseteq Tests
      <4>1. measured \subseteq Tests BY DEF RunTypes
      <4> QED BY <2>1, <4>1 DEF Tests
    <3> QED BY <1>1, <2>1, <2>3, <3>1 DEF RunTypes, Steps
  <2>5. Control'
    <3>1. pools = {} /\ cores = 1 /\ sweepTable = 0 /\ rows = << >> /\ exit = "running"
          /\ printed = {} /\ saved = NotSaved
      BY <1>1, <2>1 DEF Control
    <3>2. DOMAIN rows = {} /\ Len(rows) = 0 BY <3>1
    <3>3. Threads \in Nat \ {0} BY ThreadsAssumption
    <3> QED BY <1>1, <1>2, <1>3, <1>4, <2>1, <2>2, <3>1, <3>2, <3>3 DEF Control
  <2> QED BY <2>4, <2>5, <1>1, <1>2, <1>3, <1>4 DEF Progress, Reports, SuccessMeansReported
<1>6. CASE SweepCreatePool
  <2>1. /\ step = "create" /\ step' = "measure" /\ cores <= Threads
        /\ pools' = pools \cup {"sweep"} /\ UNCHANGED <<measured, next>>
    BY <1>6 DEF SweepCreatePool, AtSweep
  <2>2. RunTypes' BY <1>1, <2>1 DEF RunTypes, Steps
  <2>3. Control'
    BY <1>1, <1>2, <1>3, <1>4, <2>1 DEF Control
  <2> QED BY <2>2, <2>3, <1>1, <1>2, <1>3, <1>4 DEF Progress, Reports, SuccessMeansReported
<1> QED BY <1>5, <1>6

LEMMA SweepMeasureKeepsRun ==
    ASSUME RunInvariant, CliInvariant', SweepMeasure PROVE RunInvariant'
<1> USE DEF RunInvariant
<1>1. /\ phase = "sweep" /\ step = "measure" /\ step' = "create" /\ UNCHANGED cliVars
      /\ rows' = Append(rows, [item |-> next, latency |-> Pair(next)])
      /\ pools' = pools \ {"sweep"} /\ sweepTable' = sweepTable + 1 /\ cores' = cores + 1
      /\ UNCHANGED <<tables, capacities, measured, next, benchesRun, invocations>>
      /\ UNCHANGED <<migration, printed, saved>>
  BY DEF SweepMeasure, AtSweep
<1>2. UNCHANGED <<backend, given, options, phase, exit>>
  BY <1>1 DEF cliVars
<1>3. /\ UNCHANGED <<Items, Matches>>
      /\ \A i : Item(i)' = Item(i) /\ Pair(i)' = Pair(i)
  BY <1>2, SameDecisions
<1>4. /\ tables = "none" /\ pools = {"sweep"} /\ next \in Matches /\ exit = "running"
      /\ cores = sweepTable + 1 /\ Len(rows) = sweepTable /\ cores <= Threads
      /\ \A i \in DOMAIN rows : rows[i].item = next
      /\ printed = {} /\ saved = NotSaved
  BY <1>1 DEF Control
<1> DEFINE row == [item |-> next, latency |-> Pair(next)]
<1>5. /\ next \in Nat \ {0} /\ Pair(next) \in Nat /\ cores \in Nat \ {0} /\ sweepTable \in Nat
      /\ Threads \in Nat
  <2>1. next \in Nat \ {0} /\ cores \in Nat \ {0} /\ sweepTable \in Nat BY DEF RunTypes
  <2> QED BY <2>1, PairInCatalogue, ThreadsAssumption
<1>6. rows \in Seq([item : Nat \ {0}, latency : Nat])
  BY DEF RunTypes
<1>7. row \in [item : Nat \ {0}, latency : Nat] /\ row.item = next /\ row.latency = Pair(next)
  BY <1>5
<1>8. rows' = Append(rows, row)
  BY <1>1
<1> HIDE DEF row
<1>9. /\ rows' \in Seq([item : Nat \ {0}, latency : Nat])
      /\ Len(rows') = Len(rows) + 1
      /\ \A i \in DOMAIN rows' : i \in DOMAIN rows \/ i = Len(rows) + 1
      /\ \A i \in DOMAIN rows : rows'[i] = rows[i]
      /\ rows'[Len(rows) + 1] = row
  BY <1>6, <1>7, <1>8
<1>10. cores' \in Nat \ {0} /\ sweepTable' \in Nat /\ cores' = sweepTable' + 1
       /\ cores' <= Threads + 1 /\ Len(rows') = sweepTable'
  BY <1>1, <1>4, <1>5, <1>9
<1>11. \A i \in DOMAIN rows' : rows'[i].item = next
  BY <1>4, <1>7, <1>9
<1>12. \A i \in DOMAIN rows' : rows'[i].latency = Pair(rows'[i].item)
  <2>1. \A i \in DOMAIN rows : rows[i].latency = Pair(rows[i].item) BY DEF Progress
  <2> QED BY <1>7, <1>9, <2>1
<1>13. RunTypes'
  <2>1. UNCHANGED <<tables, capacities, measured, next, benchesRun, invocations>>
        /\ UNCHANGED <<migration, printed>> /\ step' = "create" /\ pools' = pools \ {"sweep"}
    BY <1>1
  <2> QED BY <2>1, <1>9, <1>10 DEF RunTypes, Steps
<1>14. Control'
  <2>1. pools' = {} BY <1>1, <1>4
  <2>2. phase' = "sweep" /\ step' = "create" /\ tables' = "none" /\ UNCHANGED <<next, exit>>
        /\ printed' = {} /\ saved' = NotSaved
    BY <1>1, <1>2, <1>4
  <2> QED BY <1>3, <1>4, <1>10, <1>11, <2>1, <2>2 DEF Control
<1>15. Progress'
  BY <1>1, <1>3, <1>4, <1>12 DEF Progress
<1> QED BY <1>1, <1>2, <1>13, <1>14, <1>15 DEF Reports, SuccessMeansReported

\* The ways out of the sweep and of the memory table.
LEMMA SweepEndKeepsRun ==
    ASSUME RunInvariant, CliInvariant',
           \/ SweepRefused \/ SweepFails \/ SweepSave
           \/ \E ok \in BOOLEAN : MemoryRun(ok)
    PROVE  RunInvariant'
<1> USE DEF RunInvariant
<1>1. /\ phase \in {"sweep", "memory"} /\ phase' = "exit" /\ step' = "done"
      /\ phase = "sweep" => step \in {"start", "create"}
      /\ exit' \in {"success", "failure"}
      /\ UNCHANGED <<backend, given, options, tables, pools, capacities, measured, next>>
      /\ UNCHANGED <<benchesRun, rows, invocations, migration, cores, sweepTable>>
  BY DEF SweepRefused, SweepFails, SweepSave, MemoryRun, AtSweep, Exit, SaveStatus
<1>2. /\ tables = "none" /\ pools = {}
      /\ printed = {} /\ saved = NotSaved
      /\ \A i \in DOMAIN rows : rows[i].item = next /\ next \in Matches
  <2>1. CASE phase = "memory"
    <3>1. rows = << >> BY <2>1 DEF Control
    <3>2. DOMAIN rows = {} BY <3>1
    <3> QED BY <2>1, <3>2 DEF Control
  <2>2. CASE phase = "sweep" /\ step = "start"
    <3>1. rows = << >> BY <2>2 DEF Control
    <3>2. DOMAIN rows = {} BY <3>1
    <3> QED BY <2>2, <3>2 DEF Control
  <2>3. CASE phase = "sweep" /\ step = "create"
    BY <2>3 DEF Control
  <2> QED BY <1>1, <2>1, <2>2, <2>3
<1>3. /\ UNCHANGED <<Items, Matches>>
      /\ \A i : Item(i)' = Item(i) /\ Pair(i)' = Pair(i)
  BY <1>1, SameDecisions
<1>4. /\ printed' \in {{}, {"instruction_sweep"}, {"memory"}}
      /\ printed' = {"instruction_sweep"} => SweepSave
      /\ exit' = "success" => /\ options.save # "unwritable"
                              /\ options.save = "path" => saved'.sections = printed'
  <2>1. CASE SweepRefused \/ SweepFails
    BY <1>2, <2>1 DEF SweepRefused, SweepFails, Exit
  <2>2. CASE SweepSave
    BY <2>2 DEF SweepSave, Exit, SaveStatus, SaveFile
  <2>3. CASE \E ok \in BOOLEAN : MemoryRun(ok)
    <3>1. PICK ok \in BOOLEAN : MemoryRun(ok) BY <2>3
    <3>2. CASE ok
      BY <3>1, <3>2 DEF MemoryRun, Exit, SaveStatus, SaveFile
    <3>3. CASE ~ok
      BY <3>1, <3>3 DEF MemoryRun, Exit
    <3> QED BY <3>2, <3>3
  <2> QED BY <2>1, <2>2, <2>3
<1>5. SweepSave => sweepTable = Threads /\ Cardinality(RowItems) = 1
  <2> SUFFICES ASSUME SweepSave PROVE sweepTable = Threads /\ Cardinality(RowItems) = 1
    OBVIOUS
  <2>1. /\ phase = "sweep" /\ step = "create" /\ cores > Threads BY DEF SweepSave, AtSweep
  <2>2. cores = sweepTable + 1 /\ Len(rows) = sweepTable /\ cores <= Threads + 1
    BY <2>1 DEF Control
  <2>3. cores \in Nat \ {0} /\ sweepTable \in Nat /\ Threads \in Nat \ {0}
    BY ThreadsAssumption DEF RunTypes
  <2>4. sweepTable = Threads BY <2>1, <2>2, <2>3
  <2>5. rows \in Seq([item : Nat \ {0}, latency : Nat]) BY DEF RunTypes
  <2>6. 1 \in DOMAIN rows BY <2>2, <2>3, <2>4, <2>5
  <2>7. RowItems = {next} BY <1>2, <2>6 DEF RowItems
  <2> QED BY <2>4, <2>7, FS_Singleton
<1>6. RunTypes'
  BY <1>1, <1>4 DEF RunTypes, Steps
<1>7. Control'
  BY <1>1, <1>2, <1>3 DEF Control
<1>8. Progress'
  BY <1>1, <1>2, <1>3 DEF Progress
<1>9. Reports'
  BY <1>1 DEF Reports
<1>10. SuccessMeansReported'
  <2>1. RowItems' = RowItems BY <1>1 DEF RowItems
  <2> QED BY <1>1, <1>2, <1>4, <1>5, <2>1 DEF SuccessMeansReported, BenchDone
<1> QED BY <1>6, <1>7, <1>8, <1>9, <1>10

LEMMA StutterKeepsRun == ASSUME RunInvariant, UNCHANGED vars PROVE RunInvariant'
<1> USE DEF RunInvariant
<1>1. UNCHANGED <<backend, phase, given, options, exit>> /\ UNCHANGED runVars
  BY DEF vars, cliVars
<1>2. /\ UNCHANGED <<step, tables, pools, capacities, measured, next, benchesRun, rows>>
      /\ UNCHANGED <<invocations, migration, printed, saved, cores, sweepTable>>
  BY <1>1 DEF runVars
<1>3. /\ UNCHANGED <<Items, Selected, Matches, Runnable, DriverSteps, BeforePool>>
      /\ UNCHANGED <<AfterIssue, AfterCache, AfterFrequency, RowItems, LimitReached>>
      /\ \A t : ShouldRunTest(t)' <=> ShouldRunTest(t)
      /\ \A i : Item(i)' = Item(i) /\ Pair(i)' = Pair(i)
  BY <1>1, <1>2, SameDecisions DEF RowItems, LimitReached
<1>4. CliInvariant'
  BY CliStep
<1>5. RunTypes'
  BY <1>2 DEF RunTypes
<1>6. Control'
  BY <1>1, <1>2, <1>3 DEF Control
<1>7. Progress'
  <2>1. /\ tables # "none" /\ step \in {"record", "print", "destroy"}
              => next > Len(Items) \/ LimitReached
        /\ tables # "none" /\ step = "done" => printed = {} \/ next > Len(Items) \/ LimitReached
    BY DEF Progress
  <2> QED BY <1>1, <1>2, <2>1, KeepsProgress
<1>8. Reports'
  <2>1. MigrationEntry' = MigrationEntry BY <1>2, SameMigration
  <2> QED BY <1>1, <1>2, <1>3, <2>1 DEF Reports
<1>9. SuccessMeansReported'
  BY <1>1, <1>2, <1>3 DEF SuccessMeansReported, BenchDone
<1> QED BY <1>4, <1>5, <1>6, <1>7, <1>8, <1>9

LEMMA RunInit == Init => RunInvariant
<1> SUFFICES ASSUME Init PROVE RunInvariant
  OBVIOUS
<1>1. CliInvariant BY CliInit0
<1>2. "start" \in DriverSteps /\ "start" \in BeforePool
  BY <1>1, Beginning DEF CliInvariant
<1>3. phase = "parse" /\ exit = "running" BY DEF Init, CliInit
<1>4. RunTypes
  <2>1. rows \in Seq([item : Nat \ {0}, latency : Nat]) BY DEF Init
  <2>2. capacities = FALSE /\ invocations = FALSE /\ migration = "pending" BY DEF Init
  <2>3. /\ step = "start" /\ tables = "none" /\ next = 1 /\ benchesRun = 0 /\ cores = 1
        /\ sweepTable = 0
    BY DEF Init
  <2>4. pools = {} /\ measured = {} /\ printed = {} BY DEF Init
  <2>5. step \in Steps BY <2>3 DEF Steps
  <2>6. capacities \in BOOLEAN /\ invocations \in BOOLEAN BY <2>2
  <2>7. /\ pools \subseteq {"bench", "sweep"} /\ measured \subseteq Tests
        /\ printed \in SUBSET (Tests \cup {"instruction_sweep", "memory"})
    BY <2>4
  <2> QED BY <2>1, <2>2, <2>3, <2>5, <2>6, <2>7 DEF RunTypes
<1>5. DOMAIN rows = {} BY DEF Init
<1>6. Control BY <1>3, <1>5 DEF Init, Control
<1>7. Progress BY <1>5 DEF Init, Progress
<1>8. Reports BY <1>3 DEF Reports
<1>9. SuccessMeansReported BY <1>3 DEF SuccessMeansReported
<1> QED BY <1>1, <1>4, <1>6, <1>7, <1>8, <1>9 DEF RunInvariant

LEMMA RunStep == RunInvariant /\ [Next]_vars => RunInvariant'
<1> SUFFICES ASSUME RunInvariant, [Next]_vars PROVE RunInvariant'
  OBVIOUS
<1>1. CliInvariant' BY CliStep DEF RunInvariant
<1>2. CASE CliNext /\ UNCHANGED runVars
  BY <1>1, <1>2, CliKeepsRun
<1>3. CASE \/ CreateTables \/ Warmup \/ MeasureFrequency
           \/ \E found \in BOOLEAN : MeasureCache(found)
           \/ PrepareCapacities \/ IssueProbe \/ CreatePool \/ RiscvLoad \/ RiscvIssue
           \/ RowsDone \/ RecordMigration \/ PrintAndSave
  BY <1>1, <1>3, PartKeepsRun
<1>4. CASE WarmupFails \/ PoolFails \/ Finish
  BY <1>1, <1>4, EndKeepsRun
<1>5. CASE SkipRow \/ RunRow
  BY <1>1, <1>5, SkipKeepsRun, RunRowKeepsRun
<1>6. CASE SweepPrepare \/ SweepCreatePool \/ SweepMeasure
  BY <1>1, <1>6, SweepKeepsRun, SweepMeasureKeepsRun
<1>7. CASE SweepRefused \/ SweepFails \/ SweepSave \/ (\E ok \in BOOLEAN : MemoryRun(ok))
  BY <1>1, <1>7, SweepEndKeepsRun
<1>8. CASE Done \/ UNCHANGED vars
  BY <1>8, StutterKeepsRun DEF Done
<1> QED BY <1>2, <1>3, <1>4, <1>5, <1>6, <1>7, <1>8 DEF Next

-----------------------------------------------------------------------------
(* What the invariant says of the rows.                                    *)

LEMMA RowsFollow == RunInvariant => RowsObeyOptions
<1> SUFFICES ASSUME RunInvariant, tables # "none" PROVE RowsObeyOptions
  BY DEF RowsObeyOptions
<1> USE DEF RunInvariant
<1>1. /\ benchesRun = Len(rows)
      /\ \A i \in DOMAIN rows : rows[i].item \in Runnable
      /\ Len(rows) = Cardinality(RowItems)
      /\ \A j \in Runnable : j < next => j \in RowItems
      /\ options.limit > 0 => Len(rows) <= options.limit
      /\ step = "done" => printed = {} \/ next > Len(Items) \/ LimitReached
  BY DEF Progress
<1>2. RowItems \subseteq Runnable BY <1>1 DEF RowItems
<1>3. ASSUME BenchDone PROVE RowItems = Runnable \/ (options.limit > 0 /\ Len(rows) = options.limit)
  <2>1. CASE LimitReached
    <3>1. options.limit \in Nat BY ItemsSequence
    <3>2. benchesRun \in Nat BY DEF RunTypes
    <3> QED BY <1>1, <2>1, <3>1, <3>2 DEF LimitReached
  <2>2. CASE ~LimitReached
    <3>1. next > Len(Items) BY <1>1, <1>3, <2>2 DEF BenchDone
    <3>2. next \in Nat \ {0} BY DEF RunTypes
    <3>3. \A j \in Runnable : j < next BY <3>1, <3>2, ItemsSequence
    <3> QED BY <1>1, <1>2, <3>3
  <2> QED BY <2>1, <2>2
<1> QED BY <1>1, <1>2, <1>3 DEF RowsObeyOptions

\* A kernel is paired with at most one row of the catalogue.
LEMMA PairUnique ==
    ASSUME NEW a \in Nat \ {0}, NEW b \in Nat \ {0}, Pair(a) # 0, Pair(a) = Pair(b), a < b
    PROVE  FALSE
<1>1. /\ ~Item(a).latency /\ Item(a).test = "compute"
      /\ Cardinality(LatencyCandidates(a)) = 1 /\ Cardinality(LatencyCandidates(b)) = 1
      /\ Pair(a) = CHOOSE j \in LatencyCandidates(a) : TRUE
      /\ Pair(b) = CHOOSE j \in LatencyCandidates(b) : TRUE
      /\ \A k \in 1 .. b - 1 :
           ~Item(k).latency => Item(k).test # "compute"
                                 \/ LatencyCandidates(k) # LatencyCandidates(b)
  BY DEF Pair
<1>2. LatencyCandidates(a) # {} /\ LatencyCandidates(b) # {}
  BY <1>1, FS_EmptySet
<1>3. Pair(a) \in LatencyCandidates(a) /\ Pair(b) \in LatencyCandidates(b)
  BY <1>1, <1>2
<1>4. \A j \in LatencyCandidates(a) :
          /\ Item(j).latency /\ Item(j).test = "compute"
          /\ Item(j).name = Item(a).name /\ Item(j).isa = Item(a).isa
  BY DEF LatencyCandidates
<1>5. \A j \in LatencyCandidates(b) : Item(j).name = Item(b).name /\ Item(j).isa = Item(b).isa
  BY DEF LatencyCandidates
<1>6. Item(a).name = Item(b).name /\ Item(a).isa = Item(b).isa
  BY <1>3, <1>4, <1>5
<1>7. LatencyCandidates(a) = LatencyCandidates(b)
  BY <1>6 DEF LatencyCandidates
<1>8. a \in 1 .. b - 1 OBVIOUS
<1> QED BY <1>1, <1>7, <1>8

LEMMA PairingFollows == RunInvariant => LatencyPairedOnce
<1> SUFFICES ASSUME RunInvariant, NEW i \in DOMAIN rows, rows[i].latency # 0
             PROVE  /\ Item(rows[i].latency).latency
                    /\ Item(rows[i].latency).name = Item(rows[i].item).name
                    /\ Item(rows[i].latency).isa = Item(rows[i].item).isa
                    /\ \A k \in DOMAIN rows :
                         rows[k].latency = rows[i].latency => rows[k].item = rows[i].item
                    /\ \A j \in LatencyCandidates(rows[i].item) : j = rows[i].latency
  BY DEF LatencyPairedOnce
<1> USE DEF RunInvariant
<1> DEFINE a == rows[i].item
<1>1. /\ \A k \in DOMAIN rows : rows[k].latency = Pair(rows[k].item)
      /\ \A k \in DOMAIN rows : rows[k].item \in Nat \ {0}
  <2>1. rows \in Seq([item : Nat \ {0}, latency : Nat]) BY DEF RunTypes
  <2>2. ASSUME NEW k \in DOMAIN rows PROVE rows[k].item \in Nat \ {0}
    <3>1. k \in 1 .. Len(rows) BY <2>1, LenProperties
    <3>2. rows[k] \in [item : Nat \ {0}, latency : Nat] BY <2>1, <3>1, ElementOfSeq
    <3> QED BY <3>2
  <2> QED BY <2>2 DEF Progress
<1>2. /\ Cardinality(LatencyCandidates(a)) = 1
      /\ Pair(a) = CHOOSE j \in LatencyCandidates(a) : TRUE
      /\ rows[i].latency = Pair(a)
  BY <1>1 DEF Pair
<1>3. PICK j : LatencyCandidates(a) = {j}
  <2>1. LatencyCandidates(a) # {} BY <1>2, FS_EmptySet
  <2>2. PICK j \in LatencyCandidates(a) : TRUE BY <2>1
  <2>3. IsFiniteSet(LatencyCandidates(a))
    <3>1. LatencyCandidates(a) \subseteq 1 .. Len(Items) /\ Len(Items) \in Nat
      BY ItemsSequence DEF LatencyCandidates
    <3>2. IsFiniteSet(1 .. Len(Items)) BY <3>1, FS_Interval
    <3> QED BY <3>1, <3>2, FS_Subset
  <2> QED BY <1>2, <2>2, <2>3, FS_Singleton
<1>4. Pair(a) = j /\ j \in LatencyCandidates(a) BY <1>2, <1>3
<1>5. ASSUME NEW k \in DOMAIN rows, rows[k].latency = rows[i].latency
      PROVE  rows[k].item = a
  <2>1. Pair(rows[k].item) = Pair(a) /\ Pair(a) # 0 BY <1>1, <1>2, <1>5
  <2>2. rows[k].item \in Nat \ {0} /\ a \in Nat \ {0} BY <1>1
  <2>3. ~(a < rows[k].item) /\ ~(rows[k].item < a)
    BY <2>1, <2>2, PairUnique
  <2> QED BY <2>2, <2>3
<1> QED BY <1>2, <1>3, <1>4, <1>5 DEF LatencyCandidates

\* Whatever the options and the catalogue, the row loop runs what the filters
\* allow, each row once, and stops at the limit and nowhere else
\* (the row loop of cpubm_do_bench, should_run_benchmark).
THEOREM RowLoopObeysOptions == Spec => []RowsObeyOptions
<1>1. Init => RunInvariant BY RunInit
<1>2. RunInvariant /\ [Next]_vars => RunInvariant' BY RunStep
<1>3. RunInvariant => RowsObeyOptions BY RowsFollow
<1> QED BY <1>1, <1>2, <1>3, PTL DEF Spec

\* Whatever the kernels registered, a latency is shown for the row of its own name
\* and instruction set, and for no other (pair_benchmark_latencies).
THEOREM OneRowPerLatency == Spec => []LatencyPairedOnce
<1>1. Init => RunInvariant BY RunInit
<1>2. RunInvariant /\ [Next]_vars => RunInvariant' BY RunStep
<1>3. RunInvariant => LatencyPairedOnce BY PairingFollows
<1> QED BY <1>1, <1>2, <1>3, PTL DEF Spec

\* Whatever fails on the way, the pools and tables are gone at the end, and success
\* means everything was measured, printed and saved (main, cpubm_do_bench,
\* run_instruction_sweep).
THEOREM SuccessIsReported == Spec => []SuccessMeansReported
<1>1. Init => RunInvariant BY RunInit
<1>2. RunInvariant /\ [Next]_vars => RunInvariant' BY RunStep
<1>3. RunInvariant => SuccessMeansReported BY DEF RunInvariant
<1> QED BY <1>1, <1>2, <1>3, PTL DEF Spec
=============================================================================
