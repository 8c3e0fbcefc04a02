---------------------------- MODULE CommandLine ----------------------------
(***************************************************************************)
(* The command line of the three programs: the loop of parse_cli_options   *)
(* over its arguments, what an explicit --mode does to the test filter,    *)
(* the checks main makes before anything is measured, and the filters      *)
(* every later decision asks (common/cli.cpp; main of each back end).      *)
(* An argument is a record: text is reduced to what a check tells apart.   *)
(***************************************************************************)
EXTENDS Integers, Sequences, FiniteSets, FiniteSetsExt

CONSTANTS
  Backends,      \* the back ends to consider
  Args,          \* the arguments a user may give: records of an option and its
                 \* value, the number it stands for or the names it lists
  MaxArgs,       \* bound on their number
  Catalog        \* bm_list of each back end, see Item

Tests == {"compute", "load", "cache", "freq", "multi_issue"}
Modes == {"all", "cache", "compute"}

Filters == {"include-test", "exclude-test", "include-isa", "exclude-isa"}
Numbers == {"loop_scale", "bench_limit"}
Texts == {"thread_pool", "mode", "list", "sweep-instruction", "memory-bandwidth",
          "memory-size-mib", "save", "unknown"}

\* A kernel or load row; latency marks a kernel that is run for another row.
Benchmark ==
  [test : {"compute", "load"}, isa : STRING, name : STRING, latency : BOOLEAN]

\* What the loop over the arguments has tokenised and what the kernels register;
\* numbers that an option does not take are malformed.
ASSUME CommandLineAssumption ==
  /\ Backends \subseteq {"x64", "arm64", "riscv64"}
  /\ MaxArgs \in Nat
  /\ \A a \in Args :
       \/ a.option \in Filters /\ DOMAIN a = {"option", "names"} /\ a.names \in SUBSET STRING
       \/ a.option \in Numbers /\ DOMAIN a = {"option", "number"} /\ a.number \in Nat
       \/ /\ a.option \in Texts /\ DOMAIN a = {"option", "value"} /\ a.value \in STRING
          /\ a.option = "mode" => a.value \in Modes \cup {"malformed"}
       \/ DOMAIN a = {"option", "value"} /\ a.option \in STRING /\ a.value = "malformed"
  /\ \A b \in Backends : Catalog[b] \in Seq(Benchmark)

VARIABLES
  backend,
  phase,         \* where main is
  given,         \* history: the arguments parsed so far, of --mode the last
  options,       \* CliOptions
  exit           \* the exit status, or "running"

cliVars == <<backend, phase, given, options, exit>>

DefaultOptions ==
  [threads |-> "unset", mode |-> "all", modeExplicit |-> FALSE,
   includeTest |-> {}, includeExplicit |-> FALSE, excludeTest |-> {},
   includeIsa |-> {}, excludeIsa |-> {}, list |-> FALSE, sweep |-> "",
   memory |-> FALSE, memorySize |-> FALSE, scaled |-> FALSE, limit |-> 0,
   save |-> "off"]

CliInit ==
  /\ backend \in Backends
  /\ phase = "parse"
  /\ given = {}
  /\ options = DefaultOptions
  /\ exit = "running"

-----------------------------------------------------------------------------
\* parse_cli_options

UnknownOption(a) == a.option = "unknown"

\* An option nobody knows, or a value its option does not parse.
Malformed(a) == UnknownOption(a) \/ ("value" \in DOMAIN a /\ a.value = "malformed")

\* What one well-formed argument does.  Scalars overwrite, filters accumulate.
Apply(o, a) ==
  CASE a.option = "thread_pool" -> [o EXCEPT !.threads = a.value]
    [] a.option = "mode" -> [o EXCEPT !.mode = a.value, !.modeExplicit = TRUE]
    [] a.option = "include-test" ->
         [o EXCEPT !.includeTest = @ \cup a.names, !.includeExplicit = TRUE]
    [] a.option = "exclude-test" -> [o EXCEPT !.excludeTest = @ \cup a.names]
    [] a.option = "include-isa" -> [o EXCEPT !.includeIsa = @ \cup a.names]
    [] a.option = "exclude-isa" -> [o EXCEPT !.excludeIsa = @ \cup a.names]
    [] a.option = "list" -> [o EXCEPT !.list = TRUE]
    [] a.option = "sweep-instruction" -> [o EXCEPT !.sweep = a.value]
    [] a.option = "memory-bandwidth" -> [o EXCEPT !.memory = TRUE]
    [] a.option = "memory-size-mib" -> [o EXCEPT !.memorySize = TRUE]
    [] a.option = "loop_scale" -> [o EXCEPT !.scaled = a.number > 1]
    [] a.option = "bench_limit" -> [o EXCEPT !.limit = a.number]
    [] a.option = "save" -> [o EXCEPT !.save = a.value]

Exit(status) == phase' = "exit" /\ exit' = status

ParseArgument(a) ==
  /\ phase = "parse"
  /\ Cardinality(given) < MaxArgs
  /\ given' = {g \in given : a.option # "mode" \/ g.option # "mode"} \cup {a}
  /\ IF Malformed(a)
     THEN Exit("failure") /\ UNCHANGED options
     ELSE options' = Apply(options, a) /\ UNCHANGED <<phase, exit>>
  /\ UNCHANGED backend

\* The tests a mode stands for when --include-test was not given.
ModeTests == [cache |-> {"cache"}, compute |-> {"compute", "freq", "multi_issue"}]

\* Mutant: the mode adds to the tests named.
ResolveAdding(o) ==
  IF o.mode # "all" THEN [o EXCEPT !.includeTest = @ \cup ModeTests[o.mode]] ELSE o

\* After the last argument.  An explicit all mode drops a narrower filter, but
\* not before the names in it are checked.
ResolveMode(o) ==
  IF o.modeExplicit /\ o.mode = "all"
  THEN [o EXCEPT !.includeTest = {}, !.includeExplicit = FALSE]
  ELSE IF ~o.includeExplicit /\ o.mode # "all"
       THEN [o EXCEPT !.includeTest = @ \cup ModeTests[o.mode]]
       ELSE o

EndOfArguments ==
  /\ phase = "parse"
  /\ IF options.modeExplicit /\ options.mode = "all" /\ ~(options.includeTest \subseteq Tests)
     THEN Exit("failure") /\ UNCHANGED options
     ELSE options' = ResolveMode(options) /\ phase' = "main" /\ UNCHANGED exit
  /\ UNCHANGED <<backend, given>>

-----------------------------------------------------------------------------
\* The filters

AllowsIncluded(include, exclude, value) == include = {} \/ value \in include

\* filter_allows_value: exclusion wins, and no inclusion means every value.
Allows(include, exclude, value) == value \notin exclude /\ (include = {} \/ value \in include)

ShouldRunTest(t) == Allows(options.includeTest, options.excludeTest, t)
Selected == {t \in Tests : ShouldRunTest(t)}

Items == Catalog[backend]
Item(i) == Items[i]

\* should_run_benchmark: the ISA filter is for compute kernels only.
ShouldRunBenchmark(i) ==
  /\ ShouldRunTest(Item(i).test)
  /\ Item(i).test = "compute" => Allows(options.includeIsa, options.excludeIsa, Item(i).isa)

IsasKnown == {Item(i).isa : i \in {i \in DOMAIN Items : Item(i).test = "compute"}}

FilterValid ==
  /\ options.includeTest \subseteq Tests /\ options.excludeTest \subseteq Tests
  /\ options.includeIsa \subseteq IsasKnown /\ options.excludeIsa \subseteq IsasKnown

NeedsFrequency == Selected # {}

StandaloneWarmup == Cardinality(options.includeTest) = 1 \/ options.includeIsa # {}

\* validate_memory_bandwidth_options
CacheIncluded ==
  /\ "cache" \in options.includeTest \/ (options.modeExplicit /\ options.mode = "all")
  /\ "cache" \notin options.excludeTest

MemoryOptionsValid ==
  IF ~options.memory
  THEN options.memorySize => CacheIncluded
  ELSE /\ options.sweep = ""
       /\ options.includeIsa = {} /\ options.excludeIsa = {} /\ options.excludeTest = {}
       /\ ~(options.includeExplicit /\ options.includeTest # {})

\* What riscv64 refuses instead.
Unsupported ==
  \/ options.memory \/ options.memorySize \/ options.sweep # ""
  \/ options.scaled \/ options.limit # 0

-----------------------------------------------------------------------------
\* main, up to the point where something is measured

List ==
  /\ phase = "main"
  /\ options.list
  /\ Exit("success")
  /\ UNCHANGED <<backend, given, options>>

OptionsValid ==
  /\ options.threads = "cpus"
  /\ backend = "riscv64" => ~Unsupported
  /\ options.save # "blank"
  /\ backend # "riscv64" => MemoryOptionsValid

Refuse ==
  /\ phase = "main"
  /\ ~options.list
  /\ ~OptionsValid \/ (~options.memory /\ ~FilterValid)
  /\ Exit("failure")
  /\ UNCHANGED <<backend, given, options>>

\* --memory-bandwidth comes before the catalogue exists, the sweep before the
\* ordinary benchmark.
Start ==
  /\ phase = "main"
  /\ ~options.list
  /\ OptionsValid
  /\ options.memory \/ FilterValid
  /\ phase' = IF options.memory THEN "memory"
              ELSE IF options.sweep # "" THEN "sweep" ELSE "bench"
  /\ UNCHANGED <<backend, given, options, exit>>

CliNext ==
  \/ \E a \in Args : ParseArgument(a)
  \/ EndOfArguments
  \/ List
  \/ Refuse
  \/ Start

-----------------------------------------------------------------------------
GivenNames(option) == UNION {a.names : a \in {a \in given : a.option = option}}
Gave(option) == \E a \in given : a.option = option
LastMode == IF Gave("mode") THEN (CHOOSE a \in given : a.option = "mode").value ELSE "none"

\* The tests a command line selects, said once for all of them: exclusions
\* always count; the last --mode=all, or no mode and no list, asks for
\* everything; otherwise the named tests; otherwise the mode's.  The order of
\* arguments of different kinds is irrelevant (parse_cli_options; README.md,
\* --mode).  Left out is a list that names nothing, which the code takes for no
\* list even beside a narrower mode: README.md does not say so.
SelectionAsDocumented ==
  LET named == GivenNames("include-test")
      wanted == IF LastMode = "all" \/ (LastMode = "none" /\ ~Gave("include-test"))
                THEN Tests
                ELSE IF Gave("include-test") THEN named ELSE ModeTests[LastMode]
      documented == LastMode = "all" \/ (Gave("include-test") => named # {})
  IN  phase \in {"bench", "sweep"} /\ documented =>
          Selected = wanted \ GivenNames("exclude-test")
=============================================================================
