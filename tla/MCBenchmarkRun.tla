--------------------------- MODULE MCBenchmarkRun ---------------------------
(***************************************************************************)
(* BenchmarkRun on a small catalogue: two ISAs, a kernel with a latency    *)
(* twin, one registered twice, one with two twins, and load kernels.       *)
(***************************************************************************)
EXTENDS BenchmarkRun

Compute(isa, name) == [test |-> "compute", isa |-> isa, name |-> name, latency |-> FALSE]
Latency(isa, name) == [test |-> "compute", isa |-> isa, name |-> name, latency |-> TRUE]
Load(name) == [test |-> "load", isa |-> "L1", name |-> name, latency |-> FALSE]

Kernels ==
  <<Compute("avx", "fma"), Latency("avx", "fma"), Compute("avx", "fma"),
    Compute("sse", "fma.wide"), Latency("sse", "fma.wide"), Latency("sse", "fma.wide"),
    Compute("sse", "add")>>

SmallCatalog ==
  [b \in {"x64", "arm64", "riscv64"} |->
     IF b = "riscv64" THEN Kernels ELSE Kernels \o <<Load("ldr"), Load("str")>>]

Contained == {<<"fma.w", "fma.wide">>, <<"a", "fma">>, <<"a", "fma.wide">>,
              <<"a", "add">>, <<"add", "add">>, <<"fma", "fma">>, <<"fma", "fma.wide">>}

Argument(option, values) == {[option |-> option, value |-> v] : v \in values}
Names(option, lists) == {[option |-> option, names |-> l] : l \in lists}
Number(option, numbers) == {[option |-> option, number |-> n] : n \in numbers}

SmallArgs ==
  UNION {Argument("thread_pool", {"cpus"}),
         Argument("mode", {"all", "cache", "compute", "malformed"}),
         Names("include-test", {{}, {"load"}, {"compute", "cache"}, {"typo"}}),
         Names("exclude-test", {{"cache"}, {"compute", "load"}}),
         Names("include-isa", {{"sse"}, {"sve"}}),
         Names("exclude-isa", {{"avx"}}),
         Argument("list", {"yes"}),
         Argument("sweep-instruction", {"add", "fma.w", "a", "zzz"}),
         Argument("memory-bandwidth", {"yes"}),
         Argument("memory-size-mib", {"64", "malformed"}),
         Number("loop_scale", {1, 8}),
         Number("bench_limit", {2}),
         Argument("save", {"path", "blank", "unwritable"}),
         Argument("unknown", {"yes"})}

\* For the runs about a single option.
FewArgs ==
  UNION {Argument("thread_pool", {"cpus"}),
         Argument("mode", {"all", "cache"}),
         Names("include-test", {{}, {"load"}})}
=============================================================================
