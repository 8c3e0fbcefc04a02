--------------------------- MODULE KernelDispatch ---------------------------
(***************************************************************************)
(* Which of the compiled kernels a program runs (cpufb_register_isa and    *)
(* its users in arm64/cpufb.cpp and x64/cpufb.cpp, the kernel selections   *)
(* of the stream benchmark and of the issue probe).  A program may hold    *)
(* kernels the core cannot execute, so every place that runs one decides   *)
(* for itself: x64 registers a row under its CPUID flag, AArch64 Linux     *)
(* registers all and erases those whose feature the core lacks, macOS      *)
(* trusts the machine it was built on.                                     *)
(*                                                                         *)
(* require_feature sets a global that every later registration copies, so  *)
(* a row's feature is that of the last call before it.                     *)
(***************************************************************************)
EXTENDS KernelBuild, SequencesExt

VARIABLES
    at,         \* the next registration
    required,   \* registration_required_feature
    bm_list,    \* the registered rows with the feature each has copied, as a set:
                \* their order is that of the registrations
    announced,  \* "Runtime ARM64 ISA:"
    classes,    \* instruction classes the issue probe runs
    executed    \* history: what the instructions run so far need

dispatchVars == <<buildVars, at, required, bm_list, announced, classes, executed>>

Linux == site.system = "Linux"
OnCore(needs) == needs \subseteq site.core
Defined(feature) == feature \in features

-----------------------------------------------------------------------------
(* Arm64RuntimeFeatures::supports; the HWCAP bits are what the core has.   *)

\* Mutant: the ZA kernels for doubles are taken for those of SME.
SupportsSmeOnly(token) ==
    CASE token \in {"_SMEf64_", "_SME_F64F64_", "_SME2_F64F64_"} -> {"sme", "sme_f64f64"}
      [] token = "_SME2_"       -> {"sme", "sme2"}
      [] OTHER                  -> {"sme"}

SmeBits(token) ==
    CASE token = "_SME_"        -> {"sme"}
      [] token = "_SME_I8I32_"  -> {"sme", "sme_i8i32"}
      [] token = "_SME_F16F32_" -> {"sme", "sme_f16f32"}
      [] token = "_SME_B16F32_" -> {"sme", "sme_b16f32"}
      [] token = "_SME_F32F32_" -> {"sme", "sme_f32f32"}
      [] token = "_SME2_"       -> {"sme", "sme2"}
      [] token \in {"_SMEf64_", "_SME_F64F64_"} -> {"sme", "sme_f64f64"}
      [] token = "_SME2_F64F64_" -> {"sme", "sme2", "sme_f64f64"}
      [] token = "_SME_I16I32_" -> {"sme", "sme2", "sme_i16i32"}
      [] token = "_SME_F16F16_" -> {"sme", "sme2", "sme_f16f16"}
      [] token = "_SME_B16B16_" -> {"sme", "sme2", "sme_b16b16"}

\* Which features each macro makes the program announce.
AnnouncedBy(feature) ==
    CASE feature = "_SME_"    -> {"_SME_", "_SME_I8I32_", "_SME_F16F32_", "_SME_B16F32_",
                                  "_SME_F32F32_"}
      [] feature = "_SME2_"   -> {"_SME2_", "_SME2_F64F64_"}
      [] feature = "_SMEf64_" -> {"_SMEf64_", "_SME_F64F64_"}
      [] feature \in AsimdFamilies \cup Infrastructure \cup {"_SVE_"} \cup SveFamilies
                       \cup (Sme2Families \ {"_SMEf64_"}) -> {feature}
      [] OTHER -> {}

SmeTokens == UNION {AnnouncedBy(f) : f \in SmeFamilies}

\* Groups that hold fp16 entry points need FP16 as a whole.
MixedFamilies == {"_ASIMD_FCMA_", "_ASIMD_REDUCE_", "_ASIMD_RECIP_"}
Supports(token) ==
    CASE token \in SmeTokens -> OnCore(SmeBits(token))
      [] token \in MixedFamilies -> OnCore(ArmNeeds(token) \cup {"fp16"})
      [] token \in (AsimdFamilies \ MixedFamilies) \cup Infrastructure \cup {"_SVE_"}
                     \cup SveFamilies -> OnCore(ArmNeeds(token))
      [] OTHER -> FALSE

-----------------------------------------------------------------------------
(* The registrations in their order.  guards are the macros around one,    *)
(* when what it tests at run time, require the feature it asks for ("" to  *)
(* keep the last), needs what its kernels execute.                         *)
(*                                                                         *)
(* A kernel is known to the program by its name and does work of its own:  *)
(* found are the words of classify_vector_scale that occur in the name,    *)
(* accumulator the width between its "(" and its first ",", and work how   *)
(* the operations of one loop grow: with the SVE vector length (sve), with *)
(* the streaming one (sme = "vector"), with the square of the streaming    *)
(* one over elements of some bytes ("outer"), or not at all.               *)

Scale(sve, sme, bytes) == [sve |-> sve, sme |-> sme, bytes |-> bytes]
Unscaled == Scale(FALSE, "none", 0)
Kernel(found, accumulator, work) ==
    [found |-> found, accumulator |-> accumulator, work |-> work]

Fixed == Kernel({}, 0, Unscaled)
Sve   == Kernel({"sve"}, 0, Scale(TRUE, "none", 0))
Sme   == Kernel({"sme"}, 0, Scale(FALSE, "vector", 0))
Outer(bits, bytes) == Kernel({"sme", "opa.vv"}, bits, Scale(FALSE, "outer", bytes))
\* "sme_fmopa2.vv(f64,f64,f64)_latency"
OuterTwo(bytes) == Kernel({"sme"}, 64, Scale(FALSE, "outer", bytes))

Row(guards, require, needs, kernel) ==
    [guards |-> guards, when |-> {}, require |-> require, group |-> require,
     needs |-> needs, kernel |-> kernel, load |-> FALSE, latency |-> FALSE]

Family(feature, kernel) == Row({feature}, feature, ArmNeeds(feature), kernel)
Keep(row) == [row EXCEPT !.require = ""]
Half(feature) ==
    Keep(Row({feature, "_ASIMD_HP_"}, feature, ArmNeeds(feature) \cup {"fp16"}, Fixed))
Load(row) == [row EXCEPT !.load = TRUE]
Latency(row) == [row EXCEPT !.latency = TRUE]
If(row, bits) == [row EXCEPT !.when = bits]

ArmAsimd ==
    << Family("_I8MM_", Fixed), Family("_ASIMD_DP_", Fixed), Family("_BF16_", Fixed),
       Family("_FHM_", Fixed), Family("_ASIMD_HP_", Fixed), Family("_ASIMD_", Fixed) >>
\* Their files hold entry points for fp16 where _ASIMD_HP_ is compiled too.
ArmMixed ==
    << Family("_SVE_", Sve),
       Family("_ASIMD_FCMA_", Fixed),   Half("_ASIMD_FCMA_"),
       Family("_ASIMD_REDUCE_", Fixed), Half("_ASIMD_REDUCE_"),
       Family("_ASIMD_RECIP_", Fixed),  Half("_ASIMD_RECIP_"),
       Family("_ASIMD_INT_MAC_", Fixed), Family("_ASIMD_TBL_", Fixed) >>
ArmSve ==
    << Family("_SVE_I8MM_", Sve), Family("_SVE_BF16_", Sve), Family("_SVE_F32MM_", Sve),
       Family("_SVE_F64MM_", Sve), Family("_SVE_FP16_FMLA_", Sve), Family("_SVE2_", Sve) >>
\* One file, one macro, four features of the core.
ArmSme ==
    << Row({"_SME_"}, "_SME_B16F32_", {"sme", "sme_b16f32"}, Outer(32, 4)),
       Row({"_SME_"}, "_SME_F32F32_", {"sme", "sme_f32f32"}, Outer(32, 4)),
       Row({"_SME_"}, "_SME_F16F32_", {"sme", "sme_f16f32"}, Outer(32, 4)),
       Row({"_SME_"}, "_SME_I8I32_", {"sme", "sme_i8i32"}, Outer(32, 4)),
       Family("_SME_F16F16_", Outer(16, 2)), Family("_SME_B16B16_", Outer(16, 2)),
       Family("_SME_I16I32_", Outer(32, 4)) >>
\* A latency kernel has the name of its row, but for this one.
DoubleRow(kernel) == Row({"_SMEf64_"}, "_SME_F64F64_", {"sme", "sme_f64f64"}, kernel)
ArmSme2 ==
    << Family("_SME2_", Sme), Latency(DoubleRow(OuterTwo(8))), Keep(DoubleRow(Outer(64, 8))),
       Row({"_SMEf64_", "_SME2_"}, "_SME2_F64F64_", {"sme", "sme2", "sme_f64f64"}, Sme) >>
ArmCompute == ArmAsimd \o ArmMixed \o ArmSve \o ArmSme \o ArmSme2

AmxRows == If(Family("_AMX_", Fixed), {"amx"})

ArmLoadRest == << Load(Family("_SVE_", Sve)), Load(Family("_SME_", Sme)),
                  Load(Family("_SME2_", Sme)), Load(AmxRows) >>
ArmLoad == << Load(Row({}, "_LDP_", {"asimd"}, Fixed)) >> \o ArmLoadRest

\* Mutant: the feature of the baseline loads is set before the loop over the
\* levels.
ArmTableOnce == ArmCompute \o ArmLoad
                \o << Keep(ArmLoad[1]) >> \o ArmLoadRest \o <<AmxRows>>
\* Both levels register the same kernels.
ArmTable == ArmCompute \o ArmLoad \o ArmLoad \o <<AmxRows>>

Ymm(bits) == {"osxsave", "ymm", "avx"} \cup bits
Zmm(bits) == {"osxsave", "ymm", "zmm", "avx512f"} \cup bits
Tmm(bits) == {"osxsave", "tiles", "amx_tile", "permission"} \cup bits

\* The AVX-VNNI kernels clear their registers with an AVX2 instruction.
X86Row(bit, needs) == If(Row({X86Tokens[bit]}, "", needs, Fixed), {bit})
X86Tile(bit) == If(X86Row(bit, Tmm({bit})), {"amx_tile", "permission", bit})
X86Load(bits, needs) == Load(If(Row({}, "", needs, Fixed), bits))
X86Zmm == Load(X86Row("avx512f", Zmm({})))

X86Level == << X86Load({"avx"}, Ymm({})), X86Load({}, {"sse"}), X86Load({}, {"sse"}), X86Zmm,
               X86Load({}, {"sse"}), X86Load({"avx"}, Ymm({})), X86Zmm >>
X86Wide ==
    << X86Row("avx2", Ymm({"avx2"})), X86Row("avx512_ifma", Zmm({"avx512_ifma"})),
       X86Row("avx512_vbmi", Zmm({"avx512_vbmi"})),
       X86Row("avx512_vpopcntdq", Zmm({"avx512_vpopcntdq"})),
       X86Tile("amx_int8"), X86Tile("amx_bf16"),
       X86Row("avx512_vnni", Zmm({"avx512_vnni"})),
       X86Row("avx_vnni", Ymm({"avx_vnni", "avx2"})),
       X86Row("avx_vnni_int8", Ymm({"avx_vnni_int8", "avx2"})),
       X86Row("avx512_bf16", Zmm({"avx512_bf16"})), X86Row("avx512_fp16", Zmm({"avx512_fp16"})) >>
X86Base ==
    << X86Row("avx512f", Zmm({})), X86Row("fma", Ymm({"fma"})), X86Row("avx", Ymm({})),
       X86Row("sse", {"sse"}), X86Row("sse2", {"sse2"}) >>
X86Table == X86Wide \o X86Base \o X86Level \o X86Level

Table == IF site.arch = "arm64" THEN ArmTable ELSE X86Table

\* The registrations that are in the list.
Listed == {item.row : item \in bm_list}

\* What a registration can test: the CPUID flags with the permission to use
\* tile data, which only Linux grants, or whether AMX executes.
RuntimeBits ==
    IF site.arch = "arm64" THEN site.core \cap {"amx"}
    ELSE X86Features(site.core) \cup (IF Linux THEN site.core \cap {"permission"} ELSE {})

-----------------------------------------------------------------------------
DispatchInit ==
    /\ BuildInit
    /\ at = 1 /\ required = "_ASIMD_"
    /\ bm_list = {} /\ announced = {} /\ classes = {} /\ executed = {}

Register ==
    /\ phase = "register" /\ at <= Len(Table)
    /\ LET row == Table[at]
           compiled == row.guards \subseteq features /\ row.when \subseteq RuntimeBits
           feature == IF row.require = "" THEN required ELSE row.require
       IN  IF compiled
           THEN /\ required' = feature
                /\ bm_list' = bm_list \cup {[row |-> at, feature |-> feature]}
           ELSE UNCHANGED <<required, bm_list>>
    /\ at' = at + 1
    /\ UNCHANGED <<buildVars, announced, classes, executed>>

\* Only AArch64 Linux filters; the others have registered what may run.
Filter ==
    /\ phase = "register" /\ at > Len(Table)
    /\ IF MultiIsa
       THEN /\ bm_list' = {item \in bm_list : Supports(item.feature)}
            /\ announced' = {t \in UNION {AnnouncedBy(f) : f \in features} : Supports(t)}
       ELSE UNCHANGED <<bm_list, announced>>
    /\ phase' = "banner"
    /\ UNCHANGED <<site, features, assembled, at, required, classes, executed>>

\* An optional instruction set is used where it is compiled in and, on Linux,
\* the core has it.
Usable(feature, bit) == Defined(feature) /\ (site.system = "Darwin" \/ OnCore({bit}))

Execute(needs) ==
    /\ executed' = executed \cup needs
    /\ UNCHANGED <<site, features, assembled, at, required, bm_list, announced>>

Nothing ==
    /\ phase = "banner" /\ bm_list = {}
    /\ phase' = "done"
    /\ UNCHANGED <<site, features, assembled, at, required, bm_list, announced, classes, executed>>

\* cpubm_do_bench reads the vector lengths for its banner.
Banner ==
    /\ phase = "banner" /\ bm_list # {}
    /\ Execute((IF site.arch = "arm64" /\ Usable("_SVE_", "sve") THEN {"sve"} ELSE {})
          \cup (IF site.arch = "arm64" /\ Usable("_SME_", "sme") THEN {"sme"} ELSE {}))
    /\ phase' = "frequency"
    /\ UNCHANGED classes

\* get_cpu_freq: IPC columns of the baseline, and of SVE where the core has it.
Frequency ==
    /\ phase = "frequency"
    /\ Execute(IF site.arch = "x64" THEN {"sse", "sse2"}
               ELSE {"asimd"} \cup (IF Defined("_SVE_") /\ OnCore({"sve"}) THEN {"sve"} ELSE {}))
    /\ phase' = "stream"
    /\ UNCHANGED classes

\* select_stream_kernel and the store kernels: the widest form.
Stream ==
    /\ phase = "stream"
    /\ Execute(IF site.arch = "arm64"
               THEN {"asimd"} \cup (IF Linux /\ Usable("_SVE_", "sve") THEN {"sve"} ELSE {})
               ELSE IF "avx512f" \in X86Features(site.core) THEN Zmm({})
               ELSE IF "avx" \in X86Features(site.core) THEN Ymm({}) ELSE {"sse"})
    /\ phase' = "issue"
    /\ UNCHANGED classes

\* kernel/issue_classes.def: the macro around a class, the feature it names and
\* what its instruction needs (the outer product of floats comes with every SME).
Class(name, guards, feature, needs) ==
    [name |-> name, guards |-> guards, feature |-> feature, needs |-> needs]

IssueClasses ==
    IF site.arch = "arm64"
    THEN {Class(n, {}, "", {"asimd"}) : n \in {"alu", "neon_fmla", "neon_ldr", "neon_str"}}
         \cup {Class(n, {"_SVE_"}, "_SVE_", {"sve"}) : n \in {"sve_fmla", "sve_ld1w", "sve_st1w"}}
         \cup {Class(n, {"_SME_"}, "_SME_", {"sme"}) :
                   n \in {"sme_fmopa", "ssve_fmla", "ssve_ld1w", "ssve_st1w"}}
         \cup {Class("sme_fmopa_f64", {"_SMEf64_"}, "_SME_F64F64_", {"sme", "sme_f64f64"})}
         \cup {Class(n, {"_SMEf64_"}, "_SME_", {"sme"}) : n \in {"ssve_fmla_f64", "ssve_ld1d"}}
    ELSE {Class(n, {}, "", {"sse"}) : n \in {"alu", "sse_add", "sse_load"}}
         \cup {Class("avx_fma", {}, "fma", Ymm({"fma"}))}
         \cup {Class(n, {}, "avx", Ymm({})) : n \in {"avx_load", "avx_store"}}
         \cup {Class(n, {}, "avx512f", Zmm({})) :
                   n \in {"avx512_fma", "avx512_load", "avx512_store"}}

\* issue_feature_available
IssueFeature(feature) ==
    \/ feature = ""
    \/ MultiIsa /\ Supports(feature)
    \/ site.arch = "arm64" /\ ~MultiIsa
    \/ site.arch = "x64" /\ feature \in X86Features(site.core) \cap {"avx", "fma", "avx512f"}

SelectClasses ==
    /\ phase = "issue"
    /\ LET run == {c \in IssueClasses : c.guards \subseteq features /\ IssueFeature(c.feature)} IN
       /\ classes' = {c.name : c \in run}
       /\ Execute(UNION {c.needs : c \in run})
    /\ phase' = "rows"

RunRows ==
    /\ phase = "rows"
    /\ Execute(UNION {Table[k].needs : k \in Listed})
    /\ phase' = "done"
    /\ UNCHANGED classes

DispatchNext ==
    \/ BuildNext /\ UNCHANGED <<at, required, bm_list, announced, classes, executed>>
    \/ Register \/ Filter \/ Nothing \/ Banner \/ Frequency \/ Stream
    \/ SelectClasses \/ RunRows

DispatchSpec == DispatchInit /\ [][DispatchNext]_dispatchVars

-----------------------------------------------------------------------------
(* The factor a row's count of operations is multiplied by.                *)

\* Mutant: the accumulators of doubles are not looked for.
ElementBytesOfTwo(kernel) ==
    IF "opa.vv" \notin kernel.found THEN 0
    ELSE CASE kernel.accumulator = 32 -> 4
           [] kernel.accumulator = 16 -> 2
           [] OTHER -> 0

ElementBytes(kernel) ==
    IF "opa.vv" \notin kernel.found THEN 0
    ELSE CASE kernel.accumulator = 32 -> 4
           [] kernel.accumulator = 64 -> 8
           [] kernel.accumulator = 16 -> 2
           [] OTHER -> 0

\* classify_vector_scale, from the name
Classified(kernel) ==
    LET bytes == ElementBytes(kernel)
        sme == IF bytes > 0 THEN "outer" ELSE IF "sme" \in kernel.found THEN "vector" ELSE "none"
    IN  Scale("sve" \in kernel.found, sme, bytes)

\* cpubm_scaled_comp_pl: the scale of an extension counts where its macro is
\* defined.
Credited(kernel) ==
    LET scale == Classified(kernel)
        streaming == IF Defined("_SME_") THEN scale ELSE Unscaled
    IN  Scale(Defined("_SVE_") /\ scale.sve, streaming.sme, streaming.bytes)

Started == phase \in {"banner", "frequency", "stream", "issue", "rows", "done"}

\* Kernels that are decided on together need what any of them needs.
GroupNeeds(row) ==
    IF site.arch = "x64" THEN row.needs
    ELSE UNION {Table[i].needs : i \in {k \in DOMAIN Table : Table[k].group = row.group}}

\* No instruction the core cannot execute is ever executed, whatever was
\* compiled, forced or detected elsewhere: not by a row, the banner, the
\* frequency columns, a stream or a class of the issue probe.
OnlyRunnableExecuted == executed \subseteq site.core

\* Every compiled row whose group the core can execute is in the list, no other
\* is, and on AArch64 Linux the line "Runtime ARM64 ISA" names its feature.
RowsMatchCore ==
    Started =>
        /\ \A k \in DOMAIN Table :
              k \in Listed <=> /\ Table[k].guards \subseteq features
                               /\ GroupNeeds(Table[k]) \subseteq site.core
        /\ MultiIsa => \A item \in bm_list : item.feature \in announced

\* The operations a displayed compute row is credited with grow as its kernel's
\* do: the scale found in the name is that of the kernel, and the macro it is
\* applied under is defined wherever the row is registered.  A latency kernel is
\* timed and its operations are not counted.
WorkIsScaled ==
    \A k \in Listed :
        LET row == Table[k] IN
        ~row.load /\ ~row.latency => Credited(row.kernel) = row.kernel.work
=============================================================================
