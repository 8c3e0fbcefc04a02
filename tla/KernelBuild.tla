---------------------------- MODULE KernelBuild ----------------------------
(***************************************************************************)
(* Which kernels a build of cpufb contains (CMakeLists.txt, cmake/,        *)
(* arm64/cpuid.cpp, x64/cpuid.c): the list of features is the user's, a    *)
(* default of the architecture, or what a detector finds on the machine    *)
(* that builds; a feature whose assembly the toolchain rejects is dropped; *)
(* what is left is assembled, defines the macros of the C++ code, and has  *)
(* to link.                                                                *)
(*                                                                         *)
(* A site is a build and the machine it runs on:                           *)
(*   arch, system   "arm64" or "x64", "Linux" or "Darwin"                  *)
(*   cross          cross-compiled (the detector cannot run)               *)
(*   override       CPUFB_SIMD_FEATURES_OVERRIDE, {} when not given        *)
(*   accepts        the -march levels and modifiers the compiler knows     *)
(*   builder, core  what the building and the running core implement, on   *)
(*                  x64 with the register state its system enables         *)
(*   unforked       detector tests whose fork() fails                      *)
(***************************************************************************)
EXTENDS Naturals, Sequences

CONSTANTS Sites

\* What is known of compilers and cores whatever their make.
ASSUME SitesAssumption ==
    \A s \in Sites :
        /\ s.arch \in {"arm64", "x64"}
        \* a compiler for a newer extension is one for the older
        /\ "sve2" \in s.accepts => "sve" \in s.accepts
        /\ "sme2" \in s.accepts => {"armv9-a", "sme"} \subseteq s.accepts
        \* the baseline the C++ code itself is compiled for; a kernel that reports
        \* no Advanced SIMD reports nothing else
        /\ s.arch = "arm64" => s.core = {} \/ "asimd" \in s.core
        /\ s.arch = "x64" => {"sse", "sse2"} \subseteq s.core
        /\ s.core \cap {"avx_vnni", "avx_vnni_int8"} # {} => "avx2" \in s.core
        \* AMX is Apple's, and Linux the only system to be asked for tile data
        /\ "amx" \in s.core => s.system = "Darwin"
        /\ "permission" \in s.core => s.system = "Linux"
        \* a macOS build runs on the machine that built it (issue_kernels.cpp:18),
        \* with what the detector found there; every Apple core has half precision,
        \* which no detector tests, and FEAT_SME comes with its four products
        /\ s.system = "Darwin" =>
              /\ s.core = s.builder
              /\ ~s.cross /\ s.override = {}
              /\ s.arch = "arm64" => "fp16" \in s.core
              /\ "sme" \in s.core =>
                    {"sme_i8i32", "sme_f16f32", "sme_b16f32", "sme_f32f32"} \subseteq s.core

VARIABLES
    site,
    phase,      \* where the build, then the program, is
    features,   \* CPUFB_SIMD_FEATURES
    assembled   \* the features with an object file in the program

buildVars == <<site, phase, features, assembled>>

\* The features an SVE or an SME kernel file may be named after.
SveFamilies == {"_SVE_I8MM_", "_SVE_BF16_", "_SVE_F32MM_", "_SVE_F64MM_",
                "_SVE_FP16_FMLA_", "_SVE2_"}
Sme2Families == {"_SMEf64_", "_SME_F16F16_", "_SME_B16B16_", "_SME_I16I32_"}
SmeFamilies == {"_SME_", "_SME2_"} \cup Sme2Families
AsimdFamilies == {"_ASIMD_", "_ASIMD_HP_", "_ASIMD_DP_", "_BF16_", "_I8MM_", "_FHM_",
                  "_ASIMD_FCMA_", "_ASIMD_REDUCE_", "_ASIMD_RECIP_", "_ASIMD_INT_MAC_",
                  "_ASIMD_TBL_"}
Infrastructure == {"_LDP_", "_ISSUE_"}

\* What -march needs for a feature's file.  The file of the issue probe has the
\* kernels of several, so its flag depends on the whole list.
MarchOf(feature, list) ==
    CASE feature = "_BF16_"          -> {"bf16"}
      [] feature = "_I8MM_"          -> {"i8mm"}
      [] feature = "_ASIMD_DP_"      -> {"dotprod"}
      [] feature = "_FHM_"           -> {"fp16", "fp16fml"}
      [] feature = "_ASIMD_FCMA_"    -> {"armv8.3-a", "fp16"}
      [] feature \in {"_ASIMD_HP_", "_ASIMD_REDUCE_", "_ASIMD_RECIP_"} -> {"fp16"}
      [] feature = "_SVE_"           -> {"sve"}
      [] feature \in {"_SVE_I8MM_", "_SVE_BF16_"} -> {"armv8.6-a", "sve"}
      [] feature = "_SVE_F32MM_"     -> {"armv8.6-a", "sve", "f32mm"}
      [] feature = "_SVE_F64MM_"     -> {"armv8.6-a", "sve", "f64mm"}
      [] feature = "_SVE_FP16_FMLA_" -> {"sve", "fp16"}
      [] feature = "_SVE2_"          -> {"sve2"}
      [] feature = "_SME_"           -> {"armv9-a", "sme"}
      [] feature = "_SME2_"          -> {"armv9-a", "sme2"}
      [] feature = "_SMEf64_"        -> {"armv9-a", "sme2", "sme-f64f64"}
      [] feature = "_SME_F16F16_"    -> {"armv9.2-a", "sme2", "sme-f16f16"}
      [] feature = "_SME_B16B16_"    -> {"armv9.2-a", "sme2", "sme-b16b16"}
      [] feature = "_SME_I16I32_"    -> {"armv9.2-a", "sme2", "sme-i16i64"}
      [] feature = "_ISSUE_" ->
            IF "_SMEf64_" \in list THEN {"armv9-a", "sme", "sme-f64f64"}
            ELSE IF "_SME_" \in list THEN {"armv9-a", "sme"} ELSE {"sve"}
      [] OTHER -> {}

Accepted(feature, list) ==
    site.arch = "arm64" => MarchOf(feature, list) \subseteq site.accepts

\* The default of a Linux or Android build for AArch64: everything, but an SME
\* family only if the compiler takes its flag.
DefaultList ==
    AsimdFamilies \cup Infrastructure \cup {"_SVE_"} \cup SveFamilies
        \cup {f \in SmeFamilies : Accepted(f, {})}

\* "Close feature dependencies for user overrides as well as defaults."
Closure(list) ==
    LET sve  == IF list \cap SveFamilies # {} THEN {"_SVE_"} ELSE {}
        sme2 == IF list \cap Sme2Families # {} THEN {"_SME2_"} ELSE {}
        sme  == IF "_SME2_" \in list \cup sme2 THEN {"_SME_"} ELSE {}
    IN  list \cup {"_ASIMD_"} \cup Infrastructure \cup sve \cup sme2 \cup sme

CrossDefault ==
    IF site.arch = "arm64"
    THEN {"_ASIMD_", "_ASIMD_HP_", "_ASIMD_DP_", "_BF16_", "_I8MM_", "_FHM_"} \cup Infrastructure
    ELSE {}

-----------------------------------------------------------------------------
(* The detectors print what the building machine can run.                  *)

\* What executing an instruction of the family takes.
ArmNeeds(feature) ==
    CASE feature \in {"_ASIMD_", "_LDP_", "_ISSUE_", "_ASIMD_INT_MAC_", "_ASIMD_TBL_",
                      "_ASIMD_REDUCE_", "_ASIMD_RECIP_"} -> {"asimd"}
      [] feature = "_ASIMD_HP_"   -> {"asimd", "fp16"}
      [] feature = "_ASIMD_DP_"   -> {"asimd", "dotprod"}
      [] feature = "_BF16_"       -> {"asimd", "bf16"}
      [] feature = "_I8MM_"       -> {"asimd", "i8mm"}
      [] feature = "_FHM_"        -> {"asimd", "fp16", "fhm"}
      [] feature = "_ASIMD_FCMA_" -> {"asimd", "fcma"}
      [] feature = "_SVE_"        -> {"sve"}
      [] feature = "_SVE_I8MM_"   -> {"sve", "sve_i8mm"}
      [] feature = "_SVE_BF16_"   -> {"sve", "sve_bf16"}
      [] feature = "_SVE_F32MM_"  -> {"sve", "sve_f32mm"}
      [] feature = "_SVE_F64MM_"  -> {"sve", "sve_f64mm"}
      [] feature = "_SVE_FP16_FMLA_" -> {"sve", "fp16"}
      [] feature = "_SVE2_"       -> {"sve", "sve2"}
      [] feature = "_SME_"        -> {"sme"}
      [] feature = "_SME2_"       -> {"sme", "sme2"}
      [] feature = "_SMEf64_"     -> {"sme", "sme_f64f64"}
      [] feature = "_SME_F16F16_" -> {"sme", "sme2", "sme_f16f16"}
      [] feature = "_SME_B16B16_" -> {"sme", "sme2", "sme_b16b16"}
      [] feature = "_SME_I16I32_" -> {"sme", "sme2", "sme_i16i32"}
      [] feature = "_AMX_"        -> {"amx"}

\* What the instruction a detector runs takes: for half precision it is FCVT, which
\* every AArch64 core has.
Exercises(feature) == IF feature = "_ASIMD_HP_" THEN {"asimd"} ELSE ArmNeeds(feature)

\* A test runs its instruction in a child process; without a child the feature
\* counts as absent.
Survives(feature) ==
    Exercises(feature) \subseteq site.builder /\ feature \notin site.unforked

ArmDetected ==
    LET tested == {"_ASIMD_", "_ASIMD_HP_", "_ASIMD_DP_", "_I8MM_", "_BF16_", "_FHM_",
                   "_ASIMD_FCMA_", "_SVE_", "_AMX_", "_SME_"}
                  \cup (IF Survives("_SVE_") THEN SveFamilies ELSE {})
                  \cup (IF Survives("_SME_") THEN SmeFamilies \ {"_SMEf64_"} ELSE {})
                  \cup (IF Survives("_SME_") /\ Survives("_SME2_") THEN {"_SMEf64_"} ELSE {})
    IN  {f \in tested : Survives(f)} \cup Infrastructure
            \cup {"_ASIMD_REDUCE_", "_ASIMD_RECIP_", "_ASIMD_INT_MAC_", "_ASIMD_TBL_"}

\* cpufb_x86_detect_runtime_features: a bit counts only with the register state
\* its instructions use.
X86Features(machine) ==
    LET avx    == {"osxsave", "ymm", "avx"} \subseteq machine
        avx512 == {"osxsave", "ymm", "zmm", "avx512f"} \subseteq machine
        tile   == {"osxsave", "tiles", "amx_tile"} \subseteq machine
    IN  {bit \in machine :
            \/ bit \in {"sse", "sse2"}
            \/ avx    /\ bit \in {"avx", "fma", "avx2", "avx_vnni", "avx_vnni_int8"}
            \/ avx512 /\ bit \in {"avx512f", "avx512_ifma", "avx512_vbmi", "avx512_vpopcntdq",
                                 "avx512_vnni", "avx512_bf16", "avx512_fp16"}
            \/ tile   /\ bit \in {"amx_tile", "amx_int8", "amx_bf16"}}

\* The token each bit prints; the names are those of the kernel files.
X86Tokens == [fma |-> "_FMA_", avx |-> "_AVX_", avx2 |-> "_AVX2_", sse |-> "_SSE_",
    sse2 |-> "_SSE2_", avx_vnni |-> "_AVX_VNNI_", avx_vnni_int8 |-> "_AVX_VNNI_INT8_",
    avx512f |-> "_AVX512F_", avx512_ifma |-> "_AVX512_IFMA_", avx512_vbmi |-> "_AVX512_VBMI_",
    avx512_vpopcntdq |-> "_AVX512_VPOPCNTDQ_", avx512_vnni |-> "_AVX512_VNNI_",
    avx512_bf16 |-> "_AVX512_BF16_", avx512_fp16 |-> "_AVX512_FP16_",
    amx_int8 |-> "_AMX_INT8_", amx_bf16 |-> "_AMX_BF16_"]

X86Detected ==
    {X86Tokens[bit] : bit \in DOMAIN X86Tokens \cap X86Features(site.builder)}
        \cup Infrastructure

-----------------------------------------------------------------------------
MultiIsa == site.arch = "arm64" /\ site.system # "Darwin"

BuildInit ==
    /\ site \in Sites
    /\ phase = "detect"
    /\ features = {} /\ assembled = {}

Detect ==
    /\ phase = "detect"
    /\ features' =
        IF MultiIsa THEN Closure(IF site.override # {} THEN site.override ELSE DefaultList)
        ELSE IF site.override # {} THEN site.override
        ELSE IF site.cross THEN CrossDefault
        ELSE IF site.arch = "arm64" THEN ArmDetected ELSE X86Detected
    /\ phase' = "assemble"
    /\ UNCHANGED <<site, assembled>>

\* The rejected features leave the list only after all have been tried, so the
\* flag of _ISSUE_ is that of the list before.
Assemble ==
    /\ phase = "assemble"
    /\ LET dropped == {f \in features : ~Accepted(f, features)} IN
       /\ features' = features \ dropped
       /\ assembled' = (features \ dropped)
                        \cup (IF site.arch = "x64" THEN Infrastructure ELSE {})
    /\ phase' = "link"
    /\ UNCHANGED site

\* The load rows, the stream and issue tables and, on arm64, the frequency
\* probe name their kernels whatever the list says.
Unconditional == Infrastructure \cup (IF site.arch = "arm64" THEN {"_ASIMD_"} ELSE {})

Link ==
    /\ phase = "link"
    /\ phase' = IF Unconditional \subseteq assembled THEN "register" ELSE "unlinked"
    /\ UNCHANGED <<site, features, assembled>>

BuildNext == Detect \/ Assemble \/ Link

\* "An older toolchain [...] must drop the feature, not fail the build: the rows
\* are selected at run time and simply stay absent" (CMakeLists.txt:148): with
\* a compiler for the SVE and scalar kernels the program links.
OlderToolchainBuilds == (MultiIsa /\ "sve" \in site.accepts) => phase # "unlinked"
=============================================================================
