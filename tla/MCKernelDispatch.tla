-------------------------- MODULE MCKernelDispatch --------------------------
(***************************************************************************)
(* Cores from an ARMv8.0 one without options to one with SVE2 and every    *)
(* SME extension, an SME core without the optional ones, an SVE core and   *)
(* an SME core without SVE (Apple's); x64 from SSE2 to AMX, with register  *)
(* states that the system does or does not enable.  Compilers from one     *)
(* that knows no bf16 to one that knows everything.                        *)
(***************************************************************************)
EXTENDS KernelDispatch

\* Releases of the assembler, each with what it added.
Gcc9  == {"dotprod", "fp16", "fp16fml", "armv8.3-a", "sve"}
Gcc11 == Gcc9 \cup {"bf16", "i8mm", "armv8.6-a", "f32mm", "f64mm", "sve2"}
Gcc13 == Gcc11 \cup {"armv9-a", "sme"}
Gcc14 == Gcc13 \cup {"armv9.2-a", "sme2", "sme-f64f64", "sme-i16i64"}
Clang == Gcc14 \cup {"sme-f16f16", "sme-b16b16"}

Armv80 == {"asimd"}
Armv82 == Armv80 \cup {"fp16", "dotprod"}
Armv84 == Armv82 \cup {"fcma", "fhm"}
Sve1   == Armv82 \cup {"fcma", "sve"}
Sve2   == Armv84 \cup {"bf16", "i8mm", "sve", "sve2", "sve_i8mm", "sve_bf16"}
Matrix == Sve1 \cup {"bf16", "i8mm", "sve_i8mm", "sve_bf16", "sve_f32mm", "sve_f64mm"}
SmeBase == {"sme", "sme_i8i32", "sme_f16f32", "sme_b16f32", "sme_f32f32"}
Apple1 == Armv84 \cup {"amx"}
Apple4 == Armv84 \cup {"bf16", "i8mm", "sme2", "sme_f64f64", "sme_i16i32", "amx"} \cup SmeBase
Sme1   == Sve2 \cup SmeBase
SmeF64 == Sme1 \cup {"sme_f64f64"}
SmeAll == SmeF64 \cup {"sme2", "sme_f16f16", "sme_b16b16", "sme_i16i32"}

ArmCores == {Armv80, Armv82, Armv84, Sve1, Sve2, Matrix, Sme1, SmeF64, SmeAll, Apple4 \ {"amx"}}

Overrides ==
    { {}, {"_BF16_", "_I8MM_", "_SVE_", "_SVE2_"}, {"_SVE_I8MM_"}, {"_SVE_F32MM_"}, {"_SME2_"},
      {"_SMEf64_"}, {"_ASIMD_FCMA_", "_SME_I16I32_"} }

Site(arch, system, override, accepts, builder, core) ==
    [arch |-> arch, system |-> system, cross |-> builder = {}, override |-> override,
     accepts |-> accepts, builder |-> builder, unforked |-> {}, core |-> core]

ArmLinux(overrides, compilers, cores) ==
    {Site("arm64", "Linux", o, a, {}, c) : o \in overrides, a \in compilers, c \in cores}

\* Where any detector test may fail to fork.
Macs == {[Site("arm64", "Darwin", {}, Clang, c, c) EXCEPT !.unforked = u] :
            c \in {Apple1, Apple4},
            u \in {{}, {"_ASIMD_"}, {"_BF16_"}, {"_AMX_"}, {"_SME_"}, {"_SME2_"}, {"_SMEf64_"}}}

Sse  == {"sse", "sse2"}
Avx1 == Sse \cup {"osxsave", "ymm", "avx"}
Hsw  == Avx1 \cup {"fma", "avx2"}
Adl  == Hsw \cup {"avx_vnni", "avx_vnni_int8"}
Skx  == Hsw \cup {"zmm", "avx512f", "avx512_vnni"}
Spr  == Skx \cup {"avx_vnni", "avx512_ifma", "avx512_vbmi", "avx512_vpopcntdq", "avx512_bf16",
                  "avx512_fp16", "tiles", "amx_tile", "amx_int8", "amx_bf16", "permission"}
X86Cores == {Sse, Avx1, Hsw, Adl, Skx, Spr, Skx \ {"zmm"}, Spr \ {"permission"}, Spr \ {"tiles"},
             Hsw \ {"osxsave"}, Hsw \ {"ymm"}}

X86Sites ==
    {Site("x64", "Linux", o, {}, builder, core) :
        o \in {{}, {"_AVX512F_", "_AMX_INT8_"}}, builder \in X86Cores \cup {{}}, core \in X86Cores}
    \cup {Site("x64", "Windows", {}, {}, Spr, core \ {"permission"}) : core \in X86Cores}

MCSites ==
    ArmLinux(Overrides \ {{"_SME2_"}, {"_SMEf64_"}, {"_ASIMD_FCMA_", "_SME_I16I32_"}},
             {Gcc9, Gcc11, Gcc13}, ArmCores \cup {{}})
    \cup ArmLinux(Overrides, {Gcc14, Clang}, ArmCores)
    \cup Macs \cup X86Sites

OldSites == ArmLinux(Overrides, {Gcc9, Gcc11}, {Armv80, Sve2, SmeAll})
=============================================================================
