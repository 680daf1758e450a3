------------------------------- MODULE X86Isa -------------------------------
(***************************************************************************)
(* The instruction sets of x86 machines: src/src/isa.h, which the compiler *)
(* uses to find the host's target and builtins/dispatch.c compiles into    *)
(* every dispatch module.  A machine is what the code can observe of it:   *)
(* the CPUID bits it reports, the register states its OS saves, and        *)
(* whether it is a Mac.                                                    *)
(***************************************************************************)
EXTENDS Integers, FiniteSets, FiniteSetsExt

\* Target::ISA: the enumerants of isa.h, then those of the other hardware.
ISA == [INVALID |-> -1, SSE2 |-> 0, SSE41 |-> 1, SSE42 |-> 2, AVX |-> 3, AVX11 |-> 4,
        AVX2 |-> 5, AVX2VNNI |-> 6, KNL_AVX512 |-> 7, SKX_AVX512 |-> 8, ICL_AVX512 |-> 9,
        SPR_AVX512 |-> 10, GNR_AVX512 |-> 11, NVL_AVX10_2 |-> 12, DMR_AVX10_2 |-> 13,
        NEON |-> 14, VSX |-> 15, RV64GCV |-> 16, WASM |-> 17, XELP |-> 18, XEHPG |-> 19,
        XEHPC |-> 20, XELPG |-> 21, XE2HPG |-> 22, XE2LPG |-> 23, NUM_ISAS |-> 24]

-----------------------------------------------------------------------------
(***************************************************************************)
(* The CPUID bits of the processors.  The bits that the tests of           *)
(* get_x86_isa always take together are one bit here.                      *)
(***************************************************************************)
Sandy == {"sse2", "sse41", "sse42", "osxsave", "avx"}
Haswell == Sandy \union {"f16c", "rdrand", "avx2"}
Skx == Haswell \union {"avx512_f", "cd", "dq_bw_vl"}
Icl == Skx \union {"avx512_vnni", "vbmi2_bitalg_vpopcntdq"}
Spr == Icl \union {"bf16", "fp16", "avx_vnni", "amx"}
Gnr == Spr \union {"amxfp16", "prefetchi"}
Client == {"avxvnniint", "avxneconvert", "avxifma", "cmpccxadd"}
CpuBits == [
    x86_64 |-> {"sse2"}, Penryn |-> {"sse2", "sse41"}, Nehalem |-> {"sse2", "sse41", "sse42"},
    SandyBridge |-> Sandy, PS4 |-> Sandy \union {"f16c"},
    IvyBridge |-> Sandy \union {"f16c", "rdrand"}, Haswell |-> Haswell,
    KNL |-> Haswell \union {"avx512_f", "cd", "pf_er"}, SKX |-> Skx, ICL |-> Icl, SPR |-> Spr,
    GNR |-> Gnr, DMR |-> Gnr \union Client \union {"avx10_2", "apx", "amxcomplex"},
    ADL |-> Haswell \union {"avx_vnni"}, ARL |-> Haswell \union Client \union {"avx_vnni"},
    NVL |-> Icl \union Client \union {"bf16", "fp16", "avx_vnni", "prefetchi", "avx10_2", "apx"},
    ZNVER4 |-> Icl \union {"bf16"}, ZNVER5 |-> Icl \union {"bf16", "avx_vnni"}]

(***************************************************************************)
(* The register states that the OS of a machine saves.  Without them the   *)
(* instructions that use the registers fault.  That of AMX is for the      *)
(* application to enable, and is not looked at.                            *)
(***************************************************************************)
OsStates == [none |-> {}, avx |-> {"avx"}, avx512 |-> {"avx", "avx512"}, apx |-> {"avx", "avx512", "apx"}]
CpuidBits(mach) == CpuBits[mach.cpu] \ (IF mach.hidden THEN {"amx"} ELSE {})
Saved(mach) == OsStates[mach.os]
__os_has_avx_support(mach) == "avx" \in Saved(mach)
__os_has_avx512_support(mach) == mach.mac \/ {"avx", "avx512"} \subseteq Saved(mach)
get_x86_os_has_apx(mach) == "osxsave" \in CpuidBits(mach) /\ "apx" \in Saved(mach)

get_x86_cpu_has_amx(mach) == ~mach.mac /\ "amx" \in CpuidBits(mach)

\* Whether the machine has what get_x86_isa looks for in an ISA.
HasIsa(mach, isa) ==
    LET all == CpuidBits(mach)
        has(bits) == bits \subseteq all
        avx512 == has({"osxsave", "avx2", "avx512_f"}) /\ __os_has_avx512_support(mach)
        skx == avx512 /\ has({"cd", "dq_bw_vl"})
        icl == ~mach.mac /\ skx /\ has({"avx512_vnni", "vbmi2_bitalg_vpopcntdq"})
        spr == icl /\ has({"bf16", "fp16", "avx_vnni", "amx"})
        gnr == spr /\ has({"amxfp16", "prefetchi"})
        avx == has({"osxsave", "avx"}) /\ __os_has_avx_support(mach)
    IN  CASE isa = ISA.DMR_AVX10_2 -> gnr /\ has(Client \union {"avx10_2", "apx", "amxcomplex"})
          [] isa = ISA.NVL_AVX10_2 -> icl /\ has(Client \union {"avx10_2", "apx", "fp16"})
          [] isa = ISA.GNR_AVX512 -> gnr
          [] isa = ISA.SPR_AVX512 -> spr
          [] isa = ISA.ICL_AVX512 -> icl
          [] isa = ISA.SKX_AVX512 -> skx
          [] isa = ISA.KNL_AVX512 -> avx512 /\ has({"cd", "pf_er"})
          [] isa = ISA.AVX2VNNI -> avx /\ has({"avx_vnni"})
          [] isa = ISA.AVX2 -> avx /\ has({"f16c", "rdrand", "avx2"})
          [] isa = ISA.AVX11 -> avx /\ has({"f16c", "rdrand"})
          [] isa = ISA.AVX -> avx
          [] isa = ISA.SSE42 -> has({"sse42"})
          [] isa = ISA.SSE41 -> has({"sse41"})
          [] isa = ISA.SSE2 -> has({"sse2"})
          [] OTHER -> FALSE

\* The most capable ISA of a machine: the code tries them from the top.
get_x86_isa(mach) ==
    Max({ISA.INVALID} \union {isa \in ISA.SSE2 .. ISA.DMR_AVX10_2 : HasIsa(mach, isa)})

-----------------------------------------------------------------------------
(***************************************************************************)
(* The machines: a processor, whose firmware or hypervisor may hide AMX    *)
(* from the software, under an OS that saves some of its registers.        *)
(***************************************************************************)
Machines ==
    [cpu : DOMAIN CpuBits, hidden : {FALSE}, os : DOMAIN OsStates, mac : {FALSE}]
    \union [cpu : {"SPR", "GNR", "DMR"}, hidden : {TRUE}, os : DOMAIN OsStates, mac : {FALSE}]
    \union [cpu : {"Nehalem", "Haswell", "SKX"}, hidden : {FALSE}, os : {"avx"}, mac : {TRUE}]

\* What code compiled for a processor, with or without APX, needs of the machine
\* it runs on: its instructions, and the registers they use.  A Mac saves the
\* AVX-512 registers of a thread from its first AVX-512 instruction on.
CanRun(mach, cpu, apx) ==
    LET needs == CpuBits[cpu]
    IN  /\ needs \subseteq CpuidBits(mach)
        /\ "avx" \in needs => "avx" \in Saved(mach)
        /\ "avx512_f" \in needs => mach.mac \/ "avx512" \in Saved(mach)
        /\ apx /\ "apx" \in needs => "apx" \in Saved(mach)
=============================================================================
