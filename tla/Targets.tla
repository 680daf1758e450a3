------------------------------ MODULE Targets -------------------------------
(***************************************************************************)
(* Compilation targets: Target::Target of src/src/ispc.cpp, which resolves *)
(* what the command line says of a target (an architecture, a device, a    *)
(* target, any of which may be left out) into one, and the registry of     *)
(* bitcode libraries of target_registry.cpp, which says what the build     *)
(* supports.  All the architectures are enabled, the host is an x86        *)
(* machine, and LLVM is recent enough for every target.                    *)
(***************************************************************************)
EXTENDS X86Isa, TLC

CONSTANT Requests   \* what may be asked of the constructor

VARIABLES
    request,   \* what the command line says: [os, arch, cpu, target, zmm], and the host it is said on
    resolved   \* the target that was made of it; none yet, or none at all, has a status only

targetVars == <<request, resolved>>

-----------------------------------------------------------------------------
(***************************************************************************)
(* The targets: a family and a shape.  A row gives the native vector width *)
(* and alignment, the width of the data type, the number of lanes, the     *)
(* bits of a lane's mask and whether the target has gathers.               *)
(***************************************************************************)
Row(native, align, data, lanes, mask, gather) ==
    [native |-> native, align |-> align, data |-> data, lanes |-> lanes, mask |-> mask, gather |-> gather]

GenericRows == [
    i32x4  |-> Row(4, 16, 32, 4, 32, FALSE),   i32x8  |-> Row(4, 16, 32, 8, 32, FALSE),
    i8x16  |-> Row(16, 16, 8, 16, 8, FALSE),   i16x8  |-> Row(8, 16, 16, 8, 16, FALSE),
    i32x16 |-> Row(8, 32, 32, 16, 32, FALSE),  i64x4  |-> Row(8, 32, 64, 4, 64, FALSE),
    i8x32  |-> Row(32, 32, 8, 32, 8, TRUE),    i16x16 |-> Row(16, 32, 16, 16, 16, FALSE),
    i1x4   |-> Row(16, 64, 32, 4, 1, FALSE),   i1x8   |-> Row(16, 64, 32, 8, 1, FALSE),
    i1x16  |-> Row(16, 64, 32, 16, 1, FALSE),  i1x32  |-> Row(64, 64, 16, 32, 1, TRUE),
    i1x64  |-> Row(64, 64, 8, 64, 1, TRUE)]
Sse2Rows == [i32x4 |-> Row(4, 16, 32, 4, 32, FALSE), i32x8 |-> Row(4, 16, 32, 8, 32, FALSE)]
Sse4Rows == [
    i8x16 |-> Row(16, 16, 8, 16, 8, FALSE),    i16x8 |-> Row(8, 16, 16, 8, 16, FALSE),
    i32x4 |-> Row(4, 16, 32, 4, 32, FALSE),    i32x8 |-> Row(4, 16, 32, 8, 32, FALSE)]
Avx1Rows == [
    i32x4  |-> Row(8, 32, 32, 4, 32, FALSE),   i32x8  |-> Row(8, 32, 32, 8, 32, FALSE),
    i32x16 |-> Row(8, 32, 32, 16, 32, FALSE),  i64x4  |-> Row(8, 32, 64, 4, 64, FALSE)]
Avx2VnniRows == [
    i32x4  |-> Row(8, 32, 32, 4, 32, TRUE),    i32x8  |-> Row(8, 32, 32, 8, 32, TRUE),
    i32x16 |-> Row(16, 32, 32, 16, 32, TRUE)]
Avx2Rows == [s \in {"i8x32", "i16x16", "i64x4"} \union DOMAIN Avx2VnniRows |->
    CASE s = "i8x32" -> Row(32, 32, 8, 32, 8, TRUE)
      [] s = "i16x16" -> Row(16, 32, 16, 16, 16, TRUE)
      [] s = "i64x4" -> Row(8, 32, 64, 4, 64, TRUE)
      [] OTHER -> Avx2VnniRows[s]]
Avx512Rows == [
    x4  |-> Row(16, 64, 32, 4, 1, TRUE),       x8  |-> Row(16, 64, 32, 8, 1, TRUE),
    x16 |-> Row(16, 64, 32, 16, 1, TRUE),      x32 |-> Row(64, 64, 16, 32, 1, TRUE),
    x64 |-> Row(64, 64, 8, 64, 1, TRUE)]
SkxIclRows == [s \in {"x16_nozmm"} \union DOMAIN Avx512Rows |->
    IF s = "x16_nozmm" THEN Avx512Rows["x16"] ELSE Avx512Rows[s]]
SprGnrRows == Avx512Rows
Avx10Rows == Avx512Rows
NeonRows == [
    i8x16 |-> Row(16, 16, 8, 16, 8, FALSE),    i8x32  |-> Row(32, 32, 8, 32, 8, TRUE),
    i16x8 |-> Row(8, 16, 16, 8, 16, FALSE),    i16x16 |-> Row(16, 32, 16, 16, 16, FALSE),
    i32x4 |-> Row(4, 16, 32, 4, 32, FALSE),    i32x8  |-> Row(4, 16, 32, 8, 32, FALSE)]
VsxRows == NeonRows
RvvRows == [x4 |-> Row(4, 16, 32, 4, 1, FALSE)]
WasmRows == [i32x4 |-> Row(4, 16, 32, 4, 32, FALSE)]
XeRow(lanes) == Row(lanes, 64, 32, lanes, 1, TRUE)
XeSmallRows == [x8 |-> XeRow(8), x16 |-> XeRow(16)]
XeLargeRows == [x16 |-> XeRow(16), x32 |-> XeRow(32)]

\* Of a family: its ISA, the device its code is for (CPUfromISA) and its shapes.
Family(isa, cpu, rows) == [isa |-> isa, cpu |-> cpu, rows |-> rows]
Families == [
    generic |-> Family(ISA.SSE2, "none", GenericRows),
    sse2 |-> Family(ISA.SSE2, "x86_64", Sse2Rows),
    sse41 |-> Family(ISA.SSE41, "Penryn", Sse4Rows),
    sse4 |-> Family(ISA.SSE42, "Nehalem", Sse4Rows),
    avx1 |-> Family(ISA.AVX, "SandyBridge", Avx1Rows),
    avx2 |-> Family(ISA.AVX2, "Haswell", Avx2Rows),
    avx2vnni |-> Family(ISA.AVX2VNNI, "ADL", Avx2VnniRows),
    avx512skx |-> Family(ISA.SKX_AVX512, "SKX", SkxIclRows),
    avx512icl |-> Family(ISA.ICL_AVX512, "ICL", SkxIclRows),
    avx512spr |-> Family(ISA.SPR_AVX512, "SPR", SprGnrRows),
    avx512gnr |-> Family(ISA.GNR_AVX512, "GNR", SprGnrRows),
    avx10_2dmr |-> Family(ISA.DMR_AVX10_2, "DMR", Avx10Rows),
    avx10_2nvl |-> Family(ISA.NVL_AVX10_2, "NVL", Avx10Rows),
    neon |-> Family(ISA.NEON, "none", NeonRows),
    vsx |-> Family(ISA.VSX, "PPC64LE_Pwr8", VsxRows),
    rvv |-> Family(ISA.RV64GCV, "Generic_RV64GCV", RvvRows),
    wasm |-> Family(ISA.WASM, "none", WasmRows),
    xelp |-> Family(ISA.XELP, "TGLLP", XeSmallRows),
    xehpg |-> Family(ISA.XEHPG, "ACM_G11", XeSmallRows),
    xehpc |-> Family(ISA.XEHPC, "PVC", XeLargeRows),
    xelpg |-> Family(ISA.XELPG, "MTL_H", XeSmallRows),
    xe2hpg |-> Family(ISA.XE2HPG, "BMG_G21", XeLargeRows),
    xe2lpg |-> Family(ISA.XE2LPG, "LNL_M", XeLargeRows)]
ISPCTargets == UNION {{<<f, s>> : s \in DOMAIN Families[f].rows} : f \in DOMAIN Families}
NoTarget == <<"none", "none">>
HostTarget == <<"host", "host">>

X86Families == {"sse2", "sse41", "sse4", "avx1", "avx2", "avx2vnni", "avx512skx", "avx512icl",
                "avx512spr", "avx512gnr", "avx10_2dmr", "avx10_2nvl"}
XeFamilies == {"xelp", "xehpg", "xehpc", "xelpg", "xe2hpg", "xe2lpg"}
ISPCTargetIsX86(t) == t[1] \in X86Families
ISPCTargetIsGen(t) == t[1] \in XeFamilies
ISPCTargetIsNeon(t) == t[1] = "neon"
ISPCTargetIsVSX(t) == t[1] = "vsx"
ISPCTargetIsRiscV(t) == t[1] = "rvv"
ISPCTargetIsGeneric(t) == t[1] = "generic"
ISPCTargetIsApxCapable(t) == t[1] \in {"avx10_2dmr", "avx10_2nvl"}

\* The ISA of a target by name, apart from the constructor's; the targets that
\* are not of one ISA have none.
TargetToISA(t) ==
    IF t[1] \in {"generic", "host", "none"} THEN ISA.NUM_ISAS ELSE
    CASE t[1] = "sse2" -> ISA.SSE2              [] t[1] = "sse4" -> ISA.SSE42
      [] t[1] = "sse41" -> ISA.SSE41            [] t[1] = "avx1" -> ISA.AVX
      [] t[1] = "avx2" -> ISA.AVX2              [] t[1] = "avx2vnni" -> ISA.AVX2VNNI
      [] t[1] = "avx512skx" -> ISA.SKX_AVX512   [] t[1] = "avx512icl" -> ISA.ICL_AVX512
      [] t[1] = "avx512spr" -> ISA.SPR_AVX512   [] t[1] = "avx512gnr" -> ISA.GNR_AVX512
      [] t[1] = "avx10_2dmr" -> ISA.DMR_AVX10_2 [] t[1] = "avx10_2nvl" -> ISA.NVL_AVX10_2
      [] t[1] = "neon" -> ISA.NEON              [] t[1] = "vsx" -> ISA.VSX
      [] t[1] = "rvv" -> ISA.RV64GCV            [] t[1] = "wasm" -> ISA.WASM
      [] t[1] = "xelp" -> ISA.XELP              [] t[1] = "xehpg" -> ISA.XEHPG
      [] t[1] = "xehpc" -> ISA.XEHPC            [] t[1] = "xelpg" -> ISA.XELPG
      [] t[1] = "xe2hpg" -> ISA.XE2HPG          [] t[1] = "xe2lpg" -> ISA.XE2LPG

\* The name of an ISA in the names of functions and files: SSE4.1 and SSE4.2
\* share theirs.
ISAToString(isa) == IF isa = ISA.SSE41 THEN "sse4" ELSE (CHOOSE f \in DOMAIN Families \ {"generic"} : Families[f].isa = isa)

-----------------------------------------------------------------------------
(***************************************************************************)
(* The devices and what each of them is backward compatible with.          *)
(***************************************************************************)
SseDevices == {"x86_64", "Bonnell", "Penryn", "Core2", "Nehalem", "Silvermont"}
Avx2Devices == SseDevices \union {"SandyBridge", "IvyBridge", "Haswell", "Broadwell", "Skylake"}
Zens == {"ZNVER1", "ZNVER2", "ZNVER3"}
ArmDevices == {"CortexA35", "CortexA53", "CortexA57", "CortexA55", "CortexA78", "CortexA510", "CortexA520",
               "AppleA7", "AppleA10", "AppleA11", "AppleA12", "AppleA13", "AppleA14", "AppleA15", "AppleA16", "AppleA17"}
AcmDevices == {"ACM_G10", "ACM_G11", "ACM_G12", "TGLLP"}
compat ==
    LET skx == Avx2Devices \union {"SKX"}
        amx == skx \union {"ICL", "ICX", "TGL", "ADL", "SPR"}
        zen4 == skx \union Zens \union {"ICL", "ZNVER4"}
        zen5 == zen4 \union {"ICX", "TGL", "ZNVER5"}
        x86 == [
            x86_64 |-> {"x86_64"}, Bonnell |-> {"x86_64", "Bonnell", "Core2"},
            Core2 |-> {"x86_64", "Bonnell", "Core2"}, Penryn |-> SseDevices, Nehalem |-> SseDevices,
            Silvermont |-> SseDevices, SandyBridge |-> SseDevices \union {"SandyBridge"},
            PS4 |-> SseDevices \union {"SandyBridge", "PS4"},
            IvyBridge |-> SseDevices \union {"SandyBridge", "IvyBridge"},
            Haswell |-> Avx2Devices, Broadwell |-> Avx2Devices, Skylake |-> Avx2Devices,
            SKX |-> skx, ICL |-> skx \union {"ICL"}, ICX |-> skx \union {"ICL", "ICX"},
            TGL |-> skx \union {"ICL", "ICX", "TGL"},
            ADL |-> Avx2Devices \union {"ADL"}, MTL |-> Avx2Devices \union {"ADL", "MTL"},
            ARL |-> Avx2Devices \union {"ADL", "ARL", "LNL"}, LNL |-> Avx2Devices \union {"ADL", "ARL", "LNL"},
            SPR |-> amx, GNR |-> amx \union {"GNR"}, DMR |-> amx \union {"GNR", "DMR"},
            NVL |-> skx \union {"ICL", "ICX", "TGL", "ADL", "ARL", "LNL", "NVL"},
            ZNVER1 |-> Avx2Devices \union {"ZNVER1"}, ZNVER2 |-> Avx2Devices \union {"ZNVER1", "ZNVER2"},
            ZNVER3 |-> Avx2Devices \union Zens, ZNVER4 |-> zen4, ZNVER5 |-> zen5, ZNVER6 |-> zen5 \union {"ZNVER6"}]
        xe == [
            TGLLP |-> {"TGLLP"}, ACM_G10 |-> AcmDevices, ACM_G11 |-> AcmDevices, ACM_G12 |-> AcmDevices, PVC |-> {"PVC"},
            MTL_U |-> AcmDevices \union {"MTL_U", "MTL_H"}, MTL_H |-> AcmDevices \union {"MTL_U", "MTL_H"},
            BMG_G21 |-> AcmDevices \union {"MTL_U", "MTL_H", "BMG_G21"},
            LNL_M |-> AcmDevices \union {"MTL_U", "MTL_H", "LNL_M"}]
        others == [d \in ArmDevices \union {"Generic_RV64GCV", "SpacemiT_X60", "PPC64LE_Pwr8"} |->
                      IF d = "SpacemiT_X60" THEN {d, "Generic_RV64GCV"} ELSE {d}]
    IN  x86 @@ xe @@ others
DeviceTypes == DOMAIN compat

\* The two devices the wrong way round.
BackwardCompatibleSwapped(what, with) == what \in compat[with]

BackwardCompatible(what, with) == with \in compat[what]

\* The features that intrinsics are checked against, the newest last.
CPUFeatures ==
    LET sse2 == {"sse2"}
        sse42 == {"sse2", "ssse3", "sse41", "sse42"}
        avx2 == sse42 \union {"avx", "avx2"}
        vnni == avx2 \union {"avx512", "avx512_vnni"}
        spr == vnni \union {"avx512fp16", "avx_vnni", "amxtile", "amxint8"}
        of(d) ==
            CASE d = "x86_64" -> sse2
              [] d \in {"Bonnell", "Core2"} -> sse2 \union {"ssse3"}
              [] d = "Penryn" -> sse42 \ {"sse42"}
              [] d \in {"Nehalem", "Silvermont"} -> sse42
              [] d \in {"PS4", "SandyBridge", "IvyBridge"} -> sse42 \union {"avx"}
              [] d \in Zens \union {"Haswell", "Broadwell", "Skylake"} -> avx2
              [] d \in {"ADL", "MTL", "ARL", "LNL"} -> avx2 \union {"avx_vnni"}
              [] d = "SKX" -> avx2 \union {"avx512"}
              [] d \in {"ICL", "ICX", "TGL", "ZNVER4"} -> vnni
              [] d = "ZNVER5" -> vnni \union {"avx_vnni"}
              [] d = "ZNVER6" -> vnni \union {"avx_vnni", "avx512fp16"}
              [] d = "SPR" -> spr
              [] d = "GNR" -> spr \union {"amxfp16"}
              [] d = "DMR" -> spr \union {"amxfp16", "avx10"}
              [] d = "NVL" -> vnni \union {"avx512fp16", "avx_vnni", "avx10"}
              [] OTHER -> {}
    IN  [d \in DeviceTypes |-> of(d)]

\* The target for a device, where no target is named.
TargetOfDevice(d) ==
    CASE d \in ArmDevices -> <<"neon", "i32x4">>
      [] d \in {"Generic_RV64GCV", "SpacemiT_X60"} -> <<"rvv", "x4">>
      [] d = "PPC64LE_Pwr8" -> <<"vsx", "i32x4">>
      [] d = "TGLLP" -> <<"xelp", "x16">>
      [] d \in {"ACM_G10", "ACM_G11", "ACM_G12"} -> <<"xehpg", "x16">>
      [] d = "PVC" -> <<"xehpc", "x16">>
      [] d \in {"MTL_U", "MTL_H"} -> <<"xelpg", "x16">>
      [] d = "BMG_G21" -> <<"xe2hpg", "x16">>
      [] d = "LNL_M" -> <<"xe2lpg", "x16">>
      [] d = "SPR" -> <<"avx512spr", "x16">>
      [] d = "GNR" -> <<"avx512gnr", "x16">>
      [] d \in {"ZNVER4", "ZNVER5", "ZNVER6", "TGL", "ICX", "ICL"} -> <<"avx512icl", "x16">>
      [] d = "SKX" -> <<"avx512skx", "x16">>
      [] d \in {"ADL", "MTL", "ARL", "LNL"} -> <<"avx2vnni", "i32x8">>
      [] d = "DMR" -> <<"avx10_2dmr", "x16">>
      [] d = "NVL" -> <<"avx10_2nvl", "x8">>
      [] d \in Zens \union {"Skylake", "Broadwell", "Haswell"} -> <<"avx2", "i32x8">>
      [] d \in {"IvyBridge", "SandyBridge"} -> <<"avx1", "i32x8">>
      [] d = "Penryn" -> <<"sse41", "i32x4">>
      [] d \in {"Nehalem", "Silvermont"} -> <<"sse4", "i32x4">>
      [] d = "PS4" -> <<"avx1", "i32x4">>
      [] OTHER -> <<"sse2", "i32x4">>

\* The target for the host; the compiler exits where there is none.
TargetOfISA(isa) ==
    CASE isa = ISA.SSE2 -> <<"sse2", "i32x4">>
      [] isa = ISA.SSE41 -> <<"sse41", "i32x4">>
      [] isa = ISA.SSE42 -> <<"sse4", "i32x4">>
      [] isa \in {ISA.AVX, ISA.AVX11} -> <<"avx1", "i32x8">>
      [] isa = ISA.AVX2 -> <<"avx2", "i32x8">>
      [] isa = ISA.AVX2VNNI -> <<"avx2vnni", "i32x8">>
      [] isa = ISA.SKX_AVX512 -> <<"avx512skx", "x16">>
      [] isa = ISA.ICL_AVX512 -> <<"avx512icl", "x16">>
      [] isa = ISA.SPR_AVX512 -> <<"avx512spr", "x16">>
      [] isa = ISA.GNR_AVX512 -> <<"avx512gnr", "x16">>
      [] isa = ISA.NVL_AVX10_2 -> <<"avx10_2nvl", "x8">>
      [] isa = ISA.DMR_AVX10_2 -> <<"avx10_2dmr", "x16">>
      [] OTHER -> NoTarget
lGetSystemISA(host) == TargetOfISA(get_x86_isa(host))

\* The device for ARM code: the host is not an ARM machine.
lGetARMDeviceType(os) ==
    CASE os = "ios" -> "AppleA7" [] os = "macos" -> "AppleA14" [] OTHER -> "CortexA35"

lGetArchFromTarget(t) ==
    CASE ISPCTargetIsNeon(t) -> "aarch64" [] ISPCTargetIsRiscV(t) -> "riscv64"
      [] ISPCTargetIsVSX(t) -> "ppc64le" [] ISPCTargetIsGen(t) -> "xe64" [] OTHER -> "x86_64"

lIsTargetValidforArch(t, arch) ==
    /\ ISPCTargetIsX86(t) => arch \in {"x86", "x86_64"}
    /\ ISPCTargetIsNeon(t) => arch \in {"arm", "aarch64"}
    /\ ISPCTargetIsVSX(t) => arch = "ppc64le"
    /\ ISPCTargetIsGen(t) => arch = "xe64"

-----------------------------------------------------------------------------
(***************************************************************************)
(* The registry of bitcode libraries.  The build on a Linux host makes the *)
(* common builtins for an OS and an architecture, and those of a target    *)
(* and its standard library for Windows, Unix or the web.                  *)
(***************************************************************************)
Unix == {"linux", "freebsd", "android", "custom_linux", "macos", "ios", "ps4", "ps5"}
TargetOSes == Unix \union {"windows", "web"}
Arches == {"x86", "x86_64", "arm", "aarch64", "riscv64", "ppc64le", "wasm32", "wasm64", "xe64"}
CanonicalOS(os) == IF os \in Unix THEN "linux" ELSE os

\* The libraries that cmake builds on a Linux host with all targets enabled:
\* BuiltinsCArches by generate_common_builtins, TargetArches for the targets by
\* generate_stdlib_or_target_builtins (and generate_generic_builtins), and
\* stdlibTargetMap from the families that define_stdlib_families lists.
BuiltinsCArches(os) ==
    CASE os = "linux" -> {"x86", "x86_64", "arm", "aarch64", "riscv64", "ppc64le", "xe64"}
      [] os = "freebsd" -> {"x86", "x86_64", "arm", "aarch64", "ppc64le"}
      [] os = "android" -> {"x86", "x86_64", "arm", "aarch64"}
      [] os = "windows" -> {"x86", "x86_64", "aarch64"}
      [] os = "macos" -> {"x86_64", "aarch64"}
      [] os = "ios" -> {"aarch64"}
      [] os = "ps4" -> {"x86_64"}
      [] os = "web" -> {"wasm32", "wasm64"}
      [] OTHER -> {}
TargetArches(t, os) ==
    LET of == CASE ISPCTargetIsX86(t) -> {"x86", "x86_64"} [] ISPCTargetIsNeon(t) -> {"arm", "aarch64"}
                [] ISPCTargetIsVSX(t) -> {"ppc64le"} [] ISPCTargetIsRiscV(t) -> {"riscv64"}
                [] ISPCTargetIsGen(t) -> {"xe64"} [] t[1] = "wasm" -> {"wasm32", "wasm64"}
                [] OTHER -> Arches \ {"xe64"}
    IN  CASE os = "web" -> of \intersect {"wasm32", "wasm64"}
          [] os = "windows" -> of \ {"arm", "riscv64", "ppc64le", "wasm32", "wasm64"}
          [] OTHER -> of \ {"wasm32", "wasm64"}
stdlibTargetMap(t) ==
    LET f == t[1]
        s == t[2]
    IN  CASE /\ f \in {"avx512skx", "avx512icl", "avx512spr", "avx512gnr", "avx10_2dmr", "avx10_2nvl"}
             /\ s # "x16_nozmm" -> <<"generic", CASE s = "x4" -> "i1x4" [] s = "x8" -> "i1x8" [] s = "x16" -> "i1x16"
                                                    [] s = "x32" -> "i1x32" [] s = "x64" -> "i1x64">>
          [] \/ f \in {"sse2", "sse4", "neon", "vsx"}
             \/ f \in {"avx1", "avx2", "avx2vnni"} /\ s \in {"i32x16", "i64x4", "i16x16", "i8x32"} -> <<"generic", s>>
          [] f \in {"avx2", "avx2vnni"} /\ s = "i32x8" -> <<"avx1", s>>
          [] f = "avx2vnni" /\ s = "i32x4" -> <<"avx2", s>>
          [] OTHER -> NoTarget

\* The targets that have no libraries of their own use those of their parent.
aliasParentMap(t) ==
    IF t[1] = "sse41" \/ t = <<"avx1", "i32x4">> THEN <<"sse4", t[2]>> ELSE NoTarget

lCanonicalizeTarget(t, os, zmm, applyAliases) ==
    IF os = "macos" /\ t[1] \in {"avx512spr", "avx512gnr", "avx10_2dmr", "avx10_2nvl"} THEN NoTarget
    ELSE IF t[1] \in {"avx512skx", "avx512icl"} /\ t[2] = "x16" /\ ~zmm THEN <<t[1], "x16_nozmm">>
    ELSE IF applyAliases /\ aliasParentMap(t) # NoTarget THEN aliasParentMap(t)
    ELSE t

\* The target whose library is found for t, if any.
lGetTargetLib(t, os, arch, zmm) ==
    LET lib == lCanonicalizeTarget(t, os, zmm, TRUE)
    IN  IF lib # NoTarget /\ arch \in TargetArches(lib, CanonicalOS(os)) THEN lib ELSE NoTarget

\* An OS may be an alias of another.
getBuiltinsCLib(os, arch) ==
    CASE os = "custom_linux" -> arch \in {"arm", "aarch64"}
      [] os = "ps5" -> arch \in BuiltinsCArches("ps4")
      [] OTHER -> arch \in BuiltinsCArches(os)

isSupported(t, os, arch, zmm) == getBuiltinsCLib(os, arch) /\ lGetTargetLib(t, os, arch, zmm) # NoTarget

\* Only a target with a mapping of its own, or whose parent has one, shares.
mapToStdlibTarget(t) ==
    LET own == stdlibTargetMap(t)
        parent == aliasParentMap(t)
    IN  CASE own # NoTarget -> own
          [] own = NoTarget /\ parent # NoTarget /\ stdlibTargetMap(parent) # NoTarget -> stdlibTargetMap(parent)
          [] OTHER -> t

getISPCStdLib(t, os, arch, zmm) ==
    LET lib == lCanonicalizeTarget(t, os, zmm, FALSE)
    IN  IF lib = NoTarget THEN NoTarget ELSE lGetTargetLib(mapToStdlibTarget(lib), os, arch, zmm)

-----------------------------------------------------------------------------
(***************************************************************************)
(* Resolving a request.                                                    *)
(***************************************************************************)
\* What the options of args.cpp leave out is filled in by the OS.
WithDefaults(r) ==
    LET ps == r.os \in {"ps4", "ps5"}
        web == r.os = "web" \/ r.arch \in {"wasm32", "wasm64"} \/ r.target[1] = "wasm"
        cpu == CASE r.cpu # "none" -> r.cpu [] r.os = "ps4" -> "PS4" [] r.os = "ps5" -> "ZNVER2"
                 [] r.os = "custom_linux" -> "CortexA57" [] OTHER -> "none"
        arch == CASE ps -> "x86_64" [] web /\ ~ps /\ r.arch = "none" -> "wasm32" [] OTHER -> r.arch
        target == CASE r.target # NoTarget -> r.target [] r.os = "custom_linux" -> <<"neon", "i32x4">>
                    [] r.target = NoTarget /\ web -> <<"wasm", "i32x4">> [] OTHER -> NoTarget
    IN  [r EXCEPT !.os = IF web THEN "web" ELSE r.os, !.cpu = cpu, !.arch = arch, !.target = target]

Invalid == [status |-> "invalid"]

\* The target that is meant, and whether it is the host's.
HostRequested(r) == r.target = HostTarget \/ (r.target = NoTarget /\ r.cpu = "none")
MeantTarget(r) ==
    CASE HostRequested(r) -> lGetSystemISA(r.host)
      [] r.target = NoTarget /\ r.cpu # "none" -> TargetOfDevice(r.cpu)
      [] OTHER -> r.target

\* The device that code is generated for: the one that was named, or the one of
\* the target's family.
CodeDevice(device, t, arch) ==
    CASE device # "none" -> device
      [] device = "none" /\ ISPCTargetIsGeneric(t) /\ arch \in {"x86", "x86_64"} -> "x86_64"
      [] device = "none" /\ ISPCTargetIsGeneric(t) /\ arch = "ppc64le" -> "PPC64LE_Pwr8"
      [] OTHER -> Families[t[1]].cpu

\* The constructor, for the target that is meant.
NewTargetOf(r, t) ==
    LET arch == IF r.arch = "none" THEN lGetArchFromTarget(t) ELSE r.arch
        family == Families[t[1]]
        device == IF r.cpu = "none" /\ arch \in {"arm", "aarch64"} THEN lGetARMDeviceType(r.os) ELSE r.cpu
    IN  IF \/ t = NoTarget
           \/ ~lIsTargetValidforArch(t, arch)
           \/ device # "none" /\ family.cpu # "none" /\ ~BackwardCompatible(device, family.cpu)
           \/ ~isSupported(t, r.os, arch, r.zmm)
        THEN Invalid
        ELSE [status |-> "valid", target |-> t, arch |-> arch, cpu |-> CodeDevice(device, t, arch),
              isa |-> family.isa, row |-> family.rows[t[2]], os |-> r.os,
              apx |-> ISPCTargetIsApxCapable(t) /\ ~(HostRequested(r) /\ ~get_x86_os_has_apx(r.host))]
NewTarget(r) == NewTargetOf(r, MeantTarget(r))

TargetsInit == request \in Requests /\ resolved = [status |-> "pending"]

Create ==
    /\ resolved.status = "pending"
    /\ resolved' = NewTarget(WithDefaults(request))
    /\ UNCHANGED request

-----------------------------------------------------------------------------
\* Targets of one family are ordered by ISA: the best that a device runs.
BestIsaOf(device) == Max({Families[f].isa : f \in {g \in DOMAIN Families : Families[g].cpu \in compat[device]}})

\* What is asked of a target that was accepted:
\* - the device it is for has the features its family generates code with
\*   (Penryn claims to run SSE4.2 code), and the name and the object agree on
\*   its ISA;
\* - a request that names only a device gets the best ISA the device has, and
\*   one that names nothing, or the host, code that the host can run, with APX
\*   only if its OS saves the registers;
\* - more than 16 lanes take a gather, whose emulation is for fewer;
\* - its standard library is there, of the same lanes and masks, and assumes no
\*   more alignment.
TargetsSound ==
    LET r == WithDefaults(request)
        x == resolved
        f == Families[x.target[1]]
        stdlib == getISPCStdLib(x.target, x.os, x.arch, r.zmm)
        row == Families[stdlib[1]].rows[stdlib[2]]
    IN  x.status = "valid" =>
            /\ f.cpu # "none" /\ x.cpu # "Penryn" => CPUFeatures[f.cpu] \subseteq CPUFeatures[x.cpu]
            /\ ~ISPCTargetIsGeneric(x.target) => TargetToISA(x.target) = x.isa
            /\ r.target = NoTarget /\ r.cpu \notin ArmDevices \union {"none", "Penryn"} => x.isa = BestIsaOf(r.cpu)
            /\ HostRequested(r) => CanRun(r.host, f.cpu, x.apx)
            /\ x.row.lanes > 16 => x.row.gather
            /\ stdlib # NoTarget
            /\ row.lanes = x.row.lanes /\ row.mask = x.row.mask /\ row.align <= x.row.align
=============================================================================
