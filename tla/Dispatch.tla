------------------------------ MODULE Dispatch ------------------------------
(***************************************************************************)
(* The dispatch functions of a multi-target build: the code that           *)
(* lCreateDispatchFunction of src/src/module.cpp emits for every exported  *)
(* function, and builtins/dispatch.c, linked into the same module.  The    *)
(* application's threads call exported functions in any order; a dispatch  *)
(* function looks for the best variant once, and caches its address.       *)
(***************************************************************************)
EXTENDS X86Isa

CONSTANTS
    Threads,          \* threads of the application
    Exports,          \* the exported functions
    DispatchSets,     \* what a program may be compiled for: sets of ISAs
    DispatchMachines, \* the machines it may run on
    UsesApx           \* whether APX was left enabled in the variants (--opt=disable-apx)

VARIABLES
    mach,           \* the machine
    targetFuncs,    \* of every exported function: the ISAs it has a variant for
    systemBestIsa,  \* __system_best_isa
    funcPtrCache,   \* __system_func_ptr_cache_<name>
    caller          \* the threads: pc, the function they call and the ISA they read

dispatchVars == <<mach, targetFuncs, systemBestIsa, funcPtrCache, caller>>

NullPtr == ISA.INVALID
NotCached == -1

\* The processor that the code of a variant is generated for: the CPUfromISA
\* of its target.
VariantCpu(isa) ==
    CASE isa = ISA.SSE2 -> "x86_64"    [] isa = ISA.SSE41 -> "Penryn"
      [] isa = ISA.SSE42 -> "Nehalem"  [] isa = ISA.AVX -> "SandyBridge"
      [] isa = ISA.AVX2 -> "Haswell"   [] isa = ISA.AVX2VNNI -> "ADL"
      [] isa = ISA.SKX_AVX512 -> "SKX" [] isa = ISA.ICL_AVX512 -> "ICL"
      [] isa = ISA.SPR_AVX512 -> "SPR" [] isa = ISA.GNR_AVX512 -> "GNR"
      [] isa = ISA.NVL_AVX10_2 -> "NVL" [] isa = ISA.DMR_AVX10_2 -> "DMR"

-----------------------------------------------------------------------------
Idle == [pc |-> "idle", fn |-> CHOOSE f \in Exports : TRUE, isa |-> NullPtr]

DispatchInit ==
    /\ mach \in DispatchMachines
    /\ targetFuncs \in [Exports -> DispatchSets]
    /\ systemBestIsa = NotCached
    /\ funcPtrCache = [f \in Exports |-> NullPtr]
    /\ caller = [t \in Threads |-> Idle]

At(t, pc) == caller[t].pc = pc
Goto(t, pc) == caller' = [caller EXCEPT ![t].pc = pc]
GotoWith(t, pc, isa) == caller' = [caller EXCEPT ![t] = [pc |-> pc, fn |-> caller[t].fn, isa |-> isa]]

\* An invalid opcode exception ends the process: no thread runs any more.
ProcessLives == \A t \in Threads : ~At(t, "terminated")
__terminate_now(t) == Goto(t, "terminated")

\* The application calls f: its entry block tests the cached address.
CallExport(t, f) ==
    /\ At(t, "idle")
    /\ caller' = [caller EXCEPT ![t] = [pc |-> IF funcPtrCache[f] # NullPtr THEN "skip_init" ELSE "do_init",
                                        fn |-> f, isa |-> NullPtr]]
    /\ UNCHANGED <<mach, targetFuncs, systemBestIsa, funcPtrCache>>

\* __get_system_best_isa: the cached ISA, or the machine is asked for it.
LoadBestIsa(t) ==
    /\ At(t, "do_init")
    /\ GotoWith(t, IF systemBestIsa = NotCached THEN "detect" ELSE "choose", systemBestIsa)
    /\ UNCHANGED <<mach, targetFuncs, systemBestIsa, funcPtrCache>>

\* __get_system_isa, which knows no AVX11 target and runs nothing on KNL.
__get_system_isa(m) == IF get_x86_isa(m) = ISA.AVX11 THEN ISA.AVX ELSE get_x86_isa(m)

DetectIsa(t) ==
    /\ At(t, "detect")
    /\ \/ /\ get_x86_isa(mach) \in {ISA.INVALID, ISA.KNL_AVX512}
          /\ __terminate_now(t)
          /\ UNCHANGED systemBestIsa
       \/ /\ get_x86_isa(mach) \notin {ISA.INVALID, ISA.KNL_AVX512}
          /\ systemBestIsa' = __get_system_isa(mach)
          /\ GotoWith(t, "choose", __get_system_isa(mach))
    /\ UNCHANGED <<mach, targetFuncs, funcPtrCache>>

lISARequiresAMXHardware(isa) == isa \in {ISA.SPR_AVX512, ISA.GNR_AVX512, ISA.DMR_AVX10_2}

lEmitISACompatibilityTest(candidate, systemISA, cpuHasAMX) ==
    systemISA >= candidate /\ (lISARequiresAMXHardware(candidate) => cpuHasAMX)

\* Mutant: the candidates from the least to the most capable.
LeastCapable(isas) == Min(isas)

\* The candidates are tried from the most to the least capable.
FirstCandidate(isas) == Max(isas)

\* The first candidate that passes the test is stored.
ChooseVariant(t) ==
    LET ok == {isa \in targetFuncs[caller[t].fn] :
                  lEmitISACompatibilityTest(isa, caller[t].isa, get_x86_cpu_has_amx(mach))}
    IN  /\ At(t, "choose")
        /\ \/ ok = {} /\ __terminate_now(t) /\ UNCHANGED funcPtrCache
           \/ /\ ok # {}
              /\ funcPtrCache' = [funcPtrCache EXCEPT ![caller[t].fn] = FirstCandidate(ok)]
              /\ Goto(t, "skip_init")
        /\ UNCHANGED <<mach, targetFuncs, systemBestIsa>>

\* The address is loaded again, for the threads that came through do_init, and
\* called; isa is now the variant that runs.
CallVariant(t) ==
    /\ At(t, "skip_init")
    /\ GotoWith(t, "variant", funcPtrCache[caller[t].fn])
    /\ UNCHANGED <<mach, targetFuncs, systemBestIsa, funcPtrCache>>

Return(t) ==
    /\ At(t, "variant")
    /\ caller' = [caller EXCEPT ![t] = Idle]
    /\ UNCHANGED <<mach, targetFuncs, systemBestIsa, funcPtrCache>>

DispatchNext ==
    /\ ProcessLives
    /\ \E t \in Threads :
          \/ \E f \in Exports : CallExport(t, f)
          \/ LoadBestIsa(t) \/ DetectIsa(t) \/ ChooseVariant(t) \/ CallVariant(t) \/ Return(t)

DispatchSpec == DispatchInit /\ [][DispatchNext]_dispatchVars

-----------------------------------------------------------------------------
\* The test of a candidate tells on every machine, of those where the dispatch
\* code does not give up, whether the machine can run the variant.
TestsExact ==
    \A m \in DispatchMachines, isa \in UNION DispatchSets :
        CASE get_x86_isa(m) = ISA.KNL_AVX512 -> "pf_er" \in CpuidBits(m)
          [] get_x86_isa(m) = ISA.INVALID -> ~CanRun(m, VariantCpu(isa), UsesApx)
          [] OTHER -> lEmitISACompatibilityTest(isa, __get_system_isa(m), get_x86_cpu_has_amx(m))
                          <=> CanRun(m, VariantCpu(isa), UsesApx)

\* The variants of a function that the machine can run.
Runnable(f) == {isa \in targetFuncs[f] : CanRun(mach, VariantCpu(isa), UsesApx)}

\* A call of an exported function runs the most capable of its variants that
\* the machine can run, whichever threads filled the caches and when; it ends
\* the process only where no variant can run, or on a Knights Landing, which
\* the dispatch code refuses.
VariantRuns ==
    \A t \in Threads :
        /\ At(t, "variant") => Runnable(caller[t].fn) # {} /\ caller[t].isa = Max(Runnable(caller[t].fn))
        /\ At(t, "terminated") => Runnable(caller[t].fn) = {} \/ "pf_er" \in CpuidBits(mach)
=============================================================================
