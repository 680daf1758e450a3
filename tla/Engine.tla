------------------------------- MODULE Engine -------------------------------
(***************************************************************************)
(* The compiler library: ISPCEngine of src/src/ispc_impl.cpp.  An engine   *)
(* keeps the files and targets of its command line; the options of the     *)
(* command line go to the globals g, of which there is one instance, with  *)
(* the LLVM context and the current target.  The application creates and   *)
(* uses engines from one thread, in any order.                             *)
(***************************************************************************)
EXTENDS Integers, FiniteSets

CONSTANTS
    Engines,       \* the engines that the application may create
    MaxEngines,    \* how many of them it keeps at a time
    Args,          \* the command lines
    RuntimeFunctions,   \* names of ISPC's runtime functions
    MaxContexts    \* bound on the instances of g

VARIABLES
    g,             \* the globals: their instance, its options and current target
    contexts,      \* the instances of g so far: each has an LLVM context
    engines,       \* of every engine: its arguments, its JIT and its runtime functions
    compiled       \* the last compilation: who asked for it, with what, for what, and if its context was there

engineVars == <<g, contexts, engines, compiled>>

Null == [instance |-> 0, options |-> "none", target |-> "none"]
NoJit == [on |-> FALSE, symbols |-> {}, modules |-> {}]
NoEngine == [args |-> "none", jit |-> NoJit, runtime |-> {}]
NothingCompiled == [args |-> "none", options |-> "none", target |-> "none", live |-> TRUE]

\* A target of which only the address is left.
Freed == "freed"

Live == {e \in Engines : engines[e] # NoEngine}

-----------------------------------------------------------------------------
EngineInit ==
    /\ g = Null
    /\ contexts = 0
    /\ engines = [e \in Engines |-> NoEngine]
    /\ compiled = NothingCompiled

NewGlobals == [instance |-> contexts + 1, options |-> "default", target |-> "none"]

Initialize ==
    /\ g = Null /\ contexts < MaxContexts
    /\ g' = NewGlobals /\ contexts' = contexts + 1
    /\ UNCHANGED <<engines, compiled>>

\* Globals are made anew, whether the arguments can be parsed or not.
CreateFromCArgs(e, args) ==
    /\ g # Null /\ contexts < MaxContexts
    /\ e \notin Live /\ Cardinality(Live) < MaxEngines
    /\ contexts' = contexts + 1
    /\ \/ g' = NewGlobals /\ UNCHANGED engines
       \/ /\ g' = [NewGlobals EXCEPT !.options = args]
          /\ engines' = [engines EXCEPT ![e] = [NoEngine EXCEPT !.args = args]]
    /\ UNCHANGED compiled

Destroy(e) ==
    /\ e \in Live
    /\ engines' = [engines EXCEPT ![e] = NoEngine]
    /\ UNCHANGED <<g, contexts, compiled>>

\* The application shuts the library down when it has no engine left.
Shutdown ==
    /\ g # Null /\ Live = {}
    /\ g' = Null
    /\ UNCHANGED <<contexts, engines, compiled>>

-----------------------------------------------------------------------------
\* Without the guard.
GlobalStateGuardForgotten(saved, current) == current

\* The guard around Execute: what it saved is restored when it returns.
GlobalStateGuard(saved, current) == saved

\* CompileAndOutput makes a target of its own from the arguments of the engine,
\* which ends with it.
Execute(e) ==
    /\ e \in Live /\ g # Null
    /\ \/ compiled' = [args |-> engines[e].args, options |-> g.options, target |-> engines[e].args, live |-> TRUE]
       \/ UNCHANGED compiled   \* an error, help, or a link
    /\ g' = [g EXCEPT !.target = GlobalStateGuard(g.target, Freed)]
    /\ UNCHANGED <<contexts, engines>>

\* The runtime functions that are registered by now are defined in the JIT.
InitializeJit(engine) ==
    IF engine.jit.on THEN engine.jit ELSE [on |-> TRUE, symbols |-> engine.runtime, modules |-> {}]

\* CompileToLLVMModule: the target is made once, and stays g's.  The module is
\* of g's context; the JIT generates its code when it is looked up.
CompileFromFileToJit(e) ==
    LET target == IF g.target = "none" THEN engines[e].args ELSE g.target
        jit == InitializeJit(engines[e])
    IN  /\ e \in Live /\ g # Null
        /\ \/ /\ engines' = [engines EXCEPT ![e].jit = [jit EXCEPT !.modules = @ \union {g.instance}]]
              /\ compiled' = [args |-> engines[e].args, options |-> g.options, target |-> target, live |-> TRUE]
              /\ g' = [g EXCEPT !.target = target]
           \/ /\ engines' = [engines EXCEPT ![e].jit = jit]
              /\ g' \in {g, [g EXCEPT !.target = target]}   \* no target, or errors in the program
              /\ UNCHANGED compiled
        /\ UNCHANGED contexts

\* The lookup generates the code of a module, unless it already has.
GetJitFunction(e) ==
    /\ e \in Live /\ engines[e].jit.on
    /\ \E context \in engines[e].jit.modules :
          /\ compiled' = [compiled EXCEPT !.live = context = g.instance]
          /\ \/ UNCHANGED engines   \* the context has other modules
             \/ engines' = [engines EXCEPT ![e].jit.modules = @ \ {context}]
    /\ UNCHANGED <<g, contexts>>

ClearJitCode(e) ==
    /\ e \in Live /\ engines[e].jit.on
    /\ engines' = [engines EXCEPT ![e].jit = NoJit]
    /\ UNCHANGED <<g, contexts, compiled>>

SetJitRuntimeFunction(e, f) ==
    /\ e \in Live
    /\ engines' = [engines EXCEPT ![e].runtime = @ \union {f}]
    /\ UNCHANGED <<g, contexts, compiled>>

ClearJitRuntimeFunctions(e, fs) ==
    /\ e \in Live
    /\ engines' = [engines EXCEPT ![e].runtime = @ \ fs]
    /\ UNCHANGED <<g, contexts, compiled>>

EngineNext ==
    \/ Initialize \/ Shutdown
    \/ \E e \in Engines :
          \/ \E args \in Args : CreateFromCArgs(e, args)
          \/ Destroy(e) \/ Execute(e) \/ CompileFromFileToJit(e) \/ GetJitFunction(e) \/ ClearJitCode(e)
          \/ \E f \in RuntimeFunctions : SetJitRuntimeFunction(e, f)
          \/ \E fs \in {{f} : f \in RuntimeFunctions} \union {RuntimeFunctions} : ClearJitRuntimeFunctions(e, fs)

EngineSpec == EngineInit /\ [][EngineNext]_engineVars

-----------------------------------------------------------------------------
\* Every compilation, to a file or to the JIT, is with the options and for the
\* target of the engine that asked for it, whatever that engine and those
\* before it compiled, failed to compile or cleared; and code is generated only
\* in a context that was not deleted with its globals.
EnginesSound ==
    compiled.options = compiled.args /\ compiled.target = compiled.args /\ compiled.live
=============================================================================
