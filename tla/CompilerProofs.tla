--------------------------- MODULE CompilerProofs ---------------------------
(***************************************************************************)
(* Theorems about parts of the compiler that keep state: the library's     *)
(* engines with the globals they share, the symbol table, the dispatch     *)
(* functions that it emits, function templates, and compilations for       *)
(* several targets.                                                        *)
(***************************************************************************)
EXTENDS Engine, ModuleSymbols, Dispatch, FunctionTemplates, MultiTarget, WellFoundedInduction, FiniteSetTheorems, SequenceTheorems, TLAPS

(***************************************************************************)
(* Engines.  An application that keeps one engine at a time gets what it   *)
(* asks for because nothing replaces the globals while the engine lives:   *)
(* what they hold is the engine's, and so is the context of its modules.   *)
(***************************************************************************)

\* Command lines, and what stands for none.
Commands == Args \cup {"none", "default", "freed"}

JitType == [on : BOOLEAN, symbols : SUBSET RuntimeFunctions, modules : SUBSET Nat]
EngineType == [args : Commands, jit : JitType, runtime : SUBSET RuntimeFunctions]

EngineTypeInv ==
    /\ g \in [instance : Nat, options : Commands, target : Commands]
    /\ contexts \in Nat
    /\ engines \in [Engines -> EngineType]
    /\ compiled \in [args : Commands, options : Commands, target : Commands, live : BOOLEAN]

\* The globals are those of the one engine there is.
OwnGlobals ==
    \A e \in Live :
        /\ g # Null /\ g.options = engines[e].args
        /\ g.target \in {"none", engines[e].args}
        /\ engines[e].jit.modules \subseteq {g.instance}
        /\ \A f \in Live : f = e

EngineInv == EngineTypeInv /\ OwnGlobals /\ EnginesSound

-----------------------------------------------------------------------------

\* Before the library is initialised there is no engine.
LEMMA EngineStart == EngineInit => EngineInv
  <1> SUFFICES ASSUME EngineInit PROVE EngineInv
    OBVIOUS
  <1>1. Live = {}
    BY DEF EngineInit, Live
  <1>2. NoJit \in JitType
    BY DEF NoJit, JitType
  <1>3. NoEngine \in EngineType
    BY <1>2 DEF NoEngine, EngineType, Commands
  <1>4. EngineTypeInv
    BY <1>3 DEF EngineInit, EngineTypeInv, Null, NothingCompiled, Commands
  <1> QED BY <1>1, <1>4 DEF EngineInit, EngineInv, OwnGlobals, EnginesSound, NothingCompiled

\* With one engine at a time, no engine is left when another is created.
LEMMA NoEngineLeft ==
    ASSUME IsFiniteSet(Engines), MaxEngines = 1, Cardinality(Live) < MaxEngines
    PROVE  Live = {}
  <1>1. IsFiniteSet(Live)
    BY FS_Subset DEF Live
  <1>2. Cardinality(Live) \in Nat
    BY <1>1, FS_CardinalityType
  <1>3. Cardinality(Live) = 0
    BY <1>2
  <1> QED BY <1>1, <1>3, FS_EmptySet

\* A step that leaves the globals alone, and of the engines changes only one
\* that lives, whose new state the invariant allows.
LEMMA EngineChange ==
    ASSUME EngineInv, NEW e \in Live, NEW new \in EngineType, new.args = engines[e].args,
           new.jit.modules \subseteq {g.instance},
           engines' = [engines EXCEPT ![e] = new], UNCHANGED <<g, contexts, compiled>>
    PROVE  EngineInv'
  <1>1. e \in Engines /\ engines \in [Engines -> EngineType]
    BY DEF EngineInv, EngineTypeInv, Live
  <1>2. engines'[e] = new /\ \A f \in Engines \ {e} : engines'[f] = engines[f]
    BY <1>1
  <1>3. Live' \subseteq Live
    BY <1>1, <1>2 DEF Live
  <1>4. EngineTypeInv'
    BY <1>1 DEF EngineInv, EngineTypeInv
  <1>5. OwnGlobals'
    BY <1>1, <1>2, <1>3 DEF EngineInv, OwnGlobals
  <1> QED BY <1>4, <1>5 DEF EngineInv, EnginesSound

\* New globals, for which there is no engine or one that was just created.
LEMMA GlobalsReplaced ==
    ASSUME EngineInv, Live = {}, NEW e \in Engines, NEW args \in Args,
           \/ g' = NewGlobals /\ engines' = engines
           \/ /\ g' = [NewGlobals EXCEPT !.options = args]
              /\ engines' = [engines EXCEPT ![e] = [NoEngine EXCEPT !.args = args]],
           contexts' = contexts + 1, compiled' = compiled
    PROVE  EngineInv'
  <1>1. /\ engines \in [Engines -> EngineType] /\ contexts \in Nat
        /\ compiled \in [args : Commands, options : Commands, target : Commands, live : BOOLEAN]
    BY DEF EngineInv, EngineTypeInv
  <1>2. \A f \in Engines : engines[f] = NoEngine
    BY DEF Live
  <1>3. NoEngine \in EngineType /\ NoEngine.jit.modules = {}
    <2>1. NoJit \in JitType
      BY DEF NoJit, JitType
    <2> QED BY <2>1 DEF NoEngine, EngineType, Commands, NoJit
  <1>4. NewGlobals \in [instance : Nat, options : Commands, target : Commands]
    BY <1>1 DEF NewGlobals, Commands
  <1>5. EnginesSound'
    BY DEF EngineInv, EnginesSound
  <1>6. CASE g' = NewGlobals /\ engines' = engines
    <2>1. Live' = {}
      BY <1>6 DEF Live
    <2> QED BY <1>1, <1>4, <1>5, <1>6, <2>1 DEF EngineInv, EngineTypeInv, OwnGlobals
  <1>7. CASE /\ g' = [NewGlobals EXCEPT !.options = args]
             /\ engines' = [engines EXCEPT ![e] = [NoEngine EXCEPT !.args = args]]
    <2> DEFINE new == [NoEngine EXCEPT !.args = args]
    <2>1. args \in Commands
      BY DEF Commands
    <2>2. new \in EngineType /\ new.args = args /\ new.jit.modules = {}
      BY <1>3, <2>1 DEF EngineType
    <2>3. engines'[e] = new /\ \A f \in Engines \ {e} : engines'[f] = engines[f]
      BY <1>1, <1>7
    <2>4. Live' \subseteq {e}
      BY <1>2, <2>3 DEF Live
    <2>5. /\ g' \in [instance : Nat, options : Commands, target : Commands]
          /\ g'.options = args /\ g'.target = "none" /\ g'.instance = contexts + 1
      BY <1>1, <1>4, <1>7, <2>1 DEF NewGlobals
    <2>6. g' # Null
      BY <1>1, <2>5 DEF Null
    <2>7. engines' \in [Engines -> EngineType]
      BY <1>1, <1>7, <2>2
    <2>8. EngineTypeInv'
      BY <1>1, <2>5, <2>7 DEF EngineTypeInv
    <2>9. OwnGlobals'
      BY <2>2, <2>3, <2>4, <2>5, <2>6 DEF OwnGlobals
    <2> QED BY <1>5, <2>8, <2>9 DEF EngineInv
  <1> QED BY <1>6, <1>7

\* The library is initialised or shut down while there is no engine.
LEMMA LibraryStep ==
    ASSUME EngineInv, Initialize \/ Shutdown
    PROVE  EngineInv'
  <1>1. Live = {} /\ Live' = {}
    BY DEF EngineInv, OwnGlobals, Initialize, Shutdown, Live
  <1>2. /\ contexts \in Nat /\ contexts' \in {contexts, contexts + 1} /\ g' \in {Null, NewGlobals}
        /\ engines' = engines /\ compiled' = compiled
    BY DEF EngineInv, EngineTypeInv, Initialize, Shutdown
  <1>3. Null \in [instance : Nat, options : Commands, target : Commands]
    BY DEF Null, Commands
  <1>4. NewGlobals \in [instance : Nat, options : Commands, target : Commands]
    BY <1>2 DEF NewGlobals, Commands
  <1>5. EngineTypeInv'
    BY <1>2, <1>3, <1>4 DEF EngineInv, EngineTypeInv
  <1> QED BY <1>1, <1>2, <1>5 DEF EngineInv, OwnGlobals, EnginesSound

\* Execute compiles with the options in the globals, which are the engine's,
\* for a target of its own.
LEMMA ExecuteStep ==
    ASSUME EngineInv, NEW e \in Engines, Execute(e)
    PROVE  EngineInv'
  <1>1. /\ e \in Live /\ engines[e].args \in Commands /\ g.options = engines[e].args
        /\ g \in [instance : Nat, options : Commands, target : Commands]
    BY DEF Execute, EngineInv, EngineTypeInv, OwnGlobals, EngineType
  <1>2. g' = g /\ engines' = engines /\ contexts' = contexts
    BY <1>1 DEF Execute, GlobalStateGuard
  <1>3. Live' = Live
    BY <1>2 DEF Live
  <1>4. /\ compiled' \in [args : Commands, options : Commands, target : Commands, live : BOOLEAN]
        /\ EnginesSound'
    <2>1. CASE compiled' = compiled
      BY <2>1 DEF EngineInv, EngineTypeInv, EnginesSound
    <2>2. CASE compiled' = [args |-> engines[e].args, options |-> g.options, target |-> engines[e].args,
                            live |-> TRUE]
      BY <1>1, <2>2 DEF EnginesSound
    <2> QED BY <2>1, <2>2 DEF Execute
  <1> QED BY <1>2, <1>3, <1>4 DEF EngineInv, EngineTypeInv, OwnGlobals

\* A compilation to memory is for the target in the globals, which is the
\* engine's or made now from its arguments, and into the engine's context.
LEMMA CompileStep ==
    ASSUME EngineInv, NEW e \in Engines, CompileFromFileToJit(e)
    PROVE  EngineInv'
  <1> DEFINE target == IF g.target = "none" THEN engines[e].args ELSE g.target
             jit == InitializeJit(engines[e])
             more == [jit EXCEPT !.modules = @ \cup {g.instance}]
  <1>1. /\ e \in Live /\ engines \in [Engines -> EngineType] /\ engines[e] \in EngineType
        /\ g \in [instance : Nat, options : Commands, target : Commands]
        /\ contexts' = contexts /\ contexts \in Nat
    BY DEF CompileFromFileToJit, EngineInv, EngineTypeInv
  <1>2. /\ g # Null /\ g.options = engines[e].args /\ g.target \in {"none", engines[e].args}
        /\ engines[e].jit.modules \subseteq {g.instance} /\ \A f \in Live : f = e
    BY <1>1 DEF EngineInv, OwnGlobals
  <1>3. /\ engines[e].args \in Commands /\ engines[e].jit \in JitType
        /\ engines[e].runtime \in SUBSET RuntimeFunctions
    BY <1>1 DEF EngineType
  <1>4. target = engines[e].args
    BY <1>2
  <1>5. jit \in JitType /\ jit.modules \subseteq {g.instance}
    <2>1. CASE engines[e].jit.on
      BY <1>2, <1>3, <2>1 DEF InitializeJit
    <2>2. CASE ~engines[e].jit.on
      BY <1>3, <2>2 DEF InitializeJit, JitType
    <2> QED BY <2>1, <2>2
  <1>6. more \in JitType /\ more.modules \subseteq {g.instance}
    BY <1>1, <1>5 DEF JitType
  <1>7. PICK j \in {jit, more} : engines' = [engines EXCEPT ![e].jit = j]
    BY DEF CompileFromFileToJit
  <1>8. j \in JitType /\ j.modules \subseteq {g.instance}
    BY <1>5, <1>6
  <1> DEFINE new == [engines[e] EXCEPT !.jit = j]
  <1>9. new \in EngineType /\ new.args = engines[e].args /\ new.jit = j
    BY <1>1, <1>8 DEF EngineType
  <1>10. /\ engines' \in [Engines -> EngineType] /\ engines'[e] = new
         /\ \A f \in Engines \ {e} : engines'[f] = engines[f]
    BY <1>1, <1>7, <1>9
  <1>11. Live' \subseteq {e}
    BY <1>2, <1>10 DEF Live
  <1>12. g' \in {g, [g EXCEPT !.target = target]}
    BY DEF CompileFromFileToJit
  <1>13. /\ g' \in [instance : Nat, options : Commands, target : Commands]
         /\ g'.instance = g.instance /\ g'.options = g.options /\ g'.target \in {"none", engines[e].args}
    BY <1>1, <1>2, <1>3, <1>4, <1>12
  <1>14. g' # Null
    BY <1>1, <1>2, <1>13 DEF Null
  <1>15. OwnGlobals'
    BY <1>2, <1>8, <1>9, <1>10, <1>11, <1>13, <1>14 DEF OwnGlobals
  <1>16. /\ compiled' \in [args : Commands, options : Commands, target : Commands, live : BOOLEAN]
         /\ EnginesSound'
    <2>1. CASE compiled' = compiled
      BY <2>1 DEF EngineInv, EngineTypeInv, EnginesSound
    <2>2. CASE compiled' = [args |-> engines[e].args, options |-> g.options, target |-> target, live |-> TRUE]
      BY <1>2, <1>3, <1>4, <2>2 DEF EnginesSound
    <2> QED BY <2>1, <2>2 DEF CompileFromFileToJit
  <1> QED BY <1>1, <1>10, <1>13, <1>15, <1>16 DEF EngineInv, EngineTypeInv

\* A lookup generates code in the context of the globals, since the engine has
\* modules of no other.
LEMMA LookupStep ==
    ASSUME EngineInv, NEW e \in Engines, GetJitFunction(e)
    PROVE  EngineInv'
  <1>1. PICK context \in engines[e].jit.modules :
          /\ compiled' = [compiled EXCEPT !.live = context = g.instance]
          /\ \/ UNCHANGED engines
             \/ engines' = [engines EXCEPT ![e].jit.modules = @ \ {context}]
    BY DEF GetJitFunction
  <1>2. /\ e \in Live /\ engines[e] \in EngineType /\ engines[e].jit \in JitType
        /\ engines[e].jit.modules \subseteq {g.instance} /\ engines \in [Engines -> EngineType]
        /\ compiled \in [args : Commands, options : Commands, target : Commands, live : BOOLEAN]
    BY DEF GetJitFunction, EngineInv, EngineTypeInv, OwnGlobals, EngineType
  <1>3. context = g.instance
    BY <1>1, <1>2
  <1>4. compiled.live = TRUE
    BY <1>2 DEF EngineInv, EnginesSound
  <1>5. compiled' = compiled
    BY <1>1, <1>2, <1>3, <1>4
  <1>6. g' = g /\ contexts' = contexts
    BY DEF GetJitFunction
  <1>7. CASE engines' = engines
    BY <1>5, <1>6, <1>7 DEF EngineInv, EngineTypeInv, OwnGlobals, EnginesSound, Live
  <1>8. CASE engines' = [engines EXCEPT ![e].jit.modules = @ \ {context}]
    <2> DEFINE j == [engines[e].jit EXCEPT !.modules = @ \ {context}]
               new == [engines[e] EXCEPT !.jit = j]
    <2>1. j \in JitType /\ j.modules \subseteq {g.instance}
      BY <1>2 DEF JitType
    <2>2. new \in EngineType /\ new.args = engines[e].args /\ new.jit = j
      BY <1>2, <2>1 DEF EngineType
    <2>3. engines' = [engines EXCEPT ![e] = new]
      BY <1>2, <1>8
    <2> QED BY <1>2, <1>5, <1>6, <2>1, <2>2, <2>3, EngineChange
  <1> QED BY <1>1, <1>7, <1>8

\* The JIT's code and the runtime functions are the engine's own.
LEMMA JitStep ==
    ASSUME EngineInv, NEW e \in Engines,
           \/ ClearJitCode(e)
           \/ \E f \in RuntimeFunctions : SetJitRuntimeFunction(e, f)
           \/ \E fs \in {{f} : f \in RuntimeFunctions} \union {RuntimeFunctions} : ClearJitRuntimeFunctions(e, fs)
    PROVE  EngineInv'
  <1>1. /\ e \in Live /\ engines[e] \in EngineType /\ engines \in [Engines -> EngineType]
        /\ engines[e].jit.modules \subseteq {g.instance} /\ UNCHANGED <<g, contexts, compiled>>
    BY DEF ClearJitCode, SetJitRuntimeFunction, ClearJitRuntimeFunctions, EngineInv, EngineTypeInv, OwnGlobals
  <1>2. CASE ClearJitCode(e)
    <2> DEFINE new == [engines[e] EXCEPT !.jit = NoJit]
    <2>1. NoJit \in JitType /\ NoJit.modules = {}
      BY DEF NoJit, JitType
    <2>2. new \in EngineType /\ new.args = engines[e].args /\ new.jit.modules = {}
      BY <1>1, <2>1 DEF EngineType
    <2>3. engines' = [engines EXCEPT ![e] = new]
      BY <1>1, <1>2 DEF ClearJitCode
    <2> QED BY <1>1, <2>2, <2>3, EngineChange
  <1>3. ASSUME NEW r \in SUBSET RuntimeFunctions, engines' = [engines EXCEPT ![e].runtime = r]
        PROVE  EngineInv'
    <2> DEFINE new == [engines[e] EXCEPT !.runtime = r]
    <2>1. new \in EngineType /\ new.args = engines[e].args /\ new.jit = engines[e].jit
      BY <1>1 DEF EngineType
    <2>2. engines' = [engines EXCEPT ![e] = new]
      BY <1>1, <1>3
    <2> QED BY <1>1, <2>1, <2>2, EngineChange
  <1>4. engines[e].runtime \in SUBSET RuntimeFunctions
    BY <1>1 DEF EngineType
  <1>5. CASE \E f \in RuntimeFunctions : SetJitRuntimeFunction(e, f)
    <2>1. PICK f \in RuntimeFunctions : SetJitRuntimeFunction(e, f)
      BY <1>5
    <2>2. engines' = [engines EXCEPT ![e].runtime = engines[e].runtime \cup {f}]
      BY <1>1, <2>1 DEF SetJitRuntimeFunction
    <2> QED BY <1>3, <1>4, <2>2
  <1>6. CASE \E fs \in {{f} : f \in RuntimeFunctions} \union {RuntimeFunctions} : ClearJitRuntimeFunctions(e, fs)
    <2>1. PICK fs : ClearJitRuntimeFunctions(e, fs)
      BY <1>6
    <2>2. engines' = [engines EXCEPT ![e].runtime = engines[e].runtime \ fs]
      BY <1>1, <2>1 DEF ClearJitRuntimeFunctions
    <2> QED BY <1>3, <1>4, <2>2
  <1> QED BY <1>2, <1>5, <1>6

\* An engine ends; what is left in the globals is no engine's.
LEMMA DestroyStep ==
    ASSUME EngineInv, NEW e \in Engines, Destroy(e)
    PROVE  EngineInv'
  <1>1. /\ e \in Live /\ engines' = [engines EXCEPT ![e] = NoEngine] /\ UNCHANGED <<g, contexts, compiled>>
        /\ engines \in [Engines -> EngineType]
    BY DEF Destroy, EngineInv, EngineTypeInv
  <1>2. NoJit \in JitType
    BY DEF NoJit, JitType
  <1>3. NoEngine \in EngineType
    BY <1>2 DEF NoEngine, EngineType, Commands
  <1>4. Live' = {}
    BY <1>1 DEF EngineInv, OwnGlobals, Live
  <1>5. EngineTypeInv'
    BY <1>1, <1>3 DEF EngineInv, EngineTypeInv
  <1> QED BY <1>1, <1>4, <1>5 DEF EngineInv, OwnGlobals, EnginesSound

\* Every step keeps the invariant.
LEMMA EngineStep ==
    ASSUME IsFiniteSet(Engines), MaxEngines = 1, EngineInv, [EngineNext]_engineVars
    PROVE  EngineInv'
  <1>1. CASE Initialize \/ Shutdown
    BY <1>1, LibraryStep
  <1>2. ASSUME NEW e \in Engines, NEW args \in Args, CreateFromCArgs(e, args) PROVE EngineInv'
    <2>1. Live = {}
      BY <1>2, NoEngineLeft DEF CreateFromCArgs
    <2> QED BY <1>2, <2>1, GlobalsReplaced DEF CreateFromCArgs
  <1>3. ASSUME NEW e \in Engines, Destroy(e) PROVE EngineInv'
    BY <1>3, DestroyStep
  <1>4. ASSUME NEW e \in Engines, Execute(e) PROVE EngineInv'
    BY <1>4, ExecuteStep
  <1>5. ASSUME NEW e \in Engines, CompileFromFileToJit(e) PROVE EngineInv'
    BY <1>5, CompileStep
  <1>6. ASSUME NEW e \in Engines, GetJitFunction(e) PROVE EngineInv'
    BY <1>6, LookupStep
  <1>7. ASSUME NEW e \in Engines,
               \/ ClearJitCode(e)
               \/ \E f \in RuntimeFunctions : SetJitRuntimeFunction(e, f)
               \/ \E fs \in {{f} : f \in RuntimeFunctions} \union {RuntimeFunctions} : ClearJitRuntimeFunctions(e, fs)
        PROVE  EngineInv'
    BY <1>7, JitStep
  <1>8. CASE UNCHANGED engineVars
    BY <1>8 DEF engineVars, EngineInv, EngineTypeInv, OwnGlobals, EnginesSound, Live
  <1> QED BY <1>1, <1>2, <1>3, <1>4, <1>5, <1>6, <1>7, <1>8 DEF EngineNext

\* An application that keeps one engine at a time: every compilation, to a file
\* or to memory, is with the options and for the target of the engine that asked
\* for it, whatever was compiled, failed or cleared before, and code is generated
\* in a context that exists.  With two engines this is false: the options of the
\* second replace those of the first.
THEOREM EnginesAreSound ==
    ASSUME IsFiniteSet(Engines), MaxEngines = 1
    PROVE  EngineSpec => []EnginesSound
  <1>1. EngineInv /\ [EngineNext]_engineVars => EngineInv'
    BY EngineStep
  <1>2. EngineInv => EnginesSound
    BY DEF EngineInv
  <1> QED BY EngineStart, <1>1, <1>2, PTL DEF EngineSpec

-----------------------------------------------------------------------------
(***************************************************************************)
(* The symbol table.  Lookups are lexical because a map is in one place:   *)
(* it belongs to one open scope or is free once, so that what is added to  *)
(* a scope, or cleared for a new one, is seen in no other.  Globals are    *)
(* what the outermost scope declares, since only locals are added when     *)
(* another scope is open.                                                  *)
(***************************************************************************)

Maps == UNION {[S -> Nat] : S \in SUBSET Names}
GlobalType == [init : Inits \cup {NoInit, ZeroInit}, linkage : {"internal", "external"}]
GlobalMaps == UNION {[S -> GlobalType] : S \in SUBSET Names}
TypeNames == {t.name : t \in GlobalTypes} \cup {"int"}
Constness == {t.const : t \in GlobalTypes} \cup {FALSE}
SymbolType == [name : Names, type : TypeNames, const : Constness, storage : Storage, value : Inits \cup {NoInit}]

\* A map belongs to one open scope, or is free, once.
MapsApart ==
    /\ \A i, j \in 1 .. Len(scopes) : scopes[i] = scopes[j] => i = j
    /\ \A i, j \in 1 .. Len(freeMaps) : freeMaps[i] = freeMaps[j] => i = j
    /\ \A i \in 1 .. Len(scopes), j \in 1 .. Len(freeMaps) : scopes[i] # freeMaps[j]

\* The maps of the open scopes hold what the scopes declare.
ScopesInv ==
    /\ maps \in Seq(Maps) /\ lexical \in Seq(Maps)
    /\ scopes \in Seq(1 .. Len(maps)) /\ freeMaps \in Seq(1 .. Len(maps))
    /\ Len(scopes) >= 1 /\ Len(lexical) = Len(scopes)
    /\ \A i \in 1 .. Len(scopes) : lexical[i] = maps[scopes[i]]
    /\ MapsApart

\* What is known of a global variable that is declared: its symbol tells its
\* type and the storage class that it was declared with first, its definitions
\* give it an initializer, and the constant of its symbol is that initializer.
GlobalKnown(n) ==
    LET s == lexical[1][n]
    IN /\ s \in 1 .. Len(symbol) /\ symbol[s].name = n
       /\ typesOf[n] = {<<symbol[s].type, symbol[s].const>>}
       /\ definitionsOf[n] > 0 <=> llvmGlobals[n].init # NoInit
       /\ llvmGlobals[n].linkage = "internal" <=> symbol[s].storage = "static"
       /\ symbol[s].storage \in storagesOf[n]
       /\ symbol[s].storage # "extern" => storagesOf[n] = {symbol[s].storage} /\ definitionsOf[n] = 1
       /\ definitionsOf[n] <= 1 /\ symbol[s].value # NoInit => symbol[s].value = llvmGlobals[n].init

\* The global variables are what the outermost scope declares.
GlobalsInv ==
    /\ symbol \in Seq(SymbolType) /\ llvmGlobals \in GlobalMaps
    /\ definitionsOf \in [Names -> 0 .. 2] /\ typesOf \in [Names -> SUBSET (TypeNames \X Constness)]
    /\ storagesOf \in [Names -> SUBSET Storage]
    /\ DOMAIN lexical[1] = DOMAIN llvmGlobals
    /\ \A n \in DOMAIN llvmGlobals : GlobalKnown(n)
    /\ \A n \in Names \ DOMAIN llvmGlobals : definitionsOf[n] = 0 /\ typesOf[n] = {} /\ storagesOf[n] = {}
    /\ functionNames \cap DOMAIN llvmGlobals = {}

SymbolsInv == ScopesInv /\ GlobalsInv

-----------------------------------------------------------------------------

\* An entry is added to a map.
LEMMA AddedMap ==
    ASSUME NEW m \in Maps, NEW n \in Names, NEW k \in Nat
    PROVE  Added(m, n, k) \in Maps
  <1>1. PICK S \in SUBSET Names : m \in [S -> Nat]
    BY DEF Maps
  <1>2. Added(m, n, k) \in [S \cup {n} -> Nat]
    BY <1>1 DEF Added
  <1> QED BY <1>2 DEF Maps

\* The map of a new scope.
LEMMA EmptyMap == Empty \in Maps /\ DOMAIN Empty = {}
  <1>1. Empty \in [{} -> Nat]
    BY DEF Empty
  <1> QED BY <1>1 DEF Maps

\* A set of positions in a sequence has a last one.
LEMMA LastPosition ==
    ASSUME NEW n \in Nat, NEW S \in SUBSET (1 .. n), S # {}
    PROVE  Max(S) \in S
  <1> DEFINE R == OpToRel(<, Nat)
             T == {n - i : i \in S}
  <1>0. \A i \in S : i \in Int /\ n - i \in Nat
    OBVIOUS
  <1>1. T \in SUBSET Nat /\ T # {}
    BY <1>0, Zenon
  <1>2. \A x, y \in Nat : x < y => <<x, y>> \in R
    BY DEF OpToRel
  <1>3. IsWellFoundedOn(R, Nat)
    BY NatLessThanWellFounded, Zenon
  <1> HIDE DEF R
  <1>4. PICK k \in T : \A y \in T : ~(<<y, k>> \in R)
    BY <1>1, <1>3, WFMin
  <1>5. ASSUME NEW i \in S PROVE k <= n - i
    <2>1. n - i \in T /\ n - i \in Nat /\ k \in Nat
      BY <1>0, <1>1, Zenon
    <2>2. ~(n - i < k)
      BY <1>2, <1>4, <2>1, Zenon
    <2> QED BY <2>1, <2>2
  <1>6. n - k \in S /\ \A i \in S : n - k >= i
    <2>1. PICK l \in S : k = n - l
      BY Zenon
    <2>2. n - k = l
      BY <1>0, <2>1
    <2>3. ASSUME NEW i \in S PROVE n - k >= i
      BY <1>0, <1>5, <2>1
    <2> QED BY <2>2, <2>3
  <1> QED BY <1>6 DEF Max

\* A lookup goes through the scopes as their declarations are nested.
LEMMA LookupLexical ==
    ASSUME ScopesInv
    PROVE  LookupsLexical
  <1> SUFFICES ASSUME NEW n \in Names
               PROVE  LET i == SelectLastInSeq(lexical, LAMBDA e : n \in DOMAIN e)
                      IN LookupVariable(n) = IF i = 0 THEN 0 ELSE lexical[i][n]
    BY DEF LookupsLexical
  <1> DEFINE I == {i \in 1 .. Len(scopes) : n \in DOMAIN maps[scopes[i]]}
             J == {i \in 1 .. Len(lexical) : n \in DOMAIN lexical[i]}
  <1>1. I = J
    BY DEF ScopesInv
  <1>2. SelectLastInSeq(scopes, LAMBDA m : n \in DOMAIN maps[m]) = IF I # {} THEN Max(I) ELSE 0
    BY DEF SelectLastInSeq
  <1>3. SelectLastInSeq(lexical, LAMBDA e : n \in DOMAIN e) = IF J # {} THEN Max(J) ELSE 0
    BY DEF SelectLastInSeq
  <1>4. ASSUME I # {} PROVE Max(I) \in I
    <2>1. Len(scopes) \in Nat /\ I \in SUBSET (1 .. Len(scopes))
      BY DEF ScopesInv
    <2> HIDE DEF I
    <2> QED BY <1>4, <2>1, LastPosition
  <1> QED BY <1>1, <1>2, <1>3, <1>4 DEF ScopesInv, LookupVariable

\* The parts of the invariant, without the sequences.
LEMMA ScopesFacts ==
    ASSUME ScopesInv
    PROVE  /\ Len(scopes) \in Nat /\ Len(freeMaps) \in Nat /\ Len(maps) \in Nat
           /\ Len(lexical) = Len(scopes) /\ Len(scopes) >= 1
           /\ \A i \in 1 .. Len(scopes) : scopes[i] \in 1 .. Len(maps)
           /\ \A i \in 1 .. Len(freeMaps) : freeMaps[i] \in 1 .. Len(maps)
           /\ \A i \in 1 .. Len(scopes) : lexical[i] = maps[scopes[i]]
           /\ \A i, j \in 1 .. Len(scopes) : scopes[i] = scopes[j] => i = j
           /\ \A i, j \in 1 .. Len(freeMaps) : freeMaps[i] = freeMaps[j] => i = j
           /\ \A i \in 1 .. Len(scopes), j \in 1 .. Len(freeMaps) : scopes[i] # freeMaps[j]
  <1>1. Len(scopes) \in Nat /\ Len(freeMaps) \in Nat /\ Len(maps) \in Nat
    BY DEF ScopesInv
  <1>2. /\ \A i \in 1 .. Len(scopes) : scopes[i] \in 1 .. Len(maps)
        /\ \A i \in 1 .. Len(freeMaps) : freeMaps[i] \in 1 .. Len(maps)
    BY DEF ScopesInv
  <1> QED BY <1>1, <1>2 DEF ScopesInv, MapsApart

\* A sequence without its last element.
LEMMA Shortened ==
    ASSUME NEW M, NEW s \in Seq(M), Len(s) >= 1
    PROVE  /\ SubSeq(s, 1, Len(s) - 1) \in Seq(M)
           /\ Len(SubSeq(s, 1, Len(s) - 1)) = Len(s) - 1
           /\ \A i \in 1 .. Len(s) - 1 : SubSeq(s, 1, Len(s) - 1)[i] = s[i]
  <1> DEFINE n == Len(s)
             t == SubSeq(s, 1, n - 1)
  <1>1. n \in Nat /\ n - 1 \in Int /\ n >= 1
    OBVIOUS
  <1>2. \A i \in 1 .. n - 1 : s[i] \in M
    BY <1>1
  <1>3. /\ t \in Seq(M) /\ Len(t) = IF 1 <= n - 1 THEN (n - 1) - 1 + 1 ELSE 0
        /\ \A i \in 1 .. (n - 1) - 1 + 1 : t[i] = s[1 + i - 1]
    BY <1>1, <1>2, SubSeqProperties
  <1> HIDE DEF t, n
  <1>4. Len(t) = n - 1 /\ (n - 1) - 1 + 1 = n - 1
    BY <1>1, <1>3
  <1>5. ASSUME NEW i \in 1 .. n - 1 PROVE t[i] = s[i]
    <2>1. 1 + i - 1 = i
      BY <1>1
    <2> QED BY <1>3, <1>4, <2>1
  <1> QED BY <1>3, <1>4, <1>5 DEF t, n

\* A new scope gets a map that no other has, which is cleared.
LEMMA PushScopes ==
    ASSUME ScopesInv, PushScope
    PROVE  ScopesInv' /\ lexical'[1] = lexical[1]
  <1> DEFINE n == Len(scopes)
             k == Len(freeMaps)
             l == Len(maps)
  <1>0. /\ maps \in Seq(Maps) /\ lexical \in Seq(Maps)
        /\ scopes \in Seq(1 .. Len(maps)) /\ freeMaps \in Seq(1 .. Len(maps))
    BY DEF ScopesInv
  <1>1. n \in Nat /\ k \in Nat /\ l \in Nat /\ Len(lexical) = n /\ n >= 1
    BY ScopesFacts
  <1>2. /\ \A i \in 1 .. n : scopes[i] \in 1 .. l
        /\ \A i \in 1 .. n : lexical[i] = maps[scopes[i]]
    BY ScopesFacts
  <1>3. /\ \A i, j \in 1 .. n : scopes[i] = scopes[j] => i = j
        /\ \A i, j \in 1 .. k : freeMaps[i] = freeMaps[j] => i = j
        /\ \A i \in 1 .. n, j \in 1 .. k : scopes[i] # freeMaps[j]
    BY ScopesFacts
  <1>4. /\ lexical' \in Seq(Maps) /\ Len(lexical') = n + 1 /\ lexical'[n + 1] = Empty
        /\ \A i \in 1 .. n : lexical'[i] = lexical[i]
    <2>1. lexical' = Append(lexical, Empty)
      BY DEF PushScope
    <2> QED BY <1>0, <1>1, <2>1, EmptyMap
  <1>5. \A i \in 1 .. n + 1 : i \in 1 .. n \/ i = n + 1
    BY <1>1
  <1>6. CASE freeMaps # <<>>
    <2> DEFINE m == freeMaps[k]
    <2>1. k >= 1
      BY <1>0, <1>6
    <2>2. k \in 1 .. k /\ m \in 1 .. l
      BY <1>1, <2>1, ScopesFacts
    <2>3. scopes' = Append(scopes, m) /\ freeMaps' = SubSeq(freeMaps, 1, k - 1) /\ maps' = [maps EXCEPT ![m] = Empty]
      BY <1>6 DEF PushScope, Last, Front, ReusedMap
    <2>4. maps' \in Seq(Maps) /\ Len(maps') = l
      BY <1>0, <2>2, <2>3, EmptyMap
    <2>5. maps'[m] = Empty /\ \A x \in 1 .. l : x # m => maps'[x] = maps[x]
      BY <1>0, <2>2, <2>3
    <2>6. /\ freeMaps' \in Seq(1 .. l) /\ Len(freeMaps') = k - 1
          /\ \A i \in 1 .. k - 1 : freeMaps'[i] = freeMaps[i] /\ i \in 1 .. k /\ i # k
      <3>1. /\ SubSeq(freeMaps, 1, k - 1) \in Seq(1 .. l)
            /\ Len(SubSeq(freeMaps, 1, k - 1)) = k - 1
            /\ \A i \in 1 .. k - 1 : SubSeq(freeMaps, 1, k - 1)[i] = freeMaps[i]
        BY <1>0, <2>1, Shortened, Zenon
      <3>2. \A i \in 1 .. k - 1 : i \in 1 .. k /\ i # k
        BY <1>1
      <3> QED BY <2>3, <3>1, <3>2
    <2>7. /\ scopes' \in Seq(1 .. l) /\ Len(scopes') = n + 1 /\ scopes'[n + 1] = m
          /\ \A i \in 1 .. n : scopes'[i] = scopes[i]
      BY <1>0, <1>1, <2>2, <2>3
    <2>8. \A i \in 1 .. n : scopes[i] # m
      BY <1>3, <2>2
    <2>9. ASSUME NEW i \in 1 .. n + 1, NEW j \in 1 .. n + 1, scopes'[i] = scopes'[j] PROVE i = j
      <3>1. CASE i \in 1 .. n /\ j \in 1 .. n
        BY <1>3, <2>7, <2>9, <3>1
      <3>2. CASE i = n + 1 /\ j \in 1 .. n
        BY <2>7, <2>8, <2>9, <3>2
      <3>3. CASE i \in 1 .. n /\ j = n + 1
        BY <2>7, <2>8, <2>9, <3>3
      <3> QED BY <1>5, <3>1, <3>2, <3>3
    <2>10. ASSUME NEW i \in 1 .. k - 1, NEW j \in 1 .. k - 1, freeMaps'[i] = freeMaps'[j] PROVE i = j
      BY <1>3, <2>6, <2>10
    <2>11. ASSUME NEW i \in 1 .. n + 1, NEW j \in 1 .. k - 1 PROVE scopes'[i] # freeMaps'[j]
      <3>0. freeMaps'[j] = freeMaps[j] /\ j \in 1 .. k /\ j # k
        BY <2>6
      <3>1. CASE i \in 1 .. n
        BY <1>3, <2>7, <3>0, <3>1
      <3>2. CASE i = n + 1
        <4>1. freeMaps[j] # freeMaps[k]
          BY <1>3, <2>2, <3>0
        <4> QED BY <2>7, <3>0, <3>2, <4>1
      <3> QED BY <1>5, <3>1, <3>2
    <2>12. MapsApart'
      BY <2>6, <2>7, <2>9, <2>10, <2>11 DEF MapsApart
    <2>13. ASSUME NEW i \in 1 .. n + 1 PROVE lexical'[i] = maps'[scopes'[i]]
      <3>1. CASE i \in 1 .. n
        <4>1. scopes'[i] = scopes[i] /\ scopes[i] # m /\ scopes[i] \in 1 .. l
          BY <1>2, <2>7, <2>8, <3>1
        <4>2. maps'[scopes[i]] = maps[scopes[i]]
          BY <2>5, <4>1
        <4> QED BY <1>2, <1>4, <3>1, <4>1, <4>2
      <3>2. CASE i = n + 1
        BY <1>4, <2>5, <2>7, <3>2
      <3> QED BY <1>5, <3>1, <3>2
    <2> QED BY <1>1, <1>4, <2>4, <2>6, <2>7, <2>12, <2>13 DEF ScopesInv
  <1>7. CASE freeMaps = <<>>
    <2>1. scopes' = Append(scopes, l + 1) /\ freeMaps' = <<>> /\ maps' = Append(maps, Empty)
      BY <1>7 DEF PushScope
    <2>2. maps' \in Seq(Maps) /\ Len(maps') = l + 1
      BY <1>0, <2>1, EmptyMap
    <2>3. maps'[l + 1] = Empty /\ \A x \in 1 .. l : maps'[x] = maps[x]
      BY <1>0, <2>1
    <2>4. scopes \in Seq(1 .. l + 1)
      BY <1>0, <1>1, <1>2
    <2>5. l + 1 \in 1 .. l + 1
      BY <1>1
    <2>6. /\ scopes' \in Seq(1 .. l + 1) /\ Len(scopes') = n + 1 /\ scopes'[n + 1] = l + 1
          /\ \A i \in 1 .. n : scopes'[i] = scopes[i]
      BY <1>1, <2>1, <2>4, <2>5
    <2>7. freeMaps' \in Seq(1 .. l + 1) /\ Len(freeMaps') = 0
      BY <2>1
    <2>8. \A i \in 1 .. n : scopes[i] # l + 1
      BY <1>1, <1>2
    <2>9. ASSUME NEW i \in 1 .. n + 1, NEW j \in 1 .. n + 1, scopes'[i] = scopes'[j] PROVE i = j
      <3>1. CASE i \in 1 .. n /\ j \in 1 .. n
        BY <1>3, <2>6, <2>9, <3>1
      <3>2. CASE i = n + 1 /\ j \in 1 .. n
        BY <2>6, <2>8, <2>9, <3>2
      <3>3. CASE i \in 1 .. n /\ j = n + 1
        BY <2>6, <2>8, <2>9, <3>3
      <3> QED BY <1>5, <3>1, <3>2, <3>3
    <2>10. MapsApart'
      BY <2>6, <2>7, <2>9 DEF MapsApart
    <2>11. ASSUME NEW i \in 1 .. n + 1 PROVE lexical'[i] = maps'[scopes'[i]]
      <3>1. CASE i \in 1 .. n
        <4>1. scopes'[i] = scopes[i] /\ scopes[i] \in 1 .. l
          BY <1>2, <2>6, <3>1
        <4>2. maps'[scopes[i]] = maps[scopes[i]]
          BY <2>3, <4>1
        <4> QED BY <1>2, <1>4, <3>1, <4>1, <4>2
      <3>2. CASE i = n + 1
        BY <1>4, <2>3, <2>6, <3>2
      <3> QED BY <1>5, <3>1, <3>2
    <2> QED BY <1>1, <1>4, <2>2, <2>6, <2>7, <2>10, <2>11 DEF ScopesInv
  <1> QED BY <1>6, <1>7

\* The map of the innermost scope is freed.
LEMMA PopScopes ==
    ASSUME ScopesInv, PopScope
    PROVE  ScopesInv' /\ lexical'[1] = lexical[1]
  <1> DEFINE n == Len(scopes)
             k == Len(freeMaps)
  <1>1. /\ maps \in Seq(Maps) /\ lexical \in Seq(Maps) /\ Len(lexical) = n /\ n \in Nat /\ n > 1 /\ k \in Nat
        /\ scopes \in Seq(1 .. Len(maps)) /\ freeMaps \in Seq(1 .. Len(maps)) /\ maps' = maps
        /\ \A i \in 1 .. n : lexical[i] = maps[scopes[i]]
    BY DEF ScopesInv, PopScope
  <1>2. freeMaps' = Append(freeMaps, scopes[n]) /\ scopes' = SubSeq(scopes, 1, n - 1) /\ lexical' = SubSeq(lexical, 1, n - 1)
    BY <1>1 DEF PopScope, Last, Front
  <1>3. /\ freeMaps' \in Seq(1 .. Len(maps)) /\ Len(freeMaps') = k + 1 /\ freeMaps'[k + 1] = scopes[n]
        /\ \A i \in 1 .. k : freeMaps'[i] = freeMaps[i]
    BY <1>1, <1>2
  <1>4. scopes' \in Seq(1 .. Len(maps)) /\ Len(scopes') = n - 1 /\ \A i \in 1 .. n - 1 : scopes'[i] = scopes[i]
    <2>1. Len(scopes) >= 1
      BY <1>1
    <2> QED BY <1>1, <1>2, <2>1, Shortened, Zenon
  <1>5. lexical' \in Seq(Maps) /\ Len(lexical') = n - 1 /\ \A i \in 1 .. n - 1 : lexical'[i] = lexical[i]
    <2>1. Len(lexical) >= 1 /\ lexical' = SubSeq(lexical, 1, Len(lexical) - 1)
      BY <1>1, <1>2
    <2>2. /\ lexical' \in Seq(Maps) /\ Len(lexical') = Len(lexical) - 1
          /\ \A i \in 1 .. Len(lexical) - 1 : lexical'[i] = lexical[i]
      BY <1>1, <2>1, Shortened, Zenon
    <2> QED BY <1>1, <2>2
  <1>6. MapsApart'
    <2>0. \A i, j \in 1 .. n : scopes[i] = scopes[j] => i = j
      BY ScopesFacts
    <2>1. ASSUME NEW i \in 1 .. n - 1, NEW j \in 1 .. n - 1, scopes'[i] = scopes'[j] PROVE i = j
      <3>1. i \in 1 .. n /\ j \in 1 .. n
        BY <1>1
      <3>2. scopes[i] = scopes[j]
        BY <1>4, <2>1
      <3> QED BY <2>0, <3>1, <3>2
    <2>2. ASSUME NEW i \in 1 .. n, NEW l \in 1 .. k PROVE scopes[i] # freeMaps[l]
      BY DEF ScopesInv, MapsApart
    <2>3. n \in 1 .. n /\ \A i \in 1 .. n - 1 : i \in 1 .. n /\ i # n
      BY <1>1
    <2>4. \A i \in 1 .. k + 1 : i \in 1 .. k \/ i = k + 1
      BY <1>1
    <2>5. ASSUME NEW i \in 1 .. k + 1, NEW j \in 1 .. k + 1, freeMaps'[i] = freeMaps'[j] PROVE i = j
      <3>1. CASE i \in 1 .. k /\ j \in 1 .. k
        BY <1>3, <2>5, <3>1 DEF ScopesInv, MapsApart
      <3>2. CASE i = k + 1 /\ j \in 1 .. k
        <4>1. freeMaps[j] = scopes[n]
          BY <1>3, <2>5, <3>2
        <4> QED BY <2>2, <2>3, <3>2, <4>1
      <3>3. CASE i \in 1 .. k /\ j = k + 1
        <4>1. freeMaps[i] = scopes[n]
          BY <1>3, <2>5, <3>3
        <4> QED BY <2>2, <2>3, <3>3, <4>1
      <3> QED BY <2>4, <3>1, <3>2, <3>3
    <2>6. ASSUME NEW i \in 1 .. n - 1, NEW j \in 1 .. k + 1 PROVE scopes'[i] # freeMaps'[j]
      <3>1. scopes'[i] = scopes[i] /\ i \in 1 .. n
        BY <1>4, <2>3
      <3>2. CASE j \in 1 .. k
        BY <1>3, <2>2, <3>1, <3>2
      <3>3. CASE j = k + 1
        <4>1. scopes[i] # scopes[n]
          BY <2>3, <3>1 DEF ScopesInv, MapsApart
        <4> QED BY <1>3, <3>1, <3>3, <4>1
      <3> QED BY <2>4, <3>2, <3>3
    <2> QED BY <1>3, <1>4, <2>1, <2>5, <2>6 DEF MapsApart
  <1>7. ASSUME NEW i \in 1 .. n - 1 PROVE lexical'[i] = maps'[scopes'[i]]
    <2>1. i \in 1 .. n
      BY <1>1
    <2> QED BY <1>1, <1>4, <1>5, <2>1
  <1>8. n - 1 >= 1 /\ 1 \in 1 .. n - 1
    BY <1>1
  <1> QED BY <1>1, <1>3, <1>4, <1>5, <1>6, <1>7, <1>8 DEF ScopesInv

\* What two sequences make together.
LEMMA Concatenated ==
    ASSUME NEW M, NEW s \in Seq(M), NEW t \in Seq(M)
    PROVE  s \o t \in Seq(M) /\ Len(s \o t) = Len(s) + Len(t)
  BY ConcatProperties

\* What is in the free list once the maps of the inner scopes are in it.
LEMMA FreedInner ==
    ASSUME NEW M, NEW s \in Seq(M), NEW f \in Seq(M), Len(s) > 1,
           \A i, j \in 1 .. Len(s) : s[i] = s[j] => i = j,
           \A i, j \in 1 .. Len(f) : f[i] = f[j] => i = j,
           \A i \in 1 .. Len(s), j \in 1 .. Len(f) : s[i] # f[j]
    PROVE  LET h == f \o Reverse(Tail(s))
           IN /\ h \in Seq(M)
              /\ \A i, j \in 1 .. Len(h) : h[i] = h[j] => i = j
              /\ \A j \in 1 .. Len(h) : s[1] # h[j]
  <1> DEFINE h == f \o Reverse(Tail(s))
             n == Len(s)
             k == Len(f)
  <1>0. /\ n \in Nat /\ k \in Nat /\ n > 1 /\ n = Len(s) /\ k = Len(f)
        /\ \A i, j \in 1 .. n : s[i] = s[j] => i = j
        /\ \A i, j \in 1 .. k : f[i] = f[j] => i = j
        /\ \A i \in 1 .. n, j \in 1 .. k : s[i] # f[j]
    OBVIOUS
  <1> HIDE DEF n, k
  <1> USE <1>0
  <1> DEFINE t == Tail(s)
             r == Reverse(t)
  <1>1. t \in Seq(M) /\ Len(t) = n - 1 /\ \A i \in 1 .. n - 1 : t[i] = s[i + 1]
    OBVIOUS
  <1> HIDE DEF t
  <1>2. r = [i \in 1 .. n - 1 |-> t[n - i]]
    BY <1>1 DEF Reverse
  <1>3. \A i \in 1 .. n - 1 : n - i \in 1 .. n - 1 /\ n - i + 1 \in 2 .. n
    OBVIOUS
  <1>4. \A i \in 1 .. n - 1 : t[n - i] \in M
    BY <1>1, <1>3
  <1>5. r \in Seq(M) /\ Len(r) = n - 1
    BY <1>2, <1>4
  <1>6. ASSUME NEW i \in 1 .. n - 1 PROVE r[i] = s[n - i + 1]
    BY <1>1, <1>2, <1>3
  <1> HIDE DEF r
  <1>7. h = f \o r
    BY DEF r, t
  <1> HIDE DEF h
  <1>8. h \in Seq(M) /\ Len(h) = k + (n - 1)
    <2>1. f \o r \in Seq(M) /\ Len(f \o r) = Len(f) + Len(r)
      <3>1. r \in Seq(M) /\ f \in Seq(M)
        BY <1>5
      <3> QED BY ONLY <3>1, Concatenated
    <2> QED BY <1>5, <1>7, <2>1
  <1>9. ASSUME NEW i \in 1 .. k PROVE h[i] = f[i]
    <2>1. i \in 1 .. Len(f) + Len(r) /\ i <= Len(f)
      BY <1>5
    <2> QED BY <1>5, <1>7, <2>1, ConcatProperties
  <1>10. ASSUME NEW i \in 1 .. Len(h), i > k
         PROVE  \E x \in 2 .. n : x = n + k + 1 - i /\ h[i] = s[x]
    <2>1. i - k \in 1 .. n - 1 /\ n - (i - k) + 1 = n + k + 1 - i /\ n + k + 1 - i \in 2 .. n
      BY <1>8, <1>10
    <2>2. h[i] = r[i - k]
      <3>1. i \in 1 .. Len(f) + Len(r) /\ ~(i <= Len(f))
        BY <1>5, <1>8, <1>10
      <3> QED BY <1>5, <1>7, <3>1, ConcatProperties
    <2> QED BY <1>6, <2>1, <2>2
  <1>11. \A i \in 1 .. Len(h) : i \in Int /\ (i \in 1 .. k \/ i > k)
    BY <1>8
  <1>12. ASSUME NEW i \in 1 .. k, NEW j \in 1 .. Len(h), j > k PROVE h[i] # h[j]
    <2>1. PICK y \in 2 .. n : h[j] = s[y]
      BY <1>10, <1>12
    <2>2. y \in 1 .. n
      OBVIOUS
    <2>3. s[y] # f[i]
      BY <2>2
    <2> QED BY <1>9, <2>1, <2>3
  <1>13. ASSUME NEW i \in 1 .. Len(h), NEW j \in 1 .. Len(h), h[i] = h[j] PROVE i = j
    <2>1. CASE i \in 1 .. k /\ j \in 1 .. k
      <3>1. f[i] = f[j]
        BY <1>9, <1>13, <2>1
      <3> QED BY <2>1, <3>1
    <2>2. CASE i \in 1 .. k /\ j > k
      BY <1>12, <1>13, <2>2
    <2>3. CASE i > k /\ j \in 1 .. k
      BY <1>12, <1>13, <2>3
    <2>4. CASE i > k /\ j > k
      <3>1. PICK x \in 2 .. n : x = n + k + 1 - i /\ h[i] = s[x]
        BY <1>10, <2>4
      <3>2. PICK y \in 2 .. n : y = n + k + 1 - j /\ h[j] = s[y]
        BY <1>10, <2>4
      <3>3. x \in 1 .. n /\ y \in 1 .. n
        OBVIOUS
      <3>4. s[x] = s[y]
        BY <1>13, <3>1, <3>2, Zenon
      <3>5. x = y
        BY <3>3, <3>4, Zenon
      <3> QED BY <1>11, <3>1, <3>2, <3>5
    <2> QED BY <1>11, <2>1, <2>2, <2>3, <2>4
  <1>14. ASSUME NEW j \in 1 .. Len(h) PROVE s[1] # h[j]
    <2>0. 1 \in 1 .. n
      OBVIOUS
    <2>1. CASE j \in 1 .. k
      <3>1. s[1] # f[j]
        BY <2>0, <2>1
      <3> QED BY <1>9, <2>1, <3>1
    <2>2. CASE j > k
      <3>1. PICK y \in 2 .. n : h[j] = s[y]
        BY <1>10, <2>2
      <3>2. y \in 1 .. n /\ y # 1
        OBVIOUS
      <3> QED BY <2>0, <3>1, <3>2
    <2> QED BY <1>11, <2>1, <2>2
  <1> QED BY <1>8, <1>13, <1>14 DEF h

\* All maps but that of the outermost scope are freed, innermost first.
LEMMA PopInnerStep ==
    ASSUME ScopesInv, PopInnerScopes
    PROVE  ScopesInv' /\ lexical'[1] = lexical[1]
  <1>1. /\ maps \in Seq(Maps) /\ lexical \in Seq(Maps) /\ Len(scopes) > 1 /\ Len(scopes) \in Nat /\ Len(freeMaps) \in Nat
        /\ scopes \in Seq(1 .. Len(maps)) /\ freeMaps \in Seq(1 .. Len(maps)) /\ maps' = maps
        /\ \A i \in 1 .. Len(scopes) : lexical[i] = maps[scopes[i]]
        /\ Len(lexical) = Len(scopes)
    BY DEF ScopesInv, PopInnerScopes
  <1>2. freeMaps' = freeMaps \o Reverse(Tail(scopes)) /\ scopes' = <<scopes[1]>> /\ lexical' = <<lexical[1]>>
    BY DEF PopInnerScopes
  <1>3. /\ freeMaps' \in Seq(1 .. Len(maps))
        /\ \A i, j \in 1 .. Len(freeMaps') : freeMaps'[i] = freeMaps'[j] => i = j
        /\ \A j \in 1 .. Len(freeMaps') : scopes[1] # freeMaps'[j]
    <2>1. /\ \A i, j \in 1 .. Len(scopes) : scopes[i] = scopes[j] => i = j
          /\ \A i, j \in 1 .. Len(freeMaps) : freeMaps[i] = freeMaps[j] => i = j
          /\ \A i \in 1 .. Len(scopes), j \in 1 .. Len(freeMaps) : scopes[i] # freeMaps[j]
      BY DEF ScopesInv, MapsApart
    <2> DEFINE M == 1 .. Len(maps)
    <2>2. scopes \in Seq(M) /\ freeMaps \in Seq(M) /\ Len(scopes) > 1
      BY <1>1
    <2> HIDE DEF M
    <2>3. LET h == freeMaps \o Reverse(Tail(scopes))
          IN /\ h \in Seq(M)
             /\ \A i, j \in 1 .. Len(h) : h[i] = h[j] => i = j
             /\ \A j \in 1 .. Len(h) : scopes[1] # h[j]
      BY <2>1, <2>2, FreedInner, Zenon
    <2> QED BY <1>2, <2>3 DEF M
  <1>4. /\ scopes' \in Seq(1 .. Len(maps)) /\ Len(scopes') = 1 /\ scopes'[1] = scopes[1]
        /\ lexical' \in Seq(Maps) /\ Len(lexical') = 1 /\ lexical'[1] = lexical[1]
    BY <1>1, <1>2
  <1>5. MapsApart'
    BY <1>3, <1>4 DEF MapsApart
  <1> QED BY <1>1, <1>3, <1>4, <1>5 DEF ScopesInv

\* A symbol is added to the innermost scope, and to its map.
LEMMA NewSymbolScopes ==
    ASSUME ScopesInv, NEW s, s.name \in Names, Len(symbol) \in Nat, NewSymbol(s)
    PROVE  /\ ScopesInv' /\ scopes' = scopes
           /\ \A i \in 1 .. Len(scopes) : lexical'[i] = IF i = Len(scopes) THEN Added(lexical[i], s.name, Len(symbol) + 1)
                                                                          ELSE lexical[i]
  <1> DEFINE n == Len(scopes)
             l == Len(maps)
             m == scopes[n]
             entry == Len(symbol) + 1
  <1>0. /\ maps \in Seq(Maps) /\ lexical \in Seq(Maps)
        /\ scopes \in Seq(1 .. Len(maps)) /\ freeMaps \in Seq(1 .. Len(maps))
    BY DEF ScopesInv
  <1>1. n \in Nat /\ l \in Nat /\ Len(lexical) = n /\ n >= 1 /\ entry \in Nat
    BY ScopesFacts
  <1>2. /\ n \in 1 .. n /\ m \in 1 .. l
        /\ \A i \in 1 .. n : scopes[i] \in 1 .. l
        /\ \A i \in 1 .. n : lexical[i] = maps[scopes[i]]
        /\ \A i, j \in 1 .. n : scopes[i] = scopes[j] => i = j
    BY <1>1, ScopesFacts
  <1>3. /\ maps' = [maps EXCEPT ![m] = Added(maps[m], s.name, entry)]
        /\ lexical' = [lexical EXCEPT ![n] = Added(lexical[n], s.name, entry)]
        /\ scopes' = scopes /\ freeMaps' = freeMaps
    BY <1>1 DEF NewSymbol, Last
  <1>4. maps[m] \in Maps /\ lexical[n] \in Maps
    BY <1>0, <1>1, <1>2
  <1>5. Added(maps[m], s.name, entry) \in Maps /\ Added(lexical[n], s.name, entry) \in Maps
    BY <1>1, <1>4, AddedMap
  <1>6. maps' \in Seq(Maps) /\ Len(maps') = l /\ lexical' \in Seq(Maps) /\ Len(lexical') = n
    BY <1>0, <1>1, <1>2, <1>3, <1>5
  <1>7. /\ maps'[m] = Added(maps[m], s.name, entry) /\ \A x \in 1 .. l : x # m => maps'[x] = maps[x]
        /\ lexical'[n] = Added(lexical[n], s.name, entry) /\ \A i \in 1 .. n : i # n => lexical'[i] = lexical[i]
    BY <1>0, <1>1, <1>2, <1>3
  <1>8. ASSUME NEW i \in 1 .. n PROVE lexical'[i] = maps'[scopes[i]]
    <2>1. CASE i = n
      BY <1>2, <1>7, <2>1
    <2>2. CASE i # n
      <3>1. scopes[i] # m
        BY <1>2, <2>2
      <3> QED BY <1>2, <1>7, <2>2, <3>1
    <2> QED BY <2>1, <2>2
  <1>9. MapsApart'
    BY <1>3 DEF ScopesInv, MapsApart
  <1>10. ScopesInv'
    BY <1>0, <1>1, <1>3, <1>6, <1>8, <1>9 DEF ScopesInv
  <1> QED BY <1>3, <1>7, <1>10

\* What a lookup finds in the outermost scope.
LEMMA LookupGlobal ==
    ASSUME ScopesInv, Len(scopes) = 1, NEW n \in Names
    PROVE  LookupVariable(n) = IF n \in DOMAIN lexical[1] THEN lexical[1][n] ELSE 0
  <1> DEFINE J == {i \in 1 .. Len(lexical) : n \in DOMAIN lexical[i]}
             i0 == SelectLastInSeq(lexical, LAMBDA e : n \in DOMAIN e)
  <1>1. LookupVariable(n) = IF i0 = 0 THEN 0 ELSE lexical[i0][n]
    BY LookupLexical DEF LookupsLexical
  <1>2. i0 = IF J # {} THEN Max(J) ELSE 0
    BY DEF SelectLastInSeq
  <1>3. Len(lexical) = 1
    BY ScopesFacts
  <1>4. J \in SUBSET (1 .. 1) /\ (n \in DOMAIN lexical[1] <=> J # {})
    BY <1>3
  <1> HIDE DEF J, i0
  <1>5. CASE J # {}
    <2>1. Max(J) \in J
      BY <1>4, <1>5, LastPosition
    <2>2. Max(J) \in 1 .. 1
      BY <1>4, <2>1
    <2>3. Max(J) = 1
      BY <2>2
    <2> QED BY <1>1, <1>2, <1>4, <1>5, <2>3
  <1>6. CASE J = {}
    BY <1>1, <1>2, <1>4, <1>6
  <1> QED BY <1>5, <1>6

\* A lookup of a global variable that is declared finds its symbol, and one
\* of another name finds none.
LEMMA LookupDeclared ==
    ASSUME SymbolsInv, Len(scopes) = 1, NEW n \in Names
    PROVE  /\ n \in DOMAIN llvmGlobals <=> LookupVariable(n) # 0
           /\ n \in DOMAIN llvmGlobals => LookupVariable(n) = lexical[1][n]
  <1>1. LookupVariable(n) = IF n \in DOMAIN llvmGlobals THEN lexical[1][n] ELSE 0
    BY LookupGlobal DEF SymbolsInv, GlobalsInv
  <1>2. n \in DOMAIN llvmGlobals => lexical[1][n] \in 1 .. Len(symbol)
    BY DEF SymbolsInv, GlobalsInv, GlobalKnown
  <1> QED BY <1>1, <1>2

\* Steps that declare no global variable.
LEMMA GlobalsKept ==
    ASSUME GlobalsInv, lexical'[1] = lexical[1], UNCHANGED <<llvmGlobals, definitionsOf, typesOf, storagesOf>>,
           functionNames' \cap DOMAIN llvmGlobals = {}, symbol' \in Seq(SymbolType),
           \A s \in 1 .. Len(symbol) : s \in 1 .. Len(symbol') /\ symbol'[s] = symbol[s]
    PROVE  GlobalsInv'
  <1>1. ASSUME NEW n \in DOMAIN llvmGlobals PROVE GlobalKnown(n)'
    BY DEF GlobalsInv, GlobalKnown
  <1> QED BY <1>1 DEF GlobalsInv

\* The histories of a global variable that is declared once more.
LEMMA RecordedFacts ==
    ASSUME definitionsOf \in [Names -> 0 .. 2], typesOf \in [Names -> SUBSET (TypeNames \X Constness)],
           storagesOf \in [Names -> SUBSET Storage],
           NEW n \in Names, NEW type \in TypeNames, NEW const \in Constness, NEW storage \in Storage,
           Recorded(n, type, const, storage)
    PROVE  /\ definitionsOf' \in [Names -> 0 .. 2] /\ typesOf' \in [Names -> SUBSET (TypeNames \X Constness)]
           /\ storagesOf' \in [Names -> SUBSET Storage]
           /\ \A x \in Names : x # n => /\ definitionsOf'[x] = definitionsOf[x] /\ typesOf'[x] = typesOf[x]
                                       /\ storagesOf'[x] = storagesOf[x]
           /\ definitionsOf'[n] > 0 <=> definitionsOf[n] > 0 \/ storage # "extern"
           /\ storage # "extern" => (definitionsOf'[n] <= 1 <=> definitionsOf[n] = 0)
           /\ typesOf'[n] = typesOf[n] \cup {<<type, const>>}
           /\ storagesOf'[n] = storagesOf[n] \cup {storage}
  <1>1. definitionsOf' = [definitionsOf EXCEPT ![n] = IF storage = "extern" \/ definitionsOf[n] = 2
                                                       THEN definitionsOf[n] ELSE definitionsOf[n] + 1]
    BY DEF Recorded
  <1>2. /\ typesOf' = [typesOf EXCEPT ![n] = typesOf[n] \cup {<<type, const>>}]
        /\ storagesOf' = [storagesOf EXCEPT ![n] = storagesOf[n] \cup {storage}]
    BY DEF Recorded
  <1>3. definitionsOf[n] \in 0 .. 2
    OBVIOUS
  <1>4. /\ typesOf[n] \cup {<<type, const>>} \in SUBSET (TypeNames \X Constness)
        /\ storagesOf[n] \cup {storage} \in SUBSET Storage
    OBVIOUS
  <1>5. /\ definitionsOf' \in [Names -> 0 .. 2]
        /\ \A x \in Names : x # n => definitionsOf'[x] = definitionsOf[x]
        /\ definitionsOf'[n] > 0 <=> definitionsOf[n] > 0 \/ storage # "extern"
        /\ storage # "extern" => (definitionsOf'[n] <= 1 <=> definitionsOf[n] = 0)
    BY <1>1, <1>3
  <1>6. /\ typesOf' \in [Names -> SUBSET (TypeNames \X Constness)]
        /\ \A x \in Names : x # n => typesOf'[x] = typesOf[x]
        /\ typesOf'[n] = typesOf[n] \cup {<<type, const>>}
    BY <1>2, <1>4
  <1>7. /\ storagesOf' \in [Names -> SUBSET Storage]
        /\ \A x \in Names : x # n => storagesOf'[x] = storagesOf[x]
        /\ storagesOf'[n] = storagesOf[n] \cup {storage}
    BY <1>2, <1>4
  <1> QED BY <1>5, <1>6, <1>7

\* The initializer and the constant that a declaration gives.
LEMMA InitializerFacts ==
    ASSUME NEW storage \in Storage, NEW init \in Inits \cup {NoInit}
    PROVE  /\ Initializer(storage, init) \in Inits \cup {NoInit, ZeroInit}
           /\ Initializer(storage, init) # NoInit <=> storage # "extern"
           /\ \A const \in Constness : ConstValue(const, storage, init) # NoInit =>
                  storage # "extern" /\ ConstValue(const, storage, init) = Initializer(storage, init)
  <1>1. CASE storage = "extern"
    BY <1>1 DEF Initializer, ConstValue
  <1>2. CASE storage # "extern" /\ init = NoInit
    BY <1>2 DEF Initializer, ConstValue, NoInit, ZeroInit
  <1>3. CASE storage # "extern" /\ init # NoInit
    BY <1>3 DEF Initializer, ConstValue
  <1> QED BY <1>1, <1>2, <1>3

\* A global variable is declared for the first time.
LEMMA NewGlobalStep ==
    ASSUME SymbolsInv, Len(scopes) = 1, NEW n \in Names, NEW type \in TypeNames, NEW const \in Constness,
           NEW storage \in Storage, NEW init \in Inits \cup {NoInit}, n \notin functionNames,
           NewGlobal(n, type, const, storage, init)
    PROVE  SymbolsInv'
  <1> DEFINE s == [name |-> n, type |-> type, const |-> const, storage |-> storage,
                   value |-> ConstValue(const, storage, init)]
             gv == [init |-> Initializer(storage, init),
                    linkage |-> IF storage = "static" THEN "internal" ELSE "external"]
             e == Len(symbol) + 1
  <1>1. NewSymbol(s) /\ llvmGlobals' = Added(llvmGlobals, n, gv) /\ Recorded(n, type, const, storage)
        /\ functionNames' = functionNames
    BY DEF NewGlobal
  <1>2. n \notin DOMAIN llvmGlobals
    BY LookupDeclared DEF NewGlobal
  <1>3. s \in SymbolType /\ s.name = n /\ s.type = type /\ s.const = const /\ s.storage = storage
        /\ s.value = ConstValue(const, storage, init)
    BY DEF SymbolType, ConstValue
  <1>4. gv \in GlobalType /\ gv.init = Initializer(storage, init) /\ (gv.linkage = "internal" <=> storage = "static")
    BY InitializerFacts DEF GlobalType
  <1> HIDE DEF s, gv
  <1>5. symbol \in Seq(SymbolType) /\ Len(symbol) \in Nat
    BY DEF SymbolsInv, GlobalsInv
  <1>6. ScopesInv' /\ lexical'[1] = Added(lexical[1], n, e)
    BY <1>1, <1>3, <1>5, NewSymbolScopes DEF SymbolsInv
  <1>7. symbol' \in Seq(SymbolType) /\ Len(symbol') = e /\ symbol'[e] = s /\ \A x \in 1 .. Len(symbol) : symbol'[x] = symbol[x]
    BY <1>1, <1>3, <1>5 DEF NewSymbol
  <1>8. /\ DOMAIN lexical'[1] = DOMAIN llvmGlobals \cup {n} /\ lexical'[1][n] = e
        /\ \A x \in DOMAIN llvmGlobals : lexical'[1][x] = lexical[1][x]
    BY <1>2, <1>6 DEF SymbolsInv, GlobalsInv, Added
  <1>9. /\ DOMAIN llvmGlobals' = DOMAIN llvmGlobals \cup {n} /\ llvmGlobals'[n] = gv
        /\ \A x \in DOMAIN llvmGlobals : llvmGlobals'[x] = llvmGlobals[x]
    BY <1>1, <1>2 DEF Added
  <1>10. llvmGlobals' \in GlobalMaps
    <2>1. PICK S \in SUBSET Names : llvmGlobals \in [S -> GlobalType]
      BY DEF SymbolsInv, GlobalsInv, GlobalMaps
    <2>2. llvmGlobals' \in [S \cup {n} -> GlobalType]
      BY <1>1, <1>4, <2>1 DEF Added
    <2> QED BY <2>2 DEF GlobalMaps
  <1>11. definitionsOf[n] = 0 /\ typesOf[n] = {} /\ storagesOf[n] = {}
    BY <1>2 DEF SymbolsInv, GlobalsInv
  <1>12. /\ definitionsOf' \in [Names -> 0 .. 2] /\ typesOf' \in [Names -> SUBSET (TypeNames \X Constness)]
         /\ storagesOf' \in [Names -> SUBSET Storage]
         /\ \A x \in Names : x # n => /\ definitionsOf'[x] = definitionsOf[x] /\ typesOf'[x] = typesOf[x]
                                     /\ storagesOf'[x] = storagesOf[x]
         /\ definitionsOf'[n] > 0 <=> definitionsOf[n] > 0 \/ storage # "extern"
         /\ storage # "extern" => (definitionsOf'[n] <= 1 <=> definitionsOf[n] = 0)
         /\ typesOf'[n] = typesOf[n] \cup {<<type, const>>}
         /\ storagesOf'[n] = storagesOf[n] \cup {storage}
    BY <1>1, RecordedFacts DEF SymbolsInv, GlobalsInv
  <1>13. GlobalKnown(n)'
    <2>1. e \in 1 .. Len(symbol')
      BY <1>5, <1>7
    <2>2. /\ typesOf'[n] = {<<type, const>>} /\ storagesOf'[n] = {storage}
          /\ definitionsOf'[n] > 0 <=> storage # "extern"
      BY <1>11, <1>12
    <2>3. llvmGlobals'[n].init # NoInit <=> storage # "extern"
      BY <1>4, <1>9, InitializerFacts
    <2>4. storage # "extern" => definitionsOf'[n] = 1
      BY <1>11, <1>12
    <2>5. s.value # NoInit => s.value = llvmGlobals'[n].init
      BY <1>3, <1>4, <1>9, InitializerFacts
    <2> QED BY <1>3, <1>4, <1>7, <1>8, <1>9, <2>1, <2>2, <2>3, <2>4, <2>5 DEF GlobalKnown
  <1>14. ASSUME NEW x \in DOMAIN llvmGlobals PROVE GlobalKnown(x)'
    <2>1. x \in Names /\ x # n /\ GlobalKnown(x)
      BY <1>2 DEF SymbolsInv, GlobalsInv, GlobalMaps
    <2>2. lexical[1][x] \in 1 .. Len(symbol)
      BY <2>1 DEF GlobalKnown
    <2>3. lexical[1][x] \in 1 .. Len(symbol') /\ symbol'[lexical[1][x]] = symbol[lexical[1][x]]
      BY <1>5, <1>7, <2>2
    <2> QED BY <1>8, <1>9, <1>12, <2>1, <2>3 DEF GlobalKnown
  <1>15. GlobalsInv'
    BY <1>1, <1>7, <1>8, <1>9, <1>10, <1>12, <1>13, <1>14 DEF SymbolsInv, GlobalsInv
  <1> QED BY <1>6, <1>15 DEF SymbolsInv

\* A declaration of a global variable is in error.
LEMMA GlobalErrorStep ==
    ASSUME SymbolsInv, GlobalError
    PROVE  SymbolsInv'
  <1>1. UNCHANGED <<scopes, maps, freeMaps, symbol, llvmGlobals, functionNames, lexical,
                    definitionsOf, typesOf, storagesOf>>
    BY DEF GlobalError
  <1>2. GlobalsInv'
    BY <1>1, GlobalsKept DEF SymbolsInv, GlobalsInv
  <1> QED BY <1>1, <1>2 DEF SymbolsInv, ScopesInv, MapsApart

\* A global variable is declared again, which is an error unless it was extern
\* at first: its symbol keeps its type and storage class, and the LLVM variable
\* keeps the initializer that it has.
LEMMA RedeclareStep ==
    ASSUME SymbolsInv, Len(scopes) = 1, NEW n \in Names, NEW type \in TypeNames, NEW const \in Constness,
           NEW storage \in Storage, NEW init \in Inits \cup {NoInit},
           RedeclareGlobal(n, type, const, storage, init)
    PROVE  SymbolsInv'
  <1> DEFINE s == lexical[1][n]
             value == ConstValue(const, storage, init)
             first == llvmGlobals[n].init
             now == IF first = NoInit THEN Initializer(storage, init) ELSE first
  <1>1. n \in DOMAIN llvmGlobals /\ LookupVariable(n) = s
    BY LookupDeclared DEF RedeclareGlobal
  <1>2. CASE GlobalError
    BY <1>2, GlobalErrorStep
  <1>3. CASE ~GlobalError
    <2>1. /\ ~Conflicts(symbol[s], type, const, storage)
          /\ llvmGlobals' = [llvmGlobals EXCEPT ![n].init = now]
          /\ symbol' = [symbol EXCEPT ![s].value = value]
          /\ Recorded(n, type, const, storage)
          /\ UNCHANGED <<scopes, maps, freeMaps, functionNames, lexical>>
      BY <1>1, <1>3 DEF RedeclareGlobal
    <2>2. symbol \in Seq(SymbolType) /\ s \in 1 .. Len(symbol) /\ GlobalKnown(n)
      BY <1>1 DEF SymbolsInv, GlobalsInv, GlobalKnown
    <2>3. symbol[s] \in SymbolType
      BY <2>2
    <2>4. /\ symbol[s].type = type /\ symbol[s].const = const
          /\ symbol[s].storage = "extern"
      <3>1. symbol[s].type = type /\ symbol[s].const = const
        BY <2>1 DEF Conflicts
      <3>2. first # NoInit => symbol[s].storage = "extern"
        BY <1>1, <1>3, <2>1 DEF RedeclareGlobal
      <3>3. symbol[s].storage # "extern" => first # NoInit
        BY <2>2 DEF GlobalKnown
      <3> QED BY <3>1, <3>2, <3>3
    <2>5. value \in Inits \cup {NoInit}
      BY DEF ConstValue
    <2>6. [symbol[s] EXCEPT !.value = value] \in SymbolType
      BY <2>3, <2>5 DEF SymbolType
    <2>7. symbol' \in Seq(SymbolType) /\ Len(symbol') = Len(symbol)
      BY <2>1, <2>2, <2>6
    <2>8. ASSUME NEW x \in 1 .. Len(symbol)
          PROVE  /\ symbol'[x].type = symbol[x].type /\ symbol'[x].const = symbol[x].const
                 /\ symbol'[x].storage = symbol[x].storage /\ symbol'[x].name = symbol[x].name
                 /\ symbol'[x].value = IF x = s THEN value ELSE symbol[x].value
      <3>1. CASE x = s
        <4>1. symbol'[s] = [symbol[s] EXCEPT !.value = value]
          BY <2>1, <2>2
        <4> QED BY <2>3, <3>1, <4>1 DEF SymbolType
      <3>2. CASE x # s
        BY <2>1, <2>2, <3>2
      <3> QED BY <3>1, <3>2
    <2>9. PICK S \in SUBSET Names : llvmGlobals \in [S -> GlobalType]
      BY DEF SymbolsInv, GlobalsInv, GlobalMaps
    <2>10. n \in S /\ llvmGlobals[n] \in GlobalType /\ DOMAIN llvmGlobals = S
      BY <1>1, <2>9
    <2>11. now \in Inits \cup {NoInit, ZeroInit} /\ (now # NoInit <=> first # NoInit \/ storage # "extern")
      BY <2>10, InitializerFacts DEF GlobalType
    <2> HIDE DEF now, value
    <2>12. [llvmGlobals[n] EXCEPT !.init = now] \in GlobalType
      BY <2>10, <2>11 DEF GlobalType
    <2>13. llvmGlobals' \in [S -> GlobalType] /\ \A x \in S : x # n => llvmGlobals'[x] = llvmGlobals[x]
      BY <2>1, <2>9, <2>10, <2>12
    <2>14. llvmGlobals'[n] = [llvmGlobals[n] EXCEPT !.init = now]
      BY <2>1, <2>9, <2>10
    <2>15. llvmGlobals'[n].init = now /\ llvmGlobals'[n].linkage = llvmGlobals[n].linkage
      BY <2>10, <2>14 DEF GlobalType
    <2>16. llvmGlobals' \in GlobalMaps /\ DOMAIN llvmGlobals' = DOMAIN llvmGlobals
      BY <2>9, <2>13 DEF GlobalMaps
    <2>17. /\ definitionsOf' \in [Names -> 0 .. 2] /\ typesOf' \in [Names -> SUBSET (TypeNames \X Constness)]
           /\ storagesOf' \in [Names -> SUBSET Storage]
           /\ \A x \in Names : x # n => /\ definitionsOf'[x] = definitionsOf[x] /\ typesOf'[x] = typesOf[x]
                                       /\ storagesOf'[x] = storagesOf[x]
           /\ definitionsOf'[n] > 0 <=> definitionsOf[n] > 0 \/ storage # "extern"
           /\ storage # "extern" => (definitionsOf'[n] <= 1 <=> definitionsOf[n] = 0)
           /\ typesOf'[n] = typesOf[n] \cup {<<type, const>>}
           /\ storagesOf'[n] = storagesOf[n] \cup {storage}
      BY <2>1, RecordedFacts DEF SymbolsInv, GlobalsInv
    <2>18. GlobalKnown(n)'
      <3>1. typesOf'[n] = {<<symbol'[s].type, symbol'[s].const>>}
        BY <2>2, <2>4, <2>8, <2>17 DEF GlobalKnown
      <3>2. definitionsOf'[n] > 0 <=> llvmGlobals'[n].init # NoInit
        BY <2>2, <2>11, <2>15, <2>17 DEF GlobalKnown
      <3>3. /\ llvmGlobals'[n].linkage = "internal" <=> symbol'[s].storage = "static"
            /\ symbol'[s].storage \in storagesOf'[n] /\ symbol'[s].storage = "extern" /\ symbol'[s].name = n
        BY <2>2, <2>4, <2>8, <2>15, <2>17 DEF GlobalKnown
      <3>4. ASSUME definitionsOf'[n] <= 1, symbol'[s].value # NoInit
            PROVE  symbol'[s].value = llvmGlobals'[n].init
        <4>1. symbol'[s].value = value
          BY <2>2, <2>8
        <4>2. storage # "extern" /\ value = Initializer(storage, init)
          BY <3>4, <4>1, InitializerFacts DEF value
        <4>3. definitionsOf[n] = 0
          BY <2>17, <3>4, <4>2
        <4>4. first = NoInit
          BY <2>2, <4>3 DEF GlobalKnown
        <4> QED BY <2>15, <4>1, <4>2, <4>4 DEF now
      <3> QED BY <2>1, <2>2, <2>7, <3>1, <3>2, <3>3, <3>4 DEF GlobalKnown
    <2>19. ASSUME NEW x \in DOMAIN llvmGlobals, x # n PROVE GlobalKnown(x)'
      <3>1. x \in Names /\ GlobalKnown(x) /\ llvmGlobals'[x] = llvmGlobals[x]
        BY <2>10, <2>13, <2>19 DEF SymbolsInv, GlobalsInv
      <3>2. lexical'[1][x] = lexical[1][x] /\ lexical[1][x] \in 1 .. Len(symbol)
        BY <2>1, <3>1 DEF GlobalKnown
      <3>3. lexical[1][x] # s
        BY <2>2, <2>19, <3>1 DEF GlobalKnown
      <3>4. symbol'[lexical[1][x]].value = symbol[lexical[1][x]].value
        BY <2>8, <3>2, <3>3
      <3> QED BY <2>7, <2>8, <2>17, <2>19, <3>1, <3>2, <3>4 DEF GlobalKnown
    <2>20. GlobalsInv'
      BY <1>1, <2>1, <2>7, <2>16, <2>17, <2>18, <2>19 DEF SymbolsInv, GlobalsInv
    <2>21. ScopesInv'
      BY <2>1 DEF SymbolsInv, ScopesInv, MapsApart
    <2> QED BY <2>20, <2>21 DEF SymbolsInv
  <1> QED BY <1>2, <1>3

\* A local variable is declared, or declared twice.
LEMMA LocalStep ==
    ASSUME SymbolsInv, NEW n \in Names, AddLocal(n)
    PROVE  SymbolsInv'
  <1> DEFINE s == [name |-> n, type |-> "int", const |-> FALSE, storage |-> "none", value |-> NoInit]
  <1>1. /\ symbol \in Seq(SymbolType) /\ Len(symbol) \in Nat /\ Len(scopes) > 1 /\ Len(scopes) \in Nat
        /\ functionNames \cap DOMAIN llvmGlobals = {}
    BY ScopesFacts DEF SymbolsInv, GlobalsInv, AddLocal
  <1>2. UNCHANGED <<llvmGlobals, functionNames, definitionsOf, typesOf, storagesOf>>
    BY DEF AddLocal
  <1>3. CASE UNCHANGED <<scopes, maps, freeMaps, symbol, lexical>>
    BY <1>1, <1>2, <1>3, GlobalsKept DEF SymbolsInv, ScopesInv, MapsApart
  <1>4. CASE NewSymbol(s)
    <2>1. s \in SymbolType /\ s.name = n
      BY DEF SymbolType, TypeNames, Constness, Storage
    <2> HIDE DEF s
    <2>2. ScopesInv' /\ lexical'[1] = lexical[1]
      BY <1>1, <1>4, <2>1, NewSymbolScopes DEF SymbolsInv
    <2>3. symbol' \in Seq(SymbolType) /\ \A x \in 1 .. Len(symbol) : x \in 1 .. Len(symbol') /\ symbol'[x] = symbol[x]
      BY <1>1, <1>4, <2>1 DEF NewSymbol
    <2>4. GlobalsInv'
      BY <1>1, <1>2, <2>2, <2>3, GlobalsKept DEF SymbolsInv
    <2> QED BY <2>2, <2>4 DEF SymbolsInv
  <1> QED BY <1>3, <1>4 DEF AddLocal

\* A function gets a name that no global variable has.
LEMMA FunctionNameStep ==
    ASSUME SymbolsInv, NEW n \in Names, AddFunctionName(n)
    PROVE  SymbolsInv'
  <1>1. /\ UNCHANGED <<scopes, maps, freeMaps, symbol, llvmGlobals, lexical, definitionsOf, typesOf, storagesOf>>
        /\ Len(scopes) = 1
    BY DEF AddFunctionName
  <1>2. functionNames' = functionNames \/ (functionNames' = functionNames \cup {n} /\ LookupVariable(n) = 0)
    <2>1. CASE LookupVariable(n) = 0
      BY <2>1 DEF AddFunctionName
    <2>2. CASE LookupVariable(n) # 0
      BY <2>2 DEF AddFunctionName
    <2> QED BY <2>1, <2>2
  <1>3. functionNames' \cap DOMAIN llvmGlobals = {}
    BY <1>1, <1>2, LookupDeclared DEF SymbolsInv, GlobalsInv
  <1>4. GlobalsInv'
    BY <1>1, <1>3, GlobalsKept DEF SymbolsInv, GlobalsInv
  <1> QED BY <1>1, <1>4 DEF SymbolsInv, ScopesInv, MapsApart

\* The scopes change and the global variables stay.
LEMMA ScopeStep ==
    ASSUME SymbolsInv, PushScope \/ PopScope \/ PopInnerScopes
    PROVE  SymbolsInv'
  <1>1. ScopesInv' /\ lexical'[1] = lexical[1]
    BY PushScopes, PopScopes, PopInnerStep DEF SymbolsInv
  <1>2. UNCHANGED <<symbol, llvmGlobals, functionNames, definitionsOf, typesOf, storagesOf>>
    BY DEF PushScope, PopScope, PopInnerScopes
  <1>3. GlobalsInv'
    BY <1>1, <1>2, GlobalsKept DEF SymbolsInv, GlobalsInv
  <1> QED BY <1>1, <1>3 DEF SymbolsInv

\* The module starts with one empty scope.
LEMMA SymbolsStart == SymbolsInit => SymbolsInv
  <1> SUFFICES ASSUME SymbolsInit PROVE SymbolsInv
    OBVIOUS
  <1>1. /\ scopes = <<1>> /\ maps = <<Empty>> /\ freeMaps = <<>> /\ symbol = <<>> /\ llvmGlobals = Empty
        /\ functionNames = {} /\ lexical = <<Empty>>
        /\ definitionsOf = [n \in Names |-> 0] /\ typesOf = [n \in Names |-> {}]
        /\ storagesOf = [n \in Names |-> {}]
    BY DEF SymbolsInit
  <1>2. maps \in Seq(Maps) /\ lexical \in Seq(Maps) /\ Len(maps) = 1 /\ Len(lexical) = 1 /\ maps[1] = Empty /\ lexical[1] = Empty
    BY <1>1, EmptyMap
  <1>3. scopes \in Seq(1 .. 1) /\ freeMaps \in Seq(1 .. 1) /\ Len(scopes) = 1 /\ Len(freeMaps) = 0 /\ scopes[1] = 1
    BY <1>1
  <1>4. ScopesInv
    BY <1>2, <1>3 DEF ScopesInv, MapsApart
  <1>5. llvmGlobals \in GlobalMaps /\ DOMAIN llvmGlobals = {}
    <2>1. Empty \in [{} -> GlobalType]
      BY DEF Empty
    <2> QED BY <1>1, <2>1 DEF GlobalMaps
  <1>6. /\ definitionsOf \in [Names -> 0 .. 2] /\ typesOf \in [Names -> SUBSET (TypeNames \X Constness)]
        /\ storagesOf \in [Names -> SUBSET Storage]
    BY <1>1
  <1>7. symbol \in Seq(SymbolType)
    BY <1>1
  <1>8. GlobalsInv
    BY <1>1, <1>2, <1>5, <1>6, <1>7 DEF GlobalsInv
  <1> QED BY <1>4, <1>8 DEF SymbolsInv

\* Every step of the module keeps the invariant.
LEMMA SymbolsStep == SymbolsInv /\ [SymbolsNext]_symbolVars => SymbolsInv'
  <1> SUFFICES ASSUME SymbolsInv, [SymbolsNext]_symbolVars PROVE SymbolsInv'
    OBVIOUS
  <1>1. CASE UNCHANGED symbolVars
    BY <1>1 DEF SymbolsInv, ScopesInv, MapsApart, GlobalsInv, GlobalKnown, symbolVars
  <1>2. CASE PushScope \/ PopScope \/ PopInnerScopes
    BY <1>2, ScopeStep
  <1>3. CASE AddLocals
    BY <1>3, LocalStep DEF AddLocals
  <1>4. CASE AddFunctionNames
    BY <1>4, FunctionNameStep DEF AddFunctionNames
  <1>5. CASE AddGlobals
    <2>1. PICK n \in Names, t \in GlobalTypes, s \in Storage, i \in Inits \cup {NoInit} :
              AddGlobalVariable(n, t.name, t.const, s, i)
      BY <1>5 DEF AddGlobals
    <2>2. t.name \in TypeNames /\ t.const \in Constness
      BY DEF TypeNames, Constness
    <2>3. CASE GlobalError
      BY <2>3, GlobalErrorStep
    <2>4. CASE ~GlobalError
      <3>1. /\ Len(scopes) = 1 /\ n \notin functionNames
            /\ RedeclareGlobal(n, t.name, t.const, s, i) \/ NewGlobal(n, t.name, t.const, s, i)
        BY <2>1, <2>4 DEF AddGlobalVariable
      <3> QED BY <2>2, <3>1, RedeclareStep, NewGlobalStep
    <2> QED BY <2>3, <2>4
  <1> QED BY <1>1, <1>2, <1>3, <1>4, <1>5 DEF SymbolsNext

\* In every module, whatever scopes the parser opens and closes or gives up
\* after an error, a name means what the innermost scope that declares it
\* says, although PushScope uses the maps of closed scopes again.  And the
\* declarations that AddGlobalVariable accepts agree with each other and with
\* the LLVM variable in type, in whether it is defined, and in linkage, which
\* is internal exactly if all are static; if the first is not extern, there is
\* one definition and one storage class; a constant that was defined once is
\* the initializer.  After a first extern declaration static ones and further
\* definitions are accepted: then only the type, being defined and external
\* linkage are common to all.
THEOREM NamesAreConsistent == SymbolsSpec => []NamesConsistent
  <1>1. ASSUME SymbolsInv PROVE NamesConsistent
    <2>1. LookupsLexical
      BY <1>1, LookupLexical DEF SymbolsInv
    <2>2. ASSUME NEW n \in DOMAIN llvmGlobals
          PROVE  LET s == symbol[lexical[1][n]]
                     gv == llvmGlobals[n]
                 IN /\ typesOf[n] = {<<s.type, s.const>>}
                    /\ definitionsOf[n] > 0 <=> gv.init # NoInit
                    /\ gv.linkage = "internal" <=> storagesOf[n] = {"static"}
                    /\ s.storage # "extern" => storagesOf[n] = {s.storage} /\ definitionsOf[n] = 1
                    /\ definitionsOf[n] <= 1 /\ s.value # NoInit => s.value = gv.init
      BY <1>1 DEF SymbolsInv, GlobalsInv, GlobalKnown
    <2> QED BY <1>1, <2>1, <2>2 DEF SymbolsInv, GlobalsInv, NamesConsistent, GlobalsConsistent
  <1> QED BY SymbolsStart, SymbolsStep, <1>1, PTL DEF SymbolsSpec

-----------------------------------------------------------------------------
(***************************************************************************)
(* Dispatch functions.  The caches are written without a lock.  A call     *)
(* runs the right variant all the same, because every thread that writes a *)
(* cache writes the same value, which depends only on the machine and on   *)
(* the variants there are.                                                 *)
(***************************************************************************)

SystemIsa == __get_system_isa(mach)
Supported == get_x86_isa(mach) \notin {ISA.INVALID, ISA.KNL_AVX512}
Best(f) == Max(Runnable(f))
CallerType == [pc : {"idle", "do_init", "detect", "choose", "skip_init", "variant", "terminated"},
               fn : Exports \cup {Idle.fn},
               isa : {NullPtr, NotCached, SystemIsa} \cup {Best(f) : f \in Exports}]

\* The cached address is that of the variant to run.
CachedRight(f) == Runnable(f) # {} /\ funcPtrCache[f] = Best(f)

\* What is known of a thread by where it is.
CallerOK(r) ==
    /\ r.pc # "idle" => r.fn \in Exports
    /\ r.pc = "choose" => Supported /\ r.isa = SystemIsa
    /\ r.pc = "skip_init" => CachedRight(r.fn)
    /\ r.pc = "variant" => Runnable(r.fn) # {} /\ r.isa = Best(r.fn)
    /\ r.pc = "terminated" => Runnable(r.fn) = {} \/ "pf_er" \in CpuidBits(mach)

CachesInv ==
    /\ systemBestIsa = NotCached \/ (Supported /\ systemBestIsa = SystemIsa)
    /\ funcPtrCache \in [Exports -> {NullPtr} \cup {Best(f) : f \in Exports}]
    /\ \A f \in Exports : funcPtrCache[f] = NullPtr \/ CachedRight(f)

DispatchInv ==
    /\ mach \in DispatchMachines /\ targetFuncs \in [Exports -> DispatchSets]
    /\ caller \in [Threads -> CallerType]
    /\ CachesInv
    /\ \A t \in Threads : CallerOK(caller[t])

-----------------------------------------------------------------------------

\* The candidates that pass the test are the variants that can run.
LEMMA TestedIsRunnable ==
    ASSUME TestsExact, DispatchInv, Supported, NEW f \in Exports
    PROVE  {isa \in targetFuncs[f] : lEmitISACompatibilityTest(isa, SystemIsa, get_x86_cpu_has_amx(mach))} = Runnable(f)
  <1>1. ASSUME NEW isa \in targetFuncs[f]
        PROVE  lEmitISACompatibilityTest(isa, SystemIsa, get_x86_cpu_has_amx(mach)) <=> CanRun(mach, VariantCpu(isa), UsesApx)
    <2>1. mach \in DispatchMachines /\ isa \in UNION DispatchSets
      BY DEF DispatchInv
    <2>2. get_x86_isa(mach) # ISA.KNL_AVX512 /\ get_x86_isa(mach) # ISA.INVALID
      BY DEF Supported
    <2> QED BY <2>1, <2>2 DEF TestsExact, SystemIsa
  <1> QED BY <1>1 DEF Runnable

\* Where the dispatch code gives up before it looks at the candidates.
LEMMA UnsupportedMachine ==
    ASSUME TestsExact, DispatchInv, ~Supported, NEW f \in Exports
    PROVE  Runnable(f) = {} \/ "pf_er" \in CpuidBits(mach)
  <1>1. ASSUME NEW isa \in Runnable(f) PROVE "pf_er" \in CpuidBits(mach)
    <2>1. mach \in DispatchMachines /\ isa \in UNION DispatchSets /\ CanRun(mach, VariantCpu(isa), UsesApx)
      BY DEF DispatchInv, Runnable
    <2>2. ISA.KNL_AVX512 # ISA.INVALID
      BY DEF ISA
    <2>3. CASE get_x86_isa(mach) = ISA.KNL_AVX512
      BY <2>1, <2>2, <2>3 DEF TestsExact
    <2>4. CASE get_x86_isa(mach) = ISA.INVALID
      BY <2>1, <2>2, <2>4 DEF TestsExact
    <2> QED BY <2>3, <2>4 DEF Supported
  <1> QED BY <1>1

\* What depends on the machine and the variants only.
LEMMA MachineStays ==
    ASSUME UNCHANGED <<mach, targetFuncs>>
    PROVE  /\ SystemIsa' = SystemIsa /\ Supported' = Supported /\ CallerType' = CallerType
           /\ \A f : Runnable(f)' = Runnable(f) /\ Best(f)' = Best(f)
           /\ CpuidBits(mach)' = CpuidBits(mach)
  <1>1. \A f : Runnable(f)' = Runnable(f)
    BY DEF Runnable
  <1>2. \A f : Best(f)' = Best(f)
    BY <1>1 DEF Best
  <1>3. SystemIsa' = SystemIsa /\ Supported' = Supported /\ CpuidBits(mach)' = CpuidBits(mach)
    BY DEF SystemIsa, Supported
  <1>4. CallerType' = CallerType
    BY <1>2, <1>3 DEF CallerType, Idle
  <1> QED BY <1>1, <1>2, <1>3, <1>4

\* One thread moves, and caches that are right stay right.
LEMMA CallerMoves ==
    ASSUME DispatchInv, UNCHANGED <<mach, targetFuncs>>, NEW t \in Threads, NEW r \in CallerType,
           caller' = [caller EXCEPT ![t] = r], CachesInv', CallerOK(r)',
           \A f \in Exports : CachedRight(f) => CachedRight(f)'
    PROVE  DispatchInv'
  <1>1. caller' \in [Threads -> CallerType']
    BY MachineStays DEF DispatchInv
  <1>2. ASSUME NEW u \in Threads PROVE CallerOK(caller[u])'
    <2>1. CASE u = t
      <3>1. caller'[t] = r
        BY DEF DispatchInv
      <3> QED BY <2>1, <3>1 DEF CallerOK
    <2>2. CASE u # t
      <3>1. caller'[u] = caller[u] /\ CallerOK(caller[u])
        BY <2>2 DEF DispatchInv
      <3> QED BY <3>1, MachineStays DEF CallerOK
    <2> QED BY <2>1, <2>2
  <1> QED BY <1>1, <1>2 DEF DispatchInv

\* The caches are not written.
LEMMA CachesStay ==
    ASSUME DispatchInv, UNCHANGED <<mach, targetFuncs, systemBestIsa, funcPtrCache>>
    PROVE  CachesInv' /\ \A f \in Exports : CachedRight(f)' = CachedRight(f)
  <1>1. \A f \in Exports : CachedRight(f)' = CachedRight(f)
    BY MachineStays DEF CachedRight
  <1> QED BY <1>1, MachineStays DEF DispatchInv, CachesInv

\* A thread is a record of these fields.
LEMMA CallerFields ==
    ASSUME DispatchInv, NEW t \in Threads
    PROVE  /\ caller[t] \in CallerType /\ CallerOK(caller[t])
           /\ \A pc : [caller EXCEPT ![t].pc = pc] = [caller EXCEPT ![t] = [pc |-> pc, fn |-> caller[t].fn, isa |-> caller[t].isa]]
  <1>1. caller[t] \in CallerType /\ CallerOK(caller[t])
    BY DEF DispatchInv
  <1>2. \A pc : [caller[t] EXCEPT !.pc = pc] = [pc |-> pc, fn |-> caller[t].fn, isa |-> caller[t].isa]
    BY <1>1 DEF CallerType
  <1> QED BY <1>1, <1>2 DEF DispatchInv

\* Calls, and the cached ISA.
LEMMA CallStep ==
    ASSUME DispatchInv, NEW t \in Threads, NEW f \in Exports, CallExport(t, f)
    PROVE  DispatchInv'
  <1>r. PICK r : r = [pc |-> IF funcPtrCache[f] # NullPtr THEN "skip_init" ELSE "do_init", fn |-> f, isa |-> NullPtr]
    OBVIOUS
  <1>1. caller' = [caller EXCEPT ![t] = r] /\ UNCHANGED <<mach, targetFuncs, systemBestIsa, funcPtrCache>>
    BY <1>r DEF CallExport
  <1>2. r \in CallerType
    BY <1>r DEF CallerType
  <1>3. CachesInv' /\ \A x \in Exports : CachedRight(x)' = CachedRight(x)
    BY <1>1, CachesStay
  <1>4. CallerOK(r)'
    <2>1. funcPtrCache[f] # NullPtr => CachedRight(f)'
      BY <1>3 DEF DispatchInv, CachesInv
    <2> QED BY <1>r, <2>1 DEF CallerOK
  <1> QED BY <1>1, <1>2, <1>3, <1>4, CallerMoves

LEMMA LoadStep ==
    ASSUME DispatchInv, NEW t \in Threads, LoadBestIsa(t)
    PROVE  DispatchInv'
  <1>r. PICK r : r = [pc |-> IF systemBestIsa = NotCached THEN "detect" ELSE "choose", fn |-> caller[t].fn, isa |-> systemBestIsa]
    OBVIOUS
  <1>1. caller' = [caller EXCEPT ![t] = r] /\ UNCHANGED <<mach, targetFuncs, systemBestIsa, funcPtrCache>>
    BY <1>r DEF LoadBestIsa, GotoWith
  <1>2. caller[t] \in CallerType /\ caller[t].fn \in Exports
    BY CallerFields DEF LoadBestIsa, At, CallerOK
  <1>3. systemBestIsa = NotCached \/ (Supported /\ systemBestIsa = SystemIsa)
    BY DEF DispatchInv, CachesInv
  <1>4. r \in CallerType
    BY <1>r, <1>2, <1>3 DEF CallerType
  <1>5. CachesInv' /\ \A x \in Exports : CachedRight(x)' = CachedRight(x)
    BY <1>1, CachesStay
  <1>6. CallerOK(r)'
    BY <1>r, <1>1, <1>2, <1>3, MachineStays DEF CallerOK
  <1> QED BY <1>1, <1>4, <1>5, <1>6, CallerMoves

\* The machine is asked for its ISA, by any number of threads at a time.
LEMMA DetectStep ==
    ASSUME TestsExact, DispatchInv, NEW t \in Threads, DetectIsa(t)
    PROVE  DispatchInv'
  <1>0. caller[t] \in CallerType /\ caller[t].fn \in Exports /\ UNCHANGED <<mach, targetFuncs, funcPtrCache>>
    BY CallerFields DEF DetectIsa, At, CallerOK
  <1>1. CASE ~Supported
    <2>r. PICK r : r = [pc |-> "terminated", fn |-> caller[t].fn, isa |-> caller[t].isa]
      OBVIOUS
    <2>1. caller' = [caller EXCEPT ![t] = r] /\ UNCHANGED systemBestIsa
      BY <2>r, <1>1, CallerFields DEF DetectIsa, Supported, __terminate_now, Goto
    <2>2. r \in CallerType
      BY <2>r, <1>0 DEF CallerType
    <2>3. CachesInv' /\ \A x \in Exports : CachedRight(x)' = CachedRight(x)
      BY <1>0, <2>1, CachesStay
    <2>4. CallerOK(r)'
      BY <2>r, <1>0, <1>1, UnsupportedMachine, MachineStays DEF CallerOK
    <2> QED BY <1>0, <2>1, <2>2, <2>3, <2>4, CallerMoves
  <1>2. CASE Supported
    <2>r. PICK r : r = [pc |-> "choose", fn |-> caller[t].fn, isa |-> SystemIsa]
      OBVIOUS
    <2>1. caller' = [caller EXCEPT ![t] = r] /\ systemBestIsa' = SystemIsa
      BY <2>r, <1>2 DEF DetectIsa, Supported, SystemIsa, GotoWith
    <2>2. r \in CallerType
      BY <2>r, <1>0 DEF CallerType
    <2>3. \A x \in Exports : CachedRight(x)' = CachedRight(x)
      BY <1>0, MachineStays DEF CachedRight
    <2>4. CachesInv'
      BY <1>0, <1>2, <2>1, <2>3, MachineStays DEF DispatchInv, CachesInv
    <2>5. CallerOK(r)'
      BY <2>r, <1>0, <1>2, MachineStays DEF CallerOK
    <2> QED BY <1>0, <2>1, <2>2, <2>3, <2>4, <2>5, CallerMoves
  <1> QED BY <1>1, <1>2

\* A variant is stored, which may be stored already.
LEMMA ChooseStep ==
    ASSUME TestsExact, DispatchInv, NEW t \in Threads, ChooseVariant(t)
    PROVE  DispatchInv'
  <1>f. PICK f : f = caller[t].fn
    OBVIOUS
  <1> DEFINE ok == {isa \in targetFuncs[f] : lEmitISACompatibilityTest(isa, caller[t].isa, get_x86_cpu_has_amx(mach))}
  <1>0. /\ caller[t] \in CallerType /\ f \in Exports /\ Supported /\ caller[t].isa = SystemIsa
        /\ UNCHANGED <<mach, targetFuncs, systemBestIsa>>
    BY <1>f, CallerFields DEF ChooseVariant, At, CallerOK
  <1>1. ok = Runnable(f)
    BY <1>f, <1>0, TestedIsRunnable
  <1>2. \/ ok = {} /\ __terminate_now(t) /\ UNCHANGED funcPtrCache
        \/ ok # {} /\ funcPtrCache' = [funcPtrCache EXCEPT ![f] = FirstCandidate(ok)] /\ Goto(t, "skip_init")
    BY <1>f DEF ChooseVariant
  <1> HIDE DEF ok
  <1>3. CASE Runnable(f) = {}
    <2>r. PICK r : r = [pc |-> "terminated", fn |-> f, isa |-> caller[t].isa]
      OBVIOUS
    <2>1. caller' = [caller EXCEPT ![t] = r] /\ UNCHANGED funcPtrCache
      BY <2>r, <1>f, <1>1, <1>2, <1>3, CallerFields DEF __terminate_now, Goto
    <2>2. r \in CallerType
      BY <2>r, <1>0 DEF CallerType
    <2>3. CachesInv' /\ \A x \in Exports : CachedRight(x)' = CachedRight(x)
      BY <1>0, <2>1, CachesStay
    <2>4. CallerOK(r)'
      BY <2>r, <1>0, <1>3, MachineStays DEF CallerOK
    <2> QED BY <1>0, <2>1, <2>2, <2>3, <2>4, CallerMoves
  <1>4. CASE Runnable(f) # {}
    <2>r. PICK r : r = [pc |-> "skip_init", fn |-> f, isa |-> caller[t].isa]
      OBVIOUS
    <2>1. caller' = [caller EXCEPT ![t] = r] /\ funcPtrCache' = [funcPtrCache EXCEPT ![f] = Best(f)]
      BY <2>r, <1>f, <1>1, <1>2, <1>4, CallerFields DEF Goto, FirstCandidate, Best
    <2>2. r \in CallerType
      BY <2>r, <1>0 DEF CallerType
    <2>3. /\ funcPtrCache \in [Exports -> {NullPtr} \cup {Best(x) : x \in Exports}]
          /\ \A x \in Exports : funcPtrCache[x] = NullPtr \/ CachedRight(x)
      BY DEF DispatchInv, CachesInv
    <2>4. /\ funcPtrCache' \in [Exports -> {NullPtr} \cup {Best(x) : x \in Exports}]
          /\ funcPtrCache'[f] = Best(f) /\ \A x \in Exports : x # f => funcPtrCache'[x] = funcPtrCache[x]
      BY <1>0, <2>1, <2>3
    <2>5. CachedRight(f)'
      BY <1>0, <1>4, <2>4, MachineStays DEF CachedRight
    <2>6. \A x \in Exports : x # f => CachedRight(x)' = CachedRight(x)
      BY <1>0, <2>4, MachineStays DEF CachedRight
    <2>7. CachesInv'
      <3>1. systemBestIsa' = NotCached \/ (Supported' /\ systemBestIsa' = SystemIsa')
        BY <1>0, MachineStays DEF DispatchInv, CachesInv
      <3>2. funcPtrCache' \in [Exports -> {NullPtr} \cup {Best(x)' : x \in Exports}]
        BY <1>0, <2>4, MachineStays
      <3>3. \A x \in Exports : funcPtrCache'[x] = NullPtr \/ CachedRight(x)'
        BY <2>3, <2>4, <2>5, <2>6
      <3> QED BY <3>1, <3>2, <3>3 DEF CachesInv
    <2>8. CallerOK(r)'
      BY <2>r, <1>0, <2>5 DEF CallerOK
    <2>9. \A x \in Exports : CachedRight(x) => CachedRight(x)'
      BY <2>5, <2>6
    <2> QED BY <1>0, <2>1, <2>2, <2>7, <2>8, <2>9, CallerMoves
  <1> QED BY <1>3, <1>4

\* The variant is called, and returns.
LEMMA VariantStep ==
    ASSUME DispatchInv, NEW t \in Threads, CallVariant(t) \/ Return(t)
    PROVE  DispatchInv'
  <1>0. caller[t] \in CallerType /\ CallerOK(caller[t]) /\ UNCHANGED <<mach, targetFuncs, systemBestIsa, funcPtrCache>>
    BY CallerFields DEF CallVariant, Return
  <1>1. CachesInv' /\ \A x \in Exports : CachedRight(x)' = CachedRight(x)
    BY <1>0, CachesStay
  <1>2. CASE CallVariant(t)
    <2>f. PICK f : f = caller[t].fn
      OBVIOUS
    <2>r. PICK r : r = [pc |-> "variant", fn |-> f, isa |-> funcPtrCache[f]]
      OBVIOUS
    <2>1. caller' = [caller EXCEPT ![t] = r]
      BY <2>r, <2>f, <1>2 DEF CallVariant, GotoWith
    <2>2. f \in Exports /\ CachedRight(f)
      BY <2>f, <1>0, <1>2 DEF CallVariant, At, CallerOK
    <2>3. r \in CallerType
      BY <2>r, <1>0, <2>2 DEF CallerType, CachedRight
    <2>4. CallerOK(r)'
      BY <2>r, <1>0, <2>2, MachineStays DEF CallerOK, CachedRight
    <2> QED BY <1>0, <1>1, <2>1, <2>3, <2>4, CallerMoves
  <1>3. CASE Return(t)
    <2>1. caller' = [caller EXCEPT ![t] = Idle]
      BY <1>3 DEF Return
    <2>2. Idle \in CallerType
      BY DEF CallerType, Idle
    <2>3. CallerOK(Idle)'
      BY DEF CallerOK, Idle
    <2> QED BY <1>0, <1>1, <2>1, <2>2, <2>3, CallerMoves
  <1> QED BY <1>2, <1>3

\* No cache is filled when the application starts.
LEMMA DispatchStart == DispatchInit => DispatchInv
  <1> SUFFICES ASSUME DispatchInit PROVE DispatchInv
    OBVIOUS
  <1>1. mach \in DispatchMachines /\ targetFuncs \in [Exports -> DispatchSets]
    BY DEF DispatchInit
  <1>2. CachesInv
    BY DEF DispatchInit, CachesInv
  <1>3. Idle \in CallerType /\ CallerOK(Idle)
    BY DEF CallerType, CallerOK, Idle
  <1>4. caller = [t \in Threads |-> Idle]
    BY DEF DispatchInit
  <1> QED BY <1>1, <1>2, <1>3, <1>4 DEF DispatchInv

\* Every step keeps the invariant.
LEMMA DispatchStep == TestsExact /\ DispatchInv /\ [DispatchNext]_dispatchVars => DispatchInv'
  <1> SUFFICES ASSUME TestsExact, DispatchInv, [DispatchNext]_dispatchVars PROVE DispatchInv'
    OBVIOUS
  <1>1. CASE UNCHANGED dispatchVars
    <2>1. UNCHANGED <<mach, targetFuncs, systemBestIsa, funcPtrCache>> /\ caller' = caller
      BY <1>1 DEF dispatchVars
    <2>2. CachesInv' /\ \A x \in Exports : CachedRight(x)' = CachedRight(x)
      BY <2>1, CachesStay
    <2>3. ASSUME NEW t \in Threads PROVE CallerOK(caller[t])'
      BY <2>1, <2>2, MachineStays DEF DispatchInv, CallerOK
    <2>4. caller' \in [Threads -> CallerType']
      BY <2>1, MachineStays DEF DispatchInv
    <2> QED BY <2>1, <2>2, <2>3, <2>4 DEF DispatchInv
  <1>2. CASE DispatchNext
    <2>1. PICK t \in Threads : \/ \E f \in Exports : CallExport(t, f)
                               \/ LoadBestIsa(t) \/ DetectIsa(t) \/ ChooseVariant(t) \/ CallVariant(t) \/ Return(t)
      BY <1>2 DEF DispatchNext
    <2> QED BY <2>1, CallStep, LoadStep, DetectStep, ChooseStep, VariantStep
  <1> QED BY <1>1, <1>2

\* With dispatch tests that are exact for the machines and the variants, which
\* TLC evaluates for all the machines of isa.h, a call of an exported function
\* runs the most capable variant that the machine can run, for any number of
\* threads and functions, although lCreateDispatchFunction's code and
\* __get_system_best_isa fill their caches without a lock.
THEOREM BestVariantRuns ==
    ASSUME TestsExact
    PROVE  DispatchSpec => []VariantRuns
  <1>1. DispatchInv => VariantRuns
    BY DEF DispatchInv, CallerOK, VariantRuns, At, Best
  <1>2. DispatchInv /\ [DispatchNext]_dispatchVars => DispatchInv'
    BY DispatchStep
  <1> QED BY DispatchStart, <1>1, <1>2, PTL DEF DispatchSpec

-----------------------------------------------------------------------------
(***************************************************************************)
(* Function templates.  Every symbol is that of an instantiation, and an   *)
(* instantiation of a definition has the code of that definition or a      *)
(* specialization's.  So two symbols with the same arguments, one of them  *)
(* specialized, give one LLVM function two bodies, which is an error.      *)
(***************************************************************************)

Bodies == ({"none", "primary"} \X Nat) \cup ({"special"} \X Nat)
TemplateSymbolType == [args : TemplateArgs, unmasked : BOOLEAN, body : Bodies]
InstantiationType == [args : TemplateArgs, symbol : Nat, kind : {"implicit", "explicit", "specialization"}]
UseType == [args : TemplateArgs, symbol : Nat, definition : Nat]

TemplateTypes ==
    /\ primary \in [storage : {"none", "static"}, unmasked : BOOLEAN, declared : BOOLEAN]
    /\ definitions \in Seq(Seq(InstantiationType))
    /\ symbols \in Seq(TemplateSymbolType)
    /\ uses \in SUBSET UseType
    /\ reported \in BOOLEAN /\ ops \in Nat

\* The i-th instantiation of the d-th definition has a symbol for its arguments,
\* of the template's masking, and a body of this definition or a specialization.
InstantiationsFit ==
    \A d \in DOMAIN definitions : \A n \in DOMAIN definitions[d] :
        LET inst == definitions[d][n]
            s == symbols[inst.symbol]
        IN /\ inst.symbol \in DOMAIN symbols
           /\ s.args = inst.args
           /\ s.body[1] = "primary" => s.body = PrimaryBody(d)

\* Every symbol is that of an instantiation, and has the template's masking.
SymbolsUsed ==
    \A s \in DOMAIN symbols :
        /\ symbols[s].unmasked = primary.unmasked
        /\ \E p \in Instantiations : definitions[p[1]][p[2]].symbol = s

\* A call's symbol is that of an instantiation of the definition that it saw.
UsesFit ==
    \A u \in uses :
        /\ u.definition \in DOMAIN definitions /\ u.symbol \in DOMAIN symbols
        /\ symbols[u.symbol].args = u.args
        /\ \E n \in DOMAIN definitions[u.definition] : definitions[u.definition][n].symbol = u.symbol

\* A template has definitions and instantiations only once it is declared.
DeclaredFirst == ~primary.declared => definitions = <<>> /\ symbols = <<>> /\ uses = {}

\* The inductive invariant of function templates.
TemplateInv ==
    /\ TemplateTypes /\ InstantiationsFit /\ SymbolsUsed /\ UsesFit /\ DeclaredFirst
    /\ CallsRunTheirCode

\* A nonempty set of numbers has a least element.
LEMMA LeastNumber ==
    ASSUME NEW S \in SUBSET Nat, S # {}
    PROVE  Min(S) \in S /\ \A y \in S : Min(S) <= y
  <1> DEFINE R == OpToRel(<, Nat)
  <1>1. \A x, y \in Nat : x < y => <<x, y>> \in R
    BY DEF OpToRel
  <1>2. IsWellFoundedOn(R, Nat)
    BY NatLessThanWellFounded, Zenon
  <1> HIDE DEF R
  <1>3. PICK k \in S : \A y \in S : ~(<<y, k>> \in R)
    BY <1>2, WFMin
  <1>4. \A y \in S : ~(y < k)
    BY <1>1, <1>3
  <1>5. \A y \in S : k <= y
    BY <1>4
  <1> QED BY <1>5 DEF Min

\* What LookupInstantiation finds is an instantiation for the arguments.
LEMMA LookupFacts ==
    ASSUME TemplateTypes, definitions # <<>>, NEW args, LookupInstantiation(args) # 0
    PROVE  /\ LookupInstantiation(args) \in DOMAIN FunctionTemplate
           /\ FunctionTemplate[LookupInstantiation(args)].args = args
  <1> DEFINE I == {n \in 1 .. Len(FunctionTemplate) : FunctionTemplate[n].args = args}
  <1>1. LookupInstantiation(args) = IF I # {} THEN Min(I) ELSE 0
    BY DEF LookupInstantiation, SelectInSeq
  <1>2. CurrentDefinition \in DOMAIN definitions
    BY DEF TemplateTypes, CurrentDefinition
  <1>3. FunctionTemplate \in Seq(InstantiationType)
    BY <1>2 DEF TemplateTypes, FunctionTemplate
  <1>4. I \in SUBSET Nat
    BY <1>3
  <1>5. Min(I) \in I
    BY <1>1, <1>4, LeastNumber
  <1> QED BY <1>1, <1>3, <1>5

\* In the initial state there is no template.
LEMMA TemplateStart == TemplateInit => TemplateInv
  <1> SUFFICES ASSUME TemplateInit PROVE TemplateInv
    OBVIOUS
  <1>1. TemplateTypes
    <2>1. <<>> \in Seq(Seq(InstantiationType)) /\ <<>> \in Seq(TemplateSymbolType)
      OBVIOUS
    <2>2. NoTemplate \in [storage : {"none", "static"}, unmasked : BOOLEAN, declared : BOOLEAN]
      BY DEF NoTemplate
    <2> QED BY <2>1, <2>2 DEF TemplateInit, TemplateTypes
  <1>2. InstantiationsFit /\ SymbolsUsed /\ UsesFit /\ DeclaredFirst /\ CallsRunTheirCode
    BY DEF TemplateInit, InstantiationsFit, SymbolsUsed, UsesFit, DeclaredFirst, CallsRunTheirCode, NoTemplate
  <1> QED BY <1>1, <1>2 DEF TemplateInv

\* A new symbol and its instantiation, with a body of the current definition or a
\* specialization's.
LEMMA InstantiateKeeps ==
    ASSUME TemplateInv, definitions # <<>>, NEW args \in TemplateArgs,
           NEW kind \in {"implicit", "explicit", "specialization"}, NEW b \in Bodies,
           b[1] = "primary" => b = PrimaryBody(CurrentDefinition),
           Instantiate(args, kind, b), primary' = primary
    PROVE  /\ definitions' \in Seq(Seq(InstantiationType)) /\ symbols' \in Seq(TemplateSymbolType)
           /\ InstantiationsFit' /\ SymbolsUsed'
           /\ DOMAIN definitions' = DOMAIN definitions
           /\ \A d \in DOMAIN definitions : \A n \in DOMAIN definitions[d] :
                n \in DOMAIN definitions'[d] /\ definitions'[d][n] = definitions[d][n]
           /\ \A s \in DOMAIN symbols : s \in DOMAIN symbols' /\ symbols'[s] = symbols[s]
           /\ CurrentDefinition \in DOMAIN definitions
           /\ Len(symbols) + 1 \in DOMAIN symbols' /\ symbols'[Len(symbols) + 1].args = args
           /\ \E n \in DOMAIN definitions'[CurrentDefinition] :
                definitions'[CurrentDefinition][n].symbol = Len(symbols) + 1
  <1> DEFINE c == CurrentDefinition
             new == Len(symbols) + 1
             inst == [args |-> args, symbol |-> new, kind |-> kind]
             s0 == [args |-> args, unmasked |-> primary.unmasked, body |-> b]
             last == Len(definitions[c]) + 1
  <1>1. /\ definitions \in Seq(Seq(InstantiationType)) /\ symbols \in Seq(TemplateSymbolType)
        /\ primary.unmasked \in BOOLEAN
    BY DEF TemplateInv, TemplateTypes
  <1>2. c \in DOMAIN definitions /\ c \in Nat
    BY <1>1 DEF CurrentDefinition
  <1>3. inst \in InstantiationType /\ s0 \in TemplateSymbolType
    BY <1>1 DEF InstantiationType, TemplateSymbolType
  <1>4. symbols' = Append(symbols, s0) /\ definitions' = [definitions EXCEPT ![c] = Append(definitions[c], inst)]
    BY DEF Instantiate
  <1> HIDE DEF c, inst, s0
  <1>5. /\ symbols' \in Seq(TemplateSymbolType) /\ DOMAIN symbols' = 1 .. new
        /\ \A s \in DOMAIN symbols : s \in DOMAIN symbols' /\ s # new /\ symbols'[s] = symbols[s]
        /\ new \in DOMAIN symbols' /\ symbols'[new] = s0
        /\ \A s \in DOMAIN symbols' : s \in DOMAIN symbols \/ s = new
    BY <1>1, <1>3, <1>4
  <1>6. definitions[c] \in Seq(InstantiationType)
    BY <1>1, <1>2
  <1>7. Append(definitions[c], inst) \in Seq(InstantiationType)
    BY <1>3, <1>6
  <1>8. definitions' \in Seq(Seq(InstantiationType)) /\ DOMAIN definitions' = DOMAIN definitions
    BY <1>1, <1>2, <1>4, <1>7
  <1>9. /\ definitions'[c] = Append(definitions[c], inst)
        /\ \A d \in DOMAIN definitions : d # c => definitions'[d] = definitions[d]
    BY <1>1, <1>2, <1>4
  <1>10. /\ \A n \in DOMAIN definitions[c] : n \in DOMAIN definitions'[c] /\ definitions'[c][n] = definitions[c][n]
         /\ last \in DOMAIN definitions'[c] /\ definitions'[c][last] = inst
         /\ \A n \in DOMAIN definitions'[c] : n \in DOMAIN definitions[c] \/ n = last
    BY <1>6, <1>9, <1>3
  <1>11. \A d \in DOMAIN definitions : \A n \in DOMAIN definitions[d] :
            n \in DOMAIN definitions'[d] /\ definitions'[d][n] = definitions[d][n]
    BY <1>9, <1>10
  <1>12. inst.symbol = new /\ inst.args = args /\ s0.args = args /\ s0.body = b /\ s0.unmasked = primary.unmasked
    BY DEF inst, s0
  <1>13. InstantiationsFit'
    <2> SUFFICES ASSUME NEW d \in DOMAIN definitions, NEW n \in DOMAIN definitions'[d]
                 PROVE  LET i == definitions'[d][n]
                            s == symbols'[i.symbol]
                        IN /\ i.symbol \in DOMAIN symbols'
                           /\ s.args = i.args
                           /\ s.body[1] = "primary" => s.body = PrimaryBody(d)
      BY <1>8 DEF InstantiationsFit, PrimaryBody
    <2>1. CASE n \in DOMAIN definitions[d]
      <3>1. LET i == definitions[d][n]
                s == symbols[i.symbol]
            IN /\ i.symbol \in DOMAIN symbols
               /\ s.args = i.args
               /\ s.body[1] = "primary" => s.body = PrimaryBody(d)
        BY <2>1 DEF TemplateInv, InstantiationsFit
      <3>2. definitions'[d][n] = definitions[d][n]
        BY <1>11, <2>1
      <3> QED BY <1>5, <3>1, <3>2
    <2>2. CASE n \notin DOMAIN definitions[d]
      <3>1. d = c /\ n = last
        BY <1>9, <1>10, <2>2
      <3> QED BY <1>5, <1>10, <1>12, <3>1 DEF c
    <2> QED BY <2>1, <2>2
  <1>14. \A p : p \in Instantiations' <=> \E d \in DOMAIN definitions' : \E n \in DOMAIN definitions'[d] : p = <<d, n>>
    BY DEF Instantiations
  <1>15. \A p : p \in Instantiations <=> \E d \in DOMAIN definitions : \E n \in DOMAIN definitions[d] : p = <<d, n>>
    BY DEF Instantiations
  <1>16. SymbolsUsed'
    <2> SUFFICES ASSUME NEW s \in DOMAIN symbols'
                 PROVE  /\ symbols'[s].unmasked = primary.unmasked
                        /\ \E p \in Instantiations' : definitions'[p[1]][p[2]].symbol = s
      BY DEF SymbolsUsed
    <2>1. CASE s \in DOMAIN symbols
      <3>1. PICK p \in Instantiations : definitions[p[1]][p[2]].symbol = s
        BY <2>1 DEF TemplateInv, SymbolsUsed
      <3>2. p \in Instantiations' /\ definitions'[p[1]][p[2]] = definitions[p[1]][p[2]]
        BY <3>1, <1>8, <1>11, <1>14, <1>15
      <3>3. symbols'[s].unmasked = primary.unmasked
        BY <1>5, <2>1 DEF TemplateInv, SymbolsUsed
      <3> QED BY <3>1, <3>2, <3>3
    <2>2. CASE s = new
      <3>1. <<c, last>> \in Instantiations'
        BY <1>2, <1>8, <1>10, <1>14
      <3>2. definitions'[<<c, last>>[1]][<<c, last>>[2]].symbol = s
        BY <1>10, <1>12, <2>2
      <3> QED BY <1>5, <1>12, <2>2, <3>1, <3>2
    <2> QED BY <1>5, <2>1, <2>2
  <1> QED BY <1>2, <1>5, <1>8, <1>10, <1>11, <1>12, <1>13, <1>16 DEF c

\* Calls that were made keep their symbols.
LEMMA UsesKeep ==
    ASSUME TemplateInv, DOMAIN definitions' = DOMAIN definitions,
           \A d \in DOMAIN definitions : \A n \in DOMAIN definitions[d] :
              n \in DOMAIN definitions'[d] /\ definitions'[d][n] = definitions[d][n],
           \A s \in DOMAIN symbols : s \in DOMAIN symbols' /\ symbols'[s].args = symbols[s].args
    PROVE  \A u \in uses :
              /\ u.definition \in DOMAIN definitions' /\ u.symbol \in DOMAIN symbols'
              /\ symbols'[u.symbol].args = u.args
              /\ \E n \in DOMAIN definitions'[u.definition] : definitions'[u.definition][n].symbol = u.symbol
  BY DEF TemplateInv, UsesFit

\* A declaration.
LEMMA DeclareStep ==
    ASSUME TemplateInv, NEW st \in Storages, NEW un \in BOOLEAN, DeclareTemplate(st, un)
    PROVE  TemplateInv'
  <1>1. /\ definitions' = <<>> /\ symbols' = <<>> /\ uses' = {} /\ reported' = reported /\ body' = <<>>
        /\ ops' \in Nat /\ definitions' = definitions /\ symbols' = symbols
    BY DEF DeclareTemplate, TemplateStep, Parsing, TemplateInv, DeclaredFirst, TemplateTypes
  <1>2. primary' \in [storage : {"none", "static"}, unmasked : BOOLEAN, declared : BOOLEAN] /\ primary'.declared
    BY DEF DeclareTemplate, Storages
  <1>3. TemplateTypes'
    BY <1>1, <1>2 DEF TemplateInv, TemplateTypes
  <1>4. InstantiationsFit' /\ SymbolsUsed' /\ UsesFit' /\ DeclaredFirst'
    BY <1>1, <1>2 DEF InstantiationsFit, SymbolsUsed, UsesFit, DeclaredFirst
  <1>5. CallsRunTheirCode'
    BY <1>1 DEF CallsRunTheirCode
  <1> QED BY <1>3, <1>4, <1>5 DEF TemplateInv

\* A definition, with no instantiation yet.
LEMMA DefineStep ==
    ASSUME TemplateInv, DefineTemplate
    PROVE  TemplateInv'
  <1>1. /\ definitions' = Append(definitions, <<>>) /\ symbols' = symbols /\ uses' = uses /\ reported' = reported
        /\ body' = <<>> /\ ops' \in Nat /\ primary' = primary /\ primary.declared
    BY DEF DefineTemplate, TemplateStep, Parsing, TemplateInv, TemplateTypes
  <1>2. definitions \in Seq(Seq(InstantiationType)) /\ <<>> \in Seq(InstantiationType)
    BY DEF TemplateInv, TemplateTypes
  <1>3. definitions' \in Seq(Seq(InstantiationType))
    BY <1>1, <1>2
  <1>4. /\ \A d \in DOMAIN definitions : d \in DOMAIN definitions' /\ definitions'[d] = definitions[d]
        /\ \A d \in DOMAIN definitions' : d \in DOMAIN definitions \/ definitions'[d] = <<>>
    BY <1>1, <1>2
  <1>5. TemplateTypes'
    BY <1>1, <1>3 DEF TemplateInv, TemplateTypes
  <1>6. InstantiationsFit'
    BY <1>1, <1>4 DEF TemplateInv, InstantiationsFit, PrimaryBody
  <1>7. \A p \in Instantiations : p \in Instantiations' /\ definitions'[p[1]][p[2]] = definitions[p[1]][p[2]]
    BY <1>4 DEF Instantiations
  <1>8. SymbolsUsed'
    <2> SUFFICES ASSUME NEW s \in DOMAIN symbols
                 PROVE  /\ symbols[s].unmasked = primary.unmasked
                        /\ \E p \in Instantiations' : definitions'[p[1]][p[2]].symbol = s
      BY <1>1 DEF SymbolsUsed
    <2>1. PICK p \in Instantiations : definitions[p[1]][p[2]].symbol = s
      BY DEF TemplateInv, SymbolsUsed
    <2> QED BY <1>7, <2>1 DEF TemplateInv, SymbolsUsed
  <1>9. UsesFit' /\ DeclaredFirst'
    BY <1>1, <1>4 DEF TemplateInv, UsesFit, DeclaredFirst
  <1>10. CallsRunTheirCode'
    BY <1>1 DEF CallsRunTheirCode
  <1> QED BY <1>5, <1>6, <1>8, <1>9, <1>10 DEF TemplateInv

\* An error changes nothing else.
LEMMA FailsStep ==
    ASSUME TemplateInv, TemplateStep, TemplateFails
    PROVE  TemplateInv'
  <1>1. /\ definitions' = definitions /\ symbols' = symbols /\ uses' = uses /\ reported' = TRUE
        /\ body' = body /\ ops' \in Nat /\ primary' = primary
    BY DEF TemplateStep, TemplateFails, TemplateInv, TemplateTypes
  <1>2. TemplateTypes'
    BY <1>1 DEF TemplateInv, TemplateTypes
  <1>3. InstantiationsFit' /\ SymbolsUsed' /\ UsesFit' /\ DeclaredFirst'
    BY <1>1 DEF TemplateInv, InstantiationsFit, SymbolsUsed, UsesFit, DeclaredFirst, PrimaryBody, Instantiations
  <1>4. CallsRunTheirCode'
    BY <1>1 DEF CallsRunTheirCode
  <1> QED BY <1>2, <1>3, <1>4 DEF TemplateInv

\* A call, which may add an instantiation.
LEMMA TemplateCallStep ==
    ASSUME TemplateInv, NEW args \in TemplateArgs, CallTemplate(args)
    PROVE  TemplateInv'
  <1>1. CASE definitions = <<>>
    BY <1>1, FailsStep DEF CallTemplate
  <1>2. CASE definitions # <<>> /\ LookupInstantiation(args) # 0
    <2> DEFINE c == CurrentDefinition
               n == LookupInstantiation(args)
               sym == FunctionTemplate[n].symbol
    <2>1. /\ definitions' = definitions /\ symbols' = symbols /\ reported' = reported /\ body' = <<>>
          /\ ops' \in Nat /\ primary' = primary
          /\ uses' = uses \cup {[args |-> args, symbol |-> sym, definition |-> c]}
      BY <1>2 DEF CallTemplate, TemplateStep, Parsing, InstantiationSymbol, TemplateInv, TemplateTypes
    <2>2. c \in DOMAIN definitions /\ c \in Nat
      BY <1>2 DEF TemplateInv, TemplateTypes, CurrentDefinition
    <2>3. n \in DOMAIN definitions[c] /\ definitions[c][n].args = args /\ sym = definitions[c][n].symbol
      BY <1>2, LookupFacts DEF FunctionTemplate, TemplateInv
    <2> HIDE DEF c, n, sym
    <2>4. sym \in DOMAIN symbols /\ symbols[sym].args = args
      BY <2>2, <2>3 DEF TemplateInv, InstantiationsFit
    <2>5. TemplateTypes'
      <3>1. sym \in Nat
        BY <2>4 DEF TemplateInv, TemplateTypes
      <3> QED BY <2>1, <2>2, <3>1 DEF TemplateInv, TemplateTypes, UseType
    <2>6. InstantiationsFit' /\ SymbolsUsed' /\ DeclaredFirst'
      BY <2>1, <2>2 DEF TemplateInv, InstantiationsFit, SymbolsUsed, DeclaredFirst, PrimaryBody, Instantiations
    <2>7. UsesFit'
      BY <2>1, <2>2, <2>3, <2>4 DEF TemplateInv, UsesFit
    <2>8. CallsRunTheirCode'
      BY <2>1 DEF CallsRunTheirCode
    <2> QED BY <2>5, <2>6, <2>7, <2>8 DEF TemplateInv
  <1>3. CASE definitions # <<>> /\ LookupInstantiation(args) = 0
    <2> DEFINE c == CurrentDefinition
               new == Len(symbols) + 1
    <2>1. /\ Instantiate(args, "implicit", PrimaryBody(c)) /\ reported' = reported /\ body' = <<>>
          /\ ops' \in Nat /\ primary' = primary
          /\ uses' = uses \cup {[args |-> args, symbol |-> new, definition |-> c]}
      BY <1>3 DEF CallTemplate, TemplateStep, Parsing, TemplateInv, TemplateTypes
    <2>2. c \in DOMAIN definitions /\ c \in Nat /\ new \in Nat
      BY <1>3 DEF TemplateInv, TemplateTypes, CurrentDefinition
    <2>3. PrimaryBody(c) \in Bodies
      BY <2>2 DEF PrimaryBody, Bodies
    <2>4. /\ definitions' \in Seq(Seq(InstantiationType)) /\ symbols' \in Seq(TemplateSymbolType)
          /\ InstantiationsFit' /\ SymbolsUsed'
          /\ DOMAIN definitions' = DOMAIN definitions
          /\ \A d \in DOMAIN definitions : \A n \in DOMAIN definitions[d] :
               n \in DOMAIN definitions'[d] /\ definitions'[d][n] = definitions[d][n]
          /\ \A s \in DOMAIN symbols : s \in DOMAIN symbols' /\ symbols'[s] = symbols[s]
          /\ new \in DOMAIN symbols' /\ symbols'[new].args = args
          /\ \E n \in DOMAIN definitions'[c] : definitions'[c][n].symbol = new
      BY <1>3, <2>1, <2>3, InstantiateKeeps
    <2> HIDE DEF c, new
    <2>5. TemplateTypes'
      <3>1. uses' \in SUBSET UseType
        BY <2>1, <2>2 DEF TemplateInv, TemplateTypes, UseType
      <3> QED BY <2>1, <2>4, <3>1 DEF TemplateInv, TemplateTypes
    <2>6. UsesFit'
      BY <2>1, <2>2, <2>4, UsesKeep DEF UsesFit
    <2>7. DeclaredFirst'
      BY <1>3, <2>1 DEF TemplateInv, DeclaredFirst
    <2>8. CallsRunTheirCode'
      BY <2>1 DEF CallsRunTheirCode
    <2> QED BY <2>4, <2>5, <2>6, <2>7, <2>8 DEF TemplateInv
  <1> QED BY <1>1, <1>2, <1>3

\* A new instantiation without a call.
LEMMA NewInstantiationStep ==
    ASSUME TemplateInv, definitions # <<>>, NEW args \in TemplateArgs,
           NEW kind \in {"implicit", "explicit", "specialization"}, NEW b \in Bodies,
           b[1] = "primary" => b = PrimaryBody(CurrentDefinition),
           TemplateStep, Instantiate(args, kind, b), primary' = primary, uses' = uses, reported' \in BOOLEAN
    PROVE  TemplateInv'
  <1>1. body' = <<>> /\ ops' \in Nat
    BY DEF TemplateStep, Parsing, TemplateInv, TemplateTypes
  <1>2. /\ definitions' \in Seq(Seq(InstantiationType)) /\ symbols' \in Seq(TemplateSymbolType)
        /\ InstantiationsFit' /\ SymbolsUsed'
        /\ DOMAIN definitions' = DOMAIN definitions
        /\ \A d \in DOMAIN definitions : \A n \in DOMAIN definitions[d] :
             n \in DOMAIN definitions'[d] /\ definitions'[d][n] = definitions[d][n]
        /\ \A s \in DOMAIN symbols : s \in DOMAIN symbols' /\ symbols'[s] = symbols[s]
    BY InstantiateKeeps
  <1>3. TemplateTypes'
    BY <1>1, <1>2 DEF TemplateInv, TemplateTypes
  <1>4. UsesFit'
    BY <1>2, UsesKeep DEF UsesFit
  <1>5. DeclaredFirst'
    BY DEF TemplateInv, DeclaredFirst
  <1>6. CallsRunTheirCode'
    BY <1>1 DEF CallsRunTheirCode
  <1> QED BY <1>2, <1>3, <1>4, <1>5, <1>6 DEF TemplateInv

\* An explicit instantiation.
LEMMA ExplicitStep ==
    ASSUME TemplateInv, NEW args \in TemplateArgs, NEW st, NEW un, ExplicitInstantiation(args, st, un)
    PROVE  TemplateInv'
  <1>1. CASE definitions = <<>> \/ Inconsistent(st, un)
    BY <1>1, FailsStep DEF ExplicitInstantiation
  <1>2. CASE ~(definitions = <<>> \/ Inconsistent(st, un))
    <2>1. /\ TemplateStep /\ Instantiate(args, "explicit", PrimaryBody(CurrentDefinition))
          /\ primary' = primary /\ uses' = uses /\ reported' \in BOOLEAN
      BY <1>2 DEF ExplicitInstantiation, TemplateInv, TemplateTypes
    <2>2. PrimaryBody(CurrentDefinition) \in Bodies
      BY DEF PrimaryBody, Bodies, CurrentDefinition, TemplateInv, TemplateTypes
    <2> QED BY <1>2, <2>1, <2>2, NewInstantiationStep
  <1> QED BY <1>1, <1>2

\* A specialization: an error, a new instantiation, or a new function for the
\* symbol of one.
LEMMA SpecializeStep ==
    ASSUME TemplateInv, NEW args \in TemplateArgs, NEW st, NEW un, NEW def \in BOOLEAN, Specialize(args, st, un, def)
    PROVE  TemplateInv'
  <1> DEFINE bad == Inconsistent(st, un) \/ AlreadyDefined(args, un)
             n == LookupInstantiation(args)
             b == IF def THEN SpecialBody(ops) ELSE NoBody
  <1>1. CASE definitions = <<>> \/ (bad /\ n = 0)
    BY <1>1, FailsStep DEF Specialize
  <1>2. b \in Bodies /\ b[1] # "primary"
    BY DEF SpecialBody, NoBody, Bodies, TemplateInv, TemplateTypes
  <1>3. CASE definitions # <<>> /\ ~bad /\ n = 0
    <2>1. /\ TemplateStep /\ Instantiate(args, "specialization", b)
          /\ primary' = primary /\ uses' = uses /\ reported' \in BOOLEAN
      BY <1>3 DEF Specialize, TemplateInv, TemplateTypes
    <2> HIDE DEF b, bad, n
    <2> QED BY <1>2, <1>3, <2>1, NewInstantiationStep
  <1>4. CASE definitions # <<>> /\ n # 0
    <2> DEFINE sym == InstantiationSymbol(args)
    <2>1. /\ TemplateStep /\ definitions' = definitions /\ primary' = primary /\ uses' = uses
          /\ reported' \in BOOLEAN /\ body' = <<>> /\ ops' \in Nat
          /\ symbols' = IF def THEN [symbols EXCEPT ![sym].body = b] ELSE symbols
      <3> HIDE DEF b, sym, bad
      <3>1. /\ TemplateStep /\ definitions' = definitions /\ primary' = primary /\ uses' = uses
            /\ reported' = (reported \/ bad)
            /\ symbols' = IF def THEN [symbols EXCEPT ![sym].body = b] ELSE symbols
        BY <1>4 DEF Specialize, b, sym, bad
      <3>2. reported' \in BOOLEAN
        BY <3>1 DEF TemplateInv, TemplateTypes
      <3>3. body' = <<>> /\ ops' \in Nat
        BY <3>1 DEF TemplateStep, Parsing, TemplateInv, TemplateTypes
      <3> QED BY <3>1, <3>2, <3>3
    <2>2. sym \in DOMAIN symbols
      <3>1. n \in DOMAIN definitions[CurrentDefinition] /\ sym = definitions[CurrentDefinition][n].symbol
        BY <1>4, LookupFacts DEF FunctionTemplate, InstantiationSymbol, TemplateInv
      <3>2. CurrentDefinition \in DOMAIN definitions
        BY <1>4 DEF TemplateInv, TemplateTypes, CurrentDefinition
      <3> QED BY <3>1, <3>2 DEF TemplateInv, InstantiationsFit
    <2> HIDE DEF sym, b, bad, n
    <2>3. symbols \in Seq(TemplateSymbolType)
      BY DEF TemplateInv, TemplateTypes
    <2>4. symbols' \in Seq(TemplateSymbolType) /\ DOMAIN symbols' = DOMAIN symbols
      <3>1. [symbols[sym] EXCEPT !.body = b] \in TemplateSymbolType
        <4>1. symbols[sym] \in TemplateSymbolType
          BY <2>2, <2>3
        <4> QED BY <1>2, <4>1 DEF TemplateSymbolType
      <3>2. CASE def
        <4>1. symbols' = [symbols EXCEPT ![sym] = [symbols[sym] EXCEPT !.body = b]]
          BY <2>1, <3>2
        <4> QED BY <2>2, <2>3, <3>1, <4>1
      <3> QED BY <2>1, <2>3, <3>2
    <2>5. ASSUME NEW s \in DOMAIN symbols
          PROVE  /\ symbols'[s].args = symbols[s].args /\ symbols'[s].unmasked = symbols[s].unmasked
                 /\ symbols'[s].body = symbols[s].body \/ symbols'[s].body = b
      BY <2>1, <2>2, <2>3 DEF TemplateSymbolType
    <2>6. TemplateTypes'
      BY <2>1, <2>4 DEF TemplateInv, TemplateTypes
    <2>7. InstantiationsFit'
      <3> SUFFICES ASSUME NEW d \in DOMAIN definitions, NEW k \in DOMAIN definitions[d], NEW i, i = definitions[d][k].symbol
                   PROVE  /\ i \in DOMAIN symbols'
                          /\ symbols'[i].args = definitions[d][k].args
                          /\ symbols'[i].body[1] = "primary" => symbols'[i].body = PrimaryBody(d)
        BY <2>1 DEF InstantiationsFit, PrimaryBody
      <3>1. /\ i \in DOMAIN symbols
            /\ symbols[i].args = definitions[d][k].args
            /\ symbols[i].body[1] = "primary" => symbols[i].body = PrimaryBody(d)
        BY DEF TemplateInv, InstantiationsFit
      <3>2. i \in DOMAIN symbols' /\ symbols'[i].args = definitions[d][k].args
        <4>1. i \in DOMAIN symbols /\ symbols[i].args = definitions[d][k].args
          BY <3>1
        <4>2. symbols'[i].args = symbols[i].args
          BY <2>5, <4>1
        <4>3. i \in DOMAIN symbols'
          BY <2>4, <4>1
        <4> QED BY <4>1, <4>2, <4>3
      <3>3. symbols'[i].body = symbols[i].body \/ symbols'[i].body = b
        BY <2>5, <3>1
      <3>4. symbols'[i].body[1] = "primary" => symbols'[i].body = symbols[i].body
        BY <1>2, <3>3
      <3> QED BY <3>1, <3>2, <3>4
    <2>8. SymbolsUsed'
      BY <2>1, <2>4, <2>5 DEF TemplateInv, SymbolsUsed, Instantiations
    <2>9. UsesFit'
      BY <2>1, <2>4, <2>5 DEF TemplateInv, UsesFit
    <2>10. DeclaredFirst'
      BY <1>4, <2>1 DEF TemplateInv, DeclaredFirst
    <2>11. CallsRunTheirCode'
      BY <2>1 DEF CallsRunTheirCode
    <2> QED BY <2>6, <2>7, <2>8, <2>9, <2>10, <2>11 DEF TemplateInv
  <1> QED BY <1>1, <1>3, <1>4

\* In a program that compiles, the LLVM function of an instantiation has the body
\* of its symbol, and no other instantiation has this function.
LEMMA GenerateStep ==
    ASSUME TemplateInv, GenerateIR
    PROVE  TemplateInv'
  <1> DEFINE first == {p \in Instantiations : SymbolAt(p).body # NoBody /\ ~HasBodyAlready(p)}
             instanceOf(f) == CHOOSE p \in first : LLVMName(SymbolAt(p)) = f
  <1>1. /\ definitions' = definitions /\ symbols' = symbols /\ uses' = uses /\ primary' = primary /\ ops' = ops
        /\ body' = [f \in {LLVMName(SymbolAt(p)) : p \in first} |-> SymbolAt(instanceOf(f)).body]
        /\ reported' = (reported \/ \E p \in Instantiations : GenerateFails(p))
    BY DEF GenerateIR
  <1>2. TemplateTypes'
    BY <1>1 DEF TemplateInv, TemplateTypes
  <1>3. InstantiationsFit' /\ SymbolsUsed' /\ UsesFit' /\ DeclaredFirst'
    BY <1>1 DEF TemplateInv, InstantiationsFit, SymbolsUsed, UsesFit, DeclaredFirst, PrimaryBody, Instantiations
  <1>4. CallsRunTheirCode'
    <2> SUFFICES ASSUME ~reported', NEW u \in uses
                 PROVE  RunsItsCode(u)'
      BY <1>1 DEF CallsRunTheirCode
    <2> DEFINE s == symbols[u.symbol]
    <2>1. \A p \in Instantiations : SymbolAt(p).body # NoBody /\ ~HasBodyAlready(p)
      BY <1>1 DEF GenerateFails
    <2>2. first = Instantiations
      BY <2>1
    <2>3. ASSUME NEW p \in Instantiations, NEW q \in Instantiations, LLVMName(SymbolAt(p)) = LLVMName(SymbolAt(q))
          PROVE  p = q
      <3>1. ~Earlier(p, q) /\ ~Earlier(q, p)
        BY <2>1, <2>3 DEF HasBodyAlready
      <3>2. PICK d \in DOMAIN definitions : \E n \in DOMAIN definitions[d] : p = <<d, n>>
        BY DEF Instantiations
      <3>3. PICK n \in DOMAIN definitions[d] : p = <<d, n>>
        BY <3>2
      <3>4. PICK e \in DOMAIN definitions : \E k \in DOMAIN definitions[e] : q = <<e, k>>
        BY DEF Instantiations
      <3>5. PICK k \in DOMAIN definitions[e] : q = <<e, k>>
        BY <3>4
      <3>6. d \in Nat /\ n \in Nat /\ e \in Nat /\ k \in Nat
        BY DEF TemplateInv, TemplateTypes
      <3> QED BY <3>1, <3>3, <3>5, <3>6 DEF Earlier
    <2>4. ASSUME NEW p \in Instantiations
          PROVE  LLVMName(SymbolAt(p)) \in DOMAIN body' /\ body'[LLVMName(SymbolAt(p))] = SymbolAt(p).body
      <3> DEFINE f == LLVMName(SymbolAt(p))
      <3>1. instanceOf(f) \in first /\ LLVMName(SymbolAt(instanceOf(f))) = f
        BY <2>2
      <3>2. instanceOf(f) = p
        BY <2>2, <2>3, <3>1
      <3>3. f \in {LLVMName(SymbolAt(r)) : r \in first}
        BY <2>2
      <3> HIDE DEF f, instanceOf, first
      <3>4. f \in DOMAIN body' /\ body'[f] = SymbolAt(instanceOf(f)).body
        BY <1>1, <3>3
      <3> QED BY <3>2, <3>4 DEF f
    <2>5. PICK n \in DOMAIN definitions[u.definition] : definitions[u.definition][n].symbol = u.symbol
      BY DEF TemplateInv, UsesFit
    <2>6. u.definition \in DOMAIN definitions /\ u.symbol \in DOMAIN symbols /\ s.args = u.args
      BY DEF TemplateInv, UsesFit
    <2> DEFINE p == <<u.definition, n>>
    <2>7. p \in Instantiations /\ SymbolAt(p) = s
      BY <2>5, <2>6 DEF Instantiations, SymbolAt
    <2>8. s.body[1] = "primary" => s.body = PrimaryBody(u.definition)
      BY <2>5, <2>6 DEF TemplateInv, InstantiationsFit
    <2>9. ASSUME s.body[1] = "primary", NEW t \in ToSet(symbols), t.args = u.args
          PROVE  t.body[1] # "special"
      <3>1. PICK j \in DOMAIN symbols : t = symbols[j]
        BY DEF ToSet
      <3>2. PICK q \in Instantiations : definitions[q[1]][q[2]].symbol = j
        BY DEF TemplateInv, SymbolsUsed
      <3>3. SymbolAt(q) = t
        BY <3>1, <3>2 DEF SymbolAt
      <3>4. t.unmasked = s.unmasked /\ t.args = s.args
        BY <2>6, <2>9, <3>1 DEF TemplateInv, SymbolsUsed
      <3>5. LLVMName(SymbolAt(q)) = LLVMName(SymbolAt(p))
        BY <2>7, <3>3, <3>4 DEF LLVMName
      <3>6. q = p
        BY <2>3, <2>7, <3>5
      <3> QED BY <2>7, <2>9, <3>3, <3>6
    <2>10. LLVMName(s) \in DOMAIN body' /\ body'[LLVMName(s)] = s.body
      BY <2>4, <2>7
    <2>11. symbols' = symbols
      BY <1>1
    <2> HIDE DEF first, instanceOf, p
    <2> QED BY <2>8, <2>9, <2>10, <2>11 DEF RunsItsCode, LLVMName, PrimaryBody, ToSet
  <1> QED BY <1>2, <1>3, <1>4 DEF TemplateInv

\* No step of the compiler breaks the invariant of function templates.
LEMMA TemplateStepKeeps ==
    ASSUME TemplateInv, [TemplateNext]_templateVars
    PROVE  TemplateInv'
  <1>1. CASE UNCHANGED templateVars
    <2> USE <1>1 DEF templateVars
    <2>1. TemplateTypes'
      BY DEF TemplateInv, TemplateTypes
    <2>2. InstantiationsFit' /\ SymbolsUsed' /\ UsesFit' /\ DeclaredFirst'
      BY DEF TemplateInv, InstantiationsFit, SymbolsUsed, UsesFit, DeclaredFirst, PrimaryBody, Instantiations
    <2>3. CallsRunTheirCode'
      BY DEF TemplateInv, CallsRunTheirCode, RunsItsCode, LLVMName, PrimaryBody, ToSet
    <2> QED BY <2>1, <2>2, <2>3 DEF TemplateInv
  <1>2. CASE Declares
    BY <1>2, DeclareStep DEF Declares
  <1>3. CASE DefineTemplate
    BY <1>3, DefineStep
  <1>4. CASE TemplateCalls
    BY <1>4, TemplateCallStep DEF TemplateCalls
  <1>5. CASE Explicits
    BY <1>5, ExplicitStep DEF Explicits
  <1>6. CASE Specializes
    BY <1>6, SpecializeStep DEF Specializes
  <1>7. CASE GenerateIR
    BY <1>7, GenerateStep
  <1> QED BY <1>1, <1>2, <1>3, <1>4, <1>5, <1>6, <1>7 DEF TemplateNext

\* In a program that compiles, every call of a function template runs the
\* specialization for its arguments if there is one, and otherwise the template
\* that the call saw, for any program: any lists of arguments and any number and
\* order of declarations, definitions, instantiations, specializations and calls.
THEOREM TemplateCallsAreRight == TemplateSpec => []CallsRunTheirCode
  <1>1. TemplateInv /\ [TemplateNext]_templateVars => TemplateInv'
    BY TemplateStepKeeps
  <1>2. TemplateInv => CallsRunTheirCode
    BY DEF TemplateInv
  <1> QED BY TemplateStart, <1>1, <1>2, PTL DEF TemplateSpec

-----------------------------------------------------------------------------
(***************************************************************************)
(* Compilations for several targets.  The target of the i-th compilation,  *)
(* its file and what is found of the globals are said of the arguments b,  *)
(* which do not change.                                                    *)
(***************************************************************************)
Indices(b) == 1 .. Len(b.targets)
TargetOf(b, i) ==
    NewTarget(WithDefaults([os |-> "linux", arch |-> "none", cpu |-> b.cpu, zmm |-> TRUE,
                            target |-> b.targets[i], host |-> b.host]))
TargetIsa(b, i) == TargetToISA(b.targets[i])
NameOf(b, i) == ISAToString(TargetOf(b, i).isa)
TargetFile(b, i) ==
    [name |-> NameOf(b, i), from |-> b.targets[i], exports |-> b.source[i].exports, defines |-> {}]
AlignOf(b, i) == TargetOf(b, i).row.align
LayoutOf(b, gv, i) == IF gv \in Varyings THEN TargetOf(b, i).row.lanes ELSE 1

ModuleType(b) == [target : {TargetOf(b, i) : i \in Indices(b)}, inits : SUBSET Globals]
DispatchGlobal == [name : Globals, align : Nat, layout : Nat]

\* The first n targets are compiled, and their files written; a file is there,
\* or one that has the same name.
Compiled(b, ms, n) ==
    \A i \in 1 .. n : /\ ms[i].target = TargetOf(b, i) /\ TargetOf(b, i).status = "valid"
                      /\ ms[i].inits = b.source[i].globals
Written(b, fs, n) ==
    /\ \A f \in fs : \E i \in 1 .. n : f = TargetFile(b, i)
    /\ \A i \in 1 .. n : \E j \in 1 .. n : NameOf(b, j) = NameOf(b, i) /\ TargetFile(b, j) \in fs

\* No two targets have the name of an ISA in common.
ClashOf(b, i, j) ==
    TargetIsa(b, i) = TargetIsa(b, j) \/ {TargetIsa(b, i), TargetIsa(b, j)} = {ISA.SSE41, ISA.SSE42}
Distinct(b) ==
    \A i \in Indices(b) : /\ TargetIsa(b, i) # ISA.NUM_ISAS
                          /\ \A j \in Indices(b) : i # j => ~ClashOf(b, i, j)

\* What the dispatch module has of the first n targets.
Extracted(b, d, n) ==
    /\ d.globals \subseteq DispatchGlobal
    /\ n = 0 => d.globals = {}
    /\ n > 0 => {gv.name : gv \in d.globals} = b.source[1].globals
    /\ \A i \in 1 .. n : b.source[i].globals \subseteq b.source[1].globals
    /\ \A gv \in d.globals : \A i \in 1 .. n : gv.name \in b.source[i].globals =>
          /\ AlignOf(b, i) <= gv.align
          /\ LayoutOf(b, gv.name, i) = gv.layout \/ gv.name \in d.warned
    /\ d.variants = UNION {{<<f, TargetOf(b, i).isa>> : f \in b.source[i].exports} : i \in 1 .. n}

\* The files of a compilation that succeeds.
OnlyFile(b) ==
    [name |-> "out", from |-> b.targets[1], exports |-> b.source[1].exports, defines |-> b.source[1].globals]
IsDispatchFile(b, f) == f.name = "out" /\ f.defines = b.source[1].globals
Succeeded(b, ms, fs, d) ==
    IF Len(b.targets) > 1
    THEN /\ Len(ms) = Len(b.targets) /\ Compiled(b, ms, Len(b.targets)) /\ Distinct(b)
         /\ Extracted(b, d, Len(b.targets))
         /\ \E out \in fs : IsDispatchFile(b, out) /\ fs = {TargetFile(b, i) : i \in Indices(b)} \cup {out}
    ELSE fs = {OnlyFile(b)}

BuildSteps == {"validate", "create", "compile", "write", "indices", "extract", "emit", "done"}

\* The inductive invariant.
BuildInv ==
    LET before == IF step \in {"validate", "create", "compile", "write"} THEN current - 1 ELSE Count
    IN  /\ build \in Builds /\ step \in BuildSteps
        /\ current \in Indices(build)
        /\ modules \in Seq(ModuleType(build))
        /\ step # "done" =>
              /\ result = "none"
              /\ Compiled(build, modules, before) /\ Written(build, files, before)
              /\ Len(modules) = IF step \in {"compile", "write"} THEN current ELSE before
        /\ step \in {"compile", "write"} =>
              /\ observers = [target |-> current, module |-> current]
              /\ modules[current].target = TargetOf(build, current) /\ TargetOf(build, current).status = "valid"
        /\ step = "write" => modules[current].inits = build.source[current].globals
        /\ step \in {"indices", "extract", "emit"} => Multiple
        /\ step = "indices" => current = 1
        /\ step \in {"validate", "create", "compile", "write", "indices"} =>
              dispatch = [globals |-> {}, variants |-> {}, warned |-> {}]
        /\ step \in {"extract", "emit"} =>
              Distinct(build) /\ Extracted(build, dispatch, IF step = "extract" THEN current - 1 ELSE Count)
        /\ result = "ok" => Succeeded(build, modules, files, dispatch)

-----------------------------------------------------------------------------
\* Every row has an alignment and a number of lanes.
LEMMA RowFacts ==
    \A f \in DOMAIN Families : \A s \in DOMAIN Families[f].rows :
        Families[f].rows[s].align \in Nat /\ Families[f].rows[s].lanes \in Nat
  <1> DEFINE Good(rows) == \A s \in DOMAIN rows : rows[s].align \in Nat /\ rows[s].lanes \in Nat
  <1>1. Good(GenericRows)
    BY DEF GenericRows, Row
  <1>2. Good(Sse2Rows) /\ Good(Sse4Rows) /\ Good(Avx1Rows) /\ Good(Avx2VnniRows)
    BY DEF Sse2Rows, Sse4Rows, Avx1Rows, Avx2VnniRows, Row
  <1>3. Good(Avx2Rows)
    BY <1>2 DEF Avx2Rows, Row
  <1>4. Good(Avx512Rows)
    BY DEF Avx512Rows, Row
  <1>5. Good(SkxIclRows) /\ Good(SprGnrRows) /\ Good(Avx10Rows)
    <2>1. "x16" \in DOMAIN Avx512Rows
      BY DEF Avx512Rows
    <2>2. Good(SkxIclRows)
      BY <1>4, <2>1 DEF SkxIclRows
    <2> QED BY <1>4, <2>2 DEF SprGnrRows, Avx10Rows
  <1>6. Good(NeonRows) /\ Good(VsxRows)
    BY DEF NeonRows, VsxRows, Row
  <1>7. Good(RvvRows) /\ Good(WasmRows) /\ Good(XeSmallRows) /\ Good(XeLargeRows)
    BY DEF RvvRows, WasmRows, XeSmallRows, XeLargeRows, XeRow, Row
  <1>8. ASSUME NEW f \in DOMAIN Families
        PROVE  Families[f].rows \in {GenericRows, Sse2Rows, Sse4Rows, Avx1Rows, Avx2VnniRows, Avx2Rows, SkxIclRows,
                                     SprGnrRows, Avx10Rows, NeonRows, VsxRows, RvvRows, WasmRows, XeSmallRows, XeLargeRows}
    BY <1>8 DEF Families, Family
  <1> HIDE DEF Good
  <1>9. ASSUME NEW f \in DOMAIN Families
        PROVE  Good(Families[f].rows)
    BY <1>1, <1>2, <1>3, <1>5, <1>6, <1>7, <1>8, <1>9
  <1> QED BY <1>9 DEF Good

\* A target that is of one ISA has that of its family.
LEMMA FamilyIsa ==
    ASSUME NEW t \in ISPCTargets, TargetToISA(t) # ISA.NUM_ISAS
    PROVE  /\ t[1] \in DOMAIN Families \ {"generic"} /\ Families[t[1]].isa = TargetToISA(t)
           /\ t[2] \in DOMAIN Families[t[1]].rows
  <1>1. PICK f \in DOMAIN Families : \E s \in DOMAIN Families[f].rows : t = <<f, s>>
    BY DEF ISPCTargets
  <1>2. PICK s \in DOMAIN Families[f].rows : t = <<f, s>>
    BY <1>1
  <1>3. t[1] = f /\ t[2] = s
    BY <1>2
  <1>4. f # "generic"
    BY <1>3 DEF TargetToISA
  <1>5. Families[f].isa = TargetToISA(t)
    BY <1>3, <1>4 DEF Families, Family, TargetToISA
  <1> QED BY <1>3, <1>4, <1>5

\* The target of a compilation is the one that the arguments name.
LEMMA TargetFacts ==
    ASSUME NEW b, NEW i, b.targets[i] \in ISPCTargets \cup {NoTarget, HostTarget},
           TargetIsa(b, i) # ISA.NUM_ISAS, TargetOf(b, i).status = "valid"
    PROVE  /\ TargetOf(b, i).isa = TargetIsa(b, i)
           /\ TargetOf(b, i).row.align \in Nat /\ TargetOf(b, i).row.lanes \in Nat
           /\ NameOf(b, i) \in DOMAIN Families
           /\ \/ Families[NameOf(b, i)].isa = TargetIsa(b, i)
              \/ TargetIsa(b, i) = ISA.SSE41 /\ Families[NameOf(b, i)].isa = ISA.SSE42
  <1> DEFINE t == b.targets[i]
             asked == [os |-> "linux", arch |-> "none", cpu |-> b.cpu, zmm |-> TRUE, target |-> t, host |-> b.host]
             r == WithDefaults(asked)
  <1>1. t \in ISPCTargets /\ TargetToISA(t) # ISA.NUM_ISAS /\ t # NoTarget /\ t # HostTarget
    <2>1. TargetToISA(NoTarget) = ISA.NUM_ISAS
      BY DEF TargetToISA, NoTarget
    <2>2. TargetToISA(HostTarget) = ISA.NUM_ISAS
      BY DEF TargetToISA, HostTarget
    <2> QED BY <2>1, <2>2 DEF TargetIsa
  <1>2. /\ t[1] \in DOMAIN Families \ {"generic"} /\ Families[t[1]].isa = TargetToISA(t)
        /\ t[2] \in DOMAIN Families[t[1]].rows
    BY <1>1, FamilyIsa
  <1>3. r.target = t
    BY <1>1 DEF WithDefaults
  <1>4. TargetOf(b, i) = NewTarget(r)
    BY DEF TargetOf
  <1> HIDE DEF t, asked, r
  <1>5. MeantTarget(r) = t
    BY <1>1, <1>3 DEF MeantTarget, HostRequested
  <1>6. TargetOf(b, i) = NewTargetOf(r, t)
    BY <1>4, <1>5 DEF NewTarget
  <1>7. TargetOf(b, i).isa = Families[t[1]].isa /\ TargetOf(b, i).row = Families[t[1]].rows[t[2]]
    <2>1. NewTargetOf(r, t).status = "valid"
      BY <1>6
    <2>2. Invalid.status # "valid"
      BY DEF Invalid
    <2> QED BY <1>6, <2>1, <2>2 DEF NewTargetOf
  <1>8. TargetOf(b, i).isa = TargetIsa(b, i)
    BY <1>2, <1>7 DEF TargetIsa, t
  <1>9. TargetOf(b, i).row.align \in Nat /\ TargetOf(b, i).row.lanes \in Nat
    BY <1>2, <1>7, RowFacts
  <1>10. NameOf(b, i) = IF TargetIsa(b, i) = ISA.SSE41 THEN "sse4"
                        ELSE CHOOSE f \in DOMAIN Families \ {"generic"} : Families[f].isa = TargetIsa(b, i)
    BY <1>8 DEF NameOf, ISAToString
  <1>11. "sse4" \in DOMAIN Families /\ Families["sse4"].isa = ISA.SSE42
    BY DEF Families, Family
  <1>12. \E f \in DOMAIN Families \ {"generic"} : Families[f].isa = TargetIsa(b, i)
    BY <1>2, <1>7, <1>8
  <1> QED BY <1>8, <1>9, <1>10, <1>11, <1>12

\* The name of an ISA is not that of the dispatch module's file.
LEMMA OutIsNoFamily == "out" \notin DOMAIN Families
  BY DEF Families

\* Targets that do not clash have files of different names.
LEMMA NamesDiffer ==
    ASSUME NEW b, Distinct(b), NEW i \in Indices(b), NEW j \in Indices(b), i # j,
           \A k \in Indices(b) : b.targets[k] \in ISPCTargets \cup {NoTarget, HostTarget} /\ TargetOf(b, k).status = "valid"
    PROVE  NameOf(b, i) # NameOf(b, j)
  <1>1. TargetIsa(b, i) # ISA.NUM_ISAS /\ TargetIsa(b, j) # ISA.NUM_ISAS /\ ~ClashOf(b, i, j)
    BY DEF Distinct
  <1>2. \A k \in {i, j} : \/ Families[NameOf(b, k)].isa = TargetIsa(b, k)
                          \/ TargetIsa(b, k) = ISA.SSE41 /\ Families[NameOf(b, k)].isa = ISA.SSE42
    BY <1>1, TargetFacts
  <1> QED BY <1>1, <1>2 DEF ClashOf

-----------------------------------------------------------------------------
\* What is assumed of the arguments.
LEMMA BuildFacts ==
    ASSUME NEW b \in Builds
    PROVE  /\ Len(b.targets) \in Nat /\ Len(b.targets) >= 1 /\ 1 \in Indices(b)
           /\ \A i \in Indices(b) : /\ b.targets[i] \in ISPCTargets \cup {NoTarget, HostTarget}
                                    /\ b.source[i].globals \subseteq Globals
  BY BuildsAssumption DEF Indices

\* The operators of the module, said of the arguments.
LEMMA SameTarget == \A i : TargetPtr(i) = TargetOf(build, i) /\ IsaOf(i) = TargetIsa(build, i)
  BY DEF TargetPtr, TargetOf, IsaOf, TargetIsa

\* Nothing is compiled at the start.
LEMMA MultiStart == MultiTargetInit => BuildInv
  <1> SUFFICES ASSUME MultiTargetInit PROVE BuildInv
    OBVIOUS
  <1>1. /\ build \in Builds /\ step = "validate" /\ current = 1 /\ result = "none" /\ modules = <<>> /\ files = {}
        /\ dispatch = [globals |-> {}, variants |-> {}, warned |-> {}]
    BY DEF MultiTargetInit
  <1>2. current \in Indices(build)
    BY <1>1, BuildFacts
  <1>3. Compiled(build, modules, current - 1) /\ Written(build, files, current - 1) /\ Len(modules) = current - 1
    BY <1>1 DEF Compiled, Written
  <1> QED BY <1>1, <1>2, <1>3 DEF BuildInv, BuildSteps

\* The arguments are checked.
LEMMA ValidateStep ==
    ASSUME BuildInv, lValidateMultiTargetInputs
    PROVE  BuildInv'
  <1>1. /\ step = "validate" /\ UNCHANGED <<build, current, modules, observers, files, dispatch>>
        /\ \/ step' = "done" /\ result' = "error"
           \/ step' = "create" /\ result' = result
    BY DEF lValidateMultiTargetInputs, Finish, GoOn
  <1> QED BY <1>1 DEF BuildInv, BuildSteps, Count, Multiple

\* A target and its module are made, and the observers refer to them.
LEMMA CreateStep ==
    ASSUME BuildInv, CreateTargetAndModule
    PROVE  BuildInv'
  <1> DEFINE target == TargetOf(build, current)
             new == [target |-> target, inits |-> {}]
  <1>1. /\ step = "create" /\ UNCHANGED <<build, current, files, dispatch>>
        /\ \/ step' = "done" /\ result' = "error" /\ modules' = modules
           \/ /\ target.status = "valid" /\ modules' = Append(modules, new)
              /\ observers' = [target |-> current, module |-> current]
              /\ step' = "compile" /\ result' = result
    BY SameTarget DEF CreateTargetAndModule, Finish, GoOn
  <1>2. CASE step' = "done" /\ result' = "error" /\ modules' = modules
    BY <1>1, <1>2 DEF BuildInv, BuildSteps
  <1>3. CASE /\ target.status = "valid" /\ modules' = Append(modules, new)
             /\ observers' = [target |-> current, module |-> current]
             /\ step' = "compile" /\ result' = result
    <2>1. /\ current \in Indices(build) /\ modules \in Seq(ModuleType(build)) /\ Len(modules) = current - 1
          /\ Compiled(build, modules, current - 1) /\ Written(build, files, current - 1) /\ build \in Builds
          /\ current \in Nat /\ result = "none"
          /\ dispatch = [globals |-> {}, variants |-> {}, warned |-> {}]
      BY <1>1 DEF BuildInv, Indices
    <2>2. new \in ModuleType(build)
      BY <2>1 DEF ModuleType
    <2> HIDE DEF new
    <2>3. /\ modules' \in Seq(ModuleType(build)) /\ Len(modules') = current /\ modules'[current] = new
          /\ \A i \in 1 .. current - 1 : modules'[i] = modules[i]
      BY <1>3, <2>1, <2>2
    <2>4. Compiled(build, modules', current - 1)
      BY <2>1, <2>3 DEF Compiled
    <2>5. modules'[current].target = target
      BY <2>3 DEF new
    <2> HIDE DEF target
    <2>6. target = TargetOf(build, current)
      BY DEF target
    <2> QED BY <1>1, <1>3, <2>1, <2>3, <2>4, <2>5, <2>6 DEF BuildInv, BuildSteps
  <1> QED BY <1>1, <1>2, <1>3

\* The module gets the globals that the source has for its target.
LEMMA CompileFileStep ==
    ASSUME BuildInv, CompileFile
    PROVE  BuildInv'
  <1>1. /\ step = "compile" /\ UNCHANGED <<build, current, observers, files, dispatch>>
        /\ \/ step' = "done" /\ result' = "error" /\ modules' = modules
           \/ /\ modules' = [modules EXCEPT ![observers.module].inits = build.source[current].globals]
              /\ step' = "write" /\ result' = result
    BY DEF CompileFile, Finish, GoOn
  <1>2. CASE step' = "done" /\ result' = "error" /\ modules' = modules
    BY <1>1, <1>2 DEF BuildInv, BuildSteps
  <1>3. CASE /\ modules' = [modules EXCEPT ![observers.module].inits = build.source[current].globals]
             /\ step' = "write" /\ result' = result
    <2>1. /\ current \in Indices(build) /\ modules \in Seq(ModuleType(build)) /\ Len(modules) = current
          /\ Compiled(build, modules, current - 1) /\ Written(build, files, current - 1) /\ build \in Builds
          /\ current \in Nat /\ current >= 1 /\ result = "none" /\ observers = [target |-> current, module |-> current]
          /\ modules[current].target = TargetOf(build, current) /\ TargetOf(build, current).status = "valid"
          /\ dispatch = [globals |-> {}, variants |-> {}, warned |-> {}]
      BY <1>1 DEF BuildInv, Indices
    <2> DEFINE globals == build.source[current].globals
               new == [modules[current] EXCEPT !.inits = globals]
    <2>2. globals \subseteq Globals
      BY <2>1, BuildFacts
    <2>3. modules' = [modules EXCEPT ![current] = new]
      BY <1>3, <2>1
    <2>4. modules[current] \in ModuleType(build)
      BY <2>1
    <2> HIDE DEF globals
    <2>5. new \in ModuleType(build) /\ new.target = TargetOf(build, current) /\ new.inits = globals
      BY <2>1, <2>2, <2>4 DEF ModuleType
    <2> HIDE DEF new
    <2>6. /\ modules' \in Seq(ModuleType(build)) /\ Len(modules') = current /\ modules'[current] = new
          /\ \A i \in 1 .. current - 1 : modules'[i] = modules[i]
      BY <2>1, <2>3, <2>5
    <2>7. Compiled(build, modules', current - 1)
      BY <2>1, <2>6 DEF Compiled
    <2>8. modules'[current].inits = build.source[current].globals
      BY <2>5, <2>6 DEF globals
    <2> QED BY <1>1, <1>3, <2>1, <2>5, <2>6, <2>7, <2>8 DEF BuildInv, BuildSteps
  <1> QED BY <1>1, <1>2, <1>3

\* A file under its name.
LEMMA RenamedFile ==
    ASSUME NEW i, NEW defined, NEW name
    PROVE  [FileOf(i, defined) EXCEPT !.name = name]
             = [name |-> name, from |-> build.targets[i], exports |-> build.source[i].exports, defines |-> defined]
  <1> DEFINE Files == [name : {"", name}, from : {build.targets[i]}, exports : {build.source[i].exports}, defines : {defined}]
             file == FileOf(i, defined)
             renamed == [file EXCEPT !.name = name]
             full == [name |-> name, from |-> build.targets[i], exports |-> build.source[i].exports, defines |-> defined]
  <1>1. file \in Files /\ full \in Files
    BY DEF FileOf
  <1> HIDE DEF file
  <1>2. renamed \in Files /\ renamed.name = name
    BY <1>1
  <1> HIDE DEF renamed
  <1>3. renamed.from = full.from /\ renamed.exports = full.exports /\ renamed.defines = full.defines /\ renamed.name = full.name
    BY <1>1, <1>2
  <1>4. renamed = full
    BY <1>1, <1>2, <1>3
  <1> QED BY <1>4 DEF renamed, file

\* The file of a target is written, with no globals if there are several, and
\* the initializers are back afterwards.
LEMMA WriteTargetStep ==
    ASSUME BuildInv, CompileSingleTarget
    PROVE  BuildInv'
  <1> DEFINE saved == IF Multiple THEN modules[current].inits ELSE {}
             reset == [modules[current] EXCEPT !.inits = @ \ saved]
             back == [reset EXCEPT !.inits = @ \cup saved]
             globals == build.source[current].globals
  <1>1. step = "write" /\ observers = [target |-> current, module |-> current] /\ UNCHANGED <<build, dispatch>>
    BY DEF CompileSingleTarget, BuildInv
  <1>2. /\ current \in Indices(build) /\ current \in Nat /\ current >= 1 /\ Count \in Nat /\ current <= Count
        /\ modules \in Seq(ModuleType(build)) /\ Len(modules) = current
        /\ Compiled(build, modules, current - 1) /\ Written(build, files, current - 1) /\ build \in Builds
        /\ modules[current].target = TargetOf(build, current) /\ TargetOf(build, current).status = "valid"
        /\ modules[current].inits = globals /\ result = "none"
        /\ dispatch = [globals |-> {}, variants |-> {}, warned |-> {}]
    BY <1>1, BuildFacts DEF BuildInv, Indices, Count
  <1>3. modules[current] \in [target : {TargetOf(build, i) : i \in Indices(build)}, inits : SUBSET Globals]
    <2>1. modules[current] \in ModuleType(build)
      BY <1>2
    <2> QED BY <2>1 DEF ModuleType
  <1>4. \/ step' = "done" /\ result' = "error" /\ UNCHANGED <<current, modules, observers, files>>
        \/ /\ ~Multiple /\ step' = "done" /\ result' = "ok" /\ UNCHANGED <<current, modules, observers>>
           /\ Write("out", FileOf(current, reset.inits))
        \/ /\ Multiple /\ Write(lGetMangledFileName(current), FileOf(current, reset.inits))
           /\ modules' = [modules EXCEPT ![current] = back]
           /\ current' = IF current < Count THEN current + 1 ELSE 1
           /\ step' = (IF current < Count THEN "create" ELSE "indices") /\ result' = result
    BY <1>1 DEF CompileSingleTarget, Finish, GoOn, restoreGlobalInitializers
  <1>5. CASE step' = "done" /\ result' = "error" /\ UNCHANGED <<current, modules, observers, files>>
    BY <1>1, <1>5 DEF BuildInv, BuildSteps
  <1>6. CASE /\ ~Multiple /\ step' = "done" /\ result' = "ok" /\ UNCHANGED <<current, modules, observers>>
             /\ Write("out", FileOf(current, reset.inits))
    <2>1. current = 1 /\ ~(Len(build.targets) > 1)
      <3>1. ~(Count > 1)
        BY <1>6 DEF Multiple
      <3>2. current = 1
        BY <1>2, <3>1
      <3> QED BY <3>1, <3>2 DEF Count
    <2>2. files = {}
      BY <1>2, <2>1 DEF Written
    <2>3. reset.inits = globals
      BY <1>2, <1>3, <1>6
    <2>4. files' = {OnlyFile(build)}
      <3>1. Write("out", FileOf(1, globals))
        BY <1>6, <2>1, <2>3
      <3>2. [FileOf(1, globals) EXCEPT !.name = "out"] = OnlyFile(build)
        BY <2>1, RenamedFile DEF OnlyFile
      <3> QED BY <2>2, <3>1, <3>2 DEF Write
    <2> QED BY <1>1, <1>2, <1>6, <2>1, <2>4 DEF BuildInv, BuildSteps, Succeeded
  <1>7. CASE /\ Multiple /\ Write(lGetMangledFileName(current), FileOf(current, reset.inits))
             /\ modules' = [modules EXCEPT ![current] = back]
             /\ current' = IF current < Count THEN current + 1 ELSE 1
             /\ step' = (IF current < Count THEN "create" ELSE "indices") /\ result' = result
    <2>1. back = modules[current]
      BY <1>3, <1>7
    <2>2. modules' = modules
      BY <1>2, <1>7, <2>1
    <2>3. reset.inits = {}
      BY <1>3, <1>7
    <2>4. files' = {f \in files : f.name # NameOf(build, current)} \cup {TargetFile(build, current)}
      <3>1. Write(NameOf(build, current), FileOf(current, {}))
        BY <1>2, <1>7, <2>3 DEF lGetMangledFileName, NameOf
      <3>2. [FileOf(current, {}) EXCEPT !.name = NameOf(build, current)] = TargetFile(build, current)
        BY RenamedFile DEF TargetFile
      <3> QED BY <3>1, <3>2 DEF Write
    <2>5. Compiled(build, modules', current)
      BY <1>2, <2>2 DEF Compiled
    <2>6. Written(build, files', current)
      <3>1. ASSUME NEW f \in files' PROVE \E i \in 1 .. current : f = TargetFile(build, i)
        BY <1>2, <2>4, <3>1 DEF Written
      <3>2. ASSUME NEW i \in 1 .. current
            PROVE  \E j \in 1 .. current : NameOf(build, j) = NameOf(build, i) /\ TargetFile(build, j) \in files'
        <4>1. CASE NameOf(build, i) = NameOf(build, current)
          BY <1>2, <2>4, <4>1
        <4>2. CASE NameOf(build, i) # NameOf(build, current)
          <5>1. i \in 1 .. current - 1
            BY <1>2, <4>2
          <5>2. PICK j \in 1 .. current - 1 : NameOf(build, j) = NameOf(build, i) /\ TargetFile(build, j) \in files
            BY <1>2, <5>1 DEF Written
          <5>3. TargetFile(build, j).name = NameOf(build, j)
            BY DEF TargetFile
          <5> QED BY <1>2, <2>4, <4>2, <5>2, <5>3
        <4> QED BY <4>1, <4>2
      <3> QED BY <3>1, <3>2 DEF Written
    <2>7. CASE current < Count
      <3>1. current' \in Indices(build) /\ current' - 1 = current
        BY <1>2, <1>7, <2>7 DEF Indices, Count
      <3> QED BY <1>1, <1>2, <1>7, <2>2, <2>5, <2>6, <2>7, <3>1 DEF BuildInv, BuildSteps
    <2>8. CASE ~(current < Count)
      <3>1. current = Count /\ current' = 1 /\ 1 \in Indices(build) /\ Count' = Count /\ Multiple'
        BY <1>1, <1>2, <1>7, <2>8, BuildFacts DEF Count, Multiple
      <3> QED BY <1>1, <1>2, <1>7, <2>2, <2>5, <2>6, <2>8, <3>1 DEF BuildInv, BuildSteps
    <2> QED BY <2>7, <2>8
  <1> QED BY <1>4, <1>5, <1>6, <1>7

\* The greater of two numbers is one of them.
LEMMA MaxOfTwo ==
    ASSUME NEW i \in Nat, NEW j \in Nat
    PROVE  Max({i, j}) \in {i, j}
  <1>1. \E x \in {i, j} : \A y \in {i, j} : x >= y
    OBVIOUS
  <1> QED BY <1>1 DEF Max

\* The check of the ISAs lets pass targets that do not clash: the first one that
\* is of no ISA is met before, or after a clash.
LEMMA IndicesStep ==
    ASSUME BuildInv, lCheckAndFillISAIndices
    PROVE  BuildInv'
  <1> DEFINE clash(i, j) == IsaOf(i) = IsaOf(j) \/ {IsaOf(i), IsaOf(j)} = {ISA.SSE41, ISA.SSE42}
             unexpected == \E i \in 1 .. Count : /\ IsaOf(i) = ISA.NUM_ISAS
                                                /\ \A j, k \in 1 .. i - 1 : j # k => ~clash(j, k)
             clashes == \E i, j \in 1 .. Count :
                          i # j /\ clash(i, j) /\ \A k \in 1 .. Max({i, j}) : IsaOf(k) # ISA.NUM_ISAS
  <1>1. /\ step = "indices" /\ UNCHANGED <<build, current, modules, observers, files, dispatch>>
        /\ CASE unexpected -> Finish("abort") [] clashes -> Finish("error") [] OTHER -> GoOn("extract")
    BY DEF lCheckAndFillISAIndices
  <1> HIDE DEF unexpected, clashes
  <1>2. \/ step' = "done" /\ result' \in {"abort", "error"}
        \/ ~unexpected /\ ~clashes /\ step' = "extract" /\ result' = result
    BY <1>1 DEF Finish, GoOn
  <1>3. CASE step' = "done" /\ result' \in {"abort", "error"}
    BY <1>1, <1>3 DEF BuildInv, BuildSteps
  <1>4. CASE ~unexpected /\ ~clashes /\ step' = "extract" /\ result' = result
    <2>1. /\ build \in Builds /\ current = 1 /\ Count \in Nat /\ Multiple /\ result = "none"
          /\ dispatch = [globals |-> {}, variants |-> {}, warned |-> {}]
      BY <1>1, BuildFacts DEF BuildInv, Count
    <2>2. \A i, j \in 1 .. Count : Max({i, j}) \in 1 .. Count
      BY <2>1, MaxOfTwo
    <2>3. \A i \in 1 .. Count : IsaOf(i) # ISA.NUM_ISAS
      <3> DEFINE S == {i \in 1 .. Count : IsaOf(i) = ISA.NUM_ISAS}
      <3> SUFFICES ASSUME S # {} PROVE FALSE
        OBVIOUS
      <3>1. S \subseteq Nat
        BY <2>1
      <3>2. PICK n \in S : \A m \in S : n <= m
        <4> HIDE DEF S
        <4> QED BY <3>1, LeastNumber
      <3>3. n \in 1 .. Count /\ IsaOf(n) = ISA.NUM_ISAS
        BY <3>2
      <3>4. PICK j \in 1 .. n - 1, k \in 1 .. n - 1 : j # k /\ clash(j, k)
        BY <1>4, <3>3 DEF unexpected
      <3>5. j \in 1 .. Count /\ k \in 1 .. Count /\ Max({j, k}) \in 1 .. n - 1
        BY <2>1, <3>3, <3>4, MaxOfTwo
      <3>6. \A l \in 1 .. Max({j, k}) : IsaOf(l) # ISA.NUM_ISAS
        BY <2>1, <3>2, <3>3, <3>5
      <3> QED BY <1>4, <3>4, <3>5, <3>6 DEF clashes
    <2>4. \A i, j \in 1 .. Count : i # j => ~clash(i, j)
      <3> SUFFICES ASSUME NEW i \in 1 .. Count, NEW j \in 1 .. Count, i # j, clash(i, j) PROVE FALSE
        OBVIOUS
      <3>1. \A k \in 1 .. Max({i, j}) : IsaOf(k) # ISA.NUM_ISAS
        BY <2>1, <2>2, <2>3
      <3> QED BY <1>4, <3>1 DEF clashes
    <2>5. Distinct(build)
      BY <2>3, <2>4, SameTarget DEF Distinct, ClashOf, Indices, Count
    <2>6. Extracted(build, dispatch, 0)
      BY <2>1 DEF Extracted
    <2>7. current - 1 = 0 /\ Count' = Count /\ Multiple'
      BY <1>1, <2>1 DEF Count, Multiple
    <2> QED BY <1>1, <1>4, <2>1, <2>5, <2>6, <2>7 DEF BuildInv, BuildSteps
  <1> QED BY <1>2, <1>3, <1>4

\* A global that is aligned for one target more.
LEMMA UpgradeFacts ==
    ASSUME NEW gv \in DispatchGlobal, NEW a \in Nat
    PROVE  LET u == lUpgradeGlobalVariableAlignment(gv, a)
           IN  /\ u \in DispatchGlobal /\ u.name = gv.name /\ u.layout = gv.layout
               /\ gv.align <= u.align /\ a <= u.align
  BY DEF lUpgradeGlobalVariableAlignment, DispatchGlobal

\* What the module of a target says of its alignment and the layout of globals.
LEMMA ModuleFacts ==
    ASSUME NEW i \in Indices(build), build \in Builds, Compiled(build, modules, Len(build.targets)), Distinct(build)
    PROVE  /\ modules[i].inits = build.source[i].globals /\ modules[i].target.isa = TargetOf(build, i).isa
           /\ Align(i) = AlignOf(build, i) /\ AlignOf(build, i) \in Nat
           /\ \A gv : Layout(gv, i) = LayoutOf(build, gv, i) /\ LayoutOf(build, gv, i) \in Nat
  <1>1. /\ modules[i].target = TargetOf(build, i) /\ TargetOf(build, i).status = "valid"
        /\ modules[i].inits = build.source[i].globals
    BY DEF Compiled, Indices
  <1>2. build.targets[i] \in ISPCTargets \cup {NoTarget, HostTarget} /\ TargetIsa(build, i) # ISA.NUM_ISAS
    BY BuildFacts DEF Distinct
  <1>3. TargetOf(build, i).row.align \in Nat /\ TargetOf(build, i).row.lanes \in Nat
    BY <1>1, <1>2, TargetFacts
  <1> QED BY <1>1, <1>3 DEF Align, AlignOf, Layout, LayoutOf

\* The globals and the variants of one more target are extracted.
LEMMA ExtractStep ==
    ASSUME BuildInv, lExtractOrCheckGlobals
    PROVE  BuildInv'
  <1> DEFINE i == current
             source == modules[i].inits
             known == {gv.name : gv \in dispatch.globals}
             extracted == {[name |-> n, align |-> Align(i), layout |-> Layout(n, i)] : n \in source}
             checked == {IF gv.name \in source THEN lUpgradeGlobalVariableAlignment(gv, Align(i)) ELSE gv : gv \in dispatch.globals}
             mismatched == {gv.name : gv \in {h \in dispatch.globals : h.name \in source /\ h.layout # Layout(h.name, i)}}
             new == [globals |-> IF i = 1 THEN extracted ELSE checked,
                     variants |-> dispatch.variants \cup {<<f, modules[i].target.isa>> : f \in build.source[i].exports},
                     warned |-> dispatch.warned \cup (IF i = 1 THEN {} ELSE mismatched)]
  <1>1. /\ step = "extract" /\ UNCHANGED <<build, modules, files>>
        /\ \/ step' = "done" /\ result' = "abort" /\ current' = current
           \/ /\ i = 1 \/ source \subseteq known
              /\ dispatch' = new
              /\ current' = IF i < Count THEN i + 1 ELSE i
              /\ step' = (IF i < Count THEN "extract" ELSE "emit") /\ result' = result
    BY DEF lExtractOrCheckGlobals, Finish, GoOn
  <1>2. CASE step' = "done" /\ result' = "abort" /\ current' = current
    BY <1>1, <1>2 DEF BuildInv, BuildSteps
  <1>3. CASE /\ i = 1 \/ source \subseteq known
             /\ dispatch' = new
             /\ current' = IF i < Count THEN i + 1 ELSE i
             /\ step' = (IF i < Count THEN "extract" ELSE "emit") /\ result' = result
    <2>1. /\ build \in Builds /\ i \in Indices(build) /\ i \in Nat /\ i >= 1 /\ Count \in Nat /\ i <= Count /\ Multiple
          /\ Count = Len(build.targets) /\ Indices(build) = 1 .. Count
          /\ modules \in Seq(ModuleType(build)) /\ Len(modules) = Count /\ result = "none"
          /\ Compiled(build, modules, Count) /\ Written(build, files, Count)
          /\ Distinct(build) /\ Extracted(build, dispatch, i - 1)
      BY <1>1, BuildFacts DEF BuildInv, Indices, Count
    <2>2. \A j \in 1 .. Count :
            /\ modules[j].inits = build.source[j].globals /\ modules[j].target.isa = TargetOf(build, j).isa
            /\ Align(j) = AlignOf(build, j) /\ AlignOf(build, j) \in Nat
            /\ \A gv : Layout(gv, j) = LayoutOf(build, gv, j) /\ LayoutOf(build, gv, j) \in Nat
      BY <2>1, ModuleFacts
    <2>3. source = build.source[i].globals /\ source \subseteq Globals
      BY <2>1, <2>2, BuildFacts
    <2>4. new.variants = UNION {{<<f, TargetOf(build, j).isa>> : f \in build.source[j].exports} : j \in 1 .. i}
      <3> DEFINE V(j) == {<<f, TargetOf(build, j).isa>> : f \in build.source[j].exports}
      <3>1. dispatch.variants = UNION {V(j) : j \in 1 .. i - 1}
        BY <2>1 DEF Extracted
      <3>2. new.variants = dispatch.variants \cup V(i)
        BY <2>1, <2>2
      <3> HIDE DEF V, new
      <3>3. \A j : j \in 1 .. i <=> j \in 1 .. i - 1 \/ j = i
        BY <2>1
      <3>4. \A x : x \in new.variants <=> \E j \in 1 .. i : x \in V(j)
        BY <3>1, <3>2, <3>3
      <3>5. new.variants = UNION {V(j) : j \in 1 .. i}
        BY <3>4
      <3> QED BY <3>5 DEF V
    <2>5. Extracted(build, new, i)
      <3>1. CASE i = 1
        <4>1. new.globals = extracted
          BY <3>1
        <4>2. extracted \subseteq DispatchGlobal
          BY <2>1, <2>2, <2>3 DEF DispatchGlobal
        <4>3. {gv.name : gv \in extracted} = build.source[1].globals
          <5>1. \A gv \in extracted : gv.name \in source
            OBVIOUS
          <5>2. ASSUME NEW n \in source PROVE \E gv \in extracted : gv.name = n
            <6>1. [name |-> n, align |-> Align(i), layout |-> Layout(n, i)] \in extracted
              OBVIOUS
            <6> HIDE DEF extracted
            <6> QED BY <6>1
          <5> HIDE DEF extracted, source
          <5> QED BY <2>3, <3>1, <5>1, <5>2
        <4>4. \A gv \in extracted : gv.align = AlignOf(build, 1) /\ gv.layout = LayoutOf(build, gv.name, 1)
          BY <2>1, <2>2, <3>1
        <4>5. \A j \in 1 .. i : j = 1
          BY <3>1
        <4>6. \A gv \in extracted : \A j \in 1 .. i :
                 AlignOf(build, j) <= gv.align /\ LayoutOf(build, gv.name, j) = gv.layout
          <5>1. 1 \in 1 .. Count /\ AlignOf(build, 1) \in Nat
            BY <2>1, <2>2
          <5> QED BY <4>4, <4>5, <5>1
        <4> HIDE DEF new, extracted
        <4> QED BY <2>4, <3>1, <4>1, <4>2, <4>3, <4>5, <4>6 DEF Extracted
      <3>2. CASE i # 1
        <4> DEFINE d == dispatch
                   Up(gv) == IF gv.name \in source THEN lUpgradeGlobalVariableAlignment(gv, Align(i)) ELSE gv
        <4>1. /\ d.globals \subseteq DispatchGlobal /\ {gv.name : gv \in d.globals} = build.source[1].globals
              /\ \A j \in 1 .. i - 1 : build.source[j].globals \subseteq build.source[1].globals
              /\ \A gv \in d.globals : \A j \in 1 .. i - 1 : gv.name \in build.source[j].globals =>
                    /\ AlignOf(build, j) <= gv.align
                    /\ LayoutOf(build, gv.name, j) = gv.layout \/ gv.name \in d.warned
          BY <2>1, <3>2 DEF Extracted
        <4>2. /\ source \subseteq build.source[1].globals
              /\ new.globals = {Up(gv) : gv \in d.globals} /\ new.warned = d.warned \cup mismatched
          BY <1>3, <3>2, <4>1
        <4>3. ASSUME NEW gv \in d.globals
              PROVE  /\ Up(gv) \in DispatchGlobal /\ Up(gv).name = gv.name /\ Up(gv).layout = gv.layout
                     /\ gv.align <= Up(gv).align /\ gv.align \in Nat /\ Up(gv).align \in Nat
                     /\ gv.name \in source => AlignOf(build, i) <= Up(gv).align
          <5>1. gv \in DispatchGlobal /\ Align(i) = AlignOf(build, i) /\ Align(i) \in Nat
            BY <2>1, <2>2, <4>1
          <5>2. CASE gv.name \in source
            BY <5>1, <5>2, UpgradeFacts DEF DispatchGlobal
          <5>3. CASE gv.name \notin source
            BY <5>1, <5>3 DEF DispatchGlobal
          <5> QED BY <5>2, <5>3
        <4>4. ASSUME NEW gv \in d.globals, gv.name \in source
              PROVE  LayoutOf(build, gv.name, i) = gv.layout \/ gv.name \in mismatched
          BY <2>1, <2>2, <4>4
        <4> HIDE DEF Up, new, mismatched, d
        <4>5. new.globals \subseteq DispatchGlobal
          BY <4>2, <4>3
        <4>6. {gv.name : gv \in new.globals} = {gv.name : gv \in d.globals}
          BY <4>2, <4>3
        <4>7. \A j \in 1 .. i : build.source[j].globals \subseteq build.source[1].globals
          <5>1. \A j \in 1 .. i : j \in 1 .. i - 1 \/ j = i
            BY <2>1
          <5> QED BY <2>3, <4>1, <4>2, <5>1
        <4>8. ASSUME NEW gv \in d.globals, NEW j \in 1 .. i, gv.name \in build.source[j].globals
              PROVE  /\ AlignOf(build, j) <= Up(gv).align
                     /\ LayoutOf(build, gv.name, j) = Up(gv).layout \/ gv.name \in new.warned
          <5>1. CASE j = i
            BY <2>1, <2>3, <4>2, <4>3, <4>4, <4>8, <5>1
          <5>2. CASE j # i
            <6>1. j \in 1 .. i - 1 /\ j \in 1 .. Count
              BY <2>1, <5>2
            <6>2. AlignOf(build, j) <= gv.align /\ (LayoutOf(build, gv.name, j) = gv.layout \/ gv.name \in d.warned)
              BY <4>1, <4>8, <6>1
            <6>3. AlignOf(build, j) \in Nat
              BY <2>2, <6>1
            <6> QED BY <4>2, <4>3, <6>2, <6>3
          <5> QED BY <5>1, <5>2
        <4>9. ASSUME NEW hv \in new.globals, NEW j \in 1 .. i, hv.name \in build.source[j].globals
              PROVE  /\ AlignOf(build, j) <= hv.align
                     /\ LayoutOf(build, hv.name, j) = hv.layout \/ hv.name \in new.warned
          <5>1. PICK gv \in d.globals : hv = Up(gv)
            BY <4>2
          <5> QED BY <4>3, <4>8, <4>9, <5>1
        <4>10. \A gv \in new.globals : \A j \in 1 .. i : gv.name \in build.source[j].globals =>
                  /\ AlignOf(build, j) <= gv.align
                  /\ LayoutOf(build, gv.name, j) = gv.layout \/ gv.name \in new.warned
          BY <4>9
        <4>11. {gv.name : gv \in new.globals} = build.source[1].globals
          <5>1. {gv.name : gv \in d.globals} = build.source[1].globals
            BY <4>1
          <5> HIDE DEF i, source
          <5> QED BY <4>6, <5>1, Zenon
        <4>12. i # 0 /\ new.globals \subseteq DispatchGlobal
          BY <2>1, <4>5
        <4> QED BY <2>4, <4>7, <4>10, <4>11, <4>12 DEF Extracted
      <3> QED BY <3>1, <3>2
    <2> HIDE DEF new
    <2>6. Count' = Count /\ Multiple'
      BY <1>1, <2>1 DEF Count, Multiple
    <2>7. CASE i < Count
      <3>1. current' \in Indices(build) /\ current' - 1 = i
        BY <1>3, <2>1, <2>7
      <3> QED BY <1>1, <1>3, <2>1, <2>5, <2>6, <2>7, <3>1 DEF BuildInv, BuildSteps
    <2>8. CASE ~(i < Count)
      <3>1. i = Count /\ current' = current
        BY <1>3, <2>1, <2>8
      <3> QED BY <1>1, <1>3, <2>1, <2>5, <2>6, <2>8, <3>1 DEF BuildInv, BuildSteps
    <2> QED BY <2>7, <2>8
  <1> QED BY <1>1, <1>2, <1>3

\* The dispatch module is written.
LEMMA EmitStep ==
    ASSUME BuildInv, lEmitDispatchModule
    PROVE  BuildInv'
  <1> DEFINE common == CHOOSE i \in 1 .. Count : \A j \in 1 .. Count : IsaOf(i) <= IsaOf(j)
             names == {gv.name : gv \in dispatch.globals}
             exports == {v[1] : v \in dispatch.variants}
             file == [FileOf(common, names) EXCEPT !.exports = exports]
             out == [file EXCEPT !.name = "out"]
  <1>1. /\ step = "emit" /\ UNCHANGED <<build, current, modules, dispatch>> /\ step' = "done"
        /\ \/ result' = "error"
           \/ result' = "ok" /\ Write("out", file)
    BY DEF lEmitDispatchModule, Finish
  <1>2. /\ build \in Builds /\ Multiple /\ Count = Len(build.targets) /\ Count \in Nat /\ Count >= 1
        /\ Len(modules) = Count /\ Compiled(build, modules, Count) /\ Written(build, files, Count)
        /\ Distinct(build) /\ Extracted(build, dispatch, Count) /\ Indices(build) = 1 .. Count
    BY <1>1, BuildFacts DEF BuildInv, Count, Indices
  <1>3. CASE result' = "error"
    BY <1>1, <1>3 DEF BuildInv, BuildSteps
  <1>4. CASE result' = "ok" /\ Write("out", file)
    <2>1. \A i \in Indices(build) : /\ build.targets[i] \in ISPCTargets \cup {NoTarget, HostTarget}
                                    /\ TargetOf(build, i).status = "valid" /\ TargetIsa(build, i) # ISA.NUM_ISAS
      BY <1>2, BuildFacts DEF Compiled, Distinct
    <2>2. \A i \in Indices(build) : NameOf(build, i) # "out" /\ TargetFile(build, i).name = NameOf(build, i)
      <3>1. \A i : TargetFile(build, i).name = NameOf(build, i)
        BY DEF TargetFile
      <3> QED BY <2>1, <3>1, TargetFacts, OutIsNoFamily
    <2>3. files = {TargetFile(build, i) : i \in Indices(build)}
      <3>1. ASSUME NEW f \in files PROVE f \in {TargetFile(build, i) : i \in Indices(build)}
        BY <1>2, <3>1 DEF Written
      <3>2. ASSUME NEW i \in Indices(build) PROVE TargetFile(build, i) \in files
        <4>1. PICK j \in 1 .. Count : NameOf(build, j) = NameOf(build, i) /\ TargetFile(build, j) \in files
          BY <1>2 DEF Written
        <4>2. j = i
          BY <1>2, <2>1, <4>1, NamesDiffer
        <4> QED BY <4>1, <4>2
      <3> QED BY <3>1, <3>2
    <2>4. {f \in files : f.name # "out"} = files
      BY <2>2, <2>3
    <2>5. out.name = "out" /\ out.defines = names
      <3> DEFINE base == FileOf(common, names)
      <3>1. base \in [name : {""}, from : {build.targets[common]}, exports : {build.source[common].exports}, defines : {names}]
        BY DEF FileOf
      <3> HIDE DEF base, names, exports
      <3>2. base.defines = names /\ file = [base EXCEPT !.exports = exports]
        BY <3>1 DEF base
      <3> HIDE DEF file
      <3>3. file \in [name : {""}, from : {build.targets[common]}, exports : {exports}, defines : {names}]
        BY <3>1, <3>2
      <3> QED BY <3>3
    <2>6. names = build.source[1].globals
      BY <1>2 DEF Extracted
    <2> HIDE DEF out, names
    <2>7. IsDispatchFile(build, out)
      BY <2>5, <2>6 DEF IsDispatchFile
    <2>8. files' = {TargetFile(build, i) : i \in Indices(build)} \cup {out}
      <3>1. files' = {f \in files : f.name # "out"} \cup {out}
        BY <1>4 DEF Write, out
      <3> QED BY <2>3, <2>4, <3>1
    <2>9. Succeeded(build, modules, files', dispatch)
      <3>1. out \in files' /\ Len(build.targets) > 1
        BY <1>2, <2>8 DEF Multiple
      <3> QED BY <1>2, <2>7, <2>8, <3>1 DEF Succeeded
    <2> QED BY <1>1, <1>4, <2>9 DEF BuildInv, BuildSteps
  <1> QED BY <1>1, <1>3, <1>4

\* Every step keeps the invariant.
LEMMA MultiNextKeeps == BuildInv /\ [MultiTargetNext]_multiVars => BuildInv'
  <1> SUFFICES ASSUME BuildInv, [MultiTargetNext]_multiVars PROVE BuildInv'
    OBVIOUS
  <1>1. CASE UNCHANGED multiVars
    BY <1>1 DEF multiVars, BuildInv, Count, Multiple
  <1>2. CASE lValidateMultiTargetInputs BY <1>2, ValidateStep
  <1>3. CASE CreateTargetAndModule BY <1>3, CreateStep
  <1>4. CASE CompileFile BY <1>4, CompileFileStep
  <1>5. CASE CompileSingleTarget BY <1>5, WriteTargetStep
  <1>6. CASE lCheckAndFillISAIndices BY <1>6, IndicesStep
  <1>7. CASE lExtractOrCheckGlobals BY <1>7, ExtractStep
  <1>8. CASE lEmitDispatchModule BY <1>8, EmitStep
  <1> QED BY <1>1, <1>2, <1>3, <1>4, <1>5, <1>6, <1>7, <1>8 DEF MultiTargetNext

\* The files of a compilation for several targets are one for each, and the
\* dispatch module's.
LEMMA FilesCounted ==
    ASSUME NEW b \in Builds, Distinct(b), NEW out, out.name = "out",
           \A i \in Indices(b) : TargetOf(b, i).status = "valid"
    PROVE  Cardinality({TargetFile(b, i) : i \in Indices(b)} \cup {out}) = Len(b.targets) + 1
  <1> DEFINE n == Len(b.targets)
             T == {TargetFile(b, i) : i \in 1 .. n}
             F == [i \in 1 .. n |-> TargetFile(b, i)]
  <1>1. n \in Nat /\ Indices(b) = 1 .. n
    BY BuildFacts DEF Indices
  <1>2. \A i \in 1 .. n : /\ b.targets[i] \in ISPCTargets \cup {NoTarget, HostTarget}
                          /\ TargetOf(b, i).status = "valid" /\ TargetIsa(b, i) # ISA.NUM_ISAS
    BY <1>1, BuildFacts DEF Distinct
  <1>3. \A i : TargetFile(b, i).name = NameOf(b, i)
    BY DEF TargetFile
  <1>4. \A i \in 1 .. n : NameOf(b, i) # "out" /\ \A j \in 1 .. n : i # j => NameOf(b, i) # NameOf(b, j)
    <2>1. ASSUME NEW i \in 1 .. n PROVE NameOf(b, i) # "out"
      BY <1>2, TargetFacts, OutIsNoFamily
    <2>2. ASSUME NEW i \in 1 .. n, NEW j \in 1 .. n, i # j PROVE NameOf(b, i) # NameOf(b, j)
      <3> HIDE DEF n
      <3>1. i \in Indices(b) /\ j \in Indices(b)
        BY <1>1
      <3>2. \A k \in Indices(b) : b.targets[k] \in ISPCTargets \cup {NoTarget, HostTarget} /\ TargetOf(b, k).status = "valid"
        BY <1>1, <1>2
      <3> QED BY <2>2, <3>1, <3>2, NamesDiffer
    <2> QED BY <2>1, <2>2
  <1> HIDE DEF n
  <1>5. F \in Bijection(1 .. n, T)
    <2>1. F \in [1 .. n -> T] /\ \A i \in 1 .. n : F[i] = TargetFile(b, i)
      OBVIOUS
    <2>2. \A i, j \in 1 .. n : F[i] = F[j] => i = j
      BY <1>3, <1>4, <2>1
    <2>3. \A t \in T : \E i \in 1 .. n : F[i] = t
      OBVIOUS
    <2> HIDE DEF F, T
    <2> QED BY <2>1, <2>2, <2>3 DEF Bijection, Injection, Surjection, IsInjective
  <1>6. IsFiniteSet(1 .. n) /\ Cardinality(1 .. n) = n
    BY <1>1, FS_Interval
  <1>7. out \notin T
    BY <1>3, <1>4
  <1> HIDE DEF F, T
  <1>8. IsFiniteSet(T) /\ Cardinality(T) = n
    BY <1>5, <1>6, FS_Bijection DEF ExistsBijection
  <1>9. Cardinality(T \cup {out}) = n + 1
    BY <1>7, <1>8, FS_AddElement
  <1> QED BY <1>1, <1>9 DEF T, n

\* The invariant says that the outputs are sound.
LEMMA InvIsSound == BuildInv => OutputsSound
  <1> SUFFICES ASSUME BuildInv, result = "ok" PROVE OutputsSound
    BY DEF OutputsSound
  <1> DEFINE has(i, gv) == gv \in build.source[i].globals
  <1>1. /\ build \in Builds /\ Succeeded(build, modules, files, dispatch)
        /\ Count = Len(build.targets) /\ Count \in Nat /\ Count >= 1 /\ Indices(build) = 1 .. Count
    BY BuildFacts DEF BuildInv, Count, Indices
  <1>2. CASE ~Multiple
    <2>1. files = {OnlyFile(build)} /\ Count = 1
      <3>1. ~(Len(build.targets) > 1)
        BY <1>1, <1>2 DEF Multiple
      <3>2. files = {OnlyFile(build)}
        BY <1>1, <3>1 DEF Succeeded
      <3>3. Count = 1
        <4>1. Count \in Nat /\ Count >= 1
          BY <1>1
        <4>2. ~(Count > 1)
          BY <1>2 DEF Multiple
        <4> QED BY <4>1, <4>2
      <3> QED BY <3>2, <3>3
    <2>2. /\ OnlyFile(build).from = build.targets[1] /\ OnlyFile(build).exports = build.source[1].exports
          /\ OnlyFile(build).defines = build.source[1].globals
      BY DEF OnlyFile
    <2>3. \A i \in 1 .. Count : i = 1
      BY <2>1
    <2>4. \A i \in 1 .. Count : \E f \in files : f.from = build.targets[i] /\ build.source[i].exports \subseteq f.exports
      BY <2>1, <2>2, <2>3
    <2>5. Cardinality(files) = 1
      BY <2>1, FS_Singleton
    <2>6. ASSUME NEW gv \in Globals, \E i \in 1 .. Count : has(i, gv)
          PROVE  Cardinality({f \in files : gv \in f.defines}) = 1
      <3>1. {f \in files : gv \in f.defines} = {OnlyFile(build)}
        BY <2>1, <2>2, <2>3, <2>6
      <3> QED BY <3>1, FS_Singleton
    <2> QED BY <1>2, <2>4, <2>5, <2>6 DEF OutputsSound
  <1>3. CASE Multiple
    <2>1. /\ Compiled(build, modules, Count) /\ Distinct(build) /\ Extracted(build, dispatch, Count)
          /\ \E out \in files : IsDispatchFile(build, out) /\ files = {TargetFile(build, i) : i \in Indices(build)} \cup {out}
      BY <1>1, <1>3 DEF Multiple, Succeeded
    <2>2. PICK out \in files : IsDispatchFile(build, out) /\ files = {TargetFile(build, i) : i \in Indices(build)} \cup {out}
      BY <2>1
    <2>3. \A i : /\ TargetFile(build, i).from = build.targets[i] /\ TargetFile(build, i).exports = build.source[i].exports
                 /\ TargetFile(build, i).defines = {}
      BY DEF TargetFile
    <2>4. \A i \in 1 .. Count : \E f \in files : f.from = build.targets[i] /\ build.source[i].exports \subseteq f.exports
      BY <1>1, <2>2, <2>3
    <2>5. Cardinality(files) = Count + 1
      <3>1. \A i \in Indices(build) : TargetOf(build, i).status = "valid"
        BY <1>1, <2>1 DEF Compiled
      <3>2. out.name = "out"
        BY <2>2 DEF IsDispatchFile
      <3>3. Cardinality({TargetFile(build, i) : i \in Indices(build)} \cup {out}) = Len(build.targets) + 1
        BY <1>1, <2>1, <3>1, <3>2, FilesCounted
      <3> QED BY <1>1, <2>2, <3>3
    <2>6. ASSUME NEW gv \in Globals, \E i \in 1 .. Count : has(i, gv)
          PROVE  Cardinality({f \in files : gv \in f.defines}) = 1
      <3>1. gv \in build.source[1].globals
        BY <2>1, <2>6 DEF Extracted
      <3>2. gv \in out.defines
        BY <2>2, <3>1 DEF IsDispatchFile
      <3>3. {f \in files : gv \in f.defines} = {out}
        BY <2>2, <2>3, <3>2
      <3> QED BY <3>3, FS_Singleton
    <2>7. \A i \in 1 .. Count :
            /\ modules[i].target.isa = TargetOf(build, i).isa
            /\ Align(i) = AlignOf(build, i) /\ AlignOf(build, i) \in Nat
            /\ \A gv : Layout(gv, i) = LayoutOf(build, gv, i)
      BY <1>1, <2>1, ModuleFacts
    <2>8. ASSUME NEW gv \in dispatch.globals, NEW i \in 1 .. Count, NEW j \in 1 .. Count, has(i, gv.name), has(j, gv.name)
          PROVE  gv.align >= Align(i) /\ (Layout(gv.name, i) # Layout(gv.name, j) => gv.name \in dispatch.warned)
      <3>1. gv \in DispatchGlobal /\ gv.align \in Nat
        BY <2>1 DEF Extracted, DispatchGlobal
      <3>2. /\ AlignOf(build, i) <= gv.align
            /\ LayoutOf(build, gv.name, i) = gv.layout \/ gv.name \in dispatch.warned
            /\ LayoutOf(build, gv.name, j) = gv.layout \/ gv.name \in dispatch.warned
        BY <2>1, <2>8 DEF Extracted
      <3> QED BY <2>7, <3>1, <3>2
    <2>9. dispatch.variants = UNION {{<<f, modules[i].target.isa>> : f \in build.source[i].exports} : i \in 1 .. Count}
      <3>1. dispatch.variants = UNION {{<<f, TargetOf(build, i).isa>> : f \in build.source[i].exports} : i \in 1 .. Count}
        BY <2>1 DEF Extracted
      <3>2. \A i \in 1 .. Count : {<<f, modules[i].target.isa>> : f \in build.source[i].exports}
                                    = {<<f, TargetOf(build, i).isa>> : f \in build.source[i].exports}
        BY <2>7
      <3> QED BY <3>1, <3>2
    <2> QED BY <1>3, <2>4, <2>5, <2>6, <2>8, <2>9 DEF OutputsSound
  <1> QED BY <1>2, <1>3

\* Whatever a source defines for each of its targets, however many they are and
\* in whatever order: after a compilation that succeeds every target's code is in
\* a file of its own, every global is defined once, as aligned as all that use it
\* count on, and every exported function has its variants (OutputsSound).
THEOREM OutputsAreSound == MultiTargetSpec => []OutputsSound
  <1> QED BY MultiStart, MultiNextKeeps, InvIsSound, PTL DEF MultiTargetSpec
=============================================================================
