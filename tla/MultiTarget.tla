----------------------------- MODULE MultiTarget ----------------------------
(***************************************************************************)
(* Compiling a source file for one target or for several: CompileAndOutput *)
(* of src/src/module.cpp and what it calls.  For several targets the file  *)
(* is compiled once for each, into a file of its own that only declares    *)
(* the globals; the dispatch module defines them, and a dispatch function  *)
(* for every exported function.  The preprocessor sees the target, so what *)
(* a target's code defines may depend on it.                               *)
(***************************************************************************)
EXTENDS Targets, Sequences

CONSTANTS
    Globals,    \* names of external globals
    Varyings,   \* those whose type depends on the number of lanes
    Builds      \* what may be compiled: see build

\* A build has a target, NoTarget where none is named, and the source is
\* preprocessed for each.
ASSUME BuildsAssumption ==
    \A b \in Builds :
        /\ b.targets \in Seq(ISPCTargets \union {NoTarget, HostTarget}) /\ b.targets # <<>>
        /\ \A i \in 1 .. Len(b.targets) : b.source[i].globals \subseteq Globals

VARIABLES
    build,      \* the arguments (targets, cpu, stdout), the host, and of every target the
                \* globals and exported functions that the source has for it
    step,       \* what comes next
    current,    \* the number of the target that is compiled, or whose globals are extracted
    modules,    \* the modules so far
    observers,  \* g->target and m, as indices; 0 is nullptr
    files,      \* the output files: a name, the target and what is defined there
    dispatch,   \* the dispatch module: its globals and the variants of its functions
    result      \* "none" while it runs, then "ok", "error" or "abort"

multiVars == <<build, step, current, modules, observers, files, dispatch, result>>

Count == Len(build.targets)
Multiple == Count > 1
TargetPtr(i) == NewTarget(WithDefaults([os |-> "linux", arch |-> "none", cpu |-> build.cpu, zmm |-> TRUE,
                                        target |-> build.targets[i], host |-> build.host]))

Finish(how) == result' = how /\ step' = "done"
GoOn(next) == step' = next /\ UNCHANGED result

-----------------------------------------------------------------------------
MultiTargetInit ==
    /\ build \in Builds
    /\ step = "validate" /\ current = 1 /\ result = "none"
    /\ modules = <<>> /\ observers = [target |-> 0, module |-> 0]
    /\ files = {}
    /\ dispatch = [globals |-> {}, variants |-> {}, warned |-> {}]

\* Multi-target compilations take no device and do not write to stdout.
lValidateMultiTargetInputs ==
    /\ step = "validate"
    /\ IF Multiple /\ (build.cpu # "none" \/ build.stdout) THEN Finish("error") ELSE GoOn("create")
    /\ UNCHANGED <<build, current, modules, observers, files, dispatch>>

\* Target::Create and Module::Create, which set the observers.
CreateTargetAndModule ==
    /\ step = "create"
    /\ \E target \in {TargetPtr(current)} :
          \/ /\ target.status = "invalid"
             /\ Finish("error") /\ UNCHANGED <<modules, observers>>
          \/ /\ target.status = "valid"
             /\ modules' = Append(modules, [target |-> target, inits |-> {}])
             /\ observers' = [target |-> current, module |-> current]
             /\ GoOn("compile")
    /\ UNCHANGED <<build, current, files, dispatch>>

\* CompileFile: the globals get their initializers, or there are errors.
CompileFile ==
    /\ step = "compile"
    /\ \/ Finish("error") /\ UNCHANGED modules
       \/ /\ modules' = [modules EXCEPT ![observers.module].inits = build.source[current].globals]
          /\ GoOn("write")
    /\ UNCHANGED <<build, current, observers, files, dispatch>>

\* The name of a target's file has the name of its ISA in it.
lGetMangledFileName(i) == ISAToString(modules[i].target.isa)

\* The initializers stay away.
restoreNothing(module, initializers) == module

\* The initializers that were taken away before the files were written are back.
restoreGlobalInitializers(module, initializers) == [module EXCEPT !.inits = @ \union initializers]

\* A file replaces that of the same name.
Write(name, file) == files' = {f \in files : f.name # name} \union {[file EXCEPT !.name = name]}
FileOf(i, definitions) == [name |-> "", from |-> build.targets[i], exports |-> build.source[i].exports, defines |-> definitions]

CompileSingleTarget ==
    LET i == observers.module
        saved == IF Multiple THEN modules[i].inits ELSE {}
        reset == [modules[i] EXCEPT !.inits = @ \ saved]
    IN  /\ step = "write"
        /\ \/ Finish("error") /\ UNCHANGED <<current, modules, observers, files>>   \* some file cannot be written
           \/ /\ Write(IF Multiple THEN lGetMangledFileName(observers.target) ELSE "out", FileOf(i, reset.inits))
              /\ IF ~Multiple THEN Finish("ok") /\ UNCHANGED <<current, modules, observers>>
                 ELSE /\ modules' = [modules EXCEPT ![i] = restoreGlobalInitializers(reset, saved)]
                      /\ observers' = [target |-> 0, module |-> 0]
                      /\ current' = IF current < Count THEN current + 1 ELSE 1
                      /\ GoOn(IF current < Count THEN "create" ELSE "indices")
        /\ UNCHANGED <<build, dispatch>>

-----------------------------------------------------------------------------
(***************************************************************************)
(* GenerateDispatch.                                                       *)
(***************************************************************************)
IsaOf(i) == TargetToISA(build.targets[i])

\* The ISAs must differ, and SSE4.1 and SSE4.2 have the same name; those that
\* are not of one ISA are not expected here.
lCheckAndFillISAIndices ==
    LET clash(i, j) == IsaOf(i) = IsaOf(j) \/ {IsaOf(i), IsaOf(j)} = {ISA.SSE41, ISA.SSE42}
    IN  /\ step = "indices"
        /\ CASE \E i \in 1 .. Count : /\ IsaOf(i) = ISA.NUM_ISAS
                                      /\ \A j, k \in 1 .. i - 1 : j # k => ~clash(j, k) -> Finish("abort")
             [] \E i, j \in 1 .. Count : i # j /\ clash(i, j) /\ \A k \in 1 .. Max({i, j}) : IsaOf(k) # ISA.NUM_ISAS -> Finish("error")
             [] OTHER -> GoOn("extract")
        /\ UNCHANGED <<build, current, modules, observers, files, dispatch>>

\* The layout of a varying global depends on the lanes.
Layout(gv, i) == IF gv \in Varyings THEN modules[i].target.row.lanes ELSE 1
Align(i) == modules[i].target.row.align

lUpgradeGlobalVariableAlignment(dst, align) == IF dst.align < align THEN [dst EXCEPT !.align = align] ELSE dst

\* The first target's globals are defined, those of the others compared with
\* them; a global that the first does not have is a failed assertion.
lExtractOrCheckGlobals ==
    LET i == current
        source == modules[i].inits
        known == {gv.name : gv \in dispatch.globals}
        extracted == {[name |-> n, align |-> Align(i), layout |-> Layout(n, i)] : n \in source}
        checked == {IF gv.name \in source THEN lUpgradeGlobalVariableAlignment(gv, Align(i)) ELSE gv : gv \in dispatch.globals}
        mismatched == {gv.name : gv \in {h \in dispatch.globals : h.name \in source /\ h.layout # Layout(h.name, i)}}
    IN  /\ step = "extract"
        /\ observers' = [target |-> i, module |-> i]
        /\ \/ i # 1 /\ ~(source \subseteq known) /\ Finish("abort") /\ UNCHANGED <<current, dispatch>>
           \/ /\ i = 1 \/ source \subseteq known
              /\ dispatch' = [globals |-> IF i = 1 THEN extracted ELSE checked,
                              variants |-> dispatch.variants \union {<<f, modules[i].target.isa>> : f \in build.source[i].exports},
                              warned |-> dispatch.warned \union (IF i = 1 THEN {} ELSE mismatched)]
              /\ current' = IF i < Count THEN i + 1 ELSE i
              /\ GoOn(IF i < Count THEN "extract" ELSE "emit")
        /\ UNCHANGED <<build, modules, files>>

\* The dispatch module is written for the least capable target.
lEmitDispatchModule ==
    LET common == CHOOSE i \in 1 .. Count : \A j \in 1 .. Count : IsaOf(i) <= IsaOf(j)
    IN  /\ step = "emit"
        /\ observers' = [target |-> common, module |-> common]
        /\ \/ Finish("error") /\ UNCHANGED files
           \/ /\ Finish("ok")
              /\ Write("out", [FileOf(common, {gv.name : gv \in dispatch.globals}) EXCEPT
                                  !.exports = {v[1] : v \in dispatch.variants}])
        /\ UNCHANGED <<build, current, modules, dispatch>>

MultiTargetNext ==
    \/ lValidateMultiTargetInputs \/ CreateTargetAndModule \/ CompileFile \/ CompileSingleTarget
    \/ lCheckAndFillISAIndices \/ lExtractOrCheckGlobals \/ lEmitDispatchModule

MultiTargetSpec == MultiTargetInit /\ [][MultiTargetNext]_multiVars

-----------------------------------------------------------------------------
\* What a successful compilation leaves, whatever the targets, their order, and
\* the code that each of them has:
\* - every target's code is in a file of its own, none written over another;
\* - every global is defined by one of the files, with the alignment that the
\*   code of every target that has it counts on, and if the targets disagree
\*   about its layout there was a warning;
\* - every exported function has a dispatch function, whose variants are those
\*   of the targets that export it.
OutputsSound ==
    LET has(i, gv) == gv \in build.source[i].globals
    IN  result = "ok" =>
            /\ \A i \in 1 .. Count : \E f \in files : f.from = build.targets[i] /\ build.source[i].exports \subseteq f.exports
            /\ Cardinality(files) = IF Multiple THEN Count + 1 ELSE 1
            /\ \A gv \in Globals : (\E i \in 1 .. Count : has(i, gv)) => Cardinality({f \in files : gv \in f.defines}) = 1
            /\ Multiple =>
                  /\ \A gv \in dispatch.globals : \A i, j \in 1 .. Count :
                        has(i, gv.name) /\ has(j, gv.name) =>
                            gv.align >= Align(i) /\ (Layout(gv.name, i) # Layout(gv.name, j) => gv.name \in dispatch.warned)
                  /\ dispatch.variants = UNION {{<<f, modules[i].target.isa>> : f \in build.source[i].exports} : i \in 1 .. Count}
=============================================================================
