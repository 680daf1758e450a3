--------------------------- MODULE FunctionCalls ---------------------------
(***************************************************************************)
(* The code ispc emits for functions and for calls: which versions of a    *)
(* function there are (Function::GenerateIR), with which execution mask    *)
(* the code of a version starts (Function::emitCode, the constructor of    *)
(* FunctionEmitContext), what a call passes and, for a varying function    *)
(* pointer, how it goes through the functions its lanes point to           *)
(* (FunctionEmitContext::CallInst), and what a launch hands to the task    *)
(* (LaunchInst).                                                           *)
(*                                                                         *)
(* frames is the call stack of a thread of the application, the innermost  *)
(* call last.  A frame of C++ code ("app") is at its bottom, and wherever  *)
(* ispc code calls a C++ function, which may call ispc code again.  What   *)
(* a function does is left open: it branches on varying tests, calls and   *)
(* launches any function its source may name.  wants is not in the code:   *)
(* it is the set of program instances that, for the source program, are    *)
(* executing the function at this point.                                   *)
(*                                                                         *)
(* A task runs when its launcher waits for it, in the launcher's thread.   *)
(* Xe targets and extern "SYCL" functions are left out.                    *)
(***************************************************************************)
EXTENDS Naturals, SequencesExt

CONSTANTS
    GangSize,       \* the number of program instances
    CallTypes,      \* the FunctionType of each function of the module
    CallOptions,    \* the settings of g the code depends on
    MaxFrames       \* the depth of the stack

\* A gang has an instance.  A task is neither exported nor has it C linkage, and
\* only an exported function may be external only (decl.cpp).
ASSUME CallAssumption ==
    /\ GangSize \in Nat \ {0} /\ MaxFrames \in Nat
    /\ "app" \notin DOMAIN CallTypes
    /\ \A f \in DOMAIN CallTypes :
        /\ CallTypes[f] \in [task : BOOLEAN, exported : BOOLEAN, externC : BOOLEAN, unmasked : BOOLEAN,
                             externalOnly : BOOLEAN, alwaysInline : BOOLEAN, costly : BOOLEAN]
        /\ CallTypes[f].task => ~CallTypes[f].exported /\ ~CallTypes[f].externC
        /\ CallTypes[f].externalOnly => CallTypes[f].exported
    /\ CallOptions \subseteq
        [generateInternalExportFunctions : BOOLEAN, mangleFunctionsWithTarget : BOOLEAN, resetFTZ_DAZ : BOOLEAN,
         maskingIsFree : BOOLEAN, disableCoherentControlFlow : BOOLEAN, disableMaskAllOnOptimizations : BOOLEAN]

VARIABLES
    frames,         \* the call stack
    opts,           \* the options the module is compiled with
    ftz,            \* the FTZ/DAZ flags of the thread
    appFtz          \* the flags its C++ code works with

callVars == <<frames, opts, ftz, appFtz>>

-----------------------------------------------------------------------------
Gang == 0 .. GangSize - 1

\* The flags an application may work with; they are told apart where the code
\* looks at them.
AppFlags == IF opts.resetFTZ_DAZ THEN {"flush", "keep"} ELSE {"keep"}
DefinedFunctions == DOMAIN CallTypes

\* What the registers of a lane that is off may hold.
Junk == "junk"

\* The code of f has a parameter for the mask, a task in its argument
\* structure: not in the version for the application, not in a function with C
\* linkage, not in an unmasked one.
LLVMFunctionArgTypes(f, version) ==
    ~(version = "app" \/ CallTypes[f].externC \/ CallTypes[f].unmasked)

skipInternalVersion(f) ==
    \/ CallTypes[f].externalOnly
    \/ CallTypes[f].exported /\ ~opts.generateInternalExportFunctions

\* The versions of f that GenerateIR emits.  With several targets, that of an
\* extern "C" function carries the name of the target, and the plain name is
\* the dispatch function; with one, the second version would have the name of
\* the first, and is dropped.
GenerateIR(f) ==
    {v \in {"internal", "app"} :
        IF v = "internal"
        THEN ~skipInternalVersion(f) /\ ~(CallTypes[f].externC /\ opts.mangleFunctionsWithTarget)
        ELSE CallTypes[f].exported \/ (CallTypes[f].externC /\ opts.mangleFunctionsWithTarget)}

\* The code that the plain name of f, and that the name of f in ispc code,
\* stands for.
AppCallee(f) == IF CallTypes[f].exported \/ opts.mangleFunctionsWithTarget THEN "app" ELSE "internal"
IspcCallee(f) == IF CallTypes[f].externC /\ opts.mangleFunctionsWithTarget THEN "app" ELSE "internal"

\* The calls of exported functions that type checking lets through.
lCheckExportedFunctionCall(f) ==
    CallTypes[f].exported => ~CallTypes[f].externalOnly /\ opts.generateInternalExportFunctions

-----------------------------------------------------------------------------
\* The context has a function mask, besides the internal one.
KeepsFunctionMask(f, version) ==
    ~ \/ CallTypes[f].exported /\ ~LLVMFunctionArgTypes(f, version)
      \/ CallTypes[f].unmasked
      \/ CallTypes[f].task

SavesFlags(f, version) ==
    /\ opts.resetFTZ_DAZ
    /\ CallTypes[f].exported \/ CallTypes[f].externC
    /\ ~LLVMFunctionArgTypes(f, version)

\* The body is emitted twice, for a mask that is all on and for any other.
checkMask(f) ==
    /\ CallTypes[f].task \/ (~CallTypes[f].alwaysInline /\ CallTypes[f].costly)
    /\ ~CallTypes[f].unmasked
    /\ ~opts.maskingIsFree
    /\ ~opts.disableCoherentControlFlow

\* The function mask with which the body runs, after entry with mask.
all_on(f, mask) == checkMask(f) /\ mask = Gang /\ ~opts.disableMaskAllOnOptimizations
BodyMaskNotReset(f, mask) == IF checkMask(f) THEN Gang ELSE mask
BodyMask(f, mask) == IF all_on(f, mask) THEN Gang ELSE mask

\* SetFunctionMask has an effect only where there is a function mask.
EntryMask(f, version, arg) ==
    IF KeepsFunctionMask(f, version) /\ LLVMFunctionArgTypes(f, version) THEN arg ELSE Gang

NoCall == [state |-> "none"]

\* The lanes for which a call by some lanes runs f: C linkage knows no mask.
Called(f, lanes) ==
    IF CallTypes[f].unmasked \/ CallTypes[f].externC \/ CallTypes[f].task THEN Gang ELSE lanes

\* The frame of version of f, called with the mask arg by code that wants it to
\* run for the given lanes.
emitCode(f, version, arg, lanes) ==
    [fn |-> f, version |-> version,
     internal |-> Gang, function |-> BodyMask(f, EntryMask(f, version, arg)),
     call |-> NoCall, tasks |-> <<>>,
     savedFtz |-> IF SavesFlags(f, version) THEN ftz ELSE "none",
     asked |-> Called(f, lanes), wants |-> Called(f, lanes),
     launched |-> IF CallTypes[f].task THEN lanes ELSE Gang]

AppFrame == [fn |-> "app", call |-> NoCall]

Top == Last(frames)
IsIspc(fr) == fr.fn # "app"

GetFunctionMask(fr) == IF KeepsFunctionMask(fr.fn, fr.version) THEN fr.function ELSE Gang
GetFullMask(fr) == fr.internal \cap GetFunctionMask(fr)

\* The value a function returns: its lanes store it under their mask.
ReturnValue(fr) == [l \in Gang |-> IF l \in GetFullMask(fr) THEN fr.fn ELSE Junk]

WithTop(fr) == [frames EXCEPT ![Len(frames)] = fr]

\* Entering a function of the application's thread.
SetFunctionFTZ_DAZFlags(f, version) == ftz' = IF SavesFlags(f, version) THEN "flush" ELSE ftz

RestoreFunctionFTZ_DAZFlags(fr) ==
    ftz' = IF SavesFlags(fr.fn, fr.version) THEN fr.savedFtz ELSE ftz

CallInit ==
    /\ frames = <<AppFrame>>
    /\ opts \in CallOptions
    /\ ftz \in AppFlags /\ appFtz = ftz

\* The application calls an exported function, or one with C linkage.
AppCall ==
    /\ ~IsIspc(Top) /\ Len(frames) < MaxFrames
    /\ \E f \in {g \in DefinedFunctions : CallTypes[g].exported \/ CallTypes[g].externC} :
        /\ frames' = Append(frames, emitCode(f, AppCallee(f), Gang, Gang))
        /\ SetFunctionFTZ_DAZFlags(f, AppCallee(f))
    /\ UNCHANGED <<opts, appFtz>>

\* The application sets its flags, and returns from what ispc code called: a
\* callee leaves the flags as they were.
AppSetsFlags ==
    /\ Len(frames) = 1
    /\ ftz' \in AppFlags /\ appFtz' = ftz'
    /\ UNCHANGED <<frames, opts>>

AppReturns ==
    /\ Len(frames) > 1 /\ ~IsIspc(Top)
    /\ frames' = Front(frames)
    /\ UNCHANGED <<opts, ftz, appFtz>>

-----------------------------------------------------------------------------
\* The function at the top runs its own code; it makes one call or launch (a
\* bound of the model).
BeforeCall == IsIspc(Top) /\ Top.call.state = "none"
InBody == IsIspc(Top) /\ Top.call.state \in {"none", "over"}
Over == [state |-> "over"]

\* The value of the call has been used.
AfterValue ==
    /\ IsIspc(Top) /\ Top.call.state = "done"
    /\ frames' = WithTop([Top EXCEPT !.call = Over])
    /\ UNCHANGED <<opts, ftz, appFtz>>

\* A varying if whose body calls: it runs when any lane takes it.  What follows
\* the if has the mask back.
IfAround ==
    /\ BeforeCall /\ Len(frames) < MaxFrames /\ Top.internal = Gang
    /\ \E test \in SUBSET Gang :
        /\ GetFullMask(Top) \cap test # {}
        /\ frames' = WithTop([Top EXCEPT !.internal = @ \cap test, !.wants = @ \cap test])
    /\ UNCHANGED <<opts, ftz, appFtz>>

EndIfAround ==
    /\ InBody /\ Top.internal # Gang
    /\ frames' = WithTop([Top EXCEPT !.internal = Gang, !.wants = Top.asked])
    /\ UNCHANGED <<opts, ftz, appFtz>>

\* Whether the call passes the mask: a named function takes what its LLVM type
\* says, for a pointer the type it points to decides.
lCalleeArgCount(f, pointer) ==
    IF pointer THEN ~(CallTypes[f].externC \/ CallTypes[f].unmasked)
    ELSE LLVMFunctionArgTypes(f, IspcCallee(f))

MaskArgument(fr, f, pointer) == IF lCalleeArgCount(f, pointer) THEN GetFullMask(fr) ELSE {}

\* The functions a call in ispc code may name.
Callable == {f \in DefinedFunctions : ~CallTypes[f].task /\ lCheckExportedFunctionCall(f)}

\* A call of a function, or through a uniform pointer.
CallInst ==
    /\ BeforeCall /\ Len(frames) < MaxFrames
    /\ \E f \in Callable, pointer \in BOOLEAN :
        /\ pointer => ~CallTypes[f].externC
        /\ frames' = Append(WithTop([Top EXCEPT !.call =
                               [state |-> "uniform", func |-> [l \in Gang |-> f], wants |-> Top.wants,
                                value |-> [l \in Gang |-> Junk]]]),
                            emitCode(f, IspcCallee(f), MaskArgument(Top, f, pointer), Top.wants))
        /\ SetFunctionFTZ_DAZFlags(f, IspcCallee(f))
    /\ UNCHANGED <<opts, appFtz>>

\* A call of a C++ function, which takes no mask.
CallApp ==
    /\ BeforeCall /\ Len(frames) < MaxFrames
    /\ frames' = Append(frames, AppFrame)
    /\ UNCHANGED <<opts, ftz, appFtz>>

\* A call through a varying pointer to functions of one type; the lanes that are
\* off point to functions as well.
Pointees(unmasked) ==
    {f \in Callable : ~CallTypes[f].exported /\ ~CallTypes[f].externC /\ CallTypes[f].unmasked = unmasked}

CallVarying ==
    /\ BeforeCall /\ Len(frames) < MaxFrames
    /\ \E unmasked \in BOOLEAN :
       \E func \in [Gang -> Pointees(unmasked)] :
        frames' = WithTop([Top EXCEPT !.call =
            [state |-> "test", func |-> func, wants |-> Top.wants, value |-> [l \in Gang |-> Junk],
             origMask |-> Top.internal, currentMask |-> GetFullMask(Top), callMask |-> {}]])
    /\ UNCHANGED <<opts, ftz, appFtz>>

\* bbCall: the function of the first lane left, for every lane left that points
\* to it.
CallOverlap(call) ==
    {l \in call.currentMask : call.func[l] = call.func[Min(call.currentMask)]}

varying_funcall_call ==
    /\ IsIspc(Top) /\ Top.call.state = "test" /\ Top.call.currentMask # {}
    /\ LET callMask == CallOverlap(Top.call)
           f == Top.call.func[Min(Top.call.currentMask)]
           caller == [Top EXCEPT !.internal = callMask, !.call.callMask = callMask, !.call.state = "varying"]
       IN frames' = Append(WithTop(caller),
                           emitCode(f, "internal", MaskArgument(caller, f, TRUE),
                                    {l \in Top.wants : Top.call.func[l] = f}))
    /\ UNCHANGED <<opts, ftz, appFtz>>

\* bbDone: the internal mask is restored.
varying_funcall_done ==
    /\ IsIspc(Top) /\ Top.call.state = "test" /\ Top.call.currentMask = {}
    /\ frames' = WithTop([Top EXCEPT !.internal = Top.call.origMask,
                            !.call = [state |-> "done", func |-> Top.call.func, wants |-> Top.call.wants,
                                      value |-> Top.call.value]])
    /\ UNCHANGED <<opts, ftz, appFtz>>

\* A task is called with its argument structure, which may hold the mask; lanes
\* are the ones that launch it.
TaskCall(fr, f) == [fn |-> f, mask |-> MaskArgument(fr, f, FALSE), lanes |-> fr.wants]

\* A launch copies the mask into the argument structure of a task that takes
\* one; the task runs when the launcher waits, here or where it returns.
LaunchInst ==
    /\ BeforeCall /\ Len(frames) < MaxFrames
    /\ \E f \in {g \in DefinedFunctions : CallTypes[g].task} :
        frames' = WithTop([Top EXCEPT !.call = Over, !.tasks = Append(@, TaskCall(Top, f))])
    /\ UNCHANGED <<opts, ftz, appFtz>>

RunTask ==
    /\ InBody /\ Top.tasks # <<>> /\ Len(frames) < MaxFrames
    /\ LET t == Head(Top.tasks)
       IN frames' = Append(WithTop([Top EXCEPT !.tasks = Tail(@)]),
                           emitCode(t.fn, "internal", t.mask, t.lanes))
    /\ UNCHANGED <<opts, ftz, appFtz>>

\* The caller goes on with the value: that of a varying call is stored for the
\* lanes of the call.
AfterCall(fr, value) ==
    CASE fr.call.state = "uniform" ->
            [fr EXCEPT !.call = [state |-> "done", func |-> @.func, wants |-> @.wants, value |-> value]]
      [] fr.call.state = "varying" ->
            [fr EXCEPT !.call.state = "test",
                       !.call.value = [l \in Gang |-> IF l \in fr.call.callMask THEN value[l] ELSE @[l]],
                       !.call.currentMask = @ \ fr.call.callMask]
      [] OTHER -> fr

ReturnInst ==
    /\ InBody /\ Top.internal = Gang /\ Top.tasks = <<>>
    /\ frames' = Append(SubSeq(frames, 1, Len(frames) - 2),
                        AfterCall(frames[Len(frames) - 1], ReturnValue(Top)))
    /\ RestoreFunctionFTZ_DAZFlags(Top)
    /\ UNCHANGED <<opts, appFtz>>

CallNext ==
    \/ AppCall \/ AppSetsFlags \/ AppReturns
    \/ IfAround \/ EndIfAround
    \/ CallInst \/ CallApp \/ AfterValue \/ CallVarying \/ varying_funcall_call \/ varying_funcall_done
    \/ LaunchInst \/ RunTask \/ ReturnInst

CallSpec == CallInit /\ [][CallNext]_callVars

-----------------------------------------------------------------------------
\* The lanes that are on in a frame are the ones for which the source runs it.
OwnLanes(fr) == fr.call.state # "test" /\ fr.call.state # "varying" => GetFullMask(fr) = fr.wants

\* A lane has the value of the function it called, as soon as it is not among
\* those still to call.
OwnValues(fr) ==
    /\ fr.call.state = "done" => \A l \in fr.call.wants : fr.call.value[l] = fr.call.func[l]
    /\ fr.call.state \in {"test", "varying"} =>
        /\ fr.call.currentMask \subseteq fr.call.wants
        /\ \A l \in fr.call.wants \ fr.call.currentMask : fr.call.value[l] = fr.call.func[l]

\* CallsExact: whatever functions call each other and however (by name, through
\* a uniform or a varying pointer, from C++), the code that runs exists, runs
\* for exactly the program instances for which the source calls it (all of
\* them in an unmasked function, in one with C linkage and in a task), which are never none (func.cpp:
\* "we should never run with all off"), each instance gets the value of the
\* function it called, and with the reset of FTZ/DAZ an exported function runs
\* with the flags set and gives the application its own back.
CallsExact ==
    /\ \A i \in 1 .. Len(frames) : IsIspc(frames[i]) =>
        /\ frames[i].version \in GenerateIR(frames[i].fn)
        /\ frames[i].wants # {}
        /\ OwnLanes(frames[i]) /\ OwnValues(frames[i])
        /\ frames[i].savedFtz # "none" => ftz = "flush"
    /\ Len(frames) = 1 => ftz = appFtz

\* TaskLanesAsLaunched: what docs/ispc.rst says of the tasks of a launch: the
\* program instances that are active when a task starts are those that were
\* active at its launch statement.
TaskLanesAsLaunched ==
    \A i \in 1 .. Len(frames) :
        IsIspc(frames[i]) /\ CallTypes[frames[i].fn].task /\ ~CallTypes[frames[i].fn].unmasked
            => GetFullMask(frames[i]) \subseteq frames[i].launched
=============================================================================
