------------------------- MODULE FunctionCallsProofs ------------------------
(***************************************************************************)
(* Calls are exact (CallsExact of FunctionCalls), for every gang, every    *)
(* set of functions and every depth of the call stack.                     *)
(***************************************************************************)
EXTENDS FunctionCalls, WellFoundedInduction, FiniteSetTheorems, SequenceTheorems, TLAPS

(***************************************************************************)
(* The invariant.  It is stated of a call stack fs, the versions em that   *)
(* the compiler emits, and the versions sv that save the FTZ/DAZ flags, so *)
(* that what an operation on stacks preserves can be stated of any stack.  *)
(***************************************************************************)
Versions == {"internal", "app"}
Flags == {"flush", "keep"}

Emitted == {p \in DefinedFunctions \X Versions : p[2] \in GenerateIR(p[1])}
Savers == {p \in DefinedFunctions \X Versions : SavesFlags(p[1], p[2])}

Pointers == {f \in DefinedFunctions : ~CallTypes[f].task /\ ~CallTypes[f].exported /\ ~CallTypes[f].externC}
Tasks == {f \in DefinedFunctions : CallTypes[f].task}
Results == [Gang -> DefinedFunctions \cup {Junk}]
Lanes == SUBSET Gang

IdleCall == [state : {"none", "over"}]
NamedCall == [state : {"uniform", "done"}, func : [Gang -> DefinedFunctions], wants : Lanes, value : Results]
VaryingCall == [state : {"test", "varying"}, func : [Gang -> Pointers], wants : Lanes, value : Results,
                origMask : Lanes, currentMask : Lanes, callMask : Lanes]
LaunchedTask == [fn : Tasks, mask : Lanes, lanes : Lanes \ {{}}]

CodeFrame == [fn : DefinedFunctions, version : Versions, internal : Lanes, function : Lanes,
              call : IdleCall \cup NamedCall \cup VaryingCall, tasks : Seq(LaunchedTask),
              savedFtz : Flags \cup {"none"}, asked : Lanes, wants : Lanes, launched : Lanes]
Frame == CodeFrame \cup {AppFrame}

\* What is known of the call that a frame makes: while a varying call goes on,
\* the internal mask is that of the call; what is left to call is told apart by
\* its functions from what was called.
CallOK(fr) ==
    /\ fr.call.state \notin {"test", "varying"} => fr.wants = fr.asked \cap fr.internal
    /\ fr.call.state \notin {"none", "over"} => fr.call.wants = fr.wants
    /\ fr.call.state = "done" => \A l \in fr.wants : fr.call.value[l] = fr.call.func[l]
    /\ fr.call.state \in {"test", "varying"} =>
        /\ fr.wants = fr.asked \cap fr.call.origMask
        /\ fr.call.currentMask \subseteq fr.wants
        /\ \A l \in fr.wants \ fr.call.currentMask :
              /\ fr.call.value[l] = fr.call.func[l]
              /\ \A k \in fr.call.currentMask : fr.call.func[k] # fr.call.func[l]
    /\ fr.call.state = "varying" => fr.call.currentMask # {} /\ fr.call.callMask = CallOverlap(fr.call)

\* The function mask is what the source asks for, and the frame is that of a
\* version that exists.
CodeOK(fr, em, sv) ==
    /\ fr \in CodeFrame
    /\ <<fr.fn, fr.version>> \in em
    /\ fr.savedFtz # "none" <=> <<fr.fn, fr.version>> \in sv
    /\ fr.asked = GetFunctionMask(fr)
    /\ fr.wants # {} /\ fr.wants \subseteq fr.asked
    /\ CallOK(fr)

\* A frame that waits for a value has the frame of the function that it called
\* above it, which runs for the lanes of the call.
Waiting(fr) == fr.call.state \in {"uniform", "varying"}
CallLanes(fr) == IF fr.call.state = "uniform" THEN fr.call.wants ELSE fr.call.callMask
Serves(fr, callee) ==
    IsIspc(callee) /\ \A l \in CallLanes(fr) : l \in callee.asked /\ fr.call.func[l] = callee.fn

StackOK(fs, em, sv) ==
    /\ fs \in Seq(Frame) /\ fs # <<>> /\ fs[1] = AppFrame
    /\ \A i \in 1 .. Len(fs) : IsIspc(fs[i]) => CodeOK(fs[i], em, sv)
    /\ \A i \in 1 .. Len(fs) : Waiting(fs[i]) => i + 1 <= Len(fs) /\ Serves(fs[i], fs[i + 1])

\* Whoever saves the flags sets them: the first one saved the application's.
Saving(fr) == IsIspc(fr) /\ fr.savedFtz # "none"
FlagsAt(fs, i, app) == IF \E j \in 1 .. Len(fs) : j < i /\ Saving(fs[j]) THEN "flush" ELSE app
FlagsOK(fs, now, app) ==
    /\ \A i \in 1 .. Len(fs) : Saving(fs[i]) => fs[i].savedFtz = FlagsAt(fs, i, app)
    /\ now = FlagsAt(fs, Len(fs) + 1, app)

\* The inductive invariant.
CallInv ==
    /\ opts \in CallOptions /\ ftz \in Flags /\ appFtz \in Flags
    /\ StackOK(frames, Emitted, Savers)
    /\ FlagsOK(frames, ftz, appFtz)

-----------------------------------------------------------------------------
(***************************************************************************)
(* Stacks.                                                                 *)
(***************************************************************************)

\* A frame of ispc code is not one of C++ code.
LEMMA FrameKinds ==
    /\ ~IsIspc(AppFrame) /\ ~Waiting(AppFrame) /\ ~Saving(AppFrame)
    /\ \A fr \in CodeFrame : IsIspc(fr)
    /\ \A fr \in Frame : IsIspc(fr) => fr \in CodeFrame
  BY CallAssumption DEF IsIspc, AppFrame, NoCall, CodeFrame, Frame, Waiting, Saving, DefinedFunctions

\* A frame of a stack becomes another one of the same call.
Keeps(fr, old, em, sv) ==
    IF IsIspc(old)
    THEN CodeOK(fr, em, sv) /\ fr.fn = old.fn /\ fr.asked = old.asked /\ fr.savedFtz = old.savedFtz
    ELSE fr = old

\* The frame that replaces another is of the same kind, and serves the one below it.
LEMMA KeepsKind ==
    ASSUME NEW fr, NEW old, NEW em, NEW sv, Keeps(fr, old, em, sv)
    PROVE  /\ IsIspc(fr) = IsIspc(old) /\ Saving(fr) = Saving(old)
           /\ Saving(old) => fr.savedFtz = old.savedFtz
           /\ \A below : Serves(below, old) => Serves(below, fr)
  <1>1. CASE IsIspc(old)
    <2>1. CodeOK(fr, em, sv) /\ fr.fn = old.fn /\ fr.asked = old.asked /\ fr.savedFtz = old.savedFtz
      BY <1>1 DEF Keeps
    <2>2. IsIspc(fr)
      BY <2>1, FrameKinds DEF CodeOK
    <2> QED BY <1>1, <2>1, <2>2 DEF Saving, Serves
  <1>2. CASE ~IsIspc(old)
    BY <1>2 DEF Keeps
  <1> QED BY <1>1, <1>2

\* The frames above the k-th one are gone, and that one has become another.
LEMMA CutStack ==
    ASSUME NEW fs, NEW em, NEW sv, NEW now, NEW app, StackOK(fs, em, sv), FlagsOK(fs, now, app),
           NEW k \in 1 .. Len(fs), NEW gs, gs \in Seq(Frame), Len(gs) = k,
           \A i \in 1 .. k - 1 : gs[i] = fs[i],
           Keeps(gs[k], fs[k], em, sv), ~Waiting(gs[k])
    PROVE  StackOK(gs, em, sv) /\ FlagsOK(gs, FlagsAt(fs, k + 1, app), app)
  <1>1. fs \in Seq(Frame) /\ fs # <<>> /\ fs[1] = AppFrame /\ Len(fs) \in Nat /\ k \in Nat /\ k >= 1 /\ k <= Len(fs)
    BY DEF StackOK
  <1>2. gs # <<>> /\ gs[1] = AppFrame
    <2>1. CASE k = 1
      BY <1>1, <2>1, FrameKinds DEF Keeps
    <2>2. CASE k # 1
      BY <1>1, <2>2
    <2> QED BY <1>1, <2>1, <2>2
  <1>3. ASSUME NEW i \in 1 .. k, IsIspc(gs[i])
        PROVE  CodeOK(gs[i], em, sv)
    <2>1. CASE i = k
      BY <1>3, <2>1, KeepsKind DEF Keeps
    <2>2. CASE i # k
      BY <1>1, <1>3, <2>2 DEF StackOK
    <2> QED BY <2>1, <2>2
  <1>4. ASSUME NEW i \in 1 .. k, Waiting(gs[i])
        PROVE  i + 1 <= k /\ Serves(gs[i], gs[i + 1])
    <2>1. i # k /\ i \in 1 .. k - 1 /\ gs[i] = fs[i]
      BY <1>1, <1>4
    <2>2. Serves(fs[i], fs[i + 1])
      BY <1>1, <1>4, <2>1 DEF StackOK
    <2>3. CASE i + 1 = k
      BY <2>1, <2>2, <2>3, KeepsKind
    <2>4. CASE i + 1 # k
      BY <1>1, <2>1, <2>2, <2>4
    <2> QED BY <2>1, <2>3, <2>4
  <1>5. \A i \in 1 .. k : Saving(gs[i]) = Saving(fs[i]) /\ (Saving(fs[i]) => gs[i].savedFtz = fs[i].savedFtz)
    <2> SUFFICES ASSUME NEW i \in 1 .. k
                 PROVE  Saving(gs[i]) = Saving(fs[i]) /\ (Saving(fs[i]) => gs[i].savedFtz = fs[i].savedFtz)
      OBVIOUS
    <2>1. CASE i = k
      BY <2>1, KeepsKind
    <2>2. CASE i # k
      BY <1>1, <2>2
    <2> QED BY <2>1, <2>2
  <1>6. \A i \in 1 .. k + 1 : FlagsAt(gs, i, app) = FlagsAt(fs, i, app)
    <2> SUFFICES ASSUME NEW i \in 1 .. k + 1
                 PROVE  (\E j \in 1 .. k : j < i /\ Saving(gs[j])) <=> (\E j \in 1 .. Len(fs) : j < i /\ Saving(fs[j]))
      BY DEF FlagsAt
    <2>1. \A j \in 1 .. Len(fs) : j < i => j \in 1 .. k
      BY <1>1
    <2>2. \A j \in 1 .. k : j \in 1 .. Len(fs)
      BY <1>1
    <2> QED BY <1>5, <2>1, <2>2
  <1>7. FlagsOK(gs, FlagsAt(fs, k + 1, app), app)
    <2>1. ASSUME NEW i \in 1 .. k, Saving(gs[i])
          PROVE  gs[i].savedFtz = FlagsAt(gs, i, app)
      <3>1. i \in 1 .. Len(fs) /\ i \in 1 .. k + 1 /\ Saving(fs[i]) /\ gs[i].savedFtz = fs[i].savedFtz
        BY <1>1, <1>5, <2>1
      <3>2. fs[i].savedFtz = FlagsAt(fs, i, app)
        BY <3>1 DEF FlagsOK
      <3> QED BY <1>6, <3>1, <3>2
    <2>2. k + 1 \in 1 .. k + 1
      BY <1>1
    <2> QED BY <1>6, <2>1, <2>2 DEF FlagsOK
  <1> QED BY <1>2, <1>3, <1>4, <1>7 DEF StackOK

\* The top frame calls: a frame is added.
LEMMA GrowStack ==
    ASSUME NEW fs, NEW em, NEW sv, NEW now, NEW app, StackOK(fs, em, sv), FlagsOK(fs, now, app),
           NEW caller, Keeps(caller, fs[Len(fs)], em, sv),
           NEW callee, callee \in Frame, IsIspc(callee) => CodeOK(callee, em, sv), ~Waiting(callee),
           Waiting(caller) => Serves(caller, callee),
           Saving(callee) => callee.savedFtz = now
    PROVE  LET gs == Append([fs EXCEPT ![Len(fs)] = caller], callee)
           IN  StackOK(gs, em, sv) /\ FlagsOK(gs, IF Saving(callee) THEN "flush" ELSE now, app)
  <1> DEFINE n == Len(fs)
             hs == [fs EXCEPT ![n] = caller]
             gs == Append(hs, callee)
  <1>1. fs \in Seq(Frame) /\ fs # <<>> /\ fs[1] = AppFrame /\ n \in Nat /\ n >= 1
    BY DEF StackOK
  <1>2. caller \in Frame
    <2>1. CASE IsIspc(fs[n])
      BY <2>1 DEF Keeps, CodeOK, Frame
    <2>2. CASE ~IsIspc(fs[n])
      BY <1>1, <2>2 DEF Keeps
    <2> QED BY <2>1, <2>2
  <1>3. hs \in Seq(Frame) /\ Len(hs) = n /\ hs[n] = caller /\ \A i \in 1 .. n : i # n => hs[i] = fs[i]
    BY <1>1, <1>2
  <1> HIDE DEF hs
  <1>4. gs \in Seq(Frame) /\ Len(gs) = n + 1 /\ gs[n + 1] = callee /\ \A i \in 1 .. n : gs[i] = hs[i]
    BY <1>1, <1>3
  <1> HIDE DEF gs
  <1>5. gs # <<>> /\ gs[1] = AppFrame
    <2>1. CASE n = 1
      <3>1. caller = AppFrame
        BY <1>1, <2>1, FrameKinds DEF Keeps
      <3> QED BY <1>1, <1>3, <1>4, <2>1, <3>1
    <2>2. CASE n # 1
      BY <1>1, <1>3, <1>4, <2>2
    <2> QED BY <2>1, <2>2
  <1>6. ASSUME NEW i \in 1 .. n + 1, IsIspc(gs[i])
        PROVE  CodeOK(gs[i], em, sv)
    <2>1. CASE i = n + 1
      BY <1>4, <1>6, <2>1
    <2>2. CASE i = n
      BY <1>1, <1>3, <1>4, <1>6, <2>2, KeepsKind DEF Keeps
    <2>3. CASE i < n
      BY <1>1, <1>3, <1>4, <1>6, <2>3 DEF StackOK
    <2> QED BY <1>1, <2>1, <2>2, <2>3
  <1>7. ASSUME NEW i \in 1 .. n + 1, Waiting(gs[i])
        PROVE  i + 1 <= n + 1 /\ Serves(gs[i], gs[i + 1])
    <2>1. i # n + 1
      BY <1>4, <1>7
    <2>2. CASE i = n
      BY <1>1, <1>3, <1>4, <1>7, <2>2
    <2>3. CASE i < n
      <3>1. gs[i] = fs[i] /\ i \in 1 .. Len(fs)
        BY <1>1, <1>3, <1>4, <2>3
      <3>2. Serves(fs[i], fs[i + 1])
        BY <1>7, <3>1 DEF StackOK
      <3>3. CASE i + 1 = n
        <4>1. Serves(gs[i], caller)
          BY <3>1, <3>2, <3>3, KeepsKind
        <4> QED BY <1>1, <1>3, <1>4, <2>3, <3>3, <4>1
      <3>4. CASE i + 1 # n
        <4>1. gs[i + 1] = fs[i + 1]
          BY <1>1, <1>3, <1>4, <2>3, <3>4
        <4> QED BY <1>1, <2>3, <3>1, <3>2, <4>1
      <3> QED BY <3>3, <3>4
    <2> QED BY <1>1, <2>1, <2>2, <2>3
  <1>8. \A i \in 1 .. n : Saving(gs[i]) = Saving(fs[i]) /\ (Saving(fs[i]) => gs[i].savedFtz = fs[i].savedFtz)
    <2> SUFFICES ASSUME NEW i \in 1 .. n
                 PROVE  Saving(gs[i]) = Saving(fs[i]) /\ (Saving(fs[i]) => gs[i].savedFtz = fs[i].savedFtz)
      OBVIOUS
    <2>1. CASE i = n
      BY <1>3, <1>4, <2>1, KeepsKind
    <2>2. CASE i # n
      BY <1>1, <1>3, <1>4, <2>2
    <2> QED BY <2>1, <2>2
  <1>9. \A i \in 1 .. n + 1 : FlagsAt(gs, i, app) = FlagsAt(fs, i, app)
    <2> SUFFICES ASSUME NEW i \in 1 .. n + 1
                 PROVE  (\E j \in 1 .. n + 1 : j < i /\ Saving(gs[j])) <=> (\E j \in 1 .. n : j < i /\ Saving(fs[j]))
      BY <1>4 DEF FlagsAt
    <2>1. \A j \in 1 .. n + 1 : j < i => j \in 1 .. n
      BY <1>1
    <2>2. \A j \in 1 .. n : j \in 1 .. n + 1
      BY <1>1
    <2> QED BY <1>8, <2>1, <2>2
  <1>10. now = FlagsAt(gs, n + 1, app)
    BY <1>1, <1>9 DEF FlagsOK
  <1>11. (IF Saving(callee) THEN "flush" ELSE now) = FlagsAt(gs, n + 2, app)
    <2>1. CASE Saving(callee)
      <3>1. n + 1 \in 1 .. Len(gs) /\ n + 1 < n + 2 /\ Saving(gs[n + 1])
        BY <1>1, <1>4, <2>1
      <3> QED BY <2>1, <3>1 DEF FlagsAt
    <2>2. CASE ~Saving(callee)
      <3>1. \A j \in 1 .. n + 1 : Saving(gs[j]) => j < n + 1
        BY <1>1, <1>4, <2>2
      <3>2. \A j \in 1 .. n + 1 : j < n + 2
        BY <1>1
      <3> QED BY <1>4, <1>10, <2>2, <3>1, <3>2 DEF FlagsAt
    <2> QED BY <2>1, <2>2
  <1>12. ASSUME NEW i \in 1 .. n + 1, Saving(gs[i])
         PROVE  gs[i].savedFtz = FlagsAt(gs, i, app)
    <2>1. CASE i = n + 1
      BY <1>4, <1>10, <1>12, <2>1
    <2>2. CASE i # n + 1
      <3>1. i \in 1 .. n /\ Saving(fs[i]) /\ gs[i].savedFtz = fs[i].savedFtz
        BY <1>1, <1>8, <1>12, <2>2
      <3>2. fs[i].savedFtz = FlagsAt(fs, i, app)
        BY <3>1 DEF FlagsOK
      <3> QED BY <1>9, <3>1, <3>2
    <2> QED BY <2>1, <2>2
  <1>13. StackOK(gs, em, sv)
    BY <1>4, <1>5, <1>6, <1>7 DEF StackOK
  <1>14. FlagsOK(gs, IF Saving(callee) THEN "flush" ELSE now, app)
    <2>1. n + 1 + 1 = n + 2
      BY <1>1
    <2> QED BY <1>4, <1>11, <1>12, <2>1 DEF FlagsOK
  <1> QED BY <1>13, <1>14 DEF gs, hs

-----------------------------------------------------------------------------
(***************************************************************************)
(* Frames.                                                                 *)
(***************************************************************************)

CallType == IdleCall \cup NamedCall \cup VaryingCall

\* A frame with another internal mask, set of instances, call and tasks.
Update(fr, i, w, c, t) == [fr EXCEPT !.internal = i, !.wants = w, !.call = c, !.tasks = t]

\* What the new frame has, and what it keeps.
LEMMA UpdateFacts ==
    ASSUME NEW fr \in CodeFrame, NEW i \in Lanes, NEW w \in Lanes, NEW c \in CallType, NEW t \in Seq(LaunchedTask)
    PROVE  LET u == Update(fr, i, w, c, t)
           IN  /\ u \in CodeFrame
               /\ u.internal = i /\ u.wants = w /\ u.call = c /\ u.tasks = t
               /\ u.fn = fr.fn /\ u.version = fr.version /\ u.function = fr.function
               /\ u.savedFtz = fr.savedFtz /\ u.asked = fr.asked
  BY DEF Update, CodeFrame, CallType

\* The new frame is as good as the old one if its call is.
LEMMA UpdateOK ==
    ASSUME NEW em, NEW sv, NEW fr, CodeOK(fr, em, sv),
           NEW i \in Lanes, NEW w \in Lanes, NEW c \in CallType, NEW t \in Seq(LaunchedTask),
           w # {}, w \subseteq fr.asked, CallOK(Update(fr, i, w, c, t))
    PROVE  Keeps(Update(fr, i, w, c, t), fr, em, sv)
  <1> DEFINE u == Update(fr, i, w, c, t)
  <1>1. fr \in CodeFrame /\ IsIspc(fr)
    BY FrameKinds DEF CodeOK
  <1>2. /\ u \in CodeFrame /\ u.wants = w
        /\ u.fn = fr.fn /\ u.version = fr.version /\ u.function = fr.function
        /\ u.savedFtz = fr.savedFtz /\ u.asked = fr.asked
    BY <1>1, UpdateFacts
  <1> HIDE DEF u
  <1>3. GetFunctionMask(u) = GetFunctionMask(fr)
    BY <1>2 DEF GetFunctionMask
  <1>4. CallOK(u)
    BY DEF u
  <1>5. CodeOK(u, em, sv)
    BY <1>2, <1>3, <1>4 DEF CodeOK
  <1> QED BY <1>1, <1>2, <1>5 DEF Keeps, u

\* A gang has an instance.
LEMMA GangFacts == Gang \in Lanes /\ Gang # {} /\ \A l \in Gang : l \in Nat
  <1>1. GangSize \in Nat /\ GangSize >= 1
    BY CallAssumption
  <1>2. 0 \in 0 .. GangSize - 1
    BY <1>1
  <1> QED BY <1>2 DEF Gang, Lanes

\* The versions of what ispc code, and the application, may call.
LEMMA CalleesExist ==
    ASSUME opts \in CallOptions
    PROVE  /\ \A f \in Callable : IspcCallee(f) \in Versions /\ IspcCallee(f) \in GenerateIR(f)
           /\ \A f \in Pointers \cup Tasks : "internal" \in GenerateIR(f)
           /\ \A f \in DefinedFunctions : CallTypes[f].exported \/ CallTypes[f].externC =>
                  AppCallee(f) \in Versions /\ AppCallee(f) \in GenerateIR(f)
  <1>1. \A f \in DefinedFunctions :
            /\ CallTypes[f].task => ~CallTypes[f].exported /\ ~CallTypes[f].externC
            /\ CallTypes[f].externalOnly => CallTypes[f].exported
    BY CallAssumption DEF DefinedFunctions
  <1>2. \A f \in Callable : IspcCallee(f) \in Versions /\ IspcCallee(f) \in GenerateIR(f)
    BY <1>1 DEF Callable, IspcCallee, Versions, GenerateIR, skipInternalVersion, lCheckExportedFunctionCall
  <1>3. \A f \in Pointers \cup Tasks : "internal" \in GenerateIR(f)
    BY <1>1 DEF Pointers, Tasks, GenerateIR, skipInternalVersion
  <1>4. \A f \in DefinedFunctions : CallTypes[f].exported \/ CallTypes[f].externC =>
                  AppCallee(f) \in Versions /\ AppCallee(f) \in GenerateIR(f)
    BY <1>1 DEF AppCallee, Versions, GenerateIR, skipInternalVersion
  <1> QED BY <1>2, <1>3, <1>4

\* The code of a function starts with the mask that its caller means, if that is
\* what its parameter holds, or else with all instances.
LEMMA NewFrame ==
    ASSUME ftz \in Flags, NEW f \in DefinedFunctions, NEW v \in Versions, v \in GenerateIR(f),
           NEW STATE arg, arg \in Lanes, NEW STATE lanes, lanes \in Lanes, lanes # {},
           Called(f, lanes) = IF KeepsFunctionMask(f, v) /\ LLVMFunctionArgTypes(f, v) THEN arg ELSE Gang
    PROVE  LET fr == emitCode(f, v, arg, lanes)
           IN  /\ CodeOK(fr, Emitted, Savers) /\ fr \in Frame /\ IsIspc(fr) /\ ~Waiting(fr)
               /\ fr.fn = f /\ fr.asked = Called(f, lanes)
               /\ Saving(fr) <=> SavesFlags(f, v)
               /\ Saving(fr) => fr.savedFtz = ftz
  <1> DEFINE fr == emitCode(f, v, arg, lanes)
             mask == EntryMask(f, v, arg)
             saved == IF SavesFlags(f, v) THEN ftz ELSE "none"
             starts == IF CallTypes[f].task THEN lanes ELSE Gang
             asked == Called(f, lanes)
  <1>1. mask \in Lanes /\ BodyMask(f, mask) = mask
    BY GangFacts DEF EntryMask, BodyMask, all_on
  <1>2. asked \in Lanes /\ asked # {} /\ starts \in Lanes
    BY GangFacts DEF Called
  <1>3. saved \in Flags \cup {"none"} /\ (saved # "none" <=> SavesFlags(f, v))
    BY DEF Flags
  <1>4. NoCall \in IdleCall /\ NoCall.state = "none"
    BY DEF NoCall, IdleCall
  <1>5. fr = [fn |-> f, version |-> v, internal |-> Gang, function |-> mask, call |-> NoCall, tasks |-> <<>>,
              savedFtz |-> saved, asked |-> asked, wants |-> asked, launched |-> starts]
    BY <1>1 DEF emitCode
  <1> HIDE DEF fr, mask, saved, starts, asked
  <1>6. fr \in CodeFrame
    BY <1>1, <1>2, <1>3, <1>4, <1>5, GangFacts DEF CodeFrame
  <1>7. /\ fr.fn = f /\ fr.version = v /\ fr.internal = Gang /\ fr.function = mask /\ fr.call = NoCall
        /\ fr.savedFtz = saved /\ fr.asked = asked /\ fr.wants = asked
    BY <1>5
  <1>8. asked = IF KeepsFunctionMask(f, v) THEN mask ELSE Gang
    BY DEF asked, mask, EntryMask
  <1>9. fr.asked = GetFunctionMask(fr)
    BY <1>7, <1>8 DEF GetFunctionMask
  <1>10. CallOK(fr)
    BY <1>2, <1>4, <1>7 DEF CallOK, Lanes
  <1>11. <<f, v>> \in Emitted /\ (<<f, v>> \in Savers <=> SavesFlags(f, v))
    BY DEF Emitted, Savers
  <1>12. CodeOK(fr, Emitted, Savers)
    BY <1>2, <1>3, <1>6, <1>7, <1>9, <1>10, <1>11 DEF CodeOK
  <1>13. fr \in Frame /\ IsIspc(fr) /\ ~Waiting(fr)
    BY <1>4, <1>6, <1>7, FrameKinds DEF Frame, Waiting
  <1>14. Saving(fr) <=> SavesFlags(f, v)
    BY <1>3, <1>7, <1>13 DEF Saving
  <1>15. Saving(fr) => fr.savedFtz = ftz
    BY <1>7, <1>14 DEF saved
  <1> QED BY <1>7, <1>12, <1>13, <1>14, <1>15 DEF fr, asked

\* The mask that a call by name or through a pointer passes is what its callee takes.
LEMMA CallPassesMask ==
    ASSUME NEW fr, NEW f \in Callable, NEW pointer \in BOOLEAN, pointer => ~CallTypes[f].externC
    PROVE  Called(f, GetFullMask(fr)) =
              IF KeepsFunctionMask(f, IspcCallee(f)) /\ LLVMFunctionArgTypes(f, IspcCallee(f))
              THEN MaskArgument(fr, f, pointer) ELSE Gang
  BY DEF Called, KeepsFunctionMask, LLVMFunctionArgTypes, IspcCallee, MaskArgument, lCalleeArgCount, Callable

-----------------------------------------------------------------------------
(***************************************************************************)
(* Steps.                                                                  *)
(***************************************************************************)

\* The frame at the top.
LEMMA TopFacts ==
    ASSUME CallInv
    PROVE  /\ frames \in Seq(Frame) /\ Len(frames) \in Nat /\ Len(frames) >= 1 /\ frames[1] = AppFrame
           /\ Top = frames[Len(frames)] /\ Top \in Frame /\ ~Waiting(Top)
           /\ IsIspc(Top) => CodeOK(Top, Emitted, Savers) /\ Top \in CodeFrame /\ Len(frames) > 1
           /\ ~IsIspc(Top) => Top = AppFrame
  <1>1. frames \in Seq(Frame) /\ frames # <<>> /\ frames[1] = AppFrame
    BY DEF CallInv, StackOK
  <1>2. Len(frames) \in Nat /\ Len(frames) >= 1 /\ Top = frames[Len(frames)] /\ Top \in Frame
    BY <1>1 DEF Top, Last
  <1>3. ~Waiting(Top)
    <2>1. ~(Len(frames) + 1 <= Len(frames)) /\ Len(frames) \in 1 .. Len(frames)
      BY <1>2
    <2> QED BY <1>2, <2>1 DEF CallInv, StackOK
  <1>4. IsIspc(Top) => CodeOK(Top, Emitted, Savers) /\ Top \in CodeFrame
    <2>1. Len(frames) \in 1 .. Len(frames)
      BY <1>2
    <2> QED BY <1>2, <2>1 DEF CallInv, StackOK, CodeOK
  <1>5. IsIspc(Top) => Len(frames) > 1
    BY <1>1, <1>2, FrameKinds
  <1>6. ~IsIspc(Top) => Top = AppFrame
    BY <1>2, FrameKinds DEF Frame
  <1> QED BY <1>1, <1>2, <1>3, <1>4, <1>5, <1>6

\* The compiler's options do not change.
LEMMA OptionsStay == opts' = opts => Emitted' = Emitted /\ Savers' = Savers
  BY DEF Emitted, Savers, GenerateIR, skipInternalVersion, SavesFlags

\* The invariant of the next state, said of its stack.
LEMMA InvFollows ==
    ASSUME CallInv, opts' = opts, appFtz' = appFtz, ftz' \in Flags,
           StackOK(frames', Emitted, Savers), FlagsOK(frames', ftz', appFtz)
    PROVE  CallInv'
  <1>1. StackOK(frames', Emitted', Savers')
    BY OptionsStay
  <1>2. FlagsOK(frames', ftz', appFtz')
    BY DEF FlagsOK
  <1> QED BY <1>1, <1>2 DEF CallInv

\* The top frame changes.
LEMMA FrameStep ==
    ASSUME CallInv, NEW STATE fr, frames' = WithTop(fr), IsIspc(Top), Keeps(fr, Top, Emitted, Savers), ~Waiting(fr),
           UNCHANGED <<opts, ftz, appFtz>>
    PROVE  CallInv'
  <1> DEFINE n == Len(frames)
  <1>1. fr \in Frame
    BY DEF Keeps, CodeOK, Frame
  <1>2. frames' \in Seq(Frame) /\ Len(frames') = n /\ frames'[n] = fr /\ \A i \in 1 .. n - 1 : frames'[i] = frames[i]
    BY <1>1, TopFacts DEF WithTop
  <1>3. n \in 1 .. Len(frames) /\ StackOK(frames, Emitted, Savers) /\ FlagsOK(frames, ftz, appFtz)
    BY TopFacts DEF CallInv
  <1>4. Keeps(frames'[n], frames[n], Emitted, Savers) /\ ~Waiting(frames'[n])
    BY <1>2, TopFacts
  <1>5. StackOK(frames', Emitted, Savers) /\ FlagsOK(frames', FlagsAt(frames, n + 1, appFtz), appFtz)
    BY <1>2, <1>3, <1>4, CutStack
  <1>6. FlagsAt(frames, n + 1, appFtz) = ftz
    BY <1>3 DEF FlagsOK
  <1> QED BY <1>5, <1>6, InvFollows DEF CallInv

\* A function is called.
LEMMA EnterStep ==
    ASSUME CallInv, NEW STATE caller, NEW STATE callee, frames' = Append(WithTop(caller), callee),
           Keeps(caller, Top, Emitted, Savers), callee \in Frame,
           IsIspc(callee) => CodeOK(callee, Emitted, Savers), ~Waiting(callee),
           Waiting(caller) => Serves(caller, callee), Saving(callee) => callee.savedFtz = ftz,
           ftz' = (IF Saving(callee) THEN "flush" ELSE ftz), opts' = opts, appFtz' = appFtz
    PROVE  CallInv'
  <1>1. StackOK(frames, Emitted, Savers) /\ FlagsOK(frames, ftz, appFtz) /\ Keeps(caller, frames[Len(frames)], Emitted, Savers)
    BY TopFacts DEF CallInv
  <1>2. StackOK(frames', Emitted, Savers) /\ FlagsOK(frames', ftz', appFtz)
    BY <1>1, GrowStack DEF WithTop
  <1>3. ftz' \in Flags
    BY DEF CallInv, Flags
  <1> QED BY <1>2, <1>3, InvFollows

\* The frame at the top is gone.
LEMMA LeaveStep ==
    ASSUME CallInv, Len(frames) > 1, frames' \in Seq(Frame), Len(frames') = Len(frames) - 1,
           \A i \in 1 .. Len(frames) - 2 : frames'[i] = frames[i],
           Keeps(frames'[Len(frames) - 1], frames[Len(frames) - 1], Emitted, Savers), ~Waiting(frames'[Len(frames) - 1]),
           ftz' = (IF Saving(Top) THEN Top.savedFtz ELSE ftz), opts' = opts, appFtz' = appFtz
    PROVE  CallInv'
  <1> DEFINE n == Len(frames)
  <1>1. /\ n \in Nat /\ n - 1 \in 1 .. n /\ n - 1 - 1 = n - 2 /\ n - 1 + 1 = n
        /\ StackOK(frames, Emitted, Savers) /\ FlagsOK(frames, ftz, appFtz)
    BY TopFacts DEF CallInv
  <1>2. StackOK(frames', Emitted, Savers) /\ FlagsOK(frames', FlagsAt(frames, n, appFtz), appFtz)
    BY <1>1, CutStack
  <1>3. ftz' = FlagsAt(frames, n, appFtz)
    <2>1. CASE Saving(Top)
      BY <1>1, <2>1, TopFacts DEF FlagsOK
    <2>2. CASE ~Saving(Top)
      <3>1. \A j \in 1 .. n : j < n + 1 /\ (Saving(frames[j]) => j < n)
        BY <1>1, <2>2, TopFacts
      <3> QED BY <1>1, <2>2, <3>1 DEF FlagsOK, FlagsAt
    <2> QED BY <2>1, <2>2
  <1>4. ftz' \in Flags
    BY <1>3 DEF CallInv, Flags, FlagsAt
  <1> QED BY <1>2, <1>3, <1>4, InvFollows

-----------------------------------------------------------------------------
(***************************************************************************)
(* The operations, one by one.                                             *)
(***************************************************************************)

\* Fields of a frame.
LEMMA FrameFields ==
    ASSUME NEW fr \in CodeFrame
    PROVE  /\ fr.internal \in Lanes /\ fr.wants \in Lanes /\ fr.asked \in Lanes /\ fr.call \in CallType
           /\ fr.tasks \in Seq(LaunchedTask) /\ fr.fn \in DefinedFunctions /\ fr.version \in Versions
           /\ fr.savedFtz \in Flags \cup {"none"}
           /\ \A c : [fr EXCEPT !.call = c] = Update(fr, fr.internal, fr.wants, c, fr.tasks)
           /\ \A i, w : [fr EXCEPT !.internal = i, !.wants = w] = Update(fr, i, w, fr.call, fr.tasks)
           /\ \A i, c : [fr EXCEPT !.internal = i, !.call = c] = Update(fr, i, fr.wants, c, fr.tasks)
           /\ \A t : [fr EXCEPT !.tasks = t] = Update(fr, fr.internal, fr.wants, fr.call, t)
           /\ \A c, t : [fr EXCEPT !.call = c, !.tasks = t] = Update(fr, fr.internal, fr.wants, c, t)
  BY DEF CodeFrame, CallType, Update

\* By the state of a call one knows its kind.
LEMMA CallKinds ==
    ASSUME NEW c \in CallType
    PROVE  /\ c.state \in {"none", "over", "uniform", "done", "test", "varying"}
           /\ c.state \in {"none", "over"} => c \in IdleCall
           /\ c.state \in {"uniform", "done"} => c \in NamedCall
           /\ c.state \in {"test", "varying"} => c \in VaryingCall
  BY DEF CallType, IdleCall, NamedCall, VaryingCall

\* The frame that is being added to the top one, whose call it does not serve.
LEMMA SameFrame ==
    ASSUME CallInv
    PROVE  Keeps(Top, Top, Emitted, Savers) /\ WithTop(Top) = frames
  <1>1. Keeps(Top, Top, Emitted, Savers)
    BY TopFacts DEF Keeps
  <1>2. WithTop(Top) = frames
    BY TopFacts DEF WithTop
  <1> QED BY <1>1, <1>2

\* Between calls the mask is the one the source means.
LEMMA TopMask ==
    ASSUME CallInv, IsIspc(Top), Top.call.state \notin {"test", "varying"}
    PROVE  GetFullMask(Top) = Top.wants /\ Top.wants = Top.asked \cap Top.internal
  BY TopFacts DEF CodeOK, CallOK, GetFullMask

\* The application calls ispc code: all its lanes are on.
LEMMA AppCallStep ==
    ASSUME CallInv, AppCall
    PROVE  CallInv'
  <1>1. PICK f \in DefinedFunctions :
            /\ CallTypes[f].exported \/ CallTypes[f].externC
            /\ frames' = Append(frames, emitCode(f, AppCallee(f), Gang, Gang))
            /\ SetFunctionFTZ_DAZFlags(f, AppCallee(f))
    BY DEF AppCall
  <1> DEFINE callee == emitCode(f, AppCallee(f), Gang, Gang)
  <1>2. opts' = opts /\ appFtz' = appFtz /\ ~IsIspc(Top)
    BY DEF AppCall
  <1>3. AppCallee(f) \in Versions /\ AppCallee(f) \in GenerateIR(f)
    BY <1>1, CalleesExist DEF CallInv
  <1>4. Called(f, Gang) = Gang
    BY DEF Called
  <1>5. /\ CodeOK(callee, Emitted, Savers) /\ callee \in Frame /\ IsIspc(callee) /\ ~Waiting(callee)
        /\ Saving(callee) <=> SavesFlags(f, AppCallee(f))
        /\ Saving(callee) => callee.savedFtz = ftz
    BY <1>3, <1>4, GangFacts, NewFrame DEF CallInv
  <1> HIDE DEF callee
  <1>6. frames' = Append(WithTop(Top), callee) /\ Keeps(Top, Top, Emitted, Savers)
    BY <1>1, SameFrame DEF callee
  <1>7. ftz' = IF Saving(callee) THEN "flush" ELSE ftz
    BY <1>1, <1>5 DEF SetFunctionFTZ_DAZFlags
  <1> QED BY <1>2, <1>5, <1>6, <1>7, TopFacts, EnterStep

\* The application sets its flags while no ispc code is on the stack.
LEMMA AppSetsFlagsStep ==
    ASSUME CallInv, AppSetsFlags
    PROVE  CallInv'
  <1>1. Len(frames) = 1 /\ frames' = frames /\ opts' = opts /\ appFtz' = ftz' /\ ftz' \in AppFlags
    BY DEF AppSetsFlags
  <1>2. ftz' \in Flags
    BY <1>1 DEF AppFlags, Flags
  <1>3. StackOK(frames, Emitted, Savers)
    BY DEF CallInv
  <1>4. \A i \in 1 .. Len(frames) : ~Saving(frames[i])
    BY <1>1, TopFacts, FrameKinds
  <1>5. FlagsOK(frames', ftz', appFtz')
    BY <1>1, <1>4 DEF FlagsOK, FlagsAt
  <1>6. StackOK(frames', Emitted', Savers')
    BY <1>1, <1>3, OptionsStay
  <1> QED BY <1>1, <1>2, <1>5, <1>6 DEF CallInv

\* C++ code returns to the ispc code that called it.
LEMMA AppReturnsStep ==
    ASSUME CallInv, AppReturns
    PROVE  CallInv'
  <1> DEFINE n == Len(frames)
  <1>1. n > 1 /\ ~IsIspc(Top) /\ frames' = Front(frames) /\ opts' = opts /\ ftz' = ftz /\ appFtz' = appFtz
    BY DEF AppReturns
  <1>2. n \in Nat /\ frames \in Seq(Frame) /\ Top = frames[n]
    BY TopFacts
  <1>3. frames' \in Seq(Frame) /\ Len(frames') = n - 1 /\ \A i \in 1 .. n - 1 : frames'[i] = frames[i]
    BY <1>1, <1>2 DEF Front
  <1>4. n - 1 \in 1 .. n /\ n - 1 \in 1 .. n - 1 /\ n - 1 + 1 = n
    BY <1>1, <1>2
  <1>5. ~Waiting(frames[n - 1])
    BY <1>1, <1>2, <1>4 DEF CallInv, StackOK, Serves
  <1>6. Keeps(frames[n - 1], frames[n - 1], Emitted, Savers)
    BY <1>4 DEF CallInv, StackOK, Keeps
  <1>7. ~Saving(Top)
    BY <1>1 DEF Saving
  <1>8. frames'[n - 1] = frames[n - 1] /\ \A i \in 1 .. n - 2 : frames'[i] = frames[i]
    BY <1>2, <1>3, <1>4
  <1> QED BY <1>1, <1>3, <1>5, <1>6, <1>7, <1>8, LeaveStep

\* The value of a call has been used.
LEMMA AfterValueStep ==
    ASSUME CallInv, AfterValue
    PROVE  CallInv'
  <1>1. IsIspc(Top) /\ Top.call.state = "done" /\ frames' = WithTop([Top EXCEPT !.call = Over]) /\ UNCHANGED <<opts, ftz, appFtz>>
    BY DEF AfterValue
  <1>2. CodeOK(Top, Emitted, Savers) /\ Top \in CodeFrame
    BY <1>1, TopFacts
  <1> DEFINE u == Update(Top, Top.internal, Top.wants, Over, Top.tasks)
  <1>3. Over \in CallType /\ Over.state = "over"
    BY DEF Over, CallType, IdleCall
  <1>4. /\ Top.internal \in Lanes /\ Top.wants \in Lanes /\ Top.tasks \in Seq(LaunchedTask)
        /\ [Top EXCEPT !.call = Over] = u
    BY <1>2, FrameFields
  <1>5. u.internal = Top.internal /\ u.wants = Top.wants /\ u.call = Over /\ u.asked = Top.asked
    BY <1>2, <1>3, <1>4, UpdateFacts
  <1> HIDE DEF u
  <1>6. CallOK(u)
    BY <1>1, <1>3, <1>5, TopMask DEF CallOK
  <1>7. Keeps(u, Top, Emitted, Savers)
    BY <1>2, <1>3, <1>4, <1>6, UpdateOK DEF CodeOK, u
  <1> QED BY <1>1, <1>3, <1>4, <1>5, <1>7, FrameStep DEF Waiting

\* A varying if turns lanes off, of the mask and of the source alike.
LEMMA IfAroundStep ==
    ASSUME CallInv, IfAround
    PROVE  CallInv'
  <1>1. PICK test \in SUBSET Gang :
            /\ GetFullMask(Top) \cap test # {}
            /\ frames' = WithTop([Top EXCEPT !.internal = @ \cap test, !.wants = @ \cap test])
    BY DEF IfAround
  <1>2. IsIspc(Top) /\ Top.call.state = "none" /\ UNCHANGED <<opts, ftz, appFtz>>
    BY DEF IfAround, BeforeCall
  <1>3. CodeOK(Top, Emitted, Savers) /\ Top \in CodeFrame
    BY <1>2, TopFacts
  <1> DEFINE i == Top.internal \cap test
             w == Top.wants \cap test
             u == Update(Top, i, w, Top.call, Top.tasks)
  <1>4. /\ i \in Lanes /\ w \in Lanes /\ Top.call \in CallType /\ Top.tasks \in Seq(LaunchedTask)
        /\ [Top EXCEPT !.internal = i, !.wants = w] = u
    BY <1>3, FrameFields DEF Lanes
  <1>5. w # {} /\ w \subseteq Top.asked /\ w = Top.asked \cap i
    BY <1>1, <1>2, TopMask
  <1> HIDE DEF i, w
  <1>6. u.internal = i /\ u.wants = w /\ u.call = Top.call /\ u.asked = Top.asked
    BY <1>3, <1>4, UpdateFacts
  <1> HIDE DEF u
  <1>7. CallOK(u)
    BY <1>2, <1>5, <1>6 DEF CallOK
  <1>8. Keeps(u, Top, Emitted, Savers)
    BY <1>3, <1>4, <1>5, <1>7, UpdateOK DEF u
  <1>9. frames' = WithTop(u)
    BY <1>1, <1>4 DEF i, w
  <1> QED BY <1>2, <1>6, <1>8, <1>9, FrameStep DEF Waiting

\* After the if the lanes are back.
LEMMA EndIfAroundStep ==
    ASSUME CallInv, EndIfAround
    PROVE  CallInv'
  <1>1. /\ frames' = WithTop([Top EXCEPT !.internal = Gang, !.wants = Top.asked])
        /\ IsIspc(Top) /\ Top.call.state \in {"none", "over"} /\ UNCHANGED <<opts, ftz, appFtz>>
    BY DEF EndIfAround, InBody
  <1>2. CodeOK(Top, Emitted, Savers) /\ Top \in CodeFrame
    BY <1>1, TopFacts
  <1> DEFINE u == Update(Top, Gang, Top.asked, Top.call, Top.tasks)
  <1>3. /\ Gang \in Lanes /\ Top.asked \in Lanes /\ Top.call \in CallType /\ Top.tasks \in Seq(LaunchedTask)
        /\ [Top EXCEPT !.internal = Gang, !.wants = Top.asked] = u
    BY <1>2, FrameFields, GangFacts
  <1>4. Top.asked # {} /\ Top.asked = Top.asked \cap Gang
    BY <1>2, <1>3 DEF CodeOK, Lanes
  <1>5. u.internal = Gang /\ u.wants = Top.asked /\ u.call = Top.call /\ u.asked = Top.asked
    BY <1>2, <1>3, UpdateFacts
  <1> HIDE DEF u
  <1>6. CallOK(u)
    BY <1>1, <1>4, <1>5 DEF CallOK
  <1>7. Keeps(u, Top, Emitted, Savers)
    BY <1>2, <1>3, <1>4, <1>6, UpdateOK DEF u
  <1> QED BY <1>1, <1>3, <1>5, <1>7, FrameStep DEF Waiting

\* A named function, or one behind a uniform pointer, is called.
LEMMA CallInstStep ==
    ASSUME CallInv, CallInst
    PROVE  CallInv'
  <1> DEFINE call(f) == [state |-> "uniform", func |-> [l \in Gang |-> f], wants |-> Top.wants, value |-> [l \in Gang |-> Junk]]
             frame(f, pointer) == emitCode(f, IspcCallee(f), MaskArgument(Top, f, pointer), Top.wants)
  <1>1. PICK f \in Callable, pointer \in BOOLEAN :
            /\ pointer => ~CallTypes[f].externC
            /\ frames' = Append(WithTop([Top EXCEPT !.call = call(f)]), frame(f, pointer))
            /\ SetFunctionFTZ_DAZFlags(f, IspcCallee(f))
    BY DEF CallInst
  <1>2. IsIspc(Top) /\ Top.call.state = "none" /\ opts' = opts /\ appFtz' = appFtz
    BY DEF CallInst, BeforeCall
  <1>3. CodeOK(Top, Emitted, Savers) /\ Top \in CodeFrame
    BY <1>2, TopFacts
  <1> DEFINE c == call(f)
             callee == frame(f, pointer)
             caller == Update(Top, Top.internal, Top.wants, c, Top.tasks)
  <1>4. /\ Top.internal \in Lanes /\ Top.wants \in Lanes /\ Top.tasks \in Seq(LaunchedTask)
        /\ [Top EXCEPT !.call = c] = caller
    BY <1>3, FrameFields
  <1>5. f \in DefinedFunctions /\ IspcCallee(f) \in Versions /\ IspcCallee(f) \in GenerateIR(f)
    BY CalleesExist DEF CallInv, Callable
  <1>6. c \in NamedCall
    BY <1>4, <1>5 DEF NamedCall, Results
  <1>7. c \in CallType /\ c.state = "uniform" /\ c.wants = Top.wants /\ \A l \in Gang : c.func[l] = f
    BY <1>6 DEF CallType
  <1>8. GetFullMask(Top) = Top.wants /\ Top.wants = Top.asked \cap Top.internal
    BY <1>2, TopMask
  <1>9. MaskArgument(Top, f, pointer) \in Lanes
    BY <1>4, <1>8 DEF MaskArgument, Lanes
  <1>10. Top.wants # {} /\ Top.wants \subseteq Top.asked
    BY <1>3 DEF CodeOK
  <1>11. /\ CodeOK(callee, Emitted, Savers) /\ callee \in Frame /\ IsIspc(callee) /\ ~Waiting(callee)
         /\ callee.fn = f /\ callee.asked = Called(f, Top.wants)
         /\ Saving(callee) <=> SavesFlags(f, IspcCallee(f))
         /\ Saving(callee) => callee.savedFtz = ftz
    <2>1. Called(f, Top.wants) = IF KeepsFunctionMask(f, IspcCallee(f)) /\ LLVMFunctionArgTypes(f, IspcCallee(f))
                                 THEN MaskArgument(Top, f, pointer) ELSE Gang
      BY <1>1, <1>8, CallPassesMask
    <2> QED BY <1>4, <1>5, <1>9, <1>10, <2>1, NewFrame DEF CallInv
  <1> HIDE DEF c, callee
  <1>12. caller.internal = Top.internal /\ caller.wants = Top.wants /\ caller.call = c /\ caller.asked = Top.asked
    BY <1>3, <1>4, <1>7, UpdateFacts
  <1> HIDE DEF caller
  <1>13. CallOK(caller)
    BY <1>7, <1>8, <1>12 DEF CallOK
  <1>14. Keeps(caller, Top, Emitted, Savers)
    BY <1>3, <1>4, <1>7, <1>10, <1>13, UpdateOK DEF caller
  <1>15. Serves(caller, callee)
    <2>1. CallLanes(caller) = Top.wants
      BY <1>7, <1>12 DEF CallLanes
    <2>2. ASSUME NEW l \in Top.wants
          PROVE  l \in Called(f, Top.wants) /\ l \in Gang
      BY <1>4 DEF Called, Lanes
    <2> QED BY <1>7, <1>11, <1>12, <2>1, <2>2 DEF Serves
  <1>16. frames' = Append(WithTop(caller), callee)
    BY <1>1, <1>4 DEF c, callee
  <1>17. ftz' = IF Saving(callee) THEN "flush" ELSE ftz
    BY <1>1, <1>11 DEF SetFunctionFTZ_DAZFlags
  <1> QED BY <1>2, <1>11, <1>14, <1>15, <1>16, <1>17, EnterStep

\* A C++ function is called.
LEMMA CallAppStep ==
    ASSUME CallInv, CallApp
    PROVE  CallInv'
  <1>1. frames' = Append(frames, AppFrame) /\ UNCHANGED <<opts, ftz, appFtz>>
    BY DEF CallApp
  <1>2. frames' = Append(WithTop(Top), AppFrame) /\ Keeps(Top, Top, Emitted, Savers)
    BY <1>1, SameFrame
  <1>3. AppFrame \in Frame /\ ~IsIspc(AppFrame) /\ ~Waiting(AppFrame) /\ ~Saving(AppFrame)
    BY FrameKinds DEF Frame
  <1> QED BY <1>1, <1>2, <1>3, TopFacts, EnterStep

\* A varying call starts: all its lanes are still to call.
LEMMA CallVaryingStep ==
    ASSUME CallInv, CallVarying
    PROVE  CallInv'
  <1>1. PICK unmasked \in BOOLEAN :
          \E func \in [Gang -> Pointees(unmasked)] :
            frames' = WithTop([Top EXCEPT !.call =
                [state |-> "test", func |-> func, wants |-> Top.wants, value |-> [l \in Gang |-> Junk],
                 origMask |-> Top.internal, currentMask |-> GetFullMask(Top), callMask |-> {}]])
    BY DEF CallVarying
  <1>2. PICK func \in [Gang -> Pointees(unmasked)] :
            frames' = WithTop([Top EXCEPT !.call =
                [state |-> "test", func |-> func, wants |-> Top.wants, value |-> [l \in Gang |-> Junk],
                 origMask |-> Top.internal, currentMask |-> GetFullMask(Top), callMask |-> {}]])
    BY <1>1
  <1>3. IsIspc(Top) /\ Top.call.state = "none" /\ UNCHANGED <<opts, ftz, appFtz>>
    BY DEF CallVarying, BeforeCall
  <1>4. CodeOK(Top, Emitted, Savers) /\ Top \in CodeFrame
    BY <1>3, TopFacts
  <1>5. GetFullMask(Top) = Top.wants /\ Top.wants = Top.asked \cap Top.internal /\ Top.wants # {} /\ Top.wants \subseteq Top.asked
    BY <1>3, <1>4, TopMask DEF CodeOK
  <1> DEFINE c == [state |-> "test", func |-> func, wants |-> Top.wants, value |-> [l \in Gang |-> Junk],
                   origMask |-> Top.internal, currentMask |-> Top.wants, callMask |-> {}]
             u == Update(Top, Top.internal, Top.wants, c, Top.tasks)
  <1>6. /\ Top.internal \in Lanes /\ Top.wants \in Lanes /\ Top.tasks \in Seq(LaunchedTask)
        /\ [Top EXCEPT !.call = c] = u
    BY <1>4, FrameFields
  <1>7. func \in [Gang -> Pointers]
    BY DEF Pointees, Pointers, Callable
  <1>8. c \in VaryingCall
    BY <1>6, <1>7 DEF VaryingCall, Results, Lanes
  <1>9. c \in CallType /\ c.state = "test" /\ c.wants = Top.wants /\ c.origMask = Top.internal /\ c.currentMask = Top.wants
    BY <1>8 DEF CallType
  <1>10. frames' = WithTop(u)
    BY <1>2, <1>5, <1>6
  <1> HIDE DEF c
  <1>11. u.internal = Top.internal /\ u.wants = Top.wants /\ u.call = c /\ u.asked = Top.asked
    BY <1>4, <1>6, <1>9, UpdateFacts
  <1> HIDE DEF u
  <1>12. CallOK(u)
    BY <1>5, <1>9, <1>11 DEF CallOK
  <1>13. Keeps(u, Top, Emitted, Savers)
    BY <1>4, <1>5, <1>6, <1>9, <1>12, UpdateOK DEF u
  <1> QED BY <1>3, <1>9, <1>10, <1>11, <1>13, FrameStep DEF Waiting

\* The first lane that is left.
LEMMA FirstLane ==
    ASSUME NEW S \in Lanes, S # {}
    PROVE  Min(S) \in S
  <1> DEFINE R == OpToRel(<, Nat)
  <1>1. S \subseteq Nat
    BY GangFacts DEF Lanes
  <1>2. \A x, y \in Nat : x < y => <<x, y>> \in R
    BY DEF OpToRel
  <1>3. IsWellFoundedOn(R, Nat)
    BY NatLessThanWellFounded, Zenon
  <1> HIDE DEF R
  <1>4. PICK k \in S : \A y \in S : ~(<<y, k>> \in R)
    BY <1>1, <1>3, WFMin
  <1>5. \A y \in S : ~(y < k)
    BY <1>1, <1>2, <1>4
  <1>6. \A y \in S : k <= y
    BY <1>1, <1>5
  <1> QED BY <1>6 DEF Min

\* The lanes that point to one function call it together.
LEMMA VaryingCallStep ==
    ASSUME CallInv, varying_funcall_call
    PROVE  CallInv'
  <1> DEFINE call == Top.call
             callMask == CallOverlap(call)
             f == call.func[Min(call.currentMask)]
             lanes == {l \in Top.wants : call.func[l] = f}
             c == [call EXCEPT !.callMask = callMask, !.state = "varying"]
             caller == Update(Top, callMask, Top.wants, c, Top.tasks)
             callee == emitCode(f, "internal", MaskArgument(caller, f, TRUE), lanes)
  <1>1. IsIspc(Top) /\ call.state = "test" /\ call.currentMask # {} /\ UNCHANGED <<opts, ftz, appFtz>>
    BY DEF varying_funcall_call
  <1>2. CodeOK(Top, Emitted, Savers) /\ Top \in CodeFrame
    BY <1>1, TopFacts
  <1>3. /\ Top.wants \in Lanes /\ Top.tasks \in Seq(LaunchedTask) /\ call \in CallType /\ Top.asked \in Lanes
        /\ Top.wants # {} /\ Top.wants \subseteq Top.asked
    BY <1>2, FrameFields DEF CodeOK
  <1>4. call \in VaryingCall
    BY <1>1, <1>3, CallKinds
  <1>5. /\ call.wants = Top.wants /\ Top.wants = Top.asked \cap call.origMask /\ call.currentMask \subseteq Top.wants
        /\ \A l \in Top.wants \ call.currentMask :
              /\ call.value[l] = call.func[l]
              /\ \A k \in call.currentMask : call.func[k] # call.func[l]
    BY <1>1, <1>2 DEF CodeOK, CallOK
  <1>6. Min(call.currentMask) \in call.currentMask
    BY <1>1, <1>4, FirstLane DEF VaryingCall
  <1>7. call.currentMask \in Lanes /\ call.func \in [Gang -> Pointers] /\ f \in Pointers
    BY <1>4, <1>6 DEF VaryingCall, Lanes
  <1>8. callMask \in Lanes /\ callMask = lanes /\ callMask \subseteq Top.asked /\ lanes # {}
    BY <1>3, <1>5, <1>6, <1>7 DEF CallOverlap, Lanes
  <1>9. [Top EXCEPT !.internal = callMask, !.call.callMask = callMask, !.call.state = "varying"] = caller
    BY <1>2, <1>4 DEF Update, CodeFrame, VaryingCall
  <1>10. frames' = Append(WithTop(caller), callee)
    BY <1>9 DEF varying_funcall_call
  <1> HIDE DEF callMask, f, lanes
  <1>11. c \in VaryingCall /\ c.state = "varying" /\ c.callMask = callMask
         /\ c.func = call.func /\ c.wants = call.wants /\ c.value = call.value /\ c.origMask = call.origMask
         /\ c.currentMask = call.currentMask
    BY <1>4, <1>8 DEF VaryingCall
  <1>12. c \in CallType /\ CallOverlap(c) = callMask
    BY <1>11 DEF CallType, CallOverlap, callMask
  <1> HIDE DEF c, call
  <1>13. /\ caller \in CodeFrame /\ caller.internal = callMask /\ caller.wants = Top.wants /\ caller.call = c
         /\ caller.asked = Top.asked
         /\ caller.fn = Top.fn /\ caller.version = Top.version /\ caller.function = Top.function
    BY <1>2, <1>3, <1>8, <1>12, UpdateFacts
  <1> HIDE DEF caller
  <1>14. CallOK(caller)
    BY <1>1, <1>5, <1>11, <1>12, <1>13 DEF CallOK
  <1>15. Keeps(caller, Top, Emitted, Savers)
    BY <1>2, <1>3, <1>8, <1>12, <1>14, UpdateOK DEF caller
  <1>16. GetFullMask(caller) = lanes
    <2>1. GetFunctionMask(caller) = Top.asked
      BY <1>2, <1>13 DEF GetFunctionMask, CodeOK
    <2> QED BY <1>8, <1>13, <2>1 DEF GetFullMask
  <1>17. f \in Callable /\ f \in DefinedFunctions /\ ~CallTypes[f].externC /\ ~CallTypes[f].exported /\ IspcCallee(f) = "internal"
    BY <1>7 DEF Pointers, Callable, lCheckExportedFunctionCall, IspcCallee
  <1>18. "internal" \in GenerateIR(f) /\ "internal" \in Versions
    BY <1>7, CalleesExist DEF CallInv, Versions
  <1>19. Called(f, lanes) = IF KeepsFunctionMask(f, "internal") /\ LLVMFunctionArgTypes(f, "internal")
                            THEN MaskArgument(caller, f, TRUE) ELSE Gang
    BY <1>16, <1>17, CallPassesMask
  <1>20. MaskArgument(caller, f, TRUE) \in Lanes /\ lanes \in Lanes
    BY <1>8, <1>16 DEF MaskArgument, Lanes
  <1>21. /\ CodeOK(callee, Emitted, Savers) /\ callee \in Frame /\ IsIspc(callee) /\ ~Waiting(callee)
         /\ callee.fn = f /\ callee.asked = Called(f, lanes)
         /\ Saving(callee) <=> SavesFlags(f, "internal")
    <2>1. ftz \in Flags
      BY DEF CallInv
    <2> DEFINE a == MaskArgument(caller, f, TRUE)
    <2>2. /\ f \in DefinedFunctions /\ a \in Lanes /\ lanes \in Lanes /\ lanes # {}
          /\ Called(f, lanes) = IF KeepsFunctionMask(f, "internal") /\ LLVMFunctionArgTypes(f, "internal") THEN a ELSE Gang
      BY <1>8, <1>17, <1>19, <1>20
    <2>3. callee = emitCode(f, "internal", a, lanes)
      OBVIOUS
    <2> HIDE DEF a, callee
    <2> QED BY <2>1, <2>2, <2>3, <1>18, NewFrame
  <1>22. ~Saving(callee)
    BY <1>17, <1>21 DEF SavesFlags
  <1> HIDE DEF callee
  <1>23. Serves(caller, callee)
    <2>1. CallLanes(caller) = lanes
      BY <1>8, <1>11, <1>13 DEF CallLanes
    <2>2. \A l \in lanes : c.func[l] = f
      BY <1>11 DEF lanes
    <2>3. lanes \subseteq Called(f, lanes)
      BY <1>20 DEF Called, Lanes
    <2> QED BY <1>13, <1>21, <2>1, <2>2, <2>3 DEF Serves
  <1> QED BY <1>1, <1>10, <1>15, <1>21, <1>22, <1>23, EnterStep

\* All lanes have called: the internal mask is restored.
LEMMA VaryingDoneStep ==
    ASSUME CallInv, varying_funcall_done
    PROVE  CallInv'
  <1> DEFINE call == Top.call
             c == [state |-> "done", func |-> call.func, wants |-> call.wants, value |-> call.value]
             u == Update(Top, call.origMask, Top.wants, c, Top.tasks)
  <1>1. /\ IsIspc(Top) /\ call.state = "test" /\ call.currentMask = {} /\ UNCHANGED <<opts, ftz, appFtz>>
        /\ frames' = WithTop([Top EXCEPT !.internal = call.origMask, !.call = c])
    BY DEF varying_funcall_done
  <1>2. CodeOK(Top, Emitted, Savers) /\ Top \in CodeFrame
    BY <1>1, TopFacts
  <1>3. /\ Top.wants \in Lanes /\ Top.tasks \in Seq(LaunchedTask) /\ call \in CallType
        /\ Top.wants # {} /\ Top.wants \subseteq Top.asked
        /\ [Top EXCEPT !.internal = call.origMask, !.call = c] = u
    BY <1>2, FrameFields DEF CodeOK
  <1>4. call \in VaryingCall
    BY <1>1, <1>3, CallKinds
  <1>5. /\ call.wants = Top.wants /\ Top.wants = Top.asked \cap call.origMask
        /\ \A l \in Top.wants : call.value[l] = call.func[l]
    BY <1>1, <1>2 DEF CodeOK, CallOK
  <1>6. c \in NamedCall /\ call.origMask \in Lanes
    BY <1>4 DEF NamedCall, VaryingCall, Pointers
  <1>7. c \in CallType /\ c.state = "done" /\ c.wants = Top.wants /\ \A l \in Top.wants : c.value[l] = c.func[l]
    BY <1>5, <1>6 DEF CallType
  <1> HIDE DEF c
  <1>8. u.internal = call.origMask /\ u.wants = Top.wants /\ u.call = c /\ u.asked = Top.asked
    BY <1>2, <1>3, <1>6, <1>7, UpdateFacts
  <1> HIDE DEF u
  <1>9. CallOK(u)
    BY <1>5, <1>7, <1>8 DEF CallOK
  <1>10. Keeps(u, Top, Emitted, Savers)
    BY <1>2, <1>3, <1>6, <1>7, <1>9, UpdateOK DEF u
  <1> QED BY <1>1, <1>3, <1>7, <1>8, <1>10, FrameStep DEF Waiting

\* A task is launched with the mask it may take.
LEMMA LaunchStep ==
    ASSUME CallInv, LaunchInst
    PROVE  CallInv'
  <1>1. PICK f \in Tasks : frames' = WithTop([Top EXCEPT !.call = Over, !.tasks = Append(@, TaskCall(Top, f))])
    BY DEF LaunchInst, Tasks
  <1>2. IsIspc(Top) /\ Top.call.state = "none" /\ UNCHANGED <<opts, ftz, appFtz>>
    BY DEF LaunchInst, BeforeCall
  <1>3. CodeOK(Top, Emitted, Savers) /\ Top \in CodeFrame
    BY <1>2, TopFacts
  <1>4. GetFullMask(Top) = Top.wants /\ Top.wants = Top.asked \cap Top.internal /\ Top.wants # {} /\ Top.wants \subseteq Top.asked
    BY <1>2, <1>3, TopMask DEF CodeOK
  <1> DEFINE t == Append(Top.tasks, TaskCall(Top, f))
             u == Update(Top, Top.internal, Top.wants, Over, t)
  <1>5. Top.internal \in Lanes /\ Top.wants \in Lanes /\ Top.tasks \in Seq(LaunchedTask)
    BY <1>3, FrameFields
  <1>6. TaskCall(Top, f) \in LaunchedTask
    BY <1>4, <1>5 DEF TaskCall, LaunchedTask, MaskArgument, Lanes
  <1>7. t \in Seq(LaunchedTask)
    BY <1>5, <1>6
  <1>8. frames' = WithTop(u)
    <2> HIDE DEF t
    <2>1. [Top EXCEPT !.call = Over, !.tasks = t] = u
      BY <1>3 DEF Update, CodeFrame
    <2>2. frames' = WithTop([Top EXCEPT !.call = Over, !.tasks = t])
      BY <1>1 DEF t
    <2> QED BY <2>1, <2>2
  <1>9. Over \in CallType /\ Over.state = "over"
    BY DEF Over, CallType, IdleCall
  <1> HIDE DEF t
  <1>10. u.internal = Top.internal /\ u.wants = Top.wants /\ u.call = Over /\ u.asked = Top.asked
    BY <1>3, <1>5, <1>7, <1>9, UpdateFacts
  <1> HIDE DEF u
  <1>11. CallOK(u)
    BY <1>4, <1>9, <1>10 DEF CallOK
  <1>12. Keeps(u, Top, Emitted, Savers)
    BY <1>3, <1>4, <1>5, <1>7, <1>9, <1>11, UpdateOK DEF u
  <1> QED BY <1>2, <1>8, <1>9, <1>10, <1>12, FrameStep DEF Waiting

\* A launched task runs.
LEMMA RunTaskStep ==
    ASSUME CallInv, RunTask
    PROVE  CallInv'
  <1> DEFINE t == Head(Top.tasks)
             rest == Tail(Top.tasks)
             caller == Update(Top, Top.internal, Top.wants, Top.call, rest)
             callee == emitCode(t.fn, "internal", t.mask, t.lanes)
  <1>1. /\ IsIspc(Top) /\ Top.call.state \in {"none", "over"} /\ Top.tasks # <<>> /\ UNCHANGED <<opts, ftz, appFtz>>
        /\ frames' = Append(WithTop([Top EXCEPT !.tasks = Tail(@)]), callee)
    BY DEF RunTask, InBody
  <1>2. CodeOK(Top, Emitted, Savers) /\ Top \in CodeFrame
    BY <1>1, TopFacts
  <1>3. /\ Top.internal \in Lanes /\ Top.wants \in Lanes /\ Top.tasks \in Seq(LaunchedTask) /\ Top.call \in CallType
        /\ Top.wants # {} /\ Top.wants \subseteq Top.asked /\ Top.wants = Top.asked \cap Top.internal
        /\ [Top EXCEPT !.tasks = rest] = caller
    BY <1>1, <1>2, FrameFields, TopMask DEF CodeOK
  <1>4. t \in LaunchedTask /\ rest \in Seq(LaunchedTask)
    BY <1>1, <1>3
  <1>0. frames' = Append(WithTop(caller), callee)
    BY <1>1, <1>3
  <1> HIDE DEF rest
  <1>5. t.fn \in Tasks /\ t.mask \in Lanes /\ t.lanes \in Lanes
    BY <1>4 DEF LaunchedTask
  <1>6. t.lanes # {} /\ t.fn \in DefinedFunctions /\ CallTypes[t.fn].task
    BY <1>4, <1>5 DEF LaunchedTask, Tasks
  <1> HIDE DEF t
  <1>7. "internal" \in GenerateIR(t.fn) /\ "internal" \in Versions /\ ~SavesFlags(t.fn, "internal")
    BY <1>5, <1>6, CalleesExist, CallAssumption DEF CallInv, Versions, SavesFlags, DefinedFunctions
  <1>8. Called(t.fn, t.lanes) = IF KeepsFunctionMask(t.fn, "internal") /\ LLVMFunctionArgTypes(t.fn, "internal")
                                THEN t.mask ELSE Gang
    BY <1>6 DEF Called, KeepsFunctionMask
  <1>9. /\ CodeOK(callee, Emitted, Savers) /\ callee \in Frame /\ IsIspc(callee) /\ ~Waiting(callee)
        /\ Saving(callee) <=> SavesFlags(t.fn, "internal")
    <2> DEFINE f == t.fn
               arg == t.mask
               lanes == t.lanes
    <2>1. callee = emitCode(f, "internal", arg, lanes)
      OBVIOUS
    <2>2. /\ ftz \in Flags /\ f \in DefinedFunctions /\ arg \in Lanes /\ lanes \in Lanes /\ lanes # {}
          /\ "internal" \in GenerateIR(f) /\ "internal" \in Versions
          /\ Called(f, lanes) = IF KeepsFunctionMask(f, "internal") /\ LLVMFunctionArgTypes(f, "internal") THEN arg ELSE Gang
      BY <1>5, <1>6, <1>7, <1>8 DEF CallInv
    <2>3. SavesFlags(f, "internal") = SavesFlags(t.fn, "internal")
      OBVIOUS
    <2> HIDE DEF f, arg, lanes, callee
    <2> QED BY <2>1, <2>2, <2>3, NewFrame
  <1> HIDE DEF callee
  <1>10. caller.internal = Top.internal /\ caller.wants = Top.wants /\ caller.call = Top.call /\ caller.asked = Top.asked
    <2> DEFINE i == Top.internal
               w == Top.wants
               c == Top.call
    <2>1. i \in Lanes /\ w \in Lanes /\ c \in CallType /\ caller = Update(Top, i, w, c, rest)
      BY <1>3
    <2> HIDE DEF i, w, c, caller
    <2>2. caller.internal = i /\ caller.wants = w /\ caller.call = c /\ caller.asked = Top.asked
      BY <1>2, <1>4, <2>1, UpdateFacts
    <2> QED BY <2>2 DEF i, w, c
  <1> HIDE DEF caller
  <1>12. CallOK(caller)
    BY <1>1, <1>3, <1>10 DEF CallOK
  <1>13. Keeps(caller, Top, Emitted, Savers)
    BY <1>2, <1>3, <1>4, <1>12, UpdateOK DEF caller
  <1> QED BY <1>0, <1>1, <1>7, <1>9, <1>10, <1>13, EnterStep DEF Waiting

\* What a caller makes of the value of the call: the lanes of the call have it.
LEMMA ValueArrives ==
    ASSUME NEW em, NEW sv, NEW fr, NEW callee, NEW value \in Results,
           fr \in Frame, IsIspc(fr) => CodeOK(fr, em, sv), Waiting(fr) => Serves(fr, callee),
           \A l \in callee.asked : value[l] = callee.fn
    PROVE  Keeps(AfterCall(fr, value), fr, em, sv) /\ ~Waiting(AfterCall(fr, value))
  <1>1. CASE ~Waiting(fr)
    <2>1. AfterCall(fr, value) = fr
      BY <1>1 DEF AfterCall, Waiting
    <2>2. Keeps(fr, fr, em, sv)
      BY DEF Keeps
    <2> QED BY <1>1, <2>1, <2>2
  <1>2. CASE Waiting(fr)
    <2> DEFINE call == fr.call
    <2>1. IsIspc(fr) /\ CodeOK(fr, em, sv) /\ fr \in CodeFrame
      BY <1>2, FrameKinds DEF Frame
    <2>2. /\ fr.internal \in Lanes /\ fr.wants \in Lanes /\ fr.tasks \in Seq(LaunchedTask) /\ call \in CallType
          /\ fr.wants # {} /\ fr.wants \subseteq fr.asked /\ call.wants = fr.wants
      BY <1>2, <2>1, FrameFields DEF CodeOK, CallOK, Waiting
    <2>3. \A l \in CallLanes(fr) : value[l] = call.func[l]
      BY <1>2 DEF Serves
    <2>4. CASE call.state = "uniform"
      <3> DEFINE c == [state |-> "done", func |-> call.func, wants |-> call.wants, value |-> value]
                 u == Update(fr, fr.internal, fr.wants, c, fr.tasks)
      <3>1. call \in NamedCall
        BY <2>2, <2>4, CallKinds
      <3>2. c \in NamedCall
        BY <3>1 DEF NamedCall
      <3>3. c \in CallType /\ c.state = "done" /\ c.wants = fr.wants /\ \A l \in fr.wants : c.value[l] = c.func[l]
        BY <2>2, <2>3, <2>4, <3>2 DEF CallType, CallLanes
      <3>4. AfterCall(fr, value) = u
        BY <2>1, <2>4, FrameFields DEF AfterCall
      <3>5. fr.wants = fr.asked \cap fr.internal
        BY <2>1, <2>4 DEF CodeOK, CallOK
      <3> HIDE DEF c
      <3>6. u.internal = fr.internal /\ u.wants = fr.wants /\ u.call = c /\ u.asked = fr.asked
        BY <2>1, <2>2, <3>3, UpdateFacts
      <3> HIDE DEF u
      <3>7. CallOK(u)
        BY <3>3, <3>5, <3>6 DEF CallOK
      <3>8. Keeps(u, fr, em, sv)
        BY <2>1, <2>2, <3>3, <3>7, UpdateOK DEF u
      <3> QED BY <3>3, <3>4, <3>6, <3>8 DEF Waiting
    <2>5. CASE call.state = "varying"
      <3> DEFINE values == [l \in Gang |-> IF l \in call.callMask THEN value[l] ELSE call.value[l]]
                 left == call.currentMask \ call.callMask
                 c == [call EXCEPT !.state = "test", !.value = values, !.currentMask = left]
                 u == Update(fr, fr.internal, fr.wants, c, fr.tasks)
      <3>1. call \in VaryingCall
        BY <2>2, <2>5, CallKinds
      <3>2. values \in Results /\ left \in Lanes
        BY <3>1 DEF VaryingCall, Results, Lanes
      <3>3. AfterCall(fr, value) = u
        BY <2>1, <2>5, <3>1 DEF AfterCall, Update, CodeFrame, VaryingCall
      <3>4. /\ fr.wants = fr.asked \cap call.origMask /\ call.currentMask \subseteq fr.wants
            /\ \A l \in fr.wants \ call.currentMask :
                  /\ call.value[l] = call.func[l]
                  /\ \A k \in call.currentMask : call.func[k] # call.func[l]
            /\ call.currentMask # {} /\ call.callMask = CallOverlap(call)
        BY <2>1, <2>5 DEF CodeOK, CallOK
      <3>5. \A l \in call.callMask : value[l] = call.func[l]
        BY <2>3, <2>5 DEF CallLanes
      <3>6. /\ call.callMask \subseteq call.currentMask
            /\ \A l \in call.callMask : \A k \in left : call.func[k] # call.func[l]
        BY <3>4 DEF CallOverlap
      <3>7. ASSUME NEW l \in fr.wants \ left
            PROVE  values[l] = call.func[l] /\ \A k \in left : call.func[k] # call.func[l]
        <4>1. l \in Gang
          BY <2>2 DEF Lanes
        <4>2. CASE l \in call.callMask
          BY <3>5, <3>6, <4>1, <4>2
        <4>3. CASE l \notin call.callMask
          BY <3>4, <3>7, <4>1, <4>3
        <4> QED BY <4>2, <4>3
      <3> HIDE DEF values, left
      <3>8. /\ c \in VaryingCall /\ c.state = "test" /\ c.func = call.func /\ c.wants = fr.wants /\ c.value = values
            /\ c.origMask = call.origMask /\ c.currentMask = left
        BY <2>2, <3>1, <3>2 DEF VaryingCall
      <3>9. c \in CallType
        BY <3>8 DEF CallType
      <3> HIDE DEF c
      <3>10. u.internal = fr.internal /\ u.wants = fr.wants /\ u.call = c /\ u.asked = fr.asked
        BY <2>1, <2>2, <3>9, UpdateFacts
      <3> HIDE DEF u
      <3>11. left \subseteq fr.wants
        BY <3>4 DEF left
      <3>12. CallOK(u)
        BY <3>4, <3>7, <3>8, <3>10, <3>11 DEF CallOK
      <3>13. Keeps(u, fr, em, sv)
        BY <2>1, <2>2, <3>9, <3>12, UpdateOK DEF u
      <3> QED BY <3>3, <3>8, <3>10, <3>13 DEF Waiting
    <2> QED BY <1>2, <2>4, <2>5 DEF Waiting
  <1> QED BY <1>1, <1>2

\* ispc code returns, and gives the flags back if it saved them.
LEMMA ReturnStep ==
    ASSUME CallInv, ReturnInst
    PROVE  CallInv'
  <1> DEFINE n == Len(frames)
             z == AfterCall(frames[n - 1], ReturnValue(Top))
  <1>1. /\ IsIspc(Top) /\ Top.call.state \in {"none", "over"} /\ Top.internal = Gang
        /\ frames' = Append(SubSeq(frames, 1, n - 2), z)
        /\ RestoreFunctionFTZ_DAZFlags(Top) /\ opts' = opts /\ appFtz' = appFtz
    BY DEF ReturnInst, InBody
  <1>2. /\ frames \in Seq(Frame) /\ n \in Nat /\ n > 1 /\ Top = frames[n]
        /\ CodeOK(Top, Emitted, Savers) /\ Top \in CodeFrame
    BY <1>1, TopFacts
  <1>3. n - 1 \in 1 .. n /\ n - 1 + 1 = n
    BY <1>2
  <1>4. /\ frames[n - 1] \in Frame
        /\ IsIspc(frames[n - 1]) => CodeOK(frames[n - 1], Emitted, Savers)
        /\ Waiting(frames[n - 1]) => Serves(frames[n - 1], Top)
    BY <1>2, <1>3 DEF CallInv, StackOK
  <1>5. ReturnValue(Top) \in Results /\ \A l \in Top.asked : ReturnValue(Top)[l] = Top.fn
    <2>1. Top.asked \in Lanes /\ Top.fn \in DefinedFunctions
      BY <1>2, FrameFields
    <2>2. GetFullMask(Top) = Top.asked
      BY <1>1, <2>1, TopMask DEF Lanes
    <2> QED BY <2>1, <2>2 DEF ReturnValue, Results, Lanes
  <1>6. Keeps(z, frames[n - 1], Emitted, Savers) /\ ~Waiting(z)
    BY <1>4, <1>5, ValueArrives
  <1> HIDE DEF z
  <1>7. z \in Frame
    BY <1>4, <1>6 DEF Keeps, CodeOK, Frame
  <1>8. /\ SubSeq(frames, 1, n - 2) \in Seq(Frame) /\ Len(SubSeq(frames, 1, n - 2)) = n - 2
        /\ \A i \in 1 .. n - 2 : SubSeq(frames, 1, n - 2)[i] = frames[i]
    <2> DEFINE m == n - 2
    <2>1. 1 \in Int /\ m \in Nat /\ m - 1 + 1 = m
      BY <1>2
    <2>2. \A i \in 1 .. m : frames[i] \in Frame
      BY <1>2
    <2> HIDE DEF m
    <2>3. /\ SubSeq(frames, 1, m) \in Seq(Frame) /\ Len(SubSeq(frames, 1, m)) = IF 1 <= m THEN m - 1 + 1 ELSE 0
          /\ \A i \in 1 .. m - 1 + 1 : SubSeq(frames, 1, m)[i] = frames[1 + i - 1]
      BY <2>1, <2>2, SubSeqProperties
    <2>4. Len(SubSeq(frames, 1, m)) = m /\ \A i \in 1 .. m : SubSeq(frames, 1, m)[i] = frames[i]
      <3>1. \A i \in 1 .. m : 1 + i - 1 = i
        BY <2>1
      <3> QED BY <2>1, <2>3, <3>1
    <2> QED BY <2>3, <2>4 DEF m
  <1>9. frames' \in Seq(Frame) /\ Len(frames') = n - 1 /\ frames'[n - 1] = z /\ \A i \in 1 .. n - 2 : frames'[i] = frames[i]
    BY <1>1, <1>2, <1>7, <1>8
  <1>10. ftz' = IF Saving(Top) THEN Top.savedFtz ELSE ftz
    <2>1. Saving(Top) <=> <<Top.fn, Top.version>> \in Savers
      BY <1>1, <1>2 DEF Saving, CodeOK
    <2>2. <<Top.fn, Top.version>> \in Savers <=> SavesFlags(Top.fn, Top.version)
      BY <1>2, FrameFields DEF Savers
    <2> QED BY <1>1, <2>1, <2>2 DEF RestoreFunctionFTZ_DAZFlags
  <1> QED BY <1>1, <1>2, <1>6, <1>9, <1>10, LeaveStep

-----------------------------------------------------------------------------
\* The application's thread starts in C++ code.
LEMMA CallStart == CallInit => CallInv
  <1> SUFFICES ASSUME CallInit PROVE CallInv
    OBVIOUS
  <1>1. frames = <<AppFrame>> /\ opts \in CallOptions /\ ftz \in Flags /\ appFtz = ftz
    BY DEF CallInit, AppFlags, Flags
  <1>2. frames \in Seq(Frame) /\ frames # <<>> /\ Len(frames) = 1 /\ frames[1] = AppFrame
    BY <1>1 DEF Frame
  <1>3. \A i \in 1 .. Len(frames) : ~IsIspc(frames[i]) /\ ~Waiting(frames[i]) /\ ~Saving(frames[i])
    BY <1>2, FrameKinds
  <1>4. StackOK(frames, Emitted, Savers)
    BY <1>2, <1>3 DEF StackOK
  <1>5. FlagsOK(frames, ftz, appFtz)
    BY <1>1, <1>3 DEF FlagsOK, FlagsAt
  <1> QED BY <1>1, <1>4, <1>5 DEF CallInv

\* Every step keeps the invariant.
LEMMA CallNextKeeps == CallInv /\ [CallNext]_callVars => CallInv'
  <1> SUFFICES ASSUME CallInv, [CallNext]_callVars PROVE CallInv'
    OBVIOUS
  <1>1. CASE UNCHANGED callVars
    <2>1. frames' = frames /\ opts' = opts /\ ftz' = ftz /\ appFtz' = appFtz
      BY <1>1 DEF callVars
    <2>2. StackOK(frames', Emitted, Savers) /\ FlagsOK(frames', ftz', appFtz') /\ ftz' \in Flags
      BY <2>1 DEF CallInv
    <2> QED BY <2>1, <2>2, InvFollows
  <1>2. CASE AppCall BY <1>2, AppCallStep
  <1>3. CASE AppSetsFlags BY <1>3, AppSetsFlagsStep
  <1>4. CASE AppReturns BY <1>4, AppReturnsStep
  <1>5. CASE IfAround BY <1>5, IfAroundStep
  <1>6. CASE EndIfAround BY <1>6, EndIfAroundStep
  <1>7. CASE CallInst BY <1>7, CallInstStep
  <1>8. CASE CallApp BY <1>8, CallAppStep
  <1>9. CASE AfterValue BY <1>9, AfterValueStep
  <1>10. CASE CallVarying BY <1>10, CallVaryingStep
  <1>11. CASE varying_funcall_call BY <1>11, VaryingCallStep
  <1>12. CASE varying_funcall_done BY <1>12, VaryingDoneStep
  <1>13. CASE LaunchInst BY <1>13, LaunchStep
  <1>14. CASE RunTask BY <1>14, RunTaskStep
  <1>15. CASE ReturnInst BY <1>15, ReturnStep
  <1> QED BY <1>1, <1>2, <1>3, <1>4, <1>5, <1>6, <1>7, <1>8, <1>9, <1>10, <1>11, <1>12, <1>13, <1>14, <1>15 DEF CallNext

\* The invariant says that calls are exact.
LEMMA InvIsExact == CallInv => CallsExact
  <1> SUFFICES ASSUME CallInv PROVE CallsExact
    OBVIOUS
  <1>1. ASSUME NEW i \in 1 .. Len(frames), IsIspc(frames[i])
        PROVE  /\ frames[i].version \in GenerateIR(frames[i].fn)
               /\ frames[i].wants # {}
               /\ OwnLanes(frames[i]) /\ OwnValues(frames[i])
               /\ frames[i].savedFtz # "none" => ftz = "flush"
    <2> DEFINE fr == frames[i]
    <2>1. CodeOK(fr, Emitted, Savers) /\ fr \in CodeFrame
      BY <1>1 DEF CallInv, StackOK, CodeOK
    <2>2. fr.version \in GenerateIR(fr.fn) /\ fr.wants # {}
      BY <2>1 DEF CodeOK, Emitted
    <2>3. OwnLanes(fr)
      BY <2>1 DEF CodeOK, CallOK, OwnLanes, GetFullMask
    <2>4. OwnValues(fr)
      BY <2>1 DEF CodeOK, CallOK, OwnValues
    <2>5. fr.savedFtz # "none" => ftz = "flush"
      <3>1. Len(frames) \in Nat /\ i < Len(frames) + 1
        BY TopFacts
      <3> QED BY <1>1, <3>1 DEF CallInv, FlagsOK, FlagsAt, Saving
    <2> QED BY <2>2, <2>3, <2>4, <2>5
  <1>2. Len(frames) = 1 => ftz = appFtz
    <2> SUFFICES ASSUME Len(frames) = 1 PROVE ftz = appFtz
      OBVIOUS
    <2>1. \A i \in 1 .. Len(frames) : ~Saving(frames[i])
      BY TopFacts, FrameKinds
    <2> QED BY <2>1 DEF CallInv, FlagsOK, FlagsAt
  <1> QED BY <1>1, <1>2 DEF CallsExact

\* Whatever functions a module has and however they call each other, a call runs
\* code that exists, for exactly the program instances that make it, each gets
\* the value of the function it called, and the FTZ/DAZ flags are set while code
\* that asked for it runs and given back to the application (CallsExact).
THEOREM CallsAreExact == CallSpec => []CallsExact
  <1> QED BY CallStart, CallNextKeeps, InvIsExact, PTL DEF CallSpec
=============================================================================
