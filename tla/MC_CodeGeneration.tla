------------------------- MODULE MC_CodeGeneration --------------------------
(***************************************************************************)
(* What the compiler makes of a program, for TLC: masks, calls, the memory *)
(* passes, the coalescing of gathers, targets, multi-target compilations,  *)
(* the dispatch functions they contain, and the library's engines.  They   *)
(* share no state: a behaviour is one of one of them, and the others stay  *)
(* where they are.                                                         *)
(***************************************************************************)
EXTENDS MC_MaskedControlFlow, MemoryOps, GatherCoalesce, Dispatch, MultiTarget, Engine, MC_FunctionCalls

-----------------------------------------------------------------------------
(*****************************************************************************)
(* MemoryOps: a loop with counters, indices made of them, and options        *)
(*****************************************************************************)

CONSTANT LoopStep   \* the counters' step: a multiple of the gang's size

N(n) == Number(n, "i32")
S(n) == Splat(n, "i32")
I == Phi("i", "i32")
J == Phi("j", "i32")
P == Phi("p", "i32")
Q == Phi("q", "i32")
R == Ramp(0, 1, "i32")

MCLoop == [i |-> [init |-> N(0), next |-> Bin("add", I, N(LoopStep))],
           j |-> [init |-> N(0), next |-> Bin("add", J, N(LoopStep))],
           p |-> [init |-> R, next |-> Bin("add", P, S(LoopStep))],
           q |-> [init |-> S(3), next |-> Bin("add", Q, Smear(I))]]

Leaf == [ramp |-> R, i |-> Smear(I), p |-> P, q |-> Q, load |-> Load("i32"), three |-> S(3),
         pair |-> Chain([l \in Elements |-> IF l = 1 THEN I ELSE J], "i32"),
         row |-> Bin("add", Smear(I), R), arg |-> Smear(Arg("i32")),
         argrow |-> Bin("add", Smear(Arg("i32")), R)]
Leaves == DOMAIN Leaf

\* Indices: leaves, sums and differences, the record and the lane of a soa
\* index, multiples, and sums that are multiplied or subtracted.
IndexNames ==
    ({"leaf", "major", "minor", "twice", "minus", "shifted", "from"} \X Leaves)
        \cup ({"add", "sub"} \X {"ramp", "i", "p", "q", "load"} \X {"ramp", "i", "q", "three", "pair"})
        \cup {<<"or", "i", "ramp">>}

Index(n) ==
    LET a == Leaf[n[2]]
    IN CASE n[1] = "leaf"  -> a
         [] n[1] = "major" -> lComputeSliceIndex(a, 2).major
         [] n[1] = "minor" -> lComputeSliceIndex(a, 2).minor
         [] n[1] = "twice" -> Bin("mul", a, S(2))
         [] n[1] = "minus" -> Bin("mul", a, S(-1))
         [] n[1] = "shifted" -> Bin("shl", Bin("add", a, S(1)), S(1))
         [] n[1] = "from" -> Bin("add", Bin("sub", S(5), a), Leaf["arg"])
         [] OTHER -> Bin(n[1], a, Leaf[n[3]])

Heap == [k |-> "heap"]
Known(on, undef) == ConstMask([l \in Elements |-> IF l \in on THEN "on" ELSE IF l \in undef THEN "undef" ELSE "off"])

Plain == [kind |-> "gather", unsigned |-> FALSE, force32 |-> FALSE, native |-> FALSE, form |-> "gep",
          level |-> 1, improve |-> TRUE, active |-> Elements, mask |-> LiveMask, place |-> Heap]

\* Options that all indices are tried with ...
Main ==
    [gather |-> Plain,
     gather32 |-> [Plain EXCEPT !.native = TRUE, !.force32 = TRUE, !.active = {1, VectorWidth}],
     scatter |-> [Plain EXCEPT !.kind = "scatter", !.native = TRUE],
     scatter32 |-> [Plain EXCEPT !.kind = "scatter", !.force32 = TRUE, !.active = {1, VectorWidth}]]

\* ... and ones that a few are: other levels, masks known from the start,
\* unsigned indices, stores to local variables, other shapes of pointers.
Local(place) == [Plain EXCEPT !.kind = "scatter", !.active = {1}, !.place = place]
Other ==
    [o0 |-> [Plain EXCEPT !.level = 0, !.kind = "scatter"],
     noimprove |-> [Plain EXCEPT !.improve = FALSE, !.native = TRUE],
     off |-> [Plain EXCEPT !.active = {}, !.mask = Known({}, {1})],
     prefix |-> [Plain EXCEPT !.active = {1, 2}, !.mask = Known({1, 2}, {3, 4})],
     prefix3 |-> [Plain EXCEPT !.active = {1, 2, 3}, !.mask = Known({1, 2, 3}, {}), !.kind = "scatter"],
     hole |-> [Plain EXCEPT !.active = {1, 3}, !.mask = Known({1, 3}, {}), !.kind = "scatter"],
     unsigned |-> [Plain EXCEPT !.unsigned = TRUE],
     unsigned32 |-> [Plain EXCEPT !.unsigned = TRUE, !.force32 = TRUE],
     variable |-> Local([k |-> "variable", type |-> Vec(VectorWidth), offset |-> 0]),
     short |-> Local([k |-> "variable", type |-> Array(Vec(2), 2), offset |-> 0]),
     field |-> Local([k |-> "field", type |-> Struct(<<Scalar, Struct(<<Vec(VectorWidth), Scalar>>)>>), offset |-> 1]),
     element |-> Local([k |-> "element", type |-> Array(Vec(VectorWidth), 2), offset |-> VectorWidth]),
     first |-> Local([k |-> "field", type |-> Struct(<<Scalar, Vec(VectorWidth)>>), offset |-> 0]),
     globals |-> [Plain EXCEPT !.form = "globals"],
     sameglobal |-> [Plain EXCEPT !.form = "sameglobal"],
     extracted |-> [Plain EXCEPT !.form = "extracted"],
     swapped |-> [Plain EXCEPT !.form = "swapped"],
     broadcast |-> [Plain EXCEPT !.form = "broadcast"]]

\* The varying pointer of a form.
Global(p, d) == [p |-> p, d |-> d]
Pointers(form, i, o) ==
    LET gep == applyVaryingGEP("A", i, o.unsigned, o.force32)
    IN CASE form = "gep" -> gep
         [] form = "globals" -> [k |-> "globals", w |-> "i64", g |-> [l \in Elements |-> Global("B", 2 * l)]]
         [] form = "sameglobal" -> Bin("add", [k |-> "globals", w |-> "i64", g |-> [l \in Elements |-> Global("B", 0)]], gep.b)
         [] form = "extracted" ->
              [k |-> "extract", w |-> "i64", index |-> 1,
               inserts |-> <<[index |-> 2, val |-> Smear(Ptr("B"))], [index |-> 1, val |-> gep]>>]
         [] form = "swapped" -> Bin("add", gep.b, gep.a)
         [] form = "broadcast" ->
              Bin("add", Bcast(Bin("add", Chain(FirstOnly(Ptr("A")), "i64"),
                                   Chain(FirstOnly(Number(4, "i64")), "i64"))), gep.b)

Make(i, o) ==
    [kind |-> o.kind, unsigned |-> o.unsigned, force32 |-> o.force32, native |-> o.native, level |-> o.level,
     improve |-> o.improve, active |-> o.active, mask |-> o.mask, place |-> o.place,
     arg |-> 2, load |-> [l \in Elements |-> (3 * l) % 5], base |-> [A |-> 40, B |-> 80],
     index |-> i, offset |-> applyVaryingGEP("A", i, o.unsigned, o.force32).b,
     ptrs |-> Pointers(o.form, i, o)]

Names == (IndexNames \X DOMAIN Main) \cup ({<<"leaf", a>> : a \in Leaves} \X DOMAIN Other)

MCAccess ==
    [n \in Names |-> Make(Index(n[1]), IF n[2] \in DOMAIN Main THEN Main[n[2]] ELSE Other[n[2]])]

-----------------------------------------------------------------------------
(*****************************************************************************)
(* GatherCoalesce: single gathers, and blocks of several instructions        *)
(*****************************************************************************)

Uniform(width, v) == [l \in 1 .. width |-> v]
Gather(width, base, var, narrow, m, offsets) ==
    [op |-> "gather", base |-> base, var |-> var, scale |-> 2, narrow |-> narrow, mask |-> m,
     offsets |-> offsets]

\* One gather of four elements out of the first MaxSpan, and one of eight.
OneGather ==
    {[width |-> 4, code |-> <<Gather(4, 100, Uniform(4, 6), FALSE, "all_on", [l \in 1 .. 4 |-> 4 * o[l]])>>] :
        o \in [1 .. 4 -> 0 .. MaxSpan - 1]}
    \cup {[width |-> 8, code |-> <<Gather(8, 100, Uniform(8, 6), TRUE, "all_on",
                                          [l \in 1 .. 8 |-> 4 * ((s * l * l + t * l) % (2 * MaxSpan))])>>] :
        s \in 0 .. 5, t \in -7 .. 7}

G(base, var, m, s) == Gather(4, base, var, FALSE, m, [l \in 1 .. 4 |-> 4 * (s * (l - 1) - 3)])
Store == [op |-> "store"]
Call(readonly) == [op |-> "call", readonly |-> readonly]
Instructions ==
    {G(100, Uniform(4, 6), "all_on", 2), G(100, Uniform(4, 6), "all_on", -3), G(200, Uniform(4, 6), "all_on", 2),
     G(100, <<6, 6, 7, 6>>, "all_on", 2), G(100, Uniform(4, 6), "mixed", 2),
     Store, Call(TRUE), Call(FALSE)}

SeveralInstructions == {[width |-> 4, code |-> c] : c \in UNION {[1 .. n -> Instructions] : n \in 2 .. 4}}

\* Groups of the wider gangs; the fifth gather of a row starts a new group.
Rows(widths) ==
    {[width |-> w, code |-> [k \in 1 .. n |-> Gather(w, 100, Uniform(w, 6), FALSE, "all_on",
                                                     [l \in 1 .. w |-> 4 * (2 * l + k)])]] :
        w \in widths, n \in 1 .. 5}

MCBlocks == OneGather \cup SeveralInstructions \cup Rows({8, 16})
                \cup {b \in Rows({32}) : Len(b.code) = 1}

\* Several gathers of a gang of 32.
MCWideBlocks == Rows({32})

-----------------------------------------------------------------------------
(*****************************************************************************)
(* Targets, and compilations for several of them                             *)
(*****************************************************************************)

AHost == [cpu |-> "SKX", hidden |-> FALSE, os |-> "avx512", mac |-> FALSE]
Nothing == [os |-> "linux", arch |-> "none", cpu |-> "none", target |-> NoTarget, zmm |-> TRUE, host |-> AHost]

\* Every target for every device; for every OS and architecture, or
\* without zmm registers; and the host, on every machine.
MCRequests ==
    {[Nothing EXCEPT !.cpu = c, !.target = t] :
        c \in DeviceTypes \union {"none"}, t \in ISPCTargets \union {NoTarget}}
    \union {[Nothing EXCEPT !.arch = a, !.os = o, !.target = t] :
        a \in Arches \union {"none"}, o \in TargetOSes, t \in ISPCTargets \union {NoTarget}}
    \union {[Nothing EXCEPT !.os = o, !.target = t, !.zmm = FALSE] : o \in TargetOSes, t \in ISPCTargets}
    \union {[Nothing EXCEPT !.target = t, !.arch = a, !.host = m] :
        m \in Machines, t \in {NoTarget, HostTarget}, a \in {"none", "x86", "aarch64"}}

Sources == [globals : SUBSET Globals, exports : SUBSET {"f"}]
SomeTargets == {<<"sse2", "i32x4">>, <<"sse41", "i32x4">>, <<"sse4", "i32x8">>, <<"avx2", "i32x8">>,
                <<"avx2", "i32x16">>, <<"avx512skx", "x16">>, HostTarget}
Build(targets, cpu, stdout, unit) ==
    [targets |-> targets, cpu |-> cpu, stdout |-> stdout, source |-> unit, host |-> AHost]

\* One or two targets, or three in any order, with whatever each of them has;
\* and the arguments that are refused.
MCBuilds ==
    {Build(<<t>>, c, o, <<s>>) : t \in SomeTargets \union {NoTarget}, c \in {"none", "Haswell"}, o \in BOOLEAN, s \in Sources}
    \union {Build(<<t, u>>, "none", FALSE, s) : t, u \in SomeTargets, s \in [1 .. 2 -> Sources]}
    \union {Build(<<<<"sse4", "i32x8">>, <<"avx2", "i32x8">>>>, c, o, <<s, s>>) : c \in {"none", "Haswell"}, o \in BOOLEAN, s \in Sources}
    \union {Build(<<t, u, <<"sse2", "i32x4">>>>, "none", FALSE, s) :
        t, u \in {<<"avx512skx", "x16">>, <<"avx2", "i32x8">>}, s \in [1 .. 3 -> Sources]}

\* What a dispatch function chooses from: one or two of the ISAs, of which
\* SSE4.1 and SSE4.2 exclude each other.
WithoutVnni ==
    {s \in SUBSET ({ISA.SSE2, ISA.SSE41, ISA.SSE42, ISA.AVX, ISA.AVX2} \union (ISA.SKX_AVX512 .. ISA.DMR_AVX10_2)) :
        Cardinality(s) \in 1 .. 2 /\ ~({ISA.SSE41, ISA.SSE42} \subseteq s)}

-----------------------------------------------------------------------------
(*****************************************************************************)
(* The composition                                                           *)
(*****************************************************************************)

VARIABLE part   \* the component that takes the steps of the behaviour

Parts == {"masks", "calls", "memory", "gathers", "targets", "multi", "dispatch", "engines"}

\* What BestVariantRuns takes for granted of the dispatch tests.
ASSUME DispatchTestsExact == TestsExact

\* What the parts at rest hold: an empty function, an access that is no more,
\* an empty block, a request that was refused, a build that failed, a program
\* that nobody calls; the library is not initialised.
MasksAtRest == /\ work = <<>> /\ kont = [l \in Lanes |-> <<>>]
               /\ internal = Lanes /\ function = Lanes /\ returned = {}
               /\ ctx = Context(FALSE, FALSE, {})
AccessAtRest == /\ name = <<<<"leaf", "ramp">>, "gather">> /\ mask = LiveMask
                /\ inst = [k |-> "removed"] /\ scalars = <<>> /\ passes = <<>>
                /\ env = [iter |-> 0]
BlockAtRest == source = [width |-> 4, code |-> <<>>] /\ code = <<>> /\ iter = 1 /\ loaded = {}
TargetAtRest == request = Nothing /\ resolved = Invalid
BuildAtRest == /\ build = Build(<<NoTarget>>, "none", FALSE, <<>>) /\ step = "done" /\ current = 1
               /\ modules = <<>> /\ observers = [target |-> 0, module |-> 0] /\ files = {}
               /\ dispatch = [globals |-> {}, variants |-> {}, warned |-> {}] /\ result = "error"
StackAtRest == frames = <<AppFrame>> /\ opts = Defaults /\ ftz = "keep" /\ appFtz = "keep"
DispatchAtRest == /\ mach = AHost /\ targetFuncs = [f \in Exports |-> {}] /\ systemBestIsa = NotCached
               /\ funcPtrCache = [f \in Exports |-> NullPtr] /\ caller = [t \in Threads |-> Idle]

MCInit ==
    /\ part \in Parts
    /\ IF part = "masks" THEN Init ELSE MasksAtRest
    /\ IF part = "memory" THEN MemoryInit ELSE AccessAtRest
    /\ IF part = "gathers" THEN CoalesceInit ELSE BlockAtRest
    /\ IF part = "targets" THEN TargetsInit ELSE TargetAtRest
    /\ IF part = "multi" THEN MultiTargetInit ELSE BuildAtRest
    /\ IF part = "dispatch" THEN DispatchInit ELSE DispatchAtRest
    /\ IF part = "calls" THEN CallInit ELSE StackAtRest
    /\ EngineInit

MaskStep == part = "masks" /\ Next /\ UNCHANGED <<part, opsVars, coalesceVars, targetVars, multiVars, dispatchVars, engineVars, callVars>>
AccessStep == part = "memory" /\ MemoryNext /\ UNCHANGED <<part, vars, coalesceVars, targetVars, multiVars, dispatchVars, engineVars, callVars>>
GatherStep == part = "gathers" /\ CoalesceNext /\ UNCHANGED <<part, vars, opsVars, targetVars, multiVars, dispatchVars, engineVars, callVars>>
TargetStep == part = "targets" /\ Create /\ UNCHANGED <<part, vars, opsVars, coalesceVars, multiVars, dispatchVars, engineVars, callVars>>
BuildStep == part = "multi" /\ MultiTargetNext /\ UNCHANGED <<part, vars, opsVars, coalesceVars, targetVars, dispatchVars, engineVars, callVars>>
VariantStep == part = "dispatch" /\ DispatchNext /\ UNCHANGED <<part, vars, opsVars, coalesceVars, targetVars, multiVars, engineVars, callVars>>
CallStep == part = "calls" /\ CallNext /\ UNCHANGED <<part, vars, opsVars, coalesceVars, targetVars, multiVars, dispatchVars, engineVars>>
EngineStep == part = "engines" /\ EngineNext /\ UNCHANGED <<part, vars, opsVars, coalesceVars, targetVars, multiVars, dispatchVars, callVars>>

\* The loop has run for its iterations, the block has no instruction left, the
\* target is there or refused, the compilation or the process has ended, the
\* instances of the globals are used up.
Ended ==
    /\ \/ part = "memory" /\ env.iter = MaxIterations
       \/ part = "gathers" /\ iter > Len(code)
       \/ part = "targets" /\ resolved.status # "pending"
       \/ part = "multi" /\ step = "done"
       \/ part = "dispatch" /\ ~ProcessLives
       \/ part = "engines" /\ contexts = MaxContexts
    /\ UNCHANGED <<part, vars, opsVars, coalesceVars, targetVars, multiVars, dispatchVars, engineVars, callVars>>

MCNext ==
    MaskStep \/ AccessStep \/ GatherStep \/ TargetStep \/ BuildStep \/ VariantStep \/ CallStep \/ EngineStep \/ Ended

MCSpec == MCInit /\ [][MCNext]_<<part, vars, opsVars, coalesceVars, targetVars, multiVars, dispatchVars, engineVars, callVars>>
=============================================================================
