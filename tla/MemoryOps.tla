------------------------------ MODULE MemoryOps ------------------------------
(***************************************************************************)
(* One gather or scatter of a loop on its way through the memory passes:   *)
(* the front end's varying pointer (applyVaryingGEP), ImproveMemoryOps,    *)
(* ReplacePseudoMemoryOps, IntrinsicsOpt, InstructionSimplify and          *)
(* ReplaceMaskedMemOps in the order of Optimize, each rewriting the        *)
(* instruction to a cheaper one; then the loop runs.  What the             *)
(* instruction does is a function of the loop's values (Effect), so the    *)
(* rewritten one can be compared with the source's at every iteration.     *)
(***************************************************************************)
EXTENDS VectorAnalysis, TLC

CONSTANTS
    Access,         \* the source accesses considered, each with its options
    LoopPhis,       \* the phis of the loop they are in
    ElementSize,    \* bytes of an element: 2, 4 or 8
    MaxIterations   \* iterations of the loop that are looked at

ASSUME MemoryAssumption == ElementSize \in {2, 4, 8} /\ MaxIterations \in Nat

VARIABLES
    name,     \* which access it is
    mask,     \* what the compiler knows of its mask
    inst,     \* the instruction it has become
    scalars,  \* the scalar phis that the optimiser has added to the loop
    passes,   \* the passes still to run
    env       \* the values of the running loop; iter counts its iterations
opsVars == <<name, mask, inst, scalars, passes, env>>

access == Access[name]
phis == scalars @@ LoopPhis

Ptr(p) == [k |-> "ptr", p |-> p, w |-> "i64"]

\* The index extended to 64 bits, with or without its sign.
lExtendIntTo64(e, unsigned) ==
    Cast(IF unsigned THEN "zext" ELSE "sext", e, "i64")

\* A pointer smeared over the lanes plus the index times the element's size;
\* with 32-bit addressing the product is taken in 32 bits.
applyVaryingGEP(base, index, unsigned, force32) ==
    LET offset == IF force32
                  THEN lExtendIntTo64(Bin("mul", Splat(ElementSize, "i32"), index), unsigned)
                  ELSE Bin("mul", Splat(ElementSize, "i64"), lExtendIntTo64(index, unsigned))
    IN Bin("add", Smear(Ptr(base)), offset)

\* The record of an array of soa<width> structures and the lane inside it.
lComputeSliceIndex(index, logWidth) ==
    [major |-> Bin("ashr", index, Splat(logWidth, "i32")),
     minor |-> Bin("and", index, Splat(2^logWidth - 1, "i32"))]

------------------------------------------------------------------------------
(* A common base pointer and the offsets from it.                          *)

NoBase == [base |-> NoValue, offsets |-> NoValue]

\* Only a value that is a pointer in the end may serve as a base.
lCheckForActualPointer(e) == IF e.k = "ptr" THEN e ELSE NoValue

\* The pointer every lane holds.  "globals" is a constant vector of addresses
\* of globals, each with a constant delta.
RECURSIVE lGetBasePointer(_, _)
lGetBasePointer(e, first) ==
    CASE e.k \in {"chain", "bcast"} ->
            lCheckForActualPointer(LLVMFlattenInsertChain(e, phis, FALSE, first))
      [] e.k = "globals" /\ \A l \in Elements : e.g[l] = e.g[1] /\ e.g[1].d = 0 ->
            Ptr(e.g[1].p)
      [] e.k = "cast" ->
            LET t == lGetBasePointer(e.a, first)
            IN IF t = NoValue THEN NoValue ELSE Cast(e.op, t, e.w)
      [] OTHER -> NoValue

\* The value an aggregate holds at an index: the outermost insert of it.
lExtractFromInserts(inserts, index) ==
    LET at == {n \in DOMAIN inserts : inserts[n].index = index}
    IN IF at = {} THEN NoValue
       ELSE inserts[CHOOSE n \in at : \A m \in at : n <= m].val

RECURSIVE lGetBasePtrAndOffsets(_)
lGetBasePtrAndOffsets(e) ==
    LET broadcast == e.k = "bcast"
        base == lGetBasePointer(e, broadcast)
        zero == Zero("i64")
    IN CASE base # NoValue ->
              IF broadcast /\ IsAdd(e.a)
              THEN LET op == e.a
                       part == IF lIsFirstElementConstVector(op.b) THEN op.b ELSE op.a
                   IN IF lIsFirstElementConstVector(op.b) \/ op.a.k = "bin"
                      THEN [base |-> base, offsets |-> Bin("add", zero, Bcast(part))]
                      ELSE NoBase
              ELSE [base |-> base, offsets |-> zero]
         [] IsAdd(e) ->
              LET left == lGetBasePtrAndOffsets(e.a)
                  right == lGetBasePtrAndOffsets(e.b)
              IN CASE left # NoBase ->
                        [base |-> left.base, offsets |-> Bin("add", left.offsets, e.b)]
                   [] left = NoBase /\ right # NoBase ->
                        [base |-> right.base, offsets |-> Bin("add", right.offsets, e.a)]
                   [] OTHER -> NoBase
         [] e.k = "globals" /\ \A l \in Elements : e.g[l].p = e.g[1].p ->
              [base |-> Ptr(e.g[1].p),
               offsets |-> Const([l \in Elements |-> e.g[l].d], "i64")]
         [] e.k = "extract" ->
              LET v == lExtractFromInserts(e.inserts, e.index)
              IN IF v = NoValue THEN NoBase ELSE lGetBasePtrAndOffsets(v)
         [] OTHER -> NoBase

------------------------------------------------------------------------------
(* The constant and the variable part of the offsets, and their scale.     *)

Some(e) == e # NoValue
IsZero(e) == e.k = "const" /\ \A l \in Elements : e.v[l] = 0

\* The sum of two parts, of which either may be missing or zero.
Plus(x, y) ==
    CASE ~Some(x) \/ IsZero(x) -> y
      [] ~Some(y) \/ IsZero(y) -> x
      [] OTHER -> Bin("add", x, y)

BinIf(op, x, y) == IF Some(x) /\ Some(y) THEN Bin(op, x, y) ELSE NoValue
AddIf(x, y) == IF Some(x) /\ Some(y) THEN Bin("add", x, y)
               ELSE IF Some(x) THEN x ELSE y

RECURSIVE lExtractConstantOffset(_)
lExtractConstantOffset(e) ==
    LET nothing == [c |-> NoValue, v |-> e]
    IN CASE e.k = "const" -> [c |-> e, v |-> NoValue]
         [] e.k = "cast" ->
              LET x == lExtractConstantOffset(e.a)
                  Again(y) == IF Some(y) THEN Cast(e.op, y, e.w) ELSE NoValue
              IN [c |-> Again(x.c), v |-> Again(x.v)]
         [] e.k = "bin" ->
              LET x == lExtractConstantOffset(e.a)
                  y == lExtractConstantOffset(e.b)
              IN CASE IsAdd(e) -> [c |-> Plus(x.c, y.c), v |-> Plus(x.v, y.v)]
                   [] e.op = "shl" ->
                        CASE Some(y.v) \/ ~Some(x.c) \/ ~Some(y.c) -> nothing
                          [] ~Some(y.v) /\ Some(x.c) /\ Some(y.c) /\ ~Some(x.v) ->
                               [c |-> e, v |-> NoValue]
                          [] OTHER -> [c |-> Bin("shl", x.c, y.c), v |-> Bin("shl", x.v, y.c)]
                   [] e.op = "mul" ->
                        [c |-> BinIf("mul", x.c, y.c),
                         v |-> AddIf(AddIf(BinIf("mul", x.v, y.c), BinIf("mul", x.c, y.v)),
                                     BinIf("mul", x.v, y.v))]
                   [] OTHER -> nothing
         [] OTHER -> nothing

\* A multiply by a splat: the factor of 2, 4 or 8 that goes into the scale.
lExtract248Scale(splat, other, e) ==
    LET s == SplatValue(splat)
        scales == {n \in {2, 4, 8} : Rem(s, n) = 0}
        most == CHOOSE n \in scales : \A m \in scales : m <= n
    IN CASE s \in {2, 4, 8} -> [scale |-> s, vec |-> other]
         [] s \notin {2, 4, 8} /\ scales # {} ->
              [scale |-> most,
               vec |-> Bin("mul", Bin("sdiv", splat, Splat(most, splat.w)), other)]
         [] OTHER -> [scale |-> 1, vec |-> e]

lIsIntegerSplat(e) == IsSplat(e) /\ ~IsZero(e)

RECURSIVE lExtractOffsetVector248Scale(_)
lExtractOffsetVector248Scale(e) ==
    LET one == [scale |-> 1, vec |-> e]
    IN CASE e.k = "cast" ->
              LET x == lExtractOffsetVector248Scale(e.a)
              IN [scale |-> x.scale, vec |-> Cast(e.op, x.vec, e.w)]
         [] IsAdd(e) ->
              LET x == lExtractOffsetVector248Scale(e.a)
                  y == lExtractOffsetVector248Scale(e.b)
              IN CASE IsZero(e.a) -> y
                   [] ~IsZero(e.a) /\ IsZero(e.b) -> x
                   [] ~IsZero(e.a) /\ ~IsZero(e.b) /\ x.scale = y.scale ->
                        [scale |-> x.scale, vec |-> Bin("add", x.vec, y.vec)]
                   [] OTHER -> one
         [] e.k = "bin" /\ e.op = "mul" ->
              CASE lIsIntegerSplat(e.a) -> lExtract248Scale(e.a, e.b, e)
                [] ~lIsIntegerSplat(e.a) /\ lIsIntegerSplat(e.b) ->
                     lExtract248Scale(e.b, e.a, e)
                [] OTHER -> one
         [] OTHER -> one

lVectorIs32BitInts(e) ==
    e.k = "const" /\ \A l \in Elements :
        LET x == LLVMExtractVectorInts(e)[l]
        IN Signed(Wrap(x, "i32"), "i32") = x

Trunc(e) == Cast("trunc", e, "i32")

\* Offsets of the factored functions in 32 bits, NoValue when that is not
\* known to be safe.  The constant part is assumed to fit.
lOffsets32BitSafe(var, cst) ==
    LET v == CASE var.w = "i32" -> var
               [] var.w # "i32" /\ var.k = "cast" ->
                    IF var.op \in {"zext", "sext"} /\ var.a.w = "i32" THEN var.a ELSE NoValue
               [] var.w # "i32" /\ var.k # "cast" /\ lVectorIs32BitInts(var) -> Trunc(var)
               [] OTHER -> NoValue
    IN [safe |-> Some(v), var |-> v, cst |-> IF cst.w = "i32" THEN cst ELSE Trunc(cst)]

RECURSIVE lIs32BitSafeHelper(_)
lIs32BitSafeHelper(e) ==
    CASE e.k = "bin" -> IsAdd(e) /\ lIs32BitSafeHelper(e.a) /\ lIs32BitSafeHelper(e.b)
      [] e.k = "cast" /\ e.op = "sext" -> e.a.w = "i32"
      [] OTHER -> lVectorIs32BitInts(e)

\* The same for the single offset vector of a native gather or scatter.
lOffset32BitSafe(e) ==
    CASE e.w = "i32" -> e
      [] e.w # "i32" /\ e.k = "cast" /\ e.op = "sext" /\ e.a.w = "i32" -> e.a
      [] ~(e.w = "i32" \/ (e.k = "cast" /\ e.op = "sext" /\ e.a.w = "i32"))
           /\ lIs32BitSafeHelper(e) -> Trunc(e)
      [] OTHER -> NoValue

------------------------------------------------------------------------------
(* ImproveMemoryOps: each rewrite gives the new instruction, NoInst when   *)
(* it does not apply.                                                      *)

NoInst == [k |-> "noinst"]

\* Gathers (scatters) of the target are native, or built from scalar accesses
\* by functions that take the constant offsets apart.
UseNative == access.native

\* The pseudo functions of base pointer and offsets: the offsets in one vector
\* for native gathers, else the constant part of each apart from the rest.  With
\* x a scale and what it scales.
NativeOffsets(base, x, narrow) ==
    [k |-> "base", pseudo |-> TRUE, base |-> base, scale |-> x.scale,
     offsets |-> IF access.force32 /\ Some(narrow) THEN narrow ELSE x.vec]
FactoredOffsets(base, x, cst, narrow) ==
    [k |-> "factored", pseudo |-> TRUE, base |-> base, scale |-> x.scale,
     var |-> IF access.force32 /\ narrow.safe THEN narrow.var ELSE x.vec,
     cst |-> IF access.force32 /\ narrow.safe THEN narrow.cst ELSE cst]

OrZero(e, w) == IF Some(e) THEN e ELSE Zero(w)
ScaledOffsets(base, x) == NativeOffsets(base, x, lOffset32BitSafe(x.vec))
ScaledParts(base, x, cst) == FactoredOffsets(base, x, cst, lOffsets32BitSafe(x.vec, cst))
ConstantApart(base, parts, w) ==
    ScaledParts(base, lExtractOffsetVector248Scale(OrZero(parts.v, w)), OrZero(parts.c, w))
BaseOffsets(b) ==
    CASE b = NoBase -> NoInst
      [] b # NoBase /\ UseNative -> ScaledOffsets(b.base, lExtractOffsetVector248Scale(b.offsets))
      [] OTHER -> ConstantApart(b.base, lExtractConstantOffset(b.offsets), b.offsets.w)

lGSToGSBaseOffsets(c) ==
    IF c.k # "gs" \/ ~c.pseudo THEN NoInst ELSE BaseOffsets(lGetBasePtrAndOffsets(c.ptrs))

\* Mutant: the offset that the constant came from is kept.
MoreConstKeepsOffset(c) ==
    IF c.k # "factored" \/ IsZero(c.var) THEN NoInst
    ELSE LET parts == lExtractConstantOffset(c.var)
         IN IF ~Some(parts.c) THEN NoInst
            ELSE [c EXCEPT !.var = IF Some(parts.v) THEN parts.v ELSE c.var,
                           !.cst = Bin("add", Bin("mul", parts.c, Splat(c.scale, c.var.w)), c.cst)]

\* More of the variable offset moved to the constant one, times the scale.
lGSBaseOffsetsGetMoreConst(c) ==
    IF c.k # "factored" \/ IsZero(c.var) THEN NoInst
    ELSE LET parts == lExtractConstantOffset(c.var)
         IN IF ~Some(parts.c) THEN NoInst
            ELSE [c EXCEPT !.var = IF Some(parts.v) THEN parts.v ELSE Zero(c.var.w),
                           !.cst = Bin("add", Bin("mul", parts.c, Splat(c.scale, c.var.w)), c.cst)]

\* base + scale * offsets (+ constant), as one vector of offsets.
FullOffsets(c) ==
    CASE c.k = "factored" ->
            Bin("add", Bin("mul", Splat(c.scale, c.var.w), c.var), c.cst)
      [] c.k = "base" /\ c.scale = 1 -> c.offsets
      [] OTHER -> Bin("mul", Splat(c.scale, c.offsets.w), c.offsets)

\* The address of an offset from a base: the index of a GEP is signed.
Wide(e) == IF e.w = "i64" THEN e ELSE Cast("sext", e, "i64")
GEP(base, offset) == Bin("add", base, Wide(offset))

lComputeCommonPointer(base, offsets) == GEP(base, LLVMExtractFirstVectorElement(offsets))

\* Mutant: backward accesses start where the first lane's is.
NegativeStrideFromFirst(base, offsets) == lComputeCommonPointer(base, offsets)

\* Backward accesses start at the address of the last lane.
lComputeCommonPointerForNegativeStride(base, offsets) ==
    GEP(base, [k |-> "lane", l |-> VectorWidth, a |-> offsets, w |-> offsets.w])

IsGather == access.kind = "gather"
AllOn == GetMaskStatusFromValue(mask) = "all_on"
AllOff == GetMaskStatusFromValue(mask) = "all_off"

\* All lanes at one address: a scalar load that is broadcast.  Elements in a row,
\* forward or, under a mask that is all on, backward: a masked load or store.
MaskedAt(ptr, rev) == [k |-> "masked", ptr |-> ptr, rev |-> rev, form |-> IF IsGather THEN "native" ELSE "pseudo"]
LoadStoreAt(c, offsets) ==
    IF LLVMVectorValuesAllEqual(offsets, phis)
    THEN IF IsGather THEN [k |-> "broadcast", ptr |-> lComputeCommonPointer(c.base, offsets)] ELSE NoInst
    ELSE IF LLVMVectorIsLinear(offsets, ElementSize, phis)
    THEN MaskedAt(lComputeCommonPointer(c.base, offsets), FALSE)
    ELSE IF LLVMVectorIsLinear(offsets, -ElementSize, phis) /\ AllOn
    THEN MaskedAt(lComputeCommonPointerForNegativeStride(c.base, offsets), TRUE)
    ELSE NoInst
lGSToLoadStore(c) ==
    IF c.k \notin {"base", "factored"} \/ ~c.pseudo THEN NoInst ELSE LoadStoreAt(c, FullOffsets(c))

\* Nothing is left of an access with no lane on; one with all lanes on needs
\* no mask.
Unmasked(c) ==
    CASE AllOff -> [k |-> "removed"]
      [] AllOn  -> [k |-> "plain", ptr |-> c.ptr, rev |-> c.rev, n |-> VectorWidth]
      [] OTHER  -> NoInst

lImproveMaskedStore(c) ==
    IF c.k = "masked" /\ ~IsGather /\ c.form \in {"pseudo", "native", "blend"}
    THEN Unmasked(c) ELSE NoInst

lImproveMaskedLoad(c) ==
    IF c.k = "masked" /\ IsGather /\ c.form \in {"native", "blend"}
    THEN Unmasked(c) ELSE NoInst

------------------------------------------------------------------------------
(* The later passes.                                                       *)

\* Types of local variables: vectors and scalars of elements, arrays, structs.
Scalar == [k |-> "scalar"]
Vec(n) == [k |-> "vec", n |-> n]
Array(t, n) == [k |-> "array", of |-> t, n |-> n]
Struct(f) == [k |-> "struct", f |-> f]

RECURSIVE SizeOf(_)
SizeOf(t) ==
    CASE t.k = "scalar" -> 1
      [] t.k = "vec" -> t.n
      [] t.k = "array" -> t.n * SizeOf(t.of)
      [] t.k = "struct" -> LET upTo[i \in 0 .. Len(t.f)] ==
                                  IF i = 0 THEN 0 ELSE upTo[i - 1] + SizeOf(t.f[i])
                           IN upTo[Len(t.f)]

FieldOffset(t, i) == SizeOf(Struct(SubSeq(t.f, 1, i - 1)))

\* The vector type an lvalue points to, as its number of elements; 0 if none.
RECURSIVE lExtractVectorType(_)
lExtractVectorType(t) ==
    CASE t.k = "array" -> lExtractVectorType(t.of)
      [] t.k = "vec" -> t.n
      [] OTHER -> 0

RECURSIVE lCheckStructFieldAtOffset(_, _)
lCheckStructFieldAtOffset(t, offset) ==
    IF offset >= SizeOf(t) THEN 0
    ELSE LET i == CHOOSE i \in DOMAIN t.f :
                     /\ FieldOffset(t, i) <= offset
                     /\ offset < FieldOffset(t, i) + SizeOf(t.f[i])
         IN IF t.f[i].k = "struct"
            THEN lCheckStructFieldAtOffset(t.f[i], offset - FieldOffset(t, i))
            ELSE lExtractVectorType(t.f[i])

\* An lvalue is a local variable (its type), an index into one that is only
\* known when the code runs, or a constant offset; "heap" is neither.
lGetUnderlyingVectorType(place) ==
    CASE place.k = "heap" -> 0
      [] place.k # "heap" /\ place.type.k # "struct" -> lExtractVectorType(place.type)
      [] OTHER -> lCheckStructFieldAtOffset(place.type,
                      IF place.k = "field" THEN place.offset ELSE 0)

\* A masked store to a local variable loads, blends and stores all lanes, if
\* the vector there is as large as the value stored.
lReplacePseudoMaskedStore(c) ==
    IF c.k = "masked" /\ c.form = "pseudo"
    THEN [c EXCEPT !.form = IF lGetUnderlyingVectorType(access.place) >= VectorWidth
                            THEN "blend" ELSE "native"]
    ELSE NoInst

lReplacePseudoGS(c) ==
    IF c.k \in {"gs", "base", "factored"} /\ c.pseudo
    THEN [c EXCEPT !.pseudo = FALSE] ELSE NoInst

\* The masked intrinsics of AVX, and the select that a blend has become.
optimizeIntrinsics(c) ==
    IF c.k = "masked" /\ c.form \in {"avx", "select"} THEN Unmasked(c) ELSE NoInst

\* The length of the prefix of lanes that are on, when the lanes after it are
\* off: a power of two, or three.  0 when the mask is not of that form.
lCheckMask(mk) ==
    IF ~mk.known \/ ~\E n \in 0 .. VectorWidth : 2^n = VectorWidth THEN 0
    ELSE LET m == mk.lanes
             off == {l \in Elements : m[l] = "off"}
             end == IF off = {} THEN VectorWidth + 1
                    ELSE CHOOSE l \in off : \A o \in off : l <= o
             length == Cardinality({l \in 1 .. end - 1 : m[l] = "on"})
         IN IF /\ \A l \in length + 2 .. VectorWidth : m[l] # "on"
               /\ length = 3 \/ \E n \in 0 .. VectorWidth : 2^n = length
            THEN length ELSE 0

\* An access of the prefix alone; the other lanes of a load come from the
\* passthrough value.
replaceMasked(c) ==
    IF c.k = "masked" /\ c.form = "llvm" /\ lCheckMask(mask) # 0
    THEN [k |-> "plain", ptr |-> c.ptr, rev |-> c.rev, n |-> lCheckMask(mask)]
    ELSE NoInst

------------------------------------------------------------------------------
(* The pipeline and the loop.                                              *)

\* The passes of the options' level that touch this instruction, in order.
Passes(a) ==
    LET gs == IF a.improve THEN <<"improve">> ELSE <<>>
    IN IF a.level = 0 THEN <<"improve", "pseudo", "intrinsics">>
       ELSE gs \o <<"intrinsics", "masked", "intrinsics">> \o gs
               \o <<"intrinsics">> \o gs \o <<"pseudo", "intrinsics", "masked", "intrinsics">>

Pass == IF passes = <<>> THEN "run" ELSE Head(passes)

MemoryInit ==
    /\ name \in DOMAIN Access
    /\ mask = access.mask
    /\ inst = [k |-> "gs", pseudo |-> TRUE, ptrs |-> access.ptrs]
    /\ scalars = <<>>
    /\ passes = Passes(access)
    /\ env = [iter |-> 0, arg |-> access.arg, load |-> access.load, ptr |-> access.base,
              phi |-> <<>>]

\* The first of the pass's rewrites that applies.
OrElse(new, other) == IF new # NoInst THEN new ELSE other
Rewritten(c) ==
    CASE c.k \in {"broadcast", "plain", "removed"} -> NoInst
      [] c.k = "gs" -> lGSToGSBaseOffsets(c)
      [] c.k \in {"base", "factored"} -> OrElse(lGSBaseOffsetsGetMoreConst(c), lGSToLoadStore(c))
      [] c.k = "masked" -> IF IsGather THEN lImproveMaskedLoad(c) ELSE lImproveMaskedStore(c)

\* The scalar phis that the first lane of a vector's offsets needs.
NewPhis(c, new) ==
    IF c.k \in {"base", "factored"} /\ new.k \in {"broadcast", "masked"}
    THEN ScalarPhis(FullOffsets(c), phis) ELSE <<>>

\* The pass starts again with the call that a rewrite returns.
improveMemoryOps ==
    /\ Pass = "improve"
    /\ \E new \in {Rewritten(inst)} :
          \/ new = NoInst /\ passes' = Tail(passes) /\ UNCHANGED <<inst, scalars>>
          \/ /\ new # NoInst
             /\ inst' = new /\ scalars' = scalars @@ NewPhis(inst, new)
             /\ UNCHANGED passes
    /\ UNCHANGED <<name, mask, env>>

\* A pass that looks at the instruction once.
OnePass(pass, new) ==
    /\ Pass = pass
    /\ inst' = IF new = NoInst THEN inst ELSE new
    /\ passes' = Tail(passes)
    /\ UNCHANGED <<name, mask, scalars, env>>

replacePseudoMemoryOps ==
    OnePass("pseudo", IF lReplacePseudoGS(inst) # NoInst THEN lReplacePseudoGS(inst)
                      ELSE lReplacePseudoMaskedStore(inst))
IntrinsicsOpt == OnePass("intrinsics", optimizeIntrinsics(inst))
ReplaceMaskedMemOps == OnePass("masked", replaceMasked(inst))

\* Between passes LLVM inlines the builtin that does the masked access, which
\* is an intrinsic of LLVM or of AVX, or a select for a blend ...
InlineBuiltin ==
    /\ Pass \in {"intrinsics", "masked"}
    /\ inst.k = "masked" /\ inst.form \in {"native", "blend"}
    /\ \E form \in IF inst.form = "blend" THEN {"select"} ELSE {"llvm", "avx"} :
          inst' = [inst EXCEPT !.form = form]
    /\ UNCHANGED <<name, mask, scalars, passes, env>>

\* ... and finds out the value of the mask.
FoldMask ==
    /\ Pass # "run" /\ ~mask.known /\ inst.k \in {"factored", "base", "masked"}
    /\ mask' = ConstMask([l \in Elements |-> IF l \in access.active THEN "on" ELSE "off"])
    /\ UNCHANGED <<name, inst, scalars, passes, env>>

\* The loop: its phis take the initial values, then those of the iteration.
EnterLoop ==
    /\ Pass = "run" /\ env.iter = 0
    /\ env' = [env EXCEPT !.iter = 1, !.phi = [id \in DOMAIN phis |-> Eval(phis[id].init, env)]]
    /\ UNCHANGED <<name, mask, inst, scalars, passes>>

Iterate ==
    /\ Pass = "run" /\ env.iter \in 1 .. MaxIterations - 1
    /\ env' = [env EXCEPT !.iter = @ + 1,
                          !.phi = [id \in DOMAIN phis |-> Eval(phis[id].next, env)]]
    /\ UNCHANGED <<name, mask, inst, scalars, passes>>

MemoryNext ==
    \/ improveMemoryOps \/ replacePseudoMemoryOps \/ IntrinsicsOpt \/ ReplaceMaskedMemOps
    \/ InlineBuiltin \/ FoldMask
    \/ EnterLoop \/ Iterate

MemorySpec == MemoryInit /\ [][MemoryNext]_opsVars

------------------------------------------------------------------------------
(* What the instruction does in an iteration.                              *)

Running == env.iter > 0

\* The lanes that must, and the ones that may, be accessed: an undefined lane
\* of a constant mask is either.
MustLanes == IF mask.known THEN {l \in Elements : mask.lanes[l] = "on"}
             ELSE access.active
MayLanes == IF mask.known THEN {l \in Elements : mask.lanes[l] # "off"}
            ELSE access.active

\* The address of every lane.  The functions of base and offsets extend each
\* part with its sign and add them in 64 bits.
Addresses(c) ==
    LET E(e) == Eval(Wide(e), env)
        A(x) == Wrap(x, "i64")
    IN CASE c.k = "gs" -> Eval(c.ptrs, env)
         [] c.k = "base" ->
              [l \in Elements |-> A(E(c.base)[l] + c.scale * E(c.offsets)[l])]
         [] c.k = "factored" ->
              [l \in Elements |-> A(E(c.base)[l] + c.scale * E(c.var)[l] + E(c.cst)[l])]
         [] c.k = "broadcast" -> E(c.ptr)
         [] c.k \in {"masked", "plain"} ->
              [l \in Elements |-> A(E(c.ptr)[l]
                 + ElementSize * (IF c.rev THEN VectorWidth - l ELSE l - 1))]
         [] OTHER -> [l \in Elements |-> -1]

\* The lanes the instruction accesses at least, and at most.
AtLeast(c) == CASE c.k = "plain" -> 1 .. c.n
                [] c.k = "removed" -> {}
                [] c.k = "broadcast" -> Elements
                [] OTHER -> MustLanes
AtMost(c) == IF c.k \in {"plain", "removed", "broadcast"} THEN AtLeast(c) ELSE MayLanes

Source == [k |-> "gs", pseudo |-> TRUE, ptrs |-> access.ptrs]

\* The program is defined: no signed overflow in the index, and the offsets
\* fit in 32 bits when the addresses are computed there.
Meaningful ==
    /\ access.unsigned \/ Defined(access.ptrs, env)
    /\ access.force32 => \A l \in Elements :
          Signed(Eval(access.offset, env)[l], "i64") \in -2^(NarrowBits - 1) .. 2^(NarrowBits - 1) - 1

\* What the analyses claim of a value of the loop.
Claims(e) ==
    [equal |-> LLVMVectorValuesAllEqual(e, LoopPhis),
     strides |-> {s \in {ElementSize, -ElementSize, 1, -1} : LLVMVectorIsLinear(e, s, LoopPhis)}]

ClaimsOf == [n \in DOMAIN Access |-> [e \in {Access[n].index, Access[n].offset} |-> Claims(e)]]

\* What the analyses claim of the index and of the offsets holds in every
\* iteration: lanes said to be equal are, lanes said to step by a stride do.
\* A phi is judged by its incoming values alone, so a wrong claim shows only
\* after the loop has gone round.
ClaimsHold ==
    Running /\ Meaningful => \A e \in DOMAIN ClaimsOf[name] :
        LET x == Eval(e, env)
        IN /\ ClaimsOf[name][e].equal => \A l \in Elements : x[l] = x[1]
           /\ \A s \in ClaimsOf[name][e].strides :
                 \A l \in Elements \ {1} : x[l] = Wrap(x[l - 1] + s, e.w)

\* After all rewrites every lane that is on reads or writes the address that
\* the source gives it, in every iteration, and a store writes no other lane:
\* base, offsets, scale and constants add up, the first lane's scalar phis
\* follow the vector ones, and a reversed access pairs the right lanes.
AccessesKept ==
    Running /\ Meaningful =>
        /\ inst.k = "removed" => MustLanes = {}
        /\ MustLanes \subseteq AtLeast(inst)
        /\ \A l \in MustLanes : Addresses(inst)[l] = Addresses(Source)[l]
        /\ access.kind = "scatter" => AtMost(inst) \subseteq MayLanes

\* No rewritten access touches memory that the source's does not, when some
\* lane is on: a masked vector access must not become a whole one, and the
\* scalar load of a broadcast must be one a lane would have made.
NoStrayAccess ==
    /\ Running /\ Meaningful /\ MustLanes # {}
    /\ ~(inst.k = "masked" /\ inst.form \in {"blend", "select"})
    => {Addresses(inst)[l] : l \in AtMost(inst)} \subseteq {Addresses(Source)[l] : l \in MayLanes}

\* A store that blends reads and rewrites all lanes: they lie in the variable.
BlendsInside ==
    inst.k = "masked" /\ inst.form \in {"blend", "select"} =>
        /\ access.place.k # "heap"
        /\ access.place.offset + VectorWidth <= SizeOf(access.place.type)

\* Nothing is left to a function that only the passes know.
NoPseudoLeft ==
    Pass = "run" => /\ inst.k \in {"gs", "base", "factored"} => ~inst.pseudo
                    /\ inst.k = "masked" => inst.form # "pseudo"

\* What the memory passes promise of every access.
AccessesSound == AccessesKept /\ NoStrayAccess /\ BlendsInside /\ NoPseudoLeft

\* How far an instruction is from what no pass changes any more.
Weight(c) ==
    CASE c.k = "gs" -> 6
      [] c.k \in {"base", "factored"} -> IF lGSBaseOffsetsGetMoreConst(c) # NoInst THEN 5 ELSE 4
      [] c.k = "masked" -> CASE c.form = "pseudo" -> 3
                             [] c.form \in {"native", "blend"} -> 2
                             [] OTHER -> 1
      [] OTHER -> 0

\* The passes come to an end, although each rewrite has the pass start again
\* with its result: a rewrite never gives an instruction that is as far from
\* the end as before, and a constant offset is taken out once.
RewritesEnd ==
    [][Pass = "run" \/ Len(passes') < Len(passes) \/ Weight(inst') < Weight(inst)
         \/ (~mask.known /\ mask'.known)]_opsVars
==============================================================================
