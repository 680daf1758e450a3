---------------------------- MODULE ExpressionCode ----------------------------
(***************************************************************************)
(* The code that is generated for a checked expression (GetValue and       *)
(* GetLValue in expr.cpp, loads and stores in ctx.cpp), as what a gang of  *)
(* Width program instances does when it runs.                              *)
(*                                                                         *)
(* A value of a type is the sequence of its cells, laid out as in memory:  *)
(* one cell for each uniform basic element, Width cells for a varying one, *)
(* one for each slot of an SOA element.  Memory is a sequence of cells, an *)
(* address is the number of a cell and 0 is the null pointer.  A pointer   *)
(* fills one cell; a slice pointer is the pair of an address and an offset *)
(* into the SOA slots.  Undef is a value nobody may depend on: a lane that *)
(* was off, a signed overflow, a shift by too much.                        *)
(*                                                                         *)
(* Integers of 32 and 64 bits are taken with 16; the values here stay      *)
(* small.  Masking an undefined bit off gives a defined one.  Floats,      *)
(* calls through pointers, new, alloca, launch and                         *)
(* Xe's hardware masks are left out.  A called function returns a number   *)
(* that depends on how many calls were made; what it was called with is    *)
(* recorded.                                                               *)
(***************************************************************************)
EXTENDS ExpressionTypes, Bitwise

CONSTANTS
    Width,          \* program instances in a gang
    Undef,
    Gap,            \* what a cell of memory holds that is part of no variable
    Symbols,        \* Symbols[name]: addr, type, depth (varyingCFDepth) and storage (local, static, global)
    Depth           \* varyingCFDepth of the code around the expression

Lanes == 0..(Width - 1)

\* The state of the running code: the masks (im: internal, fm: the function's),
\* memory, calls, an assertion of the compiler that failed or an access outside
\* memory (bad) and an error that the compiler reported (err).
Full(s) == s.im \cap s.fm
Stopped(s) == s.bad \/ s.err
Bad(s) == [s EXCEPT !.bad = TRUE]
NoValue == <<>>                         \* a null llvm::Value pointer
Result(v, s) == [v |-> v, s |-> s]
Stop(s) == Result(NoValue, s)

\* What follows the evaluation r of an operand; a null operand without an error
\* fails an assertion.
With(r, F(_, _)) ==
    CASE Stopped(r.s) -> Stop(r.s)
      [] r.v = NoValue -> Stop(Bad(r.s))
      [] OTHER -> F(r.v, r.s)

-----------------------------------------------------------------------------
(***************************************************************************)
(* Layout                                                                  *)
(***************************************************************************)

Copies(t, n) == [i \in 1..n |-> t]
CollectionElements(t) ==
    IF IsSequential(t) THEN Copies(t.base, t.count)
    ELSE [i \in DOMAIN StructFields[t.name] |-> ElementType(t, i)]
IsCollection(t) == t.kind \in {"array", "vector", "struct"}

\* The basic types a type is made of, in memory order; a reference is one
\* address.
RECURSIVE Basics(_)
Basics(t) ==
    IF ~IsCollection(t) THEN <<IF IsA(t, "ref") THEN UniformPointer(t.target) ELSE t>>
    ELSE LET es == CollectionElements(t) IN FlattenSeq([i \in DOMAIN es |-> Basics(es[i])])

BasicCells(b) == CASE IsVarying(b) -> Width [] IsSOA(b) -> SOAWidth(b) [] OTHER -> 1
Cells(t) == FoldLeft(LAMBDA n, b : n + BasicCells(b), 0, Basics(t))

\* Where the k-th basic element and the i-th element of a collection start.
BasicOffset(t, k) == FoldLeft(LAMBDA n, b : n + BasicCells(b), 0, SubSeq(Basics(t), 1, k - 1))
ElementOffset(t, i) == FoldLeft(LAMBDA n, e : n + Cells(e), 0, SubSeq(CollectionElements(t), 1, i - 1))

\* The cells of a type: the basic element and the lane or slot of each.
Layout(t) ==
    LET bs == Basics(t)
    IN FlattenSeq([k \in DOMAIN bs |-> [i \in 1..BasicCells(bs[k]) |-> [el |-> k, sub |-> i - 1]]])

\* One lane's part of a value of type t.
Lane(t, v, l) ==
    LET bs == Basics(t)
    IN [k \in DOMAIN bs |-> v[BasicOffset(t, k) + 1 + (IF IsVarying(bs[k]) THEN l ELSE 0)]]

\* A value of type t built from its lanes.
FromLanes(t, F(_)) == LET c == Layout(t) IN [j \in DOMAIN c |-> F(c[j].sub)[c[j].el]]
Junk(t) == [j \in 1..Cells(t) |-> Undef]

\* One lane of a pointer or an integer, uniform or varying.
At(v, l) == IF Len(v) = 1 THEN v[1] ELSE v[l + 1]
ZipLanes(a, b, F(_, _)) ==
    IF Len(a) = 1 /\ Len(b) = 1 THEN <<F(a[1], b[1])>> ELSE [i \in 1..Width |-> F(At(a, i - 1), At(b, i - 1))]

-----------------------------------------------------------------------------
(***************************************************************************)
(* Pointers, loads and stores (ctx.cpp)                                    *)
(***************************************************************************)

AsSlice(p) == [a |-> p, off |-> 0]
SliceOf(t) == IF IsA(t, "pointer") /\ IsSOA(t.base) /\ ~IsSlice(t) THEN [t EXCEPT !.prop = "slice"] ELSE t
\* lConvertPtrToSliceIfNeeded
ToSlice(v, t) == IF SliceOf(t) = t THEN v ELSE [i \in DOMAIN v |-> AsSlice(v[i])]

\* GetElementPtrInst: i elements of type elt further.  A slice pointer that is
\* not frozen counts SOA slots (lComputeSliceIndex).
Step(t, elt, p, i) ==
    CASE ~IsSlice(t) -> p + i * Cells(elt)
      [] t.prop = "frozen" -> [p EXCEPT !.a = @ + i * Cells(elt)]
      [] OTHER -> LET n == SOAWidth(t.base)
                  IN [a |-> p.a + ((i + p.off) \div n) * Cells(elt), off |-> (i + p.off) % n]
StepUndef(t, elt, p, i) == IF Undef \in {p, i} THEN Undef ELSE Step(t, elt, p, i)
ElementPtr(v, t, elt, iv) == ZipLanes(v, iv, LAMBDA p, i : StepUndef(t, elt, p, i))

\* n cells further, for a pointer of type t.
Shift(t, p, n) == CASE p = Undef -> Undef [] IsSlice(t) -> [p EXCEPT !.a = @ + n] [] OTHER -> p + n
\* AddElementOffset
AddElementOffset(v, t, i) == [j \in DOMAIN v |-> Shift(t, v[j], ElementOffset(t.base, i))]

\* lAddVaryingOffsetsIfNeeded: lane l of a varying pointer to varying data uses
\* the l-th of the values there.
AddVaryingOffsets(v, t) ==
    IF IsA(t, "ref") \/ IsUniform(t) \/ IsSlice(t) \/ ~IsVarying(t.base) \/ ~IsBasic(t.base) THEN v
    ELSE [j \in DOMAIN v |-> Shift(t, v[j], j - 1)]

\* RegularizePointer
Regular(t) == IF IsA(t, "ref") THEN UniformPointer(t.target) ELSE t

\* What loading through a pointer of type t gives.
Loaded(t) ==
    LET r == Regular(t)
    IN CASE IsVarying(r) -> AsVarying(r.base) [] IsSlice(r) -> AsUniform(r.base) [] OTHER -> r.base

\* The cell that a pointer of type t reaches for lane l and the k-th basic
\* element (gather, scatter, loadUniformFromSOA, ApplySliceOffset).
Address(t, p, k, l) ==
    LET base == t.base
        b == Basics(base)[k]
        lane == IF IsCollection(base) /\ IsVarying(b) THEN l ELSE 0
    IN IF IsSlice(t) THEN p.a + BasicOffset(base, k) + p.off ELSE p + BasicOffset(base, k) + lane

\* The lanes that ask for the cells of what a gather loads: a uniform member is
\* that of the first lane that is on.
AskedBy(r, mask) ==
    LET c == Layout(r)
    IN [j \in DOMAIN c |-> IF IsVarying(Basics(r)[c[j].el]) THEN mask \cap {c[j].sub} ELSE IF mask = {} THEN {} ELSE {Min(mask)}]

\* The cells a load reads, one for each cell of the result; 0 where no lane asks.
LoadAddresses(v, t, mask) ==
    LET c == Layout(Loaded(t))
        by == AskedBy(Loaded(t), mask)
    IN CASE IsVarying(t) -> [j \in DOMAIN c |-> IF by[j] = {} THEN 0 ELSE LET l == Min(by[j]) IN Address(t, At(v, l), c[j].el, l)]
         [] IsSlice(t) -> [j \in DOMAIN c |-> Address(t, v[1], c[j].el, 0)]
         [] OTHER -> [j \in DOMAIN c |-> v[1] + j - 1]

\* Whether a pointer may be followed by the lanes of a mask.
Usable(v, t, mask) ==
    /\ \A j \in DOMAIN v : (IsVarying(t) => j - 1 \in mask) => v[j] # Undef
    /\ IsUniform(t) \/ Len(v) = Width

Read(mem, a) == IF mem[a] = Gap THEN Undef ELSE mem[a]

\* LoadInst: a varying pointer is gathered from with the full mask.
Load(v, pt, s) ==
    LET t == Regular(pt)
        as == LoadAddresses(v, t, Full(s))
        wanted == {j \in DOMAIN as : IsVarying(t) => AskedBy(Loaded(t), Full(s))[j] # {}}
    IN IF ~Usable(v, t, Full(s)) \/ \E j \in wanted : as[j] \notin DOMAIN s.mem THEN Stop(Bad(s))
       ELSE Result([j \in DOMAIN as |-> IF j \in wanted THEN Read(s.mem, as[j]) ELSE Undef], s)

\* The writes of a store, in order: cell and value.
Writes(v, vt, p, t, mask, full) ==
    LET c == Layout(vt)
        bs == Basics(t.base)
        all == [j \in DOMAIN c |->
                 CASE IsVarying(t) -> [on |-> c[j].sub \in full, to |-> p[c[j].sub + 1]]
                   [] IsSlice(t) \/ IsUniform(t.base) -> [on |-> TRUE, to |-> p[1]]
                   [] OTHER -> [on |-> IsUniform(bs[c[j].el]) \/ c[j].sub \in mask, to |-> p[1]]]
        Target2(j) == IF IsVarying(t) \/ IsSlice(t) THEN Address(t, all[j].to, c[j].el, c[j].sub) ELSE all[j].to + j - 1
    IN [j \in DOMAIN c |-> IF all[j].on THEN [to |-> Target2(j), val |-> v[j]] ELSE [to |-> 0, val |-> Undef]]

Write(mem, w) == IF w.to \in DOMAIN mem THEN [mem EXCEPT ![w.to] = w.val] ELSE mem

\* StoreInst: storeUniformToSOA, plain store, maskedStore or scatter.
Store(v, vt, p, pt, mask, s) ==
    LET t == Regular(pt)
        ws == Writes(v, vt, p, t, mask, Full(s))
    IN IF ~Usable(p, t, Full(s)) \/ \E j \in DOMAIN ws : ws[j].to # 0 /\ ws[j].to \notin DOMAIN s.mem THEN Bad(s)
       ELSE [s EXCEPT !.mem = FoldLeft(Write, @, ws)]

\* AllocaInst and the store of a value into it.
Temporary(v, s) == Result(<<Len(s.mem) + 1>>, [s EXCEPT !.mem = @ \o v])

-----------------------------------------------------------------------------
(***************************************************************************)
(* Scalars                                                                 *)
(***************************************************************************)

BitWidth(b) == CASE b \in BoolTypes -> 1 [] b \in {"int8", "uint8"} -> 8 [] OTHER -> 16
Wrap(b, x) ==
    LET n == 2 ^ BitWidth(b)
    IN IF b \in SignedTypes THEN ((x + n \div 2) % n) - n \div 2 ELSE x % n

\* The quotient rounded toward zero and the remainder that goes with it.
Quotient(x, y) == LET Abs(i) == IF i < 0 THEN -i ELSE i
                  IN IF (x < 0) = (y < 0) THEN Abs(x) \div Abs(y) ELSE -(Abs(x) \div Abs(y))

\* A result that does not fit a signed type is undefined where no wrapping is
\* promised (nsw).
Fit(b, nsw, x) == IF nsw /\ b \in SignedTypes /\ x # Wrap(b, x) THEN Undef ELSE Wrap(b, x)
Bitwise2(F(_, _), b, x, y) == LET n == 2 ^ BitWidth(b) IN Wrap(b, F(x % n, y % n))

Arith(op, b, nsw, x, y) ==
    CASE Undef \in {x, y} -> Undef
      [] op = "+" -> Fit(b, nsw, x + y)
      [] op = "-" -> Fit(b, nsw, x - y)
      [] op = "*" -> Fit(b, nsw, x * y)
      [] op = "/" -> IF y = 0 THEN Undef ELSE Fit(b, TRUE, Quotient(x, y))
      [] op = "%" -> IF y = 0 \/ Fit(b, TRUE, Quotient(x, y)) = Undef THEN Undef ELSE x - y * Quotient(x, y)
      [] op = "<<" -> IF y \in 0..(BitWidth(b) - 1) THEN Wrap(b, x * 2 ^ y) ELSE Undef
      [] op = ">>" -> IF y \in 0..(BitWidth(b) - 1) THEN x \div 2 ^ y ELSE Undef
      [] op = "&" -> Bitwise2(LAMBDA i, j : i & j, b, x, y)
      [] op = "|" -> Bitwise2(LAMBDA i, j : i | j, b, x, y)
      [] op = "^" -> Bitwise2(LAMBDA i, j : i ^^ j, b, x, y)

Truth(p) == IF p THEN 1 ELSE 0
Compare(op, x, y) ==
    CASE Undef \in {x, y} -> Undef
      [] op = "<" -> Truth(x < y)
      [] op = ">" -> Truth(x > y)
      [] op = "<=" -> Truth(x <= y)
      [] op = ">=" -> Truth(x >= y)
      [] op = "==" -> Truth(x = y)
      [] op = "!=" -> Truth(x # y)

AndBit(x, y) == CASE 0 \in {x, y} -> 0 [] Undef \in {x, y} -> Undef [] OTHER -> 1
OrBit(x, y) == CASE 1 \in {x, y} -> 1 [] Undef \in {x, y} -> Undef [] OTHER -> 0
LogicalBit(op, x, y) == IF op = "&&" THEN AndBit(x, y) ELSE OrBit(x, y)

\* The integer type a value of type t is computed in.
Scalar(t) == CASE IsSequential(t) -> t.base [] OTHER -> t
BasicOf(t) == LET b == Scalar(Target(t)) IN IF IsA(b, "atomic") THEN b.basic ELSE "uint32"
IsSigned(t) == HasBasic(t, SignedTypes)
Each(v, w, F(_, _)) == [j \in DOMAIN v |-> F(v[j], w[j])]
Broadcast(t, x) == [j \in 1..Cells(t) |-> x]

\* lTypeConvAtomicOrUniformVector
ConvertScalar(from, to, x) ==
    CASE x = Undef -> Undef
      [] to \in BoolTypes -> Truth(x # 0)
      [] OTHER -> Wrap(to, x)

\* A cast of a value that holds no pointers: every element is converted, and
\* a uniform one is copied to every lane and every element.
ConvertValue(from, to, v) ==
    LET c == Layout(to)
        single == ~IsCollection(from)
        fb == Basics(from)
        Source(j) == LET k == IF single THEN 1 ELSE c[j].el
                     IN v[BasicOffset(from, k) + 1 + (IF IsVarying(fb[k]) THEN c[j].sub ELSE 0)]
    IN [j \in DOMAIN c |->
          IF IsA(to, "struct") THEN Source(j) ELSE ConvertScalar(BasicOf(from), BasicOf(to), Source(j))]

-----------------------------------------------------------------------------
(***************************************************************************)
(* Cost and safety of running code with the mask off (ast.cpp)             *)
(***************************************************************************)

Children(e) ==
    CASE e.k \in {"unary", "member", "swizzle", "cast", "deref", "refderef", "ref", "addr"} -> <<e.e>>
      [] e.k \in {"binary", "assign", "index"} -> <<e.a, e.b>>
      [] e.k = "select" -> <<e.test, e.a, e.b>>
      [] e.k = "call" -> <<e.f>> \o e.args
      [] OTHER -> <<>>
IsConstant(e) == e.k = "const"

\* EstimateCost of one node: COST_SIMPLE_ARITH_LOGIC_OP 1, COST_COMPLEX_ARITH_OP 4,
\* COST_DEREF 4, COST_LOAD 2, COST_GATHER 8, COST_ASSIGN 1, COST_SELECT 4, COST_FUNCALL 4.
NodeCost(e) ==
    CASE e.k = "unary" -> IF IsConstant(e.e) THEN 0 ELSE 1
      [] e.k = "binary" -> IF IsConstant(e.a) /\ IsConstant(e.b) THEN 0 ELSE IF e.op \in {"/", "%"} THEN 4 ELSE 1
      [] e.k = "assign" -> CASE e.op = "=" -> 1 [] e.op \in {"/=", "%="} -> 5 [] OTHER -> 2
      [] e.k \in {"select", "call", "refderef"} -> 4
      [] e.k = "index" -> IF IsVarying(TypeOf(e.b)) \/ (IsA(TypeOf(e.a), "pointer") /\ IsVarying(TypeOf(e.a))) THEN 8 ELSE 2
      [] e.k \in {"member", "swizzle"} -> IF LValueTypeOf(e.e) # NullType /\ IsVarying(LValueTypeOf(e.e)) THEN 9 ELSE 1
      [] e.k = "cast" -> IF IsConstant(e.e) THEN 0 ELSE 1
      [] e.k = "deref" -> IF IsVarying(TypeOf(e.e)) THEN 12 ELSE 4
      [] OTHER -> 0

RECURSIVE EstimateCost(_)
EstimateCost(e) == LET c == Children(e) IN FoldLeft(LAMBDA n, x : n + x, NodeCost(e), [i \in DOMAIN c |-> EstimateCost(c[i])])

\* Mutant: code may run with the mask off whatever it does to uniform values.
NodeSafeUniform(e) == ~(e.k = "deref" \/ (e.k = "binary" /\ e.op \in {"/", "%"}))

\* lCheckAllOffSafety of one node.
NodeSafe(e) ==
    CASE e.k = "call" -> "safe" \in FunctionOf(TypeOf(e.f)).flags
      [] e.k = "binary" -> e.op \notin {"/", "%"}
      [] e.k = "index" ->
            LET t == Target(TypeOf(e.a))
            IN IsConstant(e.b) /\ ~IsA(t, "pointer") /\ \A i \in DOMAIN e.b.val : e.b.val[i] \in 0..(t.count - 1)
      [] e.k \in {"member", "swizzle"} -> ~e.arrow
      [] e.k = "deref" -> FALSE
      [] e.k = "assign" \/ (e.k = "unary" /\ e.op \in IncDec) -> ~IsUniform(TypeOf(e))
      [] OTHER -> TRUE

RECURSIVE SafeToRunWithMaskAllOff(_)
SafeToRunWithMaskAllOff(e) == NodeSafe(e) /\ \A i \in DOMAIN Children(e) : SafeToRunWithMaskAllOff(Children(e)[i])

SafeCost == 6           \* PREDICATE_SAFE_IF_STATEMENT_COST
ShortCircuits(e) == EstimateCost(e) > SafeCost \/ ~SafeToRunWithMaskAllOff(e)

-----------------------------------------------------------------------------
(***************************************************************************)
(* Stores of assignments                                                   *)
(***************************************************************************)

NoSymbol == "none"
RECURSIVE BaseSymbol(_)
BaseSymbol(e) ==
    CASE e.k = "sym" -> e.name
      [] e.k = "index" -> BaseSymbol(e.a)
      [] e.k \in {"member", "swizzle", "cast", "ref", "deref", "refderef", "addr"} -> BaseSymbol(e.e)
      [] OTHER -> NoSymbol

HoldsAddress(sym) == Symbols[sym].type.kind \in {"pointer", "ref"}

\* lMaskForSymbol
MaskFor(sym, s) ==
    IF sym # NoSymbol /\ Symbols[sym].storage = "local" /\ ~HoldsAddress(sym) THEN s.im ELSE Full(s)

\* lStoreAssignResult: a variable declared at this depth of varying control
\* flow is stored to as if every lane were on.
StoreMask(sym, s) ==
    IF /\ sym # NoSymbol
       /\ Symbols[sym].depth = Depth /\ Symbols[sym].storage # "static" /\ ~HoldsAddress(sym)
    THEN Lanes ELSE MaskFor(sym, s)

StoreResult(v, vt, p, pt, sym, s) == Store(v, vt, p, pt, StoreMask(sym, s), s)

\* Stores a computed value and goes on with the value r of the expression.
AfterStore(r, v, vt, p, pt, sym, s) ==
    LET n == StoreResult(v, vt, p, pt, sym, s) IN IF Stopped(n) THEN Stop(n) ELSE Result(r, n)

-----------------------------------------------------------------------------
(***************************************************************************)
(* GetValue and GetLValue                                                  *)
(***************************************************************************)

\* A struct that cannot be gathered because a member of it is bound uniform.
RECURSIVE VaryingStructHasUniformMember(_)
VaryingStructHasUniformMember(t) ==
    LET st == CASE IsA(t, "array") -> t.base [] IsA(t, "pointer") -> t.base [] OTHER -> t
    IN IsA(st, "struct") /\ IsVarying(st) /\ \E i \in DOMAIN StructFields[st.name] :
         LET f == ElementType(st, i)
         IN IF IsA(f, "struct") THEN VaryingStructHasUniformMember(AsVarying(f)) ELSE IsUniform(f)

Reject(s) == Stop([s EXCEPT !.err = TRUE])
\* What follows an lvalue; an expression without one is reported.
WithLValue(r, F(_, _)) == IF ~Stopped(r.s) /\ r.v = NoValue THEN Reject(r.s) ELSE With(r, F)

RECURSIVE Value(_, _)
RECURSIVE LValue(_, _)

\* Both operands, from left to right.
Both(a, b, s, F(_, _, _)) ==
    With(Value(a, s), LAMBDA v, s1 : With(Value(b, s1), LAMBDA w, s2 : F(v, w, s2)))

\* lEmitBinaryPointerArith
PointerArith(op, t, t1, v, w) ==
    CASE op = "+" -> ElementPtr(v, t, t.base, w)
      [] ~IsA(t1, "pointer") -> ElementPtr(v, t, t.base, [j \in DOMAIN w |-> IF w[j] = Undef THEN w[j] ELSE -w[j]])
      [] OTHER -> Each(v, w, LAMBDA x, y :
            CASE Undef \in {x, y} -> Undef
              [] IsSlice(t) -> Quotient(x.a - y.a, Cells(t.base)) * SOAWidth(t.base) + x.off - y.off
              [] OTHER -> Quotient(x - y, Cells(t.base)))

\* lEmitBinaryArith, lEmitBinaryBitOp and lEmitBinaryCmp on computed operands.
Operate(op, t, t1, nsw, v, w, s) ==
    CASE op \in Comparisons ->
            IF IsSlice(t) THEN Stop(Bad(s)) ELSE Result(Each(v, w, LAMBDA x, y : Compare(op, x, y)), s)
      [] IsA(t, "pointer") -> Result(PointerArith(op, t, t1, v, w), s)
      [] ~EqualIgnoringConst(t, t1) -> Stop(Bad(s))
      [] OTHER -> Result(Each(v, w, LAMBDA x, y : Arith(op, BasicOf(t), nsw, x, y)), s)

\* lEmitPrePostIncDec: the lvalue and then, once more, the value.
IncDecValue(e, s) ==
    LET t0 == TypeOf(e.e)
        t == Target(t0)
        delta == IF e.op \in {"++x", "x++"} THEN 1 ELSE -1
        lvt == IF IsA(t0, "ref") THEN t0 ELSE LValueTypeOf(e.e)
        New(v) == IF IsA(t, "pointer") THEN ElementPtr(v, t, t.base, Broadcast(t, delta))
                  ELSE [j \in DOMAIN v |-> Arith("+", BasicOf(t), IsSigned(t), v[j], delta)]
    IN WithLValue(IF IsA(t0, "ref") THEN Value(e.e, s) ELSE LValue(e.e, s), LAMBDA p, s1 :
         With(IF IsA(t0, "ref") THEN Value(RefDeref(e.e), s1) ELSE Value(e.e, s1), LAMBDA v, s2 :
           AfterStore(IF e.op \in {"++x", "--x"} THEN New(v) ELSE v, New(v), t, p, lvt, BaseSymbol(e.e), s2)))

UnaryValue(e, s) ==
    LET b == BasicOf(TypeOf(e.e))
        F(x) == CASE x = Undef -> Undef
                  [] e.op = "-" -> Arith("-", b, IsSigned(TypeOf(e.e)), 0, x)
                  [] e.op = "!" -> 1 - x
                  [] e.op = "~" -> Wrap(b, -1 - x)
    IN IF e.op \in IncDec THEN IncDecValue(e, s)
       ELSE With(Value(e.e, s), LAMBDA v, s1 : Result([j \in DOMAIN v |-> F(v[j])], s1))

\* Lanes where a varying bool is true; a uniform one is true everywhere or nowhere.
TrueLanes(v) == {l \in Lanes : At(v, l) = 1}
OnlyIn(v, mask) == [j \in DOMAIN v |-> IF j - 1 \in mask THEN v[j] ELSE 0]

\* The operand of a logical operator in the variability of the result.
Spread(e, varying) == IF varying /\ IsUniform(TypeOf(e)) THEN Convert(e, Bool("varying")) ELSE e

\* Mutant: the right side of a varying operator runs with the mask of the left.
NarrowedNot(op, s, v) == s

\* SetInternalMaskAnd and SetInternalMaskAndNot
Narrowed(op, s, v) == [s EXCEPT !.im = IF op = "&&" THEN @ \cap TrueLanes(v) ELSE @ \ TrueLanes(v)]

\* lEmitLogicalOp with a varying left side: the right side runs in the lanes
\* that need it, unless there are none.
VaryingLogical(op, a, b, s) ==
    With(Value(a, s), LAMBDA v, s1 :
        LET inside == Narrowed(op, s1, v)
            needed == IF op = "&&" THEN TrueLanes(v) \cap Full(s1) ELSE Full(s1) \ TrueLanes(v)
        IN IF needed = {} THEN Result(v, s1)
           ELSE With(Value(Spread(b, TRUE), inside), LAMBDA w, s2 :
                    Result(Each(OnlyIn(v, Full(s1)), OnlyIn(w, s2.im), LAMBDA x, y : LogicalBit(op, x, y)),
                           [s2 EXCEPT !.im = s1.im])))

UniformLogical(op, a, b, s) ==
    LET ret == MoreGeneralType(TypeOf(a), TypeOf(b), FALSE, 0)
        decides == Truth(op = "||")
    IN With(Value(a, s), LAMBDA v, s1 :
         IF v[1] = decides THEN Result(Broadcast(ret, decides), s1) ELSE Value(Spread(b, IsVarying(ret)), s1))

\* Cheap and safe right sides, and vectors, are evaluated without branches and
\* with the mask as it is.
LogicalValue(e, s) ==
    LET ta == TypeOf(e.a)
        tb == TypeOf(e.b)
        a == Spread(e.a, IsVarying(tb))
        b == Spread(e.b, IsVarying(ta))
    IN IF ~ShortCircuits(e.b) \/ IsA(ta, "vector") \/ IsA(tb, "vector")
       THEN IF Failed(a) \/ Failed(b) THEN Stop(Bad(s))
            ELSE Both(a, b, s, LAMBDA v, w, s1 : Result(Each(v, w, LAMBDA x, y : LogicalBit(e.op, x, y)), s1))
       ELSE IF IsUniform(ta) THEN UniformLogical(e.op, e.a, e.b, s) ELSE VaryingLogical(e.op, e.a, e.b, s)

BinaryValue(e, s) ==
    CASE e.op \in LogicalOps -> LogicalValue(e, s)
      [] e.op = "," -> Both(e.a, e.b, s, LAMBDA v, w, s1 : Result(w, s1))
      [] OTHER -> Both(e.a, e.b, s, LAMBDA v, w, s1 :
                    Operate(e.op, TypeOf(e.a), TypeOf(e.b), IsSigned(TypeOf(e)), v, w, s1))

BinaryOpOf == [o \in {"+=", "-=", "*=", "/=", "%=", "<<=", ">>=", "&=", "|=", "^="} |->
                 CASE o = "+=" -> "+" [] o = "-=" -> "-" [] o = "*=" -> "*" [] o = "/=" -> "/" [] o = "%=" -> "%"
                   [] o = "<<=" -> "<<" [] o = ">>=" -> ">>" [] o = "&=" -> "&" [] o = "|=" -> "|" [] OTHER -> "^"]

\* The address, the right side and, for an operator, the old value behind the
\* address.
AssignValue(e, s) ==
    LET t == TypeOf(e.a)
        lvt == LValueTypeOf(e.a)
        sym == BaseSymbol(e.a)
    IN WithLValue(LValue(e.a, s), LAMBDA p, s1 :
         With(Value(e.b, s1), LAMBDA w, s2 :
           IF e.op = "=" THEN AfterStore(w, w, TypeOf(e.b), p, lvt, sym, s2)
           ELSE With(Load(p, lvt, s2), LAMBDA v, s3 :
                  With(Operate(BinaryOpOf[e.op], t, TypeOf(e.b), IsSigned(t), v, w, s3), LAMBDA n, s4 :
                    AfterStore(n, n, t, p, lvt, sym, s4)))))

\* One side of a select with a varying test, run where the test holds; it is
\* skipped if it should be and no lane needs it.
SelectSide(e, mask, s) ==
    IF ShortCircuits(e) /\ mask \cap Full(s) = {} THEN Result(Junk(TypeOf(e)), s)
    ELSE With(Value(e, [s EXCEPT !.im = @ \cap mask]), LAMBDA v, s1 : Result(v, [s1 EXCEPT !.im = s.im]))

\* lEmitVaryingSelect, and the elementwise select of vector tests.
Selected(tt, tv, t, v, w) ==
    LET c == Layout(t)
        bs == Basics(t)
        Test(j) == tv[(IF IsA(tt, "vector") THEN BasicOffset(tt, c[j].el) ELSE 0) + 1 + (IF IsVarying(tt) THEN c[j].sub ELSE 0)]
        first(j) == (IsVarying(tt) /\ IsUniform(bs[c[j].el])) \/ Test(j) = 1
    IN [j \in DOMAIN c |-> IF first(j) THEN v[j] ELSE w[j]]

SelectValue(e, s) ==
    LET tt == TypeOf(e.test)
        t == TypeOf(e.a)
    IN With(Value(e.test, s), LAMBDA tv, s1 :
         CASE IsA(tt, "vector") ->
                IF ~IsA(t, "vector") THEN Stop(Bad(s1))
                ELSE Both(e.a, e.b, s1, LAMBDA v, w, s2 : Result(Selected(tt, tv, t, v, w), s2))
           [] IsUniform(tt) -> Value(IF tv[1] = 1 THEN e.a ELSE e.b, s1)
           [] OTHER -> With(SelectSide(e.a, TrueLanes(tv), s1), LAMBDA v, s2 :
                         With(SelectSide(e.b, Lanes \ TrueLanes(tv), s2), LAMBDA w, s3 :
                           Result(Selected(tt, tv, t, v, w), s3))))

\* The arguments of a call, in order.
RECURSIVE ArgumentValues(_, _)
ArgumentValues(args, s) ==
    IF args = <<>> THEN Result(<<<<>>>>, s)
    ELSE With(Value(Head(args), s), LAMBDA v, s1 :
           With(ArgumentValues(Tail(args), s1), LAMBDA vs, s2 : Result(<<v>> \o vs, s2)))

\* What the lanes that are on see of the arguments, and what they get back.
CallRecord(f, args, vs, s) ==
    [f |-> f.name, args |-> [l \in Full(s) |-> [i \in DOMAIN args |-> Lane(TypeOf(args[i]), vs[i], l)]]]
Returned(f, s) ==
    LET r == FunctionOf(TypeOf(f)).ret
    IN IF IsA(r, "ref") THEN <<Symbols[f.name].addr>> ELSE Broadcast(r, Len(s.calls))

\* A reference to an element that differs between the lanes is an error.
CallValue(e, s) ==
    LET ps == FunctionOf(TypeOf(e.f)).params
        Lv(a) == IF a.k = "ref" THEN LValueTypeOf(a.e) ELSE NullType
    IN IF \E i \in DOMAIN e.args : IsA(ps[i], "ref") /\ IsA(Lv(e.args[i]), "pointer") /\ IsVarying(Lv(e.args[i]))
       THEN Reject(s)
       ELSE With(ArgumentValues(e.args, s), LAMBDA vs, s1 :
              LET s2 == [s1 EXCEPT !.calls = Append(@, CallRecord(e.f, e.args, vs, s1))]
              IN Result(Returned(e.f, s2), s2))

\* A pointer to an element of what p points to; it becomes a slice pointer
\* where SOA data lies behind it.
IndexPointer(p, t, elt, i, lvt) ==
    AddVaryingOffsets(ElementPtr(ToSlice(p, t), SliceOf(t), elt, i), lvt)

\* The index first, then the base.
IndexLValue(e, s) ==
    LET tb == TypeOf(e.a)
        lvt == LValueTypeOf(e)
        ref == IsA(tb, "ref")
        pt == IF ref THEN UniformPointer(tb.target) ELSE LValueTypeOf(e.a)
    IN With(Value(e.b, s), LAMBDA i, s1 :
         IF IsA(tb, "pointer")
         THEN With(Value(e.a, s1), LAMBDA p, s2 : Result(IndexPointer(p, tb, tb.base, i, lvt), s2))
         ELSE LET r == IF ref THEN Value(e.a, s1) ELSE LValue(e.a, s1)
              IN IF r.v = NoValue THEN r
                 ELSE With(r, LAMBDA p, s2 : Result(IndexPointer(p, pt, pt.base.base, i, lvt), s2)))

\* A temporary is put into memory first, and its index is evaluated again.
IndexValue(e, s) ==
    LET tb == TypeOf(e.a)
        ti == TypeOf(e.b)
        r == LValue(e, s)
        lvt == IF IsVarying(ti) THEN VaryingPointer(tb.base) ELSE UniformPointer(tb.base)
    IN CASE IsVarying(ti) /\ VaryingStructHasUniformMember(TypeOf(e)) -> Reject(s)
         [] Stopped(r.s) -> Stop(r.s)
         [] r.v = NoValue ->
                With(Value(e.a, r.s), LAMBDA v, s1 :
                  With(Temporary(v, s1), LAMBDA p, s2 :
                    With(Value(e.b, s2), LAMBDA i, s3 :
                      Load(AddVaryingOffsets(ElementPtr(p, UniformPointer(tb), tb.base, i), lvt), lvt, s3))))
         [] OTHER -> Load(r.v, LValueTypeOf(e), r.s)

ElementNumber(e) == IF e.k = "member" THEN MemberNumber(StructOf(e), e.field) ELSE e.field[1] + 1

MemberLValue(e, s) ==
    LET r == IF e.arrow THEN Value(e.e, s) ELSE LValue(e.e, s)
    IN CASE e.k = "swizzle" /\ Len(e.field) > 1 -> Result(NoValue, s)
         [] r.v = NoValue -> r
         [] OTHER -> With(r, LAMBDA p, s1 :
              Result(AddVaryingOffsets(AddElementOffset(p, Regular(BaseLValueType(e)), ElementNumber(e)), LValueTypeOf(e)), s1))

\* Each element of a swizzle is loaded by itself.
RECURSIVE SwizzleElements(_, _, _, _)
SwizzleElements(p, t, ns, s) ==
    IF ns = <<>> THEN Result(<<Undef>>, s)
    ELSE LET et == IF IsUniform(t) THEN UniformPointer(t.base.base) ELSE VaryingPointer(t.base.base)
         IN With(Load(AddElementOffset(p, t, Head(ns) + 1), et, s), LAMBDA v, s1 :
              With(SwizzleElements(p, t, Tail(ns), s1), LAMBDA w, s2 : Result(v \o w, s2)))

SwizzleValue(e, s) ==
    LET r == IF e.arrow THEN Value(e.e, s) ELSE LValue(e.e, s)
        n == Len(e.field) * Cells(SwizzleVector(e).base)
        All(p, t, s1) == With(SwizzleElements(p, t, e.field, s1), LAMBDA v, s2 : Result(SubSeq(v, 1, n), s2))
    IN IF ~Stopped(r.s) /\ r.v = NoValue
       THEN With(Value(e.e, r.s), LAMBDA v, s1 :
              With(Temporary(v, s1), LAMBDA p, s2 : All(p, UniformPointer(SwizzleVector(e)), s2)))
       ELSE With(r, LAMBDA p, s1 : All(p, Regular(BaseLValueType(e)), s1))

MemberValue(e, s) ==
    LET r == LValue(e, s)
    IN CASE e.k = "swizzle" /\ Len(e.field) > 1 -> SwizzleValue(e, s)
         [] Stopped(r.s) -> Stop(r.s)
         [] r.v = NoValue ->
                With(Value(e.e, r.s), LAMBDA v, s1 :
                  With(Temporary(v, s1), LAMBDA p, s2 :
                    Load(AddElementOffset(p, UniformPointer(TypeOf(e.e)), ElementNumber(e)), UniformPointer(TypeOf(e)), s2)))
         [] OTHER -> Load(r.v, LValueTypeOf(e), r.s)

\* A pointer cast to another pointer, to bool or to an integer.
CastPointer(from, to, v) ==
    LET w == IF IsSlice(to) /\ ~IsSlice(from) THEN [j \in DOMAIN v |-> AsSlice(v[j])] ELSE v
        smeared == IF IsVarying(to) /\ IsUniform(from) THEN [l \in 1..Width |-> w[1]] ELSE w
        Number(x) == CASE x = Undef -> Undef
                    [] IsBool(to) -> Truth(x # 0)
                    [] IsSlice(from) -> x.a + x.off
                    [] OTHER -> Wrap(BasicOf(to), x)
    IN IF IsA(to, "pointer") \/ IsA(to, "array") THEN smeared ELSE [j \in DOMAIN smeared |-> Number(smeared[j])]

CastValue(e, s) ==
    LET from == TypeOf(e.e)
        to == e.to
    IN CASE IsVoid(to) -> Result(NoValue, Value(e.e, s).s)
         [] IsA(from, "pointer") -> With(Value(e.e, s), LAMBDA v, s1 : Result(CastPointer(from, to, v), s1))
         [] EqualIgnoringConst(to, from) \/ IsA(to, "ref") \/ (IsA(to, "array") /\ IsA(from, "array")) -> Value(e.e, s)
         [] IsA(from, "array") /\ IsA(to, "pointer") ->
                LET p == ArrayDecay(e.e)
                IN CASE p = Crash -> Stop(Bad(s))
                     [] EqualIgnoringConst(TypeOf(p), to) -> Value(p, s)
                     [] IsVoidPointer(to) \/ EqualIgnoringConst(AsVarying(TypeOf(p)), to) -> Value(Cast(to, p), s)
                     [] OTHER -> Stop(Bad(s))
         [] IsA(to, "pointer") ->
                With(Value(e.e, s), LAMBDA v, s1 :
                  Result(IF IsVarying(to) THEN [l \in 1..Width |-> At(v, l - 1)] ELSE v, s1))
         [] OTHER -> With(Value(e.e, s), LAMBDA v, s1 : Result(ConvertValue(from, to, v), s1))

\* The address of what has one; a temporary is put into memory.
ReferenceValue(e, s) ==
    LET r == LValue(e.e, s)
    IN IF ~Stopped(r.s) /\ r.v = NoValue THEN With(Value(e.e, r.s), LAMBDA v, s1 : Temporary(v, s1)) ELSE r

DerefValue(e, s) ==
    LET t == TypeOf(e.e)
    IN With(Value(e.e, s), LAMBDA p, s1 :
         IF VaryingStructHasUniformMember(t) THEN Reject(s1) ELSE Load(AddVaryingOffsets(p, t), t, s1))

Value(e, s) ==
    CASE e.k = "sym" ->
            IF IsA(e.type, "function") THEN Result(<<e.name>>, s)
            ELSE Load(<<Symbols[e.name].addr>>, UniformPointer(IF IsA(e.type, "ref") THEN UniformPointer(Void) ELSE e.type), s)
      [] e.k = "const" -> Result([j \in 1..Cells(e.type) |-> e.val[IF Len(e.val) = 1 THEN 1 ELSE j]], s)
      [] e.k = "nullptr" -> Result(<<0>>, s)
      [] e.k = "unary" -> UnaryValue(e, s)
      [] e.k = "binary" -> BinaryValue(e, s)
      [] e.k = "assign" -> AssignValue(e, s)
      [] e.k = "select" -> SelectValue(e, s)
      [] e.k = "index" -> IndexValue(e, s)
      [] e.k \in {"member", "swizzle"} -> MemberValue(e, s)
      [] e.k = "cast" -> CastValue(e, s)
      [] e.k \in {"deref", "refderef"} -> DerefValue(e, s)
      [] e.k = "ref" -> ReferenceValue(e, s)
      [] e.k = "addr" -> IF TypeOf(e.e).kind \in {"ref", "function"} THEN Value(e.e, s) ELSE LValue(e.e, s)
      [] e.k = "call" -> CallValue(e, s)

LValue(e, s) ==
    CASE e.k = "sym" -> Result(<<Symbols[e.name].addr>>, s)
      [] e.k = "index" -> IndexLValue(e, s)
      [] e.k \in {"member", "swizzle"} -> MemberLValue(e, s)
      [] e.k = "cast" -> IF LValueTypeOf(e) = NullType THEN Result(NoValue, s) ELSE Value(e, s)
      [] e.k \in {"deref", "refderef"} -> Value(e.e, s)
      [] e.k = "call" -> IF LValueTypeOf(e) = NullType THEN Result(NoValue, s) ELSE Value(e, s)
      [] OTHER -> Result(NoValue, s)
=============================================================================
