--------------------------- MODULE ExpressionTypes ---------------------------
(***************************************************************************)
(* Expressions of the ispc language and their types (expr.cpp): GetType,   *)
(* GetLValueType and TypeCheck of every expression class.  An expression   *)
(* is a record whose field k names its class; a null Expr pointer is       *)
(* NullExpr and a failed assertion of the compiler is Crash.               *)
(* Calls name a function of one signature: the choice among overloads is   *)
(* FunctionOverloads.  Operators of structs, dependent types of templates, *)
(* launch and invoke_sycl, and calls through varying pointers are left     *)
(* out.                                                                    *)
(***************************************************************************)
EXTENDS TypeConversion

CONSTANTS
    Is32Bit,        \* g->target->is32Bit(); addressing has the target's width
    FieldNames      \* FieldNames[struct]: the names of its members, in order

NullExpr == [k |-> "none"]
Crash == [k |-> "crash"]
Failed(e) == e \in {NullExpr, Crash}

Sym(n, t) == [k |-> "sym", name |-> n, type |-> t]
Const(t, v) == [k |-> "const", type |-> t, val |-> v]      \* one value, or one for each lane
NullPtr == [k |-> "nullptr"]
Unary(o, e) == [k |-> "unary", op |-> o, e |-> e]
Binary(o, a, b) == [k |-> "binary", op |-> o, a |-> a, b |-> b]
Assign(o, l, r) == [k |-> "assign", op |-> o, a |-> l, b |-> r]
Select(t, a, b) == [k |-> "select", test |-> t, a |-> a, b |-> b]
Index(b, i) == [k |-> "index", a |-> b, b |-> i]
Member(e, f, arrow) == [k |-> "member", e |-> e, field |-> f, arrow |-> arrow]
Swizzle(e, f, arrow) == [k |-> "swizzle", e |-> e, field |-> f, arrow |-> arrow]   \* f: a sequence of element numbers
Cast(t, e) == [k |-> "cast", to |-> t, e |-> e]
Deref(e) == [k |-> "deref", e |-> e]
RefDeref(e) == [k |-> "refderef", e |-> e]
Reference(e) == [k |-> "ref", e |-> e]
AddressOf(e) == [k |-> "addr", e |-> e]
Call(f, args) == [k |-> "call", f |-> f, args |-> args]    \* f: an expression of function type

IncDec == {"++x", "--x", "x++", "x--"}
Comparisons == {"<", ">", "<=", ">=", "==", "!="}
BitOps == {"<<", ">>", "&", "^", "|"}
LogicalOps == {"&&", "||"}

UniformPointer(t) == PointerTo(t, "uniform", FALSE, "none")
VaryingPointer(t) == PointerTo(t, "varying", FALSE, "none")
IsSlice(t) == IsA(t, "pointer") /\ t.prop \in {"slice", "frozen"}
IsNumeric(t) == IsInt(t) \/ IsFloat(t)
IsBasic(t) == t.kind \in {"atomic", "enum", "pointer"}
VectorSize(t) == IF IsA(t, "vector") THEN t.count ELSE 0
Bool(v) == Atomic("bool", v)
OffsetType == Atomic(IF Is32Bit THEN "int32" ELSE "int64", "uniform")

\* lMatchingBoolType asserts that it has a basic, vector or reference type.
CrashType == [kind |-> "crash"]
MatchingBool(t) ==
    LET b == Bool(IF IsUniform(t) THEN "uniform" ELSE "varying")
    IN CASE IsA(t, "vector") -> VectorOf(b, t.count)
         [] IsBasic(t) \/ IsA(t, "ref") -> b
         [] OTHER -> CrashType

MemberNumber(s, f) == CHOOSE i \in DOMAIN FieldNames[s.name] : FieldNames[s.name][i] = f

-----------------------------------------------------------------------------
(***************************************************************************)
(* GetType and GetLValueType of checked expressions                        *)
(***************************************************************************)

UnaryType(op, t) == IF op = "!" THEN MatchingBool(Target(t)) ELSE Target(t)

BinaryType(op, t0, t1) ==
    CASE op = "," -> t1
      [] op \in {"+", "-"} /\ IsA(t0, "pointer") /\ ~IsA(t1, "pointer") -> t0
      [] op = "-" /\ IsA(t0, "pointer") /\ IsA(t1, "pointer") ->
            IF IsVarying(t0) \/ IsVarying(t1) THEN AsVarying(OffsetType) ELSE OffsetType
      [] op \in Comparisons \cup LogicalOps -> MatchingBool(MoreGeneralType(t0, t1, FALSE, 0))
      [] op \in {"<<", ">>"} -> IF IsVarying(t1) THEN AsVarying(t0) ELSE t0
      [] OTHER -> MoreGeneralType(t0, t1, FALSE, 0)

SelectType(tt, t1, t2) ==
    MoreGeneralType(t1, t2, IsVarying(tt) \/ IsVarying(t1) \/ IsVarying(t2),
                    IF VectorSize(tt) > 0 THEN VectorSize(tt) ELSE VectorSize(t1))

\* SOA data is indexed down to its uniform or varying elements.
IndexType(tb, ti) ==
    LET elt == IF IsA(tb, "pointer") THEN tb.base ELSE Target(tb).base
        plain == IF IsSOA(elt) THEN AsUniform(elt) ELSE elt
    IN IF IsUniform(ti) /\ (IsA(tb, "pointer") => IsUniform(tb)) THEN plain ELSE AsVarying(plain)

IndexLValueType(tb, lvb, ti) ==
    LET lv == IF IsA(lvb, "ref") THEN UniformPointer(lvb.target) ELSE lvb
        elt == CASE IsA(tb, "pointer") -> tb.base
                 [] IsSequential(lv.base) -> lv.base.base
                 [] OTHER -> lv.base
        varying == IF IsA(tb, "pointer") THEN IsVarying(tb) ELSE IsVarying(lv)
        p == IF ~varying /\ IsUniform(ti) THEN UniformPointer(elt) ELSE VaryingPointer(elt)
    IN IF IsSOA(elt) THEN [p EXCEPT !.prop = "slice"] ELSE p

\* What lies behind a pointer, a reference or, for a temporary, the value.
Pointee(t) == CASE IsA(t, "ref") -> t.target [] IsA(t, "pointer") -> t.base [] OTHER -> t

\* The pointer to a member of something at lvalue type lv.
MemberPointer(lv, elt) ==
    LET p == IF IsUniform(lv) \/ IsA(lv, "ref") THEN UniformPointer(elt) ELSE VaryingPointer(elt)
    IN IF IsSlice(lv) THEN [p EXCEPT !.prop = "frozen"] ELSE p

\* The value found through a pointer to a member: the uniform variant behind a
\* uniform slice pointer, the varying one behind a varying pointer.
ThroughMember(lv, elt) ==
    LET t == IF IsSlice(lv) /\ IsUniform(lv) THEN AsUniform(elt) ELSE elt
    IN IF IsVarying(lv) THEN AsVarying(t) ELSE t

RECURSIVE TypeOf(_)
RECURSIVE LValueTypeOf(_)

\* StructMemberExpr: GetLValueType and GetType.
BaseLValueType(e) == IF e.arrow THEN TypeOf(e.e) ELSE LValueTypeOf(e.e)
StructOf(e) ==
    LET lv == BaseLValueType(e) IN Pointee(IF lv = NullType THEN TypeOf(e.e) ELSE lv)
MemberElement(e) == LET s == StructOf(e) IN ElementType(s, MemberNumber(s, e.field))
MemberLValueType(e) ==
    LET lv == BaseLValueType(e) IN IF lv = NullType THEN NullType ELSE MemberPointer(lv, MemberElement(e))
MemberType(e) ==
    LET lv == MemberLValueType(e)
    IN IF lv # NullType THEN ThroughMember(lv, MemberElement(e))
       ELSE IF IsVarying(TypeOf(e.e)) THEN AsVarying(MemberElement(e)) ELSE MemberElement(e)

\* VectorMemberExpr: one element, or a shorter vector, which has no lvalue.
SwizzleVector(e) == Pointee(TypeOf(e.e))
SwizzleLValueType(e) ==
    LET lv == BaseLValueType(e)
    IN CASE Len(e.field) > 1 \/ lv = NullType -> NullType
         [] IsA(lv, "ref") -> ReferenceTo(lv.target.base)
         [] OTHER -> MemberPointer(lv, lv.base.base)
SwizzleType(e) ==
    LET elt == SwizzleVector(e).base
        lv == SwizzleLValueType(e)
    IN CASE Len(e.field) > 1 -> VectorOf(elt, Len(e.field))
         [] lv = NullType -> elt
         [] OTHER -> ThroughMember(lv, elt)

DerefType(t) == IF IsUniform(t) THEN t.base ELSE AsVarying(t.base)

AddressType(e) ==
    LET t == TypeOf(e)
    IN CASE IsA(t, "ref") -> UniformPointer(t.target)
         [] LValueTypeOf(e) # NullType -> LValueTypeOf(e)
         [] OTHER -> UniformPointer(t)

FunctionOf(t) == IF IsA(t, "pointer") THEN t.base ELSE t

TypeOf(e) ==
    CASE e.k \in {"sym", "const"} -> e.type
      [] e.k = "nullptr" -> UniformPointer(Void)
      [] e.k = "unary" -> UnaryType(e.op, TypeOf(e.e))
      [] e.k = "binary" -> BinaryType(e.op, TypeOf(e.a), TypeOf(e.b))
      [] e.k = "assign" -> TypeOf(e.a)
      [] e.k = "select" -> SelectType(TypeOf(e.test), TypeOf(e.a), TypeOf(e.b))
      [] e.k = "index" -> IndexType(TypeOf(e.a), TypeOf(e.b))
      [] e.k = "member" -> MemberType(e)
      [] e.k = "swizzle" -> SwizzleType(e)
      [] e.k = "cast" -> e.to
      [] e.k = "deref" -> DerefType(TypeOf(e.e))
      [] e.k = "refderef" -> TypeOf(e.e).target
      [] e.k = "ref" -> ReferenceTo(TypeOf(e.e))
      [] e.k = "addr" -> AddressType(e.e)
      [] e.k = "call" -> FunctionOf(TypeOf(e.f)).ret

PointerOrNull(t) == IF IsA(t, "pointer") THEN t ELSE NullType

\* NullType for what cannot be assigned to or have its address taken; the
\* result of pointer arithmetic, a select or a cast counts as an address.
LValueTypeOf(e) ==
    CASE e.k = "sym" -> UniformPointer(Target(e.type))
      [] e.k \in {"binary", "select", "cast"} -> PointerOrNull(TypeOf(e))
      [] e.k = "index" ->
            LET tb == TypeOf(e.a)
                lv == IF LValueTypeOf(e.a) = NullType THEN PointerOrNull(tb) ELSE LValueTypeOf(e.a)
            IN IF lv = NullType THEN lv ELSE IndexLValueType(tb, lv, TypeOf(e.b))
      [] e.k = "member" -> MemberLValueType(e)
      [] e.k = "swizzle" -> SwizzleLValueType(e)
      [] e.k \in {"deref", "refderef"} -> TypeOf(e.e)
      [] e.k \in {"ref", "addr"} -> UniformPointer(TypeOf(e.e))
      [] e.k = "call" -> LET r == TypeOf(e) IN IF IsA(r, "ref") THEN r ELSE NullType
      [] OTHER -> NullType

-----------------------------------------------------------------------------
(***************************************************************************)
(* TypeCheck                                                               *)
(***************************************************************************)

\* What lDoTypeConv looks at in an expression.
IsZero(e) == e.k = "const" /\ IsInt(e.type) /\ \A i \in DOMAIN e.val : e.val[i] = 0
ExprClass(e) == CASE e.k = "nullptr" -> "null" [] IsZero(e) -> "zero" [] OTHER -> "other"

\* TypeConvertExpr: the nodes that a conversion wraps around an expression.
RECURSIVE Convert(_, _)
Convert(e, to) ==
    LET from == TypeOf(e)
        conv == DoTypeConv(from, to, ExprClass(e))
    IN CASE Failed(e) -> e
         [] ~conv.ok -> NullExpr
         [] Equal(to, from) -> e
         [] IsA(from, "function") -> Convert(AddressOf(e), to)
         [] IsA(from, "ref") /\ ~IsA(to, "ref") -> Convert(RefDeref(e), to)
         [] ~IsA(from, "ref") /\ IsA(to, "ref") -> Convert(Reference(e), to)
         [] IsA(to, "pointer") /\ IsZero(e) -> Convert(NullPtr, to)
         [] OTHER -> IF conv.type = from THEN e ELSE Cast(to, e)

Dereferenced(e) == IF IsA(TypeOf(e), "ref") THEN RefDeref(e) ELSE e

\* lArrayToPointer asserts that the array can have its address taken.
ArrayDecay(e) ==
    LET i == Index(e, Const(Atomic("int64", "uniform"), <<0>>))
    IN CASE ~IsA(TypeOf(e), "array") -> e
         [] LValueTypeOf(i) = NullType -> Crash
         [] OTHER -> AddressOf(i)

CheckUnary(op, e0) ==
    LET t0 == TypeOf(e0)
        e == Dereferenced(e0)
        t == TypeOf(e)
        b == MatchingBool(t)
    IN CASE IsSOA(t0) -> NullExpr
         [] op \in IncDec ->
                IF ~IsConst(t0) /\ (IsNumeric(t0) \/ (IsA(t0, "pointer") /\ ~IsVoidPointer(t0)))
                THEN Unary(op, e0) ELSE NullExpr
         [] op = "-" -> IF IsNumeric(t) THEN Unary(op, e) ELSE NullExpr
         [] op = "~" -> IF IsInt(t) THEN Unary(op, e) ELSE NullExpr
         [] op = "!" -> IF b = CrashType THEN Crash
                        ELSE LET c == Convert(e, b) IN IF Failed(c) THEN c ELSE Unary(op, c)

\* A node over two operands, unless one of them failed.
Combine(op, a, b) ==
    CASE a = Crash \/ b = Crash -> Crash
      [] Failed(a) \/ Failed(b) -> NullExpr
      [] OTHER -> Binary(op, a, b)

\* Both operands get the more general of their types.
Promoted(op, a, b) ==
    LET t == MoreGeneralType(TypeOf(a), TypeOf(b), FALSE, 0)
    IN IF t = NullType THEN NullExpr ELSE Combine(op, Convert(a, t), Convert(b, t))

CheckPointerSub(a, b) ==
    IF IsVoidPointer(TypeOf(a)) \/ IsVoidPointer(TypeOf(b)) THEN NullExpr ELSE Promoted("-", a, b)

\* A pointer p and an offset.
CheckPointerOffset(op, p, i) ==
    LET tp == TypeOf(p)
        ti == TypeOf(i)
        width == IF IsUnsigned(ti) THEN AsUnsigned(OffsetType) ELSE OffsetType
    IN IF IsVoidPointer(tp) THEN NullExpr
       ELSE Combine(op, IF IsVarying(ti) THEN Convert(p, AsVarying(tp)) ELSE p,
                        Convert(i, IF IsVarying(tp) \/ IsVarying(ti) THEN AsVarying(width) ELSE width))

CheckShift(op, a, b) ==
    LET t == IF IsVarying(TypeOf(a)) \/ IsVarying(TypeOf(b)) THEN AsVarying(TypeOf(a)) ELSE TypeOf(a)
        c == Convert(a, t)
    IN IF Failed(c) THEN c ELSE Combine(op, c, Convert(b, TypeOf(c)))

\* A zero compared with a pointer is a null pointer.
CheckComparison(op, a0, b0) ==
    LET b == IF IsA(TypeOf(a0), "pointer") /\ IsZero(b0) THEN NullPtr ELSE b0
        a == IF IsA(TypeOf(b), "pointer") /\ IsZero(a0) THEN NullPtr ELSE a0
        Comparable(t) == IsBool(t) \/ IsNumeric(t)
    IN IF IsA(TypeOf(a), "pointer") \/ IsA(TypeOf(b), "pointer") \/ (Comparable(TypeOf(a)) /\ Comparable(TypeOf(b)))
       THEN Promoted(op, a, b) ELSE NullExpr

\* Each operand keeps its variability; vectors set the shape of both.
CheckLogical(op, a, b) ==
    LET n0 == VectorSize(TypeOf(a))
        n1 == VectorSize(TypeOf(b))
        n == IF n0 > 0 THEN n0 ELSE n1
        Dest(t) == LET bt == Bool(IF IsUniform(t) THEN "uniform" ELSE "varying")
                   IN IF n > 0 THEN VectorOf(bt, n) ELSE bt
    IN IF n0 > 0 /\ n1 > 0 /\ n0 # n1 THEN NullExpr
       ELSE Combine(op, Convert(a, Dest(TypeOf(a))), Convert(b, Dest(TypeOf(b))))

\* Operands without references and arrays.
CheckBinaryValues(op, a, b) ==
    LET t0 == TypeOf(a)
        t1 == TypeOf(b)
        p0 == IsA(t0, "pointer")
        p1 == IsA(t1, "pointer")
        Bits(t) == IsInt(t) \/ IsBool(t)
        Arith(t) == IsNumeric(t) /\ ~(op = "%" /\ IsFloat(t))
    IN CASE IsSOA(t0) \/ IsSOA(t1) -> NullExpr
         [] op = "-" /\ p0 /\ p1 -> CheckPointerSub(a, b)
         [] op = "+" /\ p0 /\ p1 -> NullExpr
         [] op \in {"+", "-"} /\ p0 /\ ~p1 -> CheckPointerOffset(op, a, b)
         [] op = "+" /\ ~p0 /\ p1 -> CheckPointerOffset(op, b, a)
         [] op \in BitOps -> IF ~Bits(t0) \/ ~Bits(t1) THEN NullExpr
                             ELSE IF op \in {"<<", ">>"} THEN CheckShift(op, a, b) ELSE Promoted(op, a, b)
         [] op \in Comparisons -> CheckComparison(op, a, b)
         [] op \in LogicalOps -> CheckLogical(op, a, b)
         [] op = "," -> Binary(op, a, b)
         [] OTHER -> IF Arith(t0) /\ Arith(t1) THEN Promoted(op, a, b) ELSE NullExpr

CheckBinary(op, a, b) ==
    LET x == ArrayDecay(Dereferenced(a))
        y == ArrayDecay(Dereferenced(b))
    IN IF x = Crash \/ y = Crash THEN Crash ELSE CheckBinaryValues(op, x, y)

\* lCheckForConstStructMember.
RECURSIVE HasConstMember(_)
HasConstMember(s) ==
    \E i \in DOMAIN StructFields[s.name] :
        LET t == ElementType(s, i) IN IsConst(t) \/ (IsA(t, "struct") /\ HasConstMember(t))

CheckAssign(op, l0, r0) ==
    LET l == Dereferenced(l0)
        t == TypeOf(l)
        delta == IF IsVarying(t) THEN AsVarying(OffsetType) ELSE OffsetType
        arith == IsA(t, "pointer") /\ op \in {"+=", "-="}
        r == Convert(r0, IF arith THEN delta ELSE t)
    IN CASE IsConst(t) -> NullExpr
         [] arith /\ IsVoidPointer(t) -> NullExpr
         [] IsA(t, "pointer") /\ ~arith /\ op # "=" -> NullExpr
         [] IsA(t, "array") -> NullExpr
         [] Failed(r) -> r
         [] IsFloat(t) /\ op \in {"<<=", ">>=", "&=", "^=", "|="} -> NullExpr
         [] IsA(t, "struct") /\ (HasConstMember(t) \/ op # "=") -> NullExpr
         [] OTHER -> Assign(op, l, r)

CheckSelect(test0, a0, b0) ==
    LET Decay(e) == IF IsA(TypeOf(e), "array") THEN Convert(e, UniformPointer(TypeOf(e).base)) ELSE e
        a == Decay(a0)
        b == Decay(b0)
        bt == MatchingBool(TypeOf(test0))
        test == Convert(test0, bt)
        tt == TypeOf(test)
        t == Target(MoreGeneralType(TypeOf(a), TypeOf(b), IsVarying(tt), VectorSize(tt)))
        x == Convert(a, t)
        y == Convert(b, t)
    IN CASE Failed(a) \/ Failed(b) -> NullExpr
         [] bt = CrashType -> Crash
         [] Failed(test) -> test
         [] t = NullType -> NullExpr
         [] Failed(x) \/ Failed(y) -> NullExpr
         [] OTHER -> Select(test, x, y)

\* The index becomes 32 or 64 bits wide.
CheckIndex(b, i) ==
    LET tb == TypeOf(b)
        ti == TypeOf(i)
        wide == \E w \in {"int64", "uint64"} : EqualIgnoringConst(AsUniform(ti), Atomic(w, "uniform"))
        keep == ~IsUniform(ti) /\ wide /\ ~Is32Bit
        t == IF IsUniform(ti) THEN OffsetType ELSE Atomic("int32", "varying")
        j == IF keep THEN i ELSE Convert(i, IF IsUnsigned(ti) THEN AsUnsigned(t) ELSE t)
    IN CASE ~IsSequential(Target(tb)) /\ ~(IsA(tb, "pointer") /\ ~IsVoid(tb.base)) -> NullExpr
         [] Failed(j) -> j
         [] OTHER -> Index(b, j)

\* MemberExpr::create: a member of a struct or elements of a vector.
CheckMember(e0, f, arrow) ==
    LET e == Dereferenced(e0)
        t == TypeOf(e)
        s == IF IsA(t, "pointer") THEN t.base ELSE t
    IN CASE arrow # IsA(t, "pointer") -> NullExpr
         [] IsA(s, "struct") -> IF f \in Range(FieldNames[s.name]) THEN Member(e, f, arrow) ELSE NullExpr
         [] IsA(s, "vector") -> IF f[1] \in 0..(s.count - 1) THEN Swizzle(e, f, arrow) ELSE NullExpr
         [] OTHER -> NullExpr

\* lDeconstifyType
RECURSIVE Deconst(_)
Deconst(t) ==
    IF IsA(t, "pointer")
    THEN [PointerTo(Deconst(t.base), t.var, FALSE, IF IsSlice(t) THEN "slice" ELSE "none") EXCEPT !.space = t.space]
    ELSE WithConst(t, FALSE)

IsScalar(t) == t.kind \in {"atomic", "enum"}

CheckCast(to0, e) ==
    LET from == Deconst(TypeOf(e))
        bound == ResolveUnbound(IF Var(to0) = "unbound" /\ IsUniform(TypeOf(e)) THEN AsUniform(to0) ELSE to0, "varying")
        to == Deconst(bound)
    IN CASE IsVoid(to) -> Cast(bound, e)
         [] IsVoid(from) \/ (IsVarying(from) /\ IsUniform(to)) -> NullExpr
         [] IsA(from, "pointer") /\ IsA(to, "pointer") ->
                IF IsSlice(from) /\ ~IsSlice(to) THEN NullExpr ELSE Cast(bound, e)
         [] IsA(from, "ref") /\ IsA(to, "ref") -> Cast(bound, e)
         [] IsScalar(from) /\ IsScalar(to) -> Cast(bound, e)
         [] IsA(from, "pointer") /\ IsA(to, "atomic") /\ IsInt(to) -> Cast(bound, e)
         [] IsA(from, "atomic") /\ IsInt(from) /\ IsA(to, "pointer") -> Cast(bound, e)
         [] OTHER -> Convert(e, to)

CheckDeref(e) == IF IsA(TypeOf(e), "pointer") /\ ~IsVoid(TypeOf(e).base) THEN Deref(e) ELSE NullExpr

CheckAddressOf(e) ==
    IF TypeOf(e).kind \in {"ref", "function"} \/ LValueTypeOf(e) # NullType THEN AddressOf(e) ELSE NullExpr

\* A call of a function with one signature; the arguments are converted when
\* the code is generated (FunctionCallExpr::GetValue).
CheckCall(f, args) ==
    LET ps == FunctionOf(TypeOf(f)).params
        c == [i \in DOMAIN args |-> Convert(args[i], ps[i])]
    IN IF Len(args) # Len(ps) \/ \E i \in DOMAIN c : Failed(c[i]) THEN NullExpr ELSE Call(f, c)
=============================================================================
