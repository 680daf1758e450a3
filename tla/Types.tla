-------------------------------- MODULE Types --------------------------------
(***************************************************************************)
(* The types of the ispc language (type.cpp): variability, constness, the  *)
(* operations that derive one type from another, equality, mangling and    *)
(* the common type of two operands.  A type is a record; its kind says     *)
(* which class of type.h it belongs to:                                    *)
(*   atomic     basic, var, const       enum, struct  name, var, const     *)
(*   pointer    base, var, const, prop, space                              *)
(*   array, vector  base, count         ref   target, var, const, space    *)
(*   template   name, var, const        function  ret, params, flags       *)
(* Alignment, source positions and names of parameters are left out.  An   *)
(* array's count is 0 when it is unsized.                                  *)
(***************************************************************************)
EXTENDS Integers, Sequences, FiniteSets, SequencesExt

CONSTANTS
    StructFields    \* StructFields[name]: the raw types of the struct's members

NullType == [kind |-> "null"]       \* a null Type pointer

\* AtomicType::BasicType, in the order of the enumerators.
BasicTypes == <<"void", "bool", "int1", "int8", "uint8", "int16", "uint16", "int32", "uint32",
                "float16", "float", "int64", "uint64", "double">>
Rank(b) == CHOOSE i \in DOMAIN BasicTypes : BasicTypes[i] = b

FloatTypes == {"float16", "float", "double"}
IntTypes == {"int8", "uint8", "int16", "uint16", "int32", "uint32", "int64", "uint64"}
UnsignedTypes == {"bool", "uint8", "uint16", "uint32", "uint64"}
SignedTypes == {"int1", "int8", "int16", "int32", "int64"}
BoolTypes == {"bool", "int1"}

Atomic(b, v) == [kind |-> "atomic", basic |-> b, var |-> v, const |-> FALSE]
Void == Atomic("void", "uniform")
PointerTo(t, v, c, p) ==
    [kind |-> "pointer", base |-> t, var |-> v, const |-> c, prop |-> p, space |-> 0]
ArrayOf(t, n) == [kind |-> "array", base |-> t, count |-> n]
VectorOf(t, n) == [kind |-> "vector", base |-> t, count |-> n]

IsA(t, k) == t.kind = k
IsSequential(t) == t.kind \in {"array", "vector"}

\* GetVariability and IsConstType.  A sequential type takes both from its
\* element type; a function is uniform.
RECURSIVE Var(_)
Var(t) ==
    CASE IsSequential(t) -> Var(t.base)
      [] t.kind = "function" -> "uniform"
      [] OTHER -> t.var

RECURSIVE IsConst(_)
IsConst(t) ==
    CASE IsSequential(t) -> IsConst(t.base)
      [] t.kind = "function" -> FALSE
      [] OTHER -> t.const

\* A new reference copies both from its target.
ReferenceTo(t) == [kind |-> "ref", target |-> t, var |-> Var(t), const |-> IsConst(t), space |-> 0]

SOAWidths == [soa2 |-> 2, soa4 |-> 4]
SOAWidth(t) == IF Var(t) \in DOMAIN SOAWidths THEN SOAWidths[Var(t)] ELSE 0
IsSOA(t) == SOAWidth(t) > 0
IsUniform(t) == Var(t) = "uniform"
IsVarying(t) == Var(t) = "varying"
Target(t) == IF IsA(t, "ref") THEN t.target ELSE t      \* GetReferenceTarget

\* Type predicates of the value that a type describes, through references and
\* short vectors; an enum is an unsigned integer.
RECURSIVE HasBasic(_, _)
HasBasic(t, set) ==
    CASE t.kind = "atomic" -> t.basic \in set
      [] t.kind = "vector" -> HasBasic(t.base, set)
      [] t.kind = "ref" -> HasBasic(t.target, set)
      [] t.kind = "enum" -> "uint32" \in set
      [] OTHER -> FALSE
IsInt(t) == HasBasic(t, IntTypes)
IsFloat(t) == HasBasic(t, FloatTypes)
IsBool(t) == HasBasic(t, BoolTypes)
IsUnsigned(t) == HasBasic(t, UnsignedTypes)
IsVoid(t) == IsA(t, "atomic") /\ t.basic = "void" /\ t.var = "uniform"

-----------------------------------------------------------------------------
(***************************************************************************)
(* Deriving types                                                          *)
(***************************************************************************)

\* ReferenceType::createWithBaseType: a copy of the reference, which takes
\* variability and constness from the old target, gets a new target.
RefWithBase(t, b) == [t EXCEPT !.target = b, !.var = Var(t.target), !.const = IsConst(t.target)]

\* GetAsVaryingType, GetAsUniformType, GetAsUnboundVariabilityType.
RECURSIVE AsVariability(_, _)
AsVariability(t, v) ==
    CASE IsSequential(t) -> [t EXCEPT !.base = AsVariability(t.base, v)]
      [] t.kind = "ref" -> IF t.var = v THEN t ELSE RefWithBase(t, AsVariability(t.target, v))
      [] t.kind = "function" -> IF v = "uniform" THEN t ELSE NullType
      [] OTHER -> [t EXCEPT !.var = v]
AsVarying(t) == AsVariability(t, "varying")
AsUniform(t) == AsVariability(t, "uniform")

\* GetAsConstType and GetAsNonConstType; a pointer loses its frozen property.
RECURSIVE WithConst(_, _)
WithConst(t, c) ==
    CASE IsConst(t) = c \/ t.kind = "function" -> t
      [] IsSequential(t) -> [t EXCEPT !.base = WithConst(t.base, c)]
      [] t.kind = "ref" -> RefWithBase(t, WithConst(t.target, c))
      [] t.kind = "pointer" -> [t EXCEPT !.const = c, !.prop = IF @ = "frozen" THEN "none" ELSE @]
      [] OTHER -> [t EXCEPT !.const = c]

\* Mutant: what a pointer points to is left as it is.
RECURSIVE ResolveOuter(_, _)
ResolveOuter(t, v) ==
    CASE IsSequential(t) -> [t EXCEPT !.base = ResolveOuter(t.base, v)]
      [] t.kind = "ref" -> RefWithBase(t, ResolveOuter(t.target, v))
      [] t.kind = "function" -> t
      [] OTHER -> [t EXCEPT !.var = IF @ = "unbound" THEN v ELSE @]

\* ResolveUnboundVariability: what a pointer points to becomes uniform,
\* everything else that is unbound gets variability v.  The members of a
\* struct stay as they are.
RECURSIVE ResolveUnbound(_, _)
ResolveUnbound(t, v) ==
    CASE t.kind = "pointer" ->
            [t EXCEPT !.base = ResolveUnbound(t.base, "uniform"), !.var = IF @ = "unbound" THEN v ELSE @]
      [] IsSequential(t) -> [t EXCEPT !.base = ResolveUnbound(t.base, v)]
      [] t.kind = "ref" -> RefWithBase(t, ResolveUnbound(t.target, v))
      [] t.kind = "function" ->
            [t EXCEPT !.ret = ResolveUnbound(t.ret, v),
                      !.params = [i \in DOMAIN t.params |-> ResolveUnbound(t.params[i], v)]]
      [] OTHER -> [t EXCEPT !.var = IF @ = "unbound" THEN v ELSE @]

Unsigned == [int8 |-> "uint8", int16 |-> "uint16", int32 |-> "uint32", int64 |-> "uint64"]

\* GetAsUnsignedType: null where it makes no sense.
RECURSIVE AsUnsigned(_)
AsUnsigned(t) ==
    CASE t.kind = "atomic" -> IF t.basic \in UnsignedTypes THEN t
                              ELSE IF t.basic \in IntTypes THEN [t EXCEPT !.basic = Unsigned[t.basic]]
                              ELSE NullType
      [] t.kind = "enum" -> t
      [] IsSequential(t) -> [t EXCEPT !.base = AsUnsigned(t.base)]
      [] OTHER -> NullType

\* StructType::GetElementType: unbound members follow the struct.
ElementType(s, i) ==
    LET t == ResolveUnbound(StructFields[s.name][i], s.var)
    IN IF s.const THEN WithConst(t, TRUE) ELSE t

\* GetAsSOAType; a struct with a member of bound variability has none.
RECURSIVE CanBeSOA(_)
CanBeSOA(s) ==
    \A i \in DOMAIN StructFields[s.name] :
        LET f == StructFields[s.name][i]
        IN IF IsA(f, "struct") THEN CanBeSOA(f) ELSE Var(f) = "unbound" /\ ~IsA(f, "ref")

RECURSIVE AsSOA(_, _)
AsSOA(t, v) ==
    CASE Var(t) = v -> t
      [] IsSequential(t) -> LET b == AsSOA(t.base, v) IN IF b = NullType THEN b ELSE [t EXCEPT !.base = b]
      [] t.kind = "ref" -> ArrayOf(t, SOAWidths[v])
      [] t.kind = "struct" -> IF CanBeSOA(t) THEN [t EXCEPT !.var = v] ELSE NullType
      [] OTHER -> [t EXCEPT !.var = v]

\* A struct whose only member is an unsized array is incomplete.
RECURSIVE IsComplete(_)
IsComplete(t) ==
    CASE IsSequential(t) -> IsComplete(t.base)
      [] t.kind = "template" -> FALSE
      [] t.kind = "struct" ->
            LET fs == StructFields[t.name]
            IN IF Len(fs) = 1 /\ IsA(fs[1], "array") THEN fs[1].count > 0 /\ IsComplete(fs[1])
               ELSE \A i \in DOMAIN fs : IsComplete(fs[i])
      [] OTHER -> TRUE

RECURSIVE IsDependent(_)
IsDependent(t) ==
    CASE t.kind = "template" -> TRUE
      [] t.kind = "pointer" \/ IsSequential(t) -> IsDependent(t.base)
      [] t.kind = "ref" -> IsDependent(t.target)
      [] t.kind = "function" -> IsDependent(t.ret) \/ \E i \in DOMAIN t.params : IsDependent(t.params[i])
      [] OTHER -> FALSE

-----------------------------------------------------------------------------
(***************************************************************************)
(* Equality and mangling                                                   *)
(***************************************************************************)

\* lCheckTypeEquality.  Of a pointer's variability only whether it is uniform
\* is compared.
RECURSIVE SameType(_, _, _)
SameType(a, b, ignoreConst) ==
    /\ a # NullType /\ b # NullType /\ a.kind = b.kind
    /\ ignoreConst \/ IsConst(a) = IsConst(b)
    /\ CASE a.kind = "atomic" -> a.basic = b.basic /\ a.var = b.var
         [] a.kind \in {"enum", "struct", "template"} -> a.name = b.name /\ a.var = b.var
         [] IsSequential(a) -> a.count = b.count /\ SameType(a.base, b.base, ignoreConst)
         [] a.kind = "pointer" -> /\ IsUniform(a) = IsUniform(b) /\ a.prop = b.prop /\ a.space = b.space
                                  /\ SameType(a.base, b.base, ignoreConst)
         [] a.kind = "ref" -> a.space = b.space /\ SameType(a.target, b.target, ignoreConst)
         [] a.kind = "function" ->
                /\ SameType(a.ret, b.ret, ignoreConst)
                /\ a.flags = b.flags /\ Len(a.params) = Len(b.params)
                /\ \A i \in DOMAIN a.params : SameType(a.params[i], b.params[i], ignoreConst)

Equal(a, b) == SameType(a, b, FALSE)
EqualIgnoringConst(a, b) == SameType(a, b, TRUE)

IsVoidPointer(t) == IsA(t, "pointer") /\ EqualIgnoringConst(AsUniform(t), PointerTo(Void, "uniform", FALSE, "none"))

\* Mutant: the variability of a pointer is left out of the name.
PointerPrefixNoVar(t) == <<"<">>

PointerPrefix(t) == <<t.var, "<">> \o (IF t.prop = "none" THEN <<>> ELSE <<t.prop>>)

ConstPrefix(t, name) == IF t.const THEN <<name>> ELSE <<>>

MangleAtomic(t) == ConstPrefix(t, "C") \o <<t.var, t.basic>>

MangleEnum(t) == ConstPrefix(t, "C") \o <<t.var, "enum[", t.name, "]">>

MangleStruct(t) == <<"s[">> \o ConstPrefix(t, "_c_") \o <<t.var, t.name, "]">>

MangledArrayCount(t) == IF t.count > 0 THEN <<"[", ToString(t.count), "]">> ELSE <<"[", "]">>

MangledVectorCount(t) == <<"<", ToString(t.count), ">">>

\* Mangle, as a sequence of the pieces that the code puts together.  The
\* constness and the address space of a pointer are not in it.
RECURSIVE Mangle(_)
Mangle(t) ==
    CASE t.kind = "atomic" -> MangleAtomic(t)
      [] t.kind = "enum" -> MangleEnum(t)
      [] t.kind = "pointer" -> PointerPrefix(t) \o Mangle(t.base) \o <<">">>
      [] t.kind = "array" -> Mangle(t.base) \o MangledArrayCount(t)
      [] t.kind = "vector" -> Mangle(t.base) \o MangledVectorCount(t)
      [] t.kind = "struct" -> MangleStruct(t)
      [] t.kind = "ref" -> <<"REF">> \o Mangle(t.target)

MangleFunction(f) ==
    (IF "unmasked" \in f.flags THEN <<"UM_">> ELSE <<>>)
        \o FoldLeft(LAMBDA acc, p : acc \o Mangle(p), <<>>, f.params)

-----------------------------------------------------------------------------
(***************************************************************************)
(* The common type of two operands                                         *)
(***************************************************************************)

VectorConvert(t, n) ==
    CASE IsA(t, "vector") -> IF t.count = n THEN t ELSE NullType
      [] IsA(t, "atomic") -> VectorOf(t, n)
      [] OTHER -> NullType

DecayedFunction(t) == IF IsA(t, "function") THEN PointerTo(t, "uniform", FALSE, "none") ELSE t

\* The atomic type that comes later in the enumeration.
Promote(a, b) == IF Rank(a.basic) >= Rank(b.basic) THEN a ELSE b

RECURSIVE MoreGeneralType(_, _, _, _)
MoreGeneralType(u0, u1, forceVarying, vecSize) ==
    LET d0 == DecayedFunction(u0)
        d1 == DecayedFunction(u1)
        vary == IsVarying(d0) \/ IsVarying(d1) \/ forceVarying
        w0 == IF vary THEN AsVarying(d0) ELSE d0
        w1 == IF vary THEN AsVarying(d1) ELSE d1
        t0 == IF vecSize > 0 THEN VectorConvert(w0, vecSize) ELSE w0
        t1 == IF vecSize > 0 THEN VectorConvert(w1, vecSize) ELSE w1
        r0 == Target(t0)
        r1 == Target(t1)
        OfElements(e0, e1, n) ==
            LET t == MoreGeneralType(e0, e1, forceVarying, 0) IN IF t = NullType THEN t ELSE VectorOf(t, n)
    IN CASE t0 = NullType \/ t1 = NullType -> NullType
         [] Equal(t0, t1) -> t0
         [] EqualIgnoringConst(t0, t1) -> WithConst(t0, FALSE)
         [] IsA(t0, "pointer") /\ IsA(t1, "pointer") ->
                IF IsVoidPointer(t0) THEN t1 ELSE IF IsVoidPointer(t1) THEN t0 ELSE NullType
         [] IsA(r0, "vector") /\ IsA(r1, "vector") ->
                IF r0.count = r1.count THEN OfElements(r0.base, r1.base, r0.count) ELSE NullType
         [] IsA(r0, "vector") /\ ~IsA(r1, "vector") -> OfElements(r0.base, t1, r0.count)
         [] IsA(r1, "vector") /\ ~IsA(r0, "vector") -> OfElements(t0, r1.base, r1.count)
         [] IsA(r0, "enum") /\ IsA(r1, "enum") -> Atomic("uint32", IF IsVarying(r0) THEN "varying" ELSE "uniform")
         [] IsA(r0, "enum") /\ IsA(r1, "atomic") -> r1
         [] IsA(r1, "enum") /\ IsA(r0, "atomic") -> r0
         [] IsA(r0, "atomic") /\ IsA(r1, "atomic") -> Promote(r0, r1)
         [] OTHER -> NullType
=============================================================================
