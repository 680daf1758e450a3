----------------------------- MODULE Initializers -----------------------------
(***************************************************************************)
(* Declarations with initialisers: local and static variables of functions *)
(* (DeclStmt in stmt.cpp, InitSymbol in expr.cpp) and global variables     *)
(* (InitializeGlobal in module.cpp).  An initialiser is an expression, a  *)
(* list in braces, or none.  A variable is laid out at the end of memory;  *)
(* an initialiser that the compiler finds constant is stored as a whole,   *)
(* any other is evaluated and stored element by element, or, for a uniform *)
(* short vector, gathered by type and converted together.                  *)
(* SOA types, varying pointers, function pointers, sizeof and the test for *)
(* constants that depend on the target are left out.                       *)
(***************************************************************************)
EXTENDS Expressions

CONSTANTS
    DeclaredTypes,
    InitExprs,          \* initialisers, as they are written
    DeclMemory,         \* what is in memory before the declaration
    DeclMasks           \* the function's mask and the internal one

VARIABLE declared       \* the declaration
NotDeclared == [done |-> FALSE]

List(es) == [k |-> "list", es |-> es]
IsList(e) == e.k = "list"
NoInitializer == NullExpr      \* a null Expr pointer

Err(s) == [s EXCEPT !.err = TRUE]
Zeros(t) == [j \in 1..Cells(t) |-> 0]
Put(v, p, s) == [s EXCEPT !.mem = [a \in DOMAIN @ |-> IF a \in p..(p + Len(v) - 1) THEN v[a - p + 1] ELSE @[a]]]

\* What a list initialises: the elements of a collection, or the lanes of a
\* varying value.
ListTypes(t) == IF IsCollection(t) THEN CollectionElements(t) ELSE Copies(AsUniform(t), Width)
ListFits(t, n) == n <= Len(ListTypes(t)) /\ (IsCollection(t) \/ n = Len(ListTypes(t)))

-----------------------------------------------------------------------------
(***************************************************************************)
(* Types and checks                                                        *)
(***************************************************************************)

\* An array without a size (0) gets that of its list; the first list inside
\* gives the size of the next dimension, which must be that of all of them.
RECURSIVE SizeUnsizedArrays(_, _)
SizeUnsizedArrays(t, e) ==
    LET first == Head(e.es)
        sized == [t EXCEPT !.count = IF @ = 0 THEN Len(e.es) ELSE @]
        next == SizeUnsizedArrays(t.base, first)
    IN CASE ~IsA(t, "array") \/ ~IsList(e) -> t
         [] e.es = <<>> -> t
         [] ~IsList(first) -> sized
         [] /\ IsA(t.base, "array") /\ t.base.count = 0
            /\ \E i \in DOMAIN e.es : ~IsList(e.es[i]) \/ Len(e.es[i].es) # Len(first.es) -> NullType
         [] OTHER -> IF next = NullType THEN next ELSE [sized EXCEPT !.base = next]

RECURSIVE HasUnsizedArrays(_)
HasUnsizedArrays(t) == IsA(t, "array") /\ (t.count = 0 \/ HasUnsizedArrays(t.base))

\* lCheckInit: the initialiser with the conversions of atomic types in it, or
\* NullExpr after an error.
RECURSIVE CheckInit(_, _)
CheckInit(t, e) ==
    LET n == Len(e.es)
        fields == CollectionElements(t)
        es == [i \in 1..n |-> IF i \in DOMAIN fields THEN CheckInit(fields[i], e.es[i]) ELSE e.es[i]]
    IN CASE ~IsList(e) /\ IsScalar(t) -> Convert(e, t)
         [] ~IsList(e) /\ IsA(t, "array") -> NullExpr
         [] IsList(e) /\ IsA(t, "struct") -> IF \E i \in 1..n : Failed(es[i]) THEN NullExpr ELSE List(es)
         [] OTHER -> e

\* TypeCheck and Optimize reach the elements of lists.
RECURSIVE TypeCheckInit(_)
TypeCheckInit(e) ==
    CASE IsList(e) -> List([i \in DOMAIN e.es |-> TypeCheckInit(e.es[i])])
      [] e = NoInitializer -> e
      [] OTHER -> TypeCheck(e)

RECURSIVE OptimizeInit(_)
OptimizeInit(e) ==
    CASE IsList(e) -> List([i \in DOMAIN e.es |-> OptimizeInit(e.es[i])])
      [] e = NoInitializer -> e
      [] OTHER -> Optimize(e)

-----------------------------------------------------------------------------
(***************************************************************************)
(* Constants: the cells of the value, or NoValue                           *)
(***************************************************************************)

NotConstant(s) == Result(NoValue, s)
IfConstant(r, F(_, _)) == IF Stopped(r.s) \/ r.v = NoValue THEN Stop(r.s) ELSE F(r.v, r.s)

\* lGetConstExprConstant.  A varying value must not get here for a uniform type.
ConstExprConstant(e, t, s) ==
    CASE IsUniform(t) /\ Cells(e.type) # 1 -> Stop(Bad(s))
      [] IsScalar(t) -> Result(GetValues(e, BasicOf(t), IsVarying(t)), s)
      [] IsA(t, "pointer") /\ (\A i \in DOMAIN e.val : e.val[i] = 0) -> Result(Zeros(t), s)
      [] OTHER -> NotConstant(s)

InGlobal(e) == LET sym == BaseSymbol(e) IN sym # NoSymbol /\ Symbols[sym].storage \in {"global", "static"}

\* The address that constant indices lead to from a global variable, NoValue if
\* they are not constant.  What is indexed must be an array in all dimensions:
\* LLVM has no constant behind a pointer.
NoAddress == <<Undef>>
RECURSIVE IndexedAddress(_)
IndexedAddress(e) ==
    CASE e.k = "sym" -> <<Symbols[e.name].addr>>
      [] e.k = "index" ->
            LET a == IndexedAddress(e.a)
            IN CASE ~IsConstant(e.b) \/ a = NoValue -> NoValue
                 [] ~IsA(TypeOf(e.a), "array") \/ a = NoAddress -> NoAddress
                 [] OTHER -> <<a[1] + e.b.val[1] * Cells(TypeOf(e.a).base)>>
      [] OTHER -> NoValue

AddressConstant(e, t, s) ==
    LET a == IndexedAddress(e.e)
    IN CASE ~IsA(t, "pointer") \/ ~InGlobal(e) -> NotConstant(s)
         [] a = NoAddress -> Stop(Bad(s))
         [] OTHER -> Result(a, s)

RECURSIVE StorageConstant(_, _, _)

\* TypeCastExpr::GetConstant: pointers alone; an array in a global variable
\* counts as that variable.
CastConstant(e, t, s) ==
    CASE ~IsA(t, "pointer") -> NotConstant(s)
      [] InGlobal(e) /\ IsA(TypeOf(e.e), "array") -> Result(<<Symbols[BaseSymbol(e)].addr>>, s)
      [] OTHER -> StorageConstant(e.e, AsUniform(t), s)

\* lGetBinaryExprStorageConstant: a constant pointer plus or minus a constant,
\* whatever the type that is asked for; LLVM takes no pointer for another one.
BinaryConstant(e, t, s) ==
    LET left == IsA(TypeOf(e.a), "pointer")
        p == IF left THEN e.a ELSE e.b
        n == IF left THEN e.b ELSE e.a
    IN IF \/ ~IsA(TypeOf(e), "pointer") \/ e.op \notin {"+", "-"} \/ ~IsConstant(n)
          \/ (e.op = "-" /\ IsA(TypeOf(e.b), "pointer"))
       THEN NotConstant(s)
       ELSE IfConstant(StorageConstant(p, TypeOf(p), s), LAMBDA v, s1 :
              IF IsA(t, "pointer") THEN Result(PointerArith(e.op, TypeOf(p), TypeOf(n), v, n.val), s1) ELSE Stop(Bad(s1)))

\* The elements that a list leaves out are zero.
WithMissing(v, ts, n) == v \o FlattenSeq([i \in 1..(Len(ts) - n) |-> Zeros(ts[n + i])])

\* lGetExprListConstant: the first element that is not constant ends it.
ListConstant(e, t, s) ==
    LET n == Len(e.es)
        ts == ListTypes(t)
        Converted(i) == IF IsList(e.es[i]) THEN e.es[i] ELSE LET c == Convert(e.es[i], ts[i]) IN IF Failed(c) THEN c ELSE Optimize(c)
        Element(i, s1) == LET x == Converted(i) IN IF Failed(x) THEN Reject(s1) ELSE StorageConstant(x, ts[i], s1)
        Elements == FoldLeft(LAMBDA r, i : IfConstant(r, LAMBDA v, s1 :
                                IfConstant(Element(i, s1), LAMBDA w, s2 : Result(v \o w, s2))),
                             Result(<<Undef>>, s), [i \in 1..n |-> i])
    IN CASE n = 1 /\ IsBasic(t) -> StorageConstant(e.es[1], t, s)
         [] ~IsCollection(t) /\ ~IsVarying(t) -> NotConstant(s)
         [] ~ListFits(t, n) -> Reject(s)
         [] OTHER -> IfConstant(Elements, LAMBDA v, s1 : Result(WithMissing(Tail(v), ts, n), s1))

StorageConstant(e, t, s) ==
    CASE e.k = "const" -> ConstExprConstant(e, t, s)
      [] e.k = "list" -> ListConstant(e, t, s)
      [] e.k = "nullptr" -> IF IsA(t, "pointer") THEN Result(Zeros(t), s) ELSE NotConstant(s)
      [] e.k = "addr" -> AddressConstant(e, t, s)
      [] e.k = "cast" -> CastConstant(e, t, s)
      [] e.k = "binary" -> BinaryConstant(e, t, s)
      [] OTHER -> NotConstant(s)

-----------------------------------------------------------------------------
(***************************************************************************)
(* InitSymbol: the code that initialises t at p                            *)
(***************************************************************************)

\* ExprList::HasAtomicInitializerList.  A list inside has no type to ask for.
IsAtomicInit(e) == ~IsList(e) /\ IsA(TypeOf(e), "atomic")
ListBeforeOther(es) == \E i \in DOMAIN es : IsList(es[i]) /\ \A j \in 1..(i - 1) : IsAtomicInit(es[j])

\* The positions of the initialisers of each basic type, in the order of the
\* types.
InitsOfType(es, b) == SelectSeq([i \in DOMAIN es |-> i], LAMBDA i : TypeOf(es[i]).basic = b)
exprPerType(es) == SelectSeq([k \in DOMAIN BasicTypes |-> InitsOfType(es, BasicTypes[k])], LAMBDA ps : ps # <<>>)

\* Evaluates the i-th initialiser into its element of a vector.
InitElement(r, t, es, i) ==
    With(r, LAMBDA v, s : With(Value(es[i], s), LAMBDA w, s1 :
        IF Len(w) # 1 THEN Stop(Bad(s1))
        ELSE Result([v EXCEPT ![i] = ConvertScalar(BasicOf(TypeOf(es[i])), BasicOf(t), w[1])], s1)))

\* The initialisers of one type are converted together; one that has its type
\* for itself is evaluated once more for the conversion.
InitType(r, t, es, ps) ==
    LET once == FoldLeft(LAMBDA q, i : InitElement(q, t, es, i), r, ps)
    IN IF Len(ps) > 1 \/ EqualIgnoringConst(t.base, TypeOf(es[ps[1]])) THEN once ELSE InitElement(once, t, es, ps[1])

\* A uniform short vector starts as poison.
InitVector(t, es, p, s) ==
    LET ps == exprPerType(es)
        r == FoldLeft(LAMBDA q, k : InitType(q, t, es, ps[k]), Result(Junk(t), s), [k \in DOMAIN ps |-> k])
    IN IF Stopped(r.s) THEN r.s ELSE Put(r.v, p, r.s)

RECURSIVE InitSymbol(_, _, _, _)

\* Element by element, the rest zero.
InitElements(t, es, p, s) ==
    LET ts == ListTypes(t)
        CellOfElement(i) == FoldLeft(LAMBDA n, x : n + Cells(x), p, SubSeq(ts, 1, i - 1))
        Element(s1, i) ==
            CASE Stopped(s1) -> s1
              [] i <= Len(es) -> InitSymbol(ts[i], es[i], CellOfElement(i), s1)
              [] OTHER -> Put(Zeros(ts[i]), CellOfElement(i), s1)
    IN FoldLeft(Element, s, [i \in DOMAIN ts |-> i])

\* The value of an expression in the type of the variable.
InitValue(t, e, p, s) ==
    LET x == Convert(e, t)
        r == Value(x, s)
    IN CASE x = NullExpr -> Err(s)
         [] x = Crash -> Bad(s)
         [] OTHER -> IF Stopped(r.s) \/ r.v = NoValue THEN r.s ELSE Put(r.v, p, r.s)

InitSymbol(t, e, p, s) ==
    LET c == StorageConstant(e, t, s)
        n == Len(e.es)
    IN CASE e = NoInitializer -> s
         [] Stopped(c.s) -> c.s
         [] c.v # NoValue -> Put(c.v, p, c.s)
         [] ~IsList(e) -> InitValue(t, e, p, s)
         [] IsBasic(t) /\ n = 1 -> InitSymbol(t, e.es[1], p, s)
         [] (IsBasic(t) /\ ~IsVarying(t)) \/ ~ListFits(t, n) -> Err(s)
         [] IsA(t, "vector") /\ IsUniform(t) /\ n > 0 /\ ListBeforeOther(e.es) -> Bad(s)
         [] IsA(t, "vector") /\ IsUniform(t) /\ n > 0 /\ (\A i \in 1..n : IsAtomicInit(e.es[i])) -> InitVector(t, e.es, p, s)
         [] OTHER -> InitElements(t, e.es, p, s)

-----------------------------------------------------------------------------
(***************************************************************************)
(* Declarations                                                            *)
(***************************************************************************)

\* The variable's cells follow what is in memory.
NextCell(s) == Len(s.mem) + 1
Allocated(t, cells, s) == [s EXCEPT !.mem = @ \o cells]

\* A reference is initialised with something that has one address.
ReferenceRejects(e) ==
    ~IsA(TypeOf(e), "ref") /\ (LValueTypeOf(e) = NullType \/ ~IsUniform(LValueTypeOf(e)))

\* DeclStmt::EmitCode of a variable on the stack.
EmitLocal(t, e, s) ==
    LET s1 == Allocated(t, Junk(t), s)
    IN IF e = NoInitializer /\ IsConst(t) THEN Err(s1) ELSE InitSymbol(t, e, NextCell(s), s1)

\* DeclStmt::EmitCode of a static variable: a constant, or zero.
EmitStatic(t, e, s) ==
    LET x == IF IsList(e) THEN e ELSE LET c == Convert(e, t) IN IF Failed(c) THEN c ELSE Optimize(c)
        r == StorageConstant(x, t, s)
    IN CASE e = NoInitializer -> Allocated(t, Zeros(t), s)
         [] Failed(x) -> Bad(Err(s))
         [] OTHER -> IF Stopped(r.s) \/ r.v = NoValue THEN Err(r.s) ELSE Allocated(t, r.v, r.s)

EmitCode(t, e, static, s) ==
    CASE t = NullType -> Err(s)
      [] HasUnsizedArrays(t) -> Err(s)
      [] IsA(t, "ref") /\ e = NoInitializer -> Err(s)
      [] IsA(t, "ref") /\ IsList(e) -> Bad(s)
      [] IsA(t, "ref") /\ ReferenceRejects(e) -> Err(s)
      [] OTHER -> IF static THEN EmitStatic(t, e, s) ELSE EmitLocal(t, e, s)

\* lConvertExprListToConstExpr: a constant for a list of uniform constants, one
\* for every lane or one for all; another number is an error.
ConstList(t, e, s) ==
    LET IsOne(x) == ~IsList(x) /\ IsConstant(x) /\ Cells(x.type) = 1
        n == Len(e.es)
        es == OptimizeInit(e).es
        i == Len(SelectSeq([j \in 1..n |-> j], LAMBDA j : \A k \in 1..j : IsOne(es[k])))
        Value1(l) == GetValues(es[IF n = 1 THEN 1 ELSE l], BasicOf(t), FALSE)[1]
    IN CASE ~IsConst(t) \/ ~IsVarying(t) \/ ~IsA(t, "atomic") \/ n > Width -> Result(e, s)
         [] i \notin {1, Width} -> Result(e, Err(s))
         [] OTHER -> Result(IF i = n THEN Const(t, [l \in 1..Width |-> Value1(l)]) ELSE e, s)

\* InitializeGlobal up to the storage: the initialiser and what it makes of s.
GlobalInitializer(t, e, s) ==
    LET x == IF IsList(e) THEN ConstList(t, e, s)
             ELSE LET c == Convert(e, t) IN IF Failed(c) THEN Result(e, Err(s)) ELSE Result(c, s)
        o == OptimizeInit(x.v)
        r == StorageConstant(o, t, x.s)
    IN CASE Stopped(x.s) -> Stop(x.s)
         [] Stopped(r.s) \/ r.v = NoValue -> Stop(Err(r.s))
         [] OTHER -> Result(<<o, r.v>>, r.s)

\* The constant that stands for a const variable in other expressions.
constValue(t, e) == IF ~IsList(e) /\ IsConstant(e) /\ IsConst(t) /\ Equal(TypeOf(e), t) THEN e ELSE NullExpr

Begun(k) == [mem |-> DeclMemory, im |-> k[2], fm |-> k[1], calls |-> <<>>, bad |-> FALSE, err |-> FALSE]

Outcome(storage, t, e, k, constant, s) ==
    [storage |-> storage, type |-> t, init |-> OptimizeInit(e), lanes |-> k[1] \cap k[2], constant |-> constant, s |-> s]

\* DeclStmt: TypeCheck, Optimize and EmitCode of the declaration of a variable
\* of type t0 with the checked initialiser e0.
DeclareVariable(t0, e0, static, k) ==
    LET checked == IF e0 = NoInitializer THEN e0 ELSE CheckInit(t0, e0)
        e == OptimizeInit(checked)
        t == SizeUnsizedArrays(t0, e)
        failed == e0 # NoInitializer /\ Failed(checked)
    IN Outcome(IF static THEN "static" ELSE "local", t, e0, k,
               IF failed \/ e = NoInitializer THEN NullExpr ELSE constValue(t0, e),
               IF failed THEN Err(Begun(k)) ELSE EmitCode(t, e, static, Begun(k)))

\* Module::InitializeGlobal
InitializeGlobal(t0, e, k) ==
    LET t == SizeUnsizedArrays(t0, e)
        r == GlobalInitializer(t, e, Begun(k))
        global(constant, s) == Outcome("global", t, e, k, constant, s)
    IN CASE t = NullType -> global(NullExpr, Err(Begun(k)))
         [] HasUnsizedArrays(t) -> global(NullExpr, Err(Begun(k)))
         [] e = NoInitializer -> global(NullExpr, Allocated(t, Zeros(t), Begun(k)))
         [] r.v = NoValue -> global(NullExpr, r.s)
         [] OTHER -> global(IF IsConst(t) /\ IsConstant(r.v[1]) THEN r.v[1] ELSE NullExpr, Allocated(t, r.v[2], r.s))

\* What becomes of a declaration whose initialiser type checking accepts.  The
\* initialiser is recorded as Optimize leaves it.
Declared(d) ==
    LET e == TypeCheckInit(d.init)
    IN IF d.storage = "global" THEN InitializeGlobal(d.type, e, d.masks)
       ELSE DeclareVariable(d.type, e, d.storage = "static", d.masks)

\* A global variable is no reference.
DefineVariable(t, e, storage, k) ==
    /\ ~declared.done
    /\ storage = "global" => ~IsA(t, "ref")
    /\ declared' = [done |-> TRUE, type |-> t, init |-> e, storage |-> storage, masks |-> k]

\* The declaration after it.
NextDeclaration == declared.done /\ declared' = NotDeclared

DeclInit == declared = NotDeclared
DeclNext ==
    \/ \E t \in DeclaredTypes, e \in InitExprs, storage \in {"local", "static", "global"}, k \in DeclMasks :
            DefineVariable(t, e, storage, k)
    \/ NextDeclaration
DeclSpec == DeclInit /\ [][DeclNext]_declared

-----------------------------------------------------------------------------
(***************************************************************************)
(* What a declaration means                                                *)
(***************************************************************************)

\* Every initialiser is evaluated once, in the order of the text, and converted
\* to the type of the element that it is for; the rest is zero.
RECURSIVE MeansInit(_, _, _, _)
MeansInit(t, e, m, L) ==
    LET ts == ListTypes(t)
        Element(i, m1) ==
            IF i \in DOMAIN e.es THEN MeansInit(ts[i], e.es[i], m1, L)
            ELSE Meaning([l \in L |-> [j \in DOMAIN Basics(ts[i]) |-> 0]], m1)
        Elements == FoldLeft(LAMBDA r, i : Then(r, LAMBDA v, m1 :
                                Then(Element(i, m1), LAMBDA w, m2 : Meaning([l \in L |-> Append(v[l], w[l])], m2))),
                             Meaning([l \in L |-> <<>>], m), [i \in DOMAIN ts |-> i])
    IN CASE ~IsList(e) -> Means(Convert(e, t), m, L)
         [] IsBasic(t) /\ Len(e.es) = 1 -> MeansInit(t, e.es[1], m, L)
         [] OTHER -> Then(Elements, LAMBDA v, m1 :
                       Meaning([l \in L |-> IF IsCollection(t) THEN FlattenSeq(v[l]) ELSE v[l][l + 1]], m1))

\* One value in braces is that value; a list has no more values than there are
\* elements, and one for every lane of a varying value; an array takes a list.
RECURSIVE Legal(_, _)
Legal(t, e) ==
    CASE IsList(e) /\ IsBasic(t) /\ Len(e.es) = 1 -> Legal(t, e.es[1])
      [] IsList(e) -> /\ IsCollection(t) \/ (IsBasic(t) /\ IsVarying(t))
                      /\ ListFits(t, Len(e.es)) /\ \A i \in DOMAIN e.es : Legal(ListTypes(t)[i], e.es[i])
      [] IsA(t, "array") -> FALSE
      [] OTHER -> ~Failed(Convert(e, t)) /\ (IsA(t, "ref") => ~ReferenceRejects(e))

LegalDeclaration(d) ==
    /\ d.type # NullType /\ ~HasUnsizedArrays(d.type)
    /\ IF d.init = NoInitializer THEN ~IsA(d.type, "ref") /\ (d.storage = "local" => ~IsConst(d.type)) ELSE Legal(d.type, d.init)

\* The initialisers of a declaration with the types that they are for.
RECURSIVE Initialisers(_, _)
Initialisers(t, e) ==
    {<<t, e>>} \cup (IF ~IsList(e) THEN {}
                     ELSE IF IsBasic(t) /\ Len(e.es) = 1 THEN Initialisers(t, e.es[1])
                     ELSE UNION {Initialisers(ListTypes(t)[i], e.es[i]) : i \in DOMAIN e.es \cap DOMAIN ListTypes(t)})

\* A null pointer is a constant for pointers alone, and a single value is none
\* for a short vector.
ConstantInit(t, e) ==
    \A x \in Initialisers(t, e) : x[2].k \in {"list", "none"} \/ (x[2].k = "const" /\ ~IsA(x[1], "vector")) \/ (x[2] = NullPtr /\ IsA(x[1], "pointer"))

RECURSIVE Changes(_)
Changes(e) == e.k = "call" \/ (e.k = "unary" /\ e.op \in IncDec) \/ \E i \in DOMAIN Children(e) : Changes(Children(e)[i])

\* Declarations for which the code is known not to keep to the meaning: the
\* list of a uniform short vector
VectorList(t, e) == IsA(t, "vector") /\ IsUniform(t) /\ IsList(e)
\* has too few values and is not constant: the rest is not set to zero;
VectorRestOpen(t, e) == VectorList(t, e) /\ Len(e.es) < t.count
\* has values with effects, evaluated in the order of their types or twice;
VectorReordered(t, e) == VectorList(t, e) /\ \E i \in DOMAIN e.es : ~IsList(e.es[i]) /\ Changes(e.es[i])
\* has a list or a varying value in it, at which the compiler stops.
VectorCrash(t, e) == VectorList(t, e) /\ \E i \in DOMAIN e.es : IsList(e.es[i]) \/ (IsAtomicInit(e.es[i]) /\ IsVarying(TypeOf(e.es[i])))
\* The compiler stops at a varying constant for a uniform type, at a
\* list for a reference, at an address behind a global pointer, and at a pointer
\* plus a constant in braces for another type.
VaryingConstant(e) == ~IsList(e) /\ IsConstant(e) /\ IsVarying(e.type)
Stops(t, e) ==
    \/ IsUniform(t) /\ VaryingConstant(e)
    \/ IsA(t, "ref") /\ IsList(e)
    \/ e.k = "addr" /\ IndexedAddress(e.e) = NoAddress
    \/ e.k = "binary" /\ IsA(TypeOf(e), "pointer") /\ ~IsA(t, "pointer")
\* An array that is part of a global variable is taken for the variable.
PartOfGlobal(e) == InGlobal(e) /\ ((e.k = "cast" /\ e.e.k # "sym") \/ (e.k # "sym" /\ IsA(TypeOf(e), "array")))
\* A const varying global takes uniform constants in its braces, or nothing that
\* is constant.
BracedVarying(d) == d.storage = "global" /\ IsConst(d.type) /\ IsList(d.init) /\ \E i \in DOMAIN d.init.es : VaryingConstant(d.init.es[i]) \/ IsList(d.init.es[i])
KnownDeclaration(d) ==
    /\ d.type # NullType /\ d.init # NoInitializer
    /\ \/ BracedVarying(d)
       \/ \E x \in Initialisers(d.type, d.init) :
            \/ VectorRestOpen(x[1], x[2]) \/ VectorReordered(x[1], x[2]) \/ VectorCrash(x[1], x[2]) \/ Stops(x[1], x[2])
            \/ ~IsList(x[2]) /\ PartOfGlobal(x[2])

FitsMeaning(x, y) == x = Undef \/ x = y

\* The cells of the variable, its constant, and the rest of memory and the calls
\* against their meaning.
Initialised(d) ==
    LET p == Len(DeclMemory) + 1
        t == d.type
        m0 == [mem |-> DeclMemory \o Junk(t), calls |-> <<>>, undef |-> FALSE]
        means == IF d.init # NoInitializer THEN MeansInit(t, d.init, m0, d.lanes)
                 ELSE Meaning([l \in d.lanes |-> [j \in DOMAIN Basics(t) |-> IF d.storage = "local" THEN Undef ELSE 0]], m0)
        cells == SubSeq(d.s.mem, p, p + Cells(t) - 1)
    IN ~means.m.undef =>
         /\ \A l \in d.lanes : LET v == Lane(t, cells, l) IN \A j \in DOMAIN v : FitsMeaning(means.v[l][j], v[j])
         /\ \A a \in DOMAIN DeclMemory : FitsMeaning(means.m.mem[a], d.s.mem[a])
         /\ d.s.calls = means.m.calls
         /\ d.constant # NullExpr => Value(d.constant, d.s).v = cells

\* Declarations mean the same whether the compiler finds their initialiser
\* constant or evaluates it: a legal one is accepted, as a static or global
\* variable too if it is constant, every element gets the value that is given
\* for it or zero, and effects happen once; an illegal one is reported.
DeclarationSound(d) ==
    ~KnownDeclaration(d) =>
        /\ LegalDeclaration(d) /\ (d.storage = "local" \/ ConstantInit(d.type, d.init)) => ~d.s.err
        /\ ~LegalDeclaration(d) => d.s.err
        /\ ~d.s.err => ~d.s.bad /\ Initialised(d)
DeclarationsSound == declared.done => \A d \in {Declared(declared)} : DeclarationSound(d)
=============================================================================
