-------------------------- MODULE FunctionOverloads --------------------------
(***************************************************************************)
(* Declaring functions of one name and resolving calls of it: the types    *)
(* that declarations give (decl.cpp), AddFunctionDeclaration (module.cpp), *)
(* the symbol table's functions (sym.cpp) and the choice of an overload    *)
(* or of a template instance (FunctionSymbolExpr in expr.cpp).             *)
(***************************************************************************)
EXTENDS TypeConversion

CONSTANTS
    Declarations,   \* the functions that are declared: their flags ("export", "task", "unmasked"),
                    \* return type and parameters; a parameter as it is written has a base
                    \* type, qualifiers, vector and SOA size, and declarators
    TemplateSets,   \* sets of template functions that may be declared: their parameter lists,
                    \* with the template parameter T
    Calls,          \* argument lists of calls; an argument has a type, could be null, is constant
    MaxFunctions    \* bound: functions declared

VARIABLES
    functions,      \* functions[f]: the symbols of the name, in order of declaration
    llvmFunctions,  \* mangled names in the LLVM module
    errors,         \* whether the compiler has reported an error
    call            \* the last call that was resolved

overloadVars == <<functions, llvmFunctions, errors, call>>

NoCall == [args |-> <<>>, match |-> NullType, templ |-> FALSE]

OverloadInit ==
    /\ functions = <<>> /\ llvmFunctions = {} /\ errors = FALSE /\ call = NoCall

-----------------------------------------------------------------------------
(***************************************************************************)
(* The type of a declaration                                               *)
(***************************************************************************)

\* lApplyTypeQualifiers, without the qualifiers for signedness.
ApplyTypeQualifiers(q, t0) ==
    LET t == IF "const" \in q THEN WithConst(t0, TRUE) ELSE t0
    IN CASE {"uniform", "varying"} \subseteq q -> NullType
         [] IsVoid(t) -> IF q \cap {"uniform", "varying"} = {} THEN t ELSE NullType
         [] "uniform" \in q -> AsUniform(t)
         [] "varying" \in q -> AsVarying(t)
         [] OTHER -> AsVariability(t, "unbound")

\* DeclSpecs::GetBaseType; null when an error is reported.
BaseType(s) ==
    LET v == IF s.vector = 0 THEN s.base
             ELSE IF s.base.kind \in {"atomic", "template"} THEN VectorOf(s.base, s.vector) ELSE NullType
        q == IF v = NullType THEN v ELSE ApplyTypeQualifiers(s.quals, v)
    IN CASE q = NullType \/ s.soa = "none" -> q
         [] IsA(q, "struct") /\ q.var = "unbound" -> AsSOA(q, s.soa)
         [] OTHER -> NullType

DeclaredVariability(q) ==
    IF "uniform" \in q THEN "uniform" ELSE IF "varying" \in q THEN "varying" ELSE "unbound"

\* Declarator::InitFromType for one declarator that is not a function.
InitFromType(t, d) ==
    CASE t = NullType \/ {"uniform", "varying"} \subseteq d.quals -> NullType
      [] d.kind = "pointer" ->
            PointerTo(t, DeclaredVariability(d.quals), "const" \in d.quals, IF IsSOA(t) THEN "slice" ELSE "none")
      [] d.kind = "ref" -> IF d.quals = {} /\ ~IsA(t, "ref") THEN ReferenceTo(t) ELSE NullType
      [] d.kind = "array" -> IF IsVoid(t) \/ IsA(t, "ref") THEN NullType ELSE ArrayOf(t, d.size)

RECURSIVE UnsizedInside(_)
UnsizedInside(t) == IsA(t, "array") /\ (t.count = 0 \/ UnsizedInside(t.base))

\* A parameter: unbound variability becomes varying, arrays become pointers.
VaryingIfUnbound(t) == IF t = NullType \/ IsDependent(t) THEN t ELSE ResolveUnbound(t, "varying")
AsParameter(r) ==
    CASE r = NullType -> r
      [] IsVoid(r) -> NullType
      [] IsA(r, "array") ->
            IF UnsizedInside(r.base) THEN NullType
            ELSE PointerTo(r.base, "uniform", FALSE, IF IsSOA(r) THEN "slice" ELSE "none")
      [] OTHER -> r
ParameterType(s) == AsParameter(VaryingIfUnbound(FoldLeft(InitFromType, BaseType(s), s.declarators)))

ParameterTypes(s) == [i \in DOMAIN s |-> ParameterType(s[i])]

\* lCreateFunctionFlagsAndCostOverride: conflicting qualifiers are an error
\* and leave the function without flags.
FunctionFlags(q) == IF {"export", "task"} \subseteq q THEN {} ELSE q

-----------------------------------------------------------------------------
(***************************************************************************)
(* Declaring a function                                                    *)
(***************************************************************************)

SameParams(f, g) ==
    Len(f.params) = Len(g.params) /\ \A i \in DOMAIN f.params : Equal(f.params[i], g.params[i])

\* lRecursiveCheckValidParamType: what exported functions may take and return.
\* The recursion passes its two flags on in the other order.
RECURSIVE ValidExported(_, _, _)
ValidExported(t, vectorOk, soaOk) ==
    CASE IsA(t, "struct") ->
            \A i \in DOMAIN StructFields[t.name] : ValidExported(ElementType(t, i), soaOk, vectorOk)
      [] IsSequential(t) -> (vectorOk \/ IsA(t, "array")) /\ ValidExported(t.base, soaOk, vectorOk)
      [] IsA(t, "pointer") -> ~IsVarying(t) /\ ValidExported(t.base, TRUE, TRUE)
      [] OTHER -> ~(IsSOA(t) /\ soaOk) /\ (IsVarying(t) => vectorOk)

\* Symbol with the LLVM function of the mangled name; when the module has one
\* already, the symbol shares it.
AddSymbol(f) ==
    /\ functions' = Append(functions, [type |-> f, function |-> MangleFunction(f)])
    /\ llvmFunctions' = llvmFunctions \cup {MangleFunction(f)}

\* What tasks and exported functions must not take or return.
IllegalQualifiers(f) ==
    \/ "task" \in f.flags /\ ~IsVoid(f.ret)
    \/ /\ "export" \in f.flags
       /\ \/ ~ValidExported(f.ret, FALSE, FALSE)
          \/ \E p \in ToSet(f.params) : IsA(p, "struct") \/ ~ValidExported(p, FALSE, FALSE)

\* Module::AddFunctionDeclaration.  A redeclaration changes nothing; functions
\* that differ in the return type or the flags only are an error.
AddFunctionDeclaration(params, ret, flags) ==
    LET f == [kind |-> "function", ret |-> ret, params |-> params, flags |-> FunctionFlags(flags)]
        stops == {i \in DOMAIN functions : Equal(functions[i].type, f) \/ SameParams(functions[i].type, f)}
        stop == IF stops = {} THEN Len(functions) + 1 ELSE CHOOSE i \in stops : \A j \in stops : i <= j
        redeclared == stops # {} /\ Equal(functions[stop].type, f)
        exportClash == \E i \in DOMAIN functions :
                          /\ i <= stop /\ ~Equal(functions[i].type, f)
                          /\ "export" \in f.flags \cup functions[i].type.flags
    IN
    /\ Len(functions) < MaxFunctions
    /\ call = NoCall
    /\ NullType \notin ToSet(params)
    /\ errors' = \/ errors \/ exportClash \/ (stops # {} /\ ~redeclared)
                 \/ f.flags # flags
                 \/ stops = {} /\ ((\E i \in DOMAIN params : ~IsComplete(params[i])) \/ IllegalQualifiers(f))
    /\ IF stops = {} /\ \A i \in DOMAIN params : IsComplete(params[i])
       THEN AddSymbol(f) ELSE UNCHANGED <<functions, llvmFunctions>>
    /\ UNCHANGED call

-----------------------------------------------------------------------------
(***************************************************************************)
(* Template candidates                                                     *)
(***************************************************************************)

\* lDeduceParam: the type that makes the parameter match, null if there is none.
RECURSIVE DeduceParam(_, _)
DeduceParam(p, a) ==
    CASE IsConst(p) /\ ~IsA(p, "ref") /\ IsConst(a) /\ ~IsA(a, "ref") ->
            DeduceParam(WithConst(p, FALSE), WithConst(a, FALSE))
      [] IsA(p, "ref") /\ IsA(a, "ref") -> DeduceParam(p.target, a.target)
      [] IsA(p, "pointer") /\ IsA(a, "pointer") -> DeduceParam(p.base, a.base)
      [] IsA(p, "template") ->
            CASE p.var = "uniform" /\ IsVarying(a) -> NullType
              [] p.var = "uniform" /\ IsUniform(a) -> AsVarying(a)
              [] p.var = "varying" /\ IsVarying(a) -> AsUniform(a)
              [] OTHER -> a
      [] OTHER -> NullType

\* lCheckDeductionCompatibility with an earlier deduction of the parameter.
Compatible(previous, deduced) ==
    CASE deduced = NullType -> NullType
      [] previous = NullType -> deduced
      [] Equal(previous, deduced) -> previous
      [] IsUniform(previous) /\ IsVarying(deduced) /\ Equal(AsVarying(previous), deduced) -> deduced
      [] IsVarying(previous) /\ IsUniform(deduced) -> previous
      [] OTHER -> NullType

\* The parameter and the argument that deduction looks at: no references, and
\* without a reference in the parameter no const and no arrays either.
DeductionPair(p, a) ==
    LET arg == Target(a)
    IN IF IsA(p, "ref") THEN <<p.target, arg>>
       ELSE <<WithConst(p, FALSE),
              WithConst(IF IsA(arg, "array")
                        THEN PointerTo(arg.base, "uniform", FALSE, IF IsSOA(arg) THEN "slice" ELSE "none")
                        ELSE arg, FALSE)>>

\* T from the arguments in order, null if deduction fails.
RECURSIVE DeducedFrom(_, _, _, _)
DeducedFrom(ps, args, i, sofar) ==
    IF i > Len(ps) THEN sofar
    ELSE IF ~IsDependent(ps[i]) THEN DeducedFrom(ps, args, i + 1, sofar)
    ELSE LET pair == DeductionPair(ps[i], args[i].type)
             t == Compatible(sofar, DeduceParam(pair[1], pair[2]))
         IN IF t = NullType THEN NullType ELSE DeducedFrom(ps, args, i + 1, t)

\* ResolveDependence with T = t.
RECURSIVE ResolveDependence(_, _)
ResolveDependence(p, t) ==
    CASE p.kind = "template" ->
            LET v == IF p.var = "unbound" THEN t ELSE AsVariability(t, p.var)
            IN IF p.const THEN WithConst(v, TRUE) ELSE v
      [] p.kind = "pointer" \/ IsSequential(p) -> [p EXCEPT !.base = ResolveDependence(p.base, t)]
      [] p.kind = "ref" -> RefWithBase(p, ResolveDependence(p.target, t))
      [] OTHER -> p

\* The instance of a template that a call can use, as a set of at most one.
InstanceWith(ps, t) ==
    IF t = NullType THEN {}
    ELSE {[kind |-> "function", ret |-> Void, flags |-> {},
           params |-> [i \in DOMAIN ps |-> ResolveUnbound(ResolveDependence(ps[i], t), "varying")]]}
Instances(ps, args) ==
    InstanceWith(ps, IF Len(ps) = Len(args) THEN DeducedFrom(ps, args, 1, NullType) ELSE NullType)

-----------------------------------------------------------------------------
(***************************************************************************)
(* Costs                                                                   *)
(***************************************************************************)

\* lIsMatchWithTypeWidening.
Narrower == [int8 |-> BoolTypes, uint8 |-> BoolTypes,
             int16 |-> BoolTypes \cup {"int8", "uint8"}, uint16 |-> BoolTypes \cup {"int8", "uint8"}]
Wider == [int32 |-> {"int32", "uint32", "int64", "uint64"}, uint32 |-> {"int32", "uint32", "int64", "uint64"},
          int64 |-> {"int64", "uint64"}, uint64 |-> {"int64", "uint64"},
          float16 |-> {"float", "double"}, float |-> {"double"}, double |-> {}, void |-> {}]
TypeWidening(c, f) ==
    /\ IsA(c, "atomic") /\ IsA(f, "atomic") /\ IsUniform(c) = IsUniform(f)
    /\ CASE c.basic \in BoolTypes -> TRUE
         [] c.basic \in DOMAIN Narrower -> f.basic \notin Narrower[c.basic]
         [] OTHER -> f.basic \in Wider[c.basic]

Infeasible == -1

\* Parameters that are references take arguments of the same type only.
ReferenceCost(c, f) ==
    IF \/ IsConst(c) /\ ~IsConst(f)
       \/ ~Equal(WithConst(Target(c), FALSE), WithConst(Target(f), FALSE))
    THEN Infeasible
    ELSE IF ~IsConst(c) /\ IsConst(f) THEN 4 ELSE 2

\* All other parameters.  Arguments that are references cost 2 more.
ValueCost(c, f) ==
    LET cn == WithConst(Target(c), FALSE)
        fn == WithConst(f, FALSE)
        ref == IF IsA(c, "ref") THEN 2 ELSE 0
        broadcast == IsVarying(f) /\ IsUniform(c)
    IN CASE EqualIgnoringConst(Target(c), f) -> ref + 1
         [] TypeWidening(cn, fn) -> ref + 8
         [] broadcast /\ Equal(AsVarying(cn), fn) -> ref + 16
         [] broadcast /\ TypeWidening(AsVarying(cn), fn) -> ref + 128
         [] CanConvertTypes(cn, fn) -> ref + (IF broadcast THEN 192 ELSE 64)
         [] OTHER -> Infeasible

\* An argument that is not constant counts 512 times.
Scaled(a, c, n) == IF c = Infeasible THEN c ELSE c * (n + 1) * (IF a.constant THEN 1 ELSE 512)
ArgCost(a, f, n) ==
    IF Equal(a.type, f) \/ (a.null /\ IsA(Target(f), "pointer")) THEN 0
    ELSE Scaled(a, IF IsA(f, "ref") THEN ReferenceCost(a.type, f) ELSE ValueCost(a.type, f), n)

\* computeOverloadCost, for calls that pass every parameter.
TotalCost(cost) == IF Infeasible \in ToSet(cost) THEN Infeasible ELSE FoldLeft(LAMBDA acc, x : acc + x, 0, cost)
OverloadCost(f, args) == TotalCost([i \in DOMAIN args |-> ArgCost(args[i], f.params[i], Len(args))])

\* FindBestMatchCost: the cheapest of the candidates, all of them, with their
\* costs.
Cheapest(matches) == {m \in matches : \A n \in matches : m.cost <= n.cost}
BestMatches(candidates, args) ==
    Cheapest({m \in {[function |-> f, cost |-> OverloadCost(f, args)] : f \in candidates} : m.cost # Infeasible})

\* ResolveOverloads without explicit template arguments: the chosen function,
\* null if none or several match.  A function is preferred to a template.
Chosen(args, m, templ) == [args |-> args, match |-> m.function, templ |-> templ]
ChooseMatch(fm, tm, args) ==
    CASE Cardinality(fm) > 1 \/ Cardinality(tm) > 1 \/ fm \cup tm = {} -> NoCall
      [] fm # {} /\ tm # {} ->
            LET f == CHOOSE x \in fm : TRUE
                t == CHOOSE x \in tm : TRUE
            IN IF t.cost < f.cost THEN Chosen(args, t, TRUE) ELSE Chosen(args, f, FALSE)
      [] OTHER -> Chosen(args, CHOOSE x \in fm \cup tm : TRUE, fm = {})
Resolve(candidates, instances, args) == ChooseMatch(BestMatches(candidates, args), BestMatches(instances, args), args)

\* getCandidateFunctions
Candidates(n) == {functions[i].type : i \in {j \in DOMAIN functions : Len(functions[j].type.params) = n}}

\* A call of the name; the compiler reports an error unless it finds one match.
ResolveOverloads(args, templates) ==
    /\ functions # <<>> /\ call = NoCall
    /\ \E c \in {Resolve(Candidates(Len(args)), UNION {Instances(ParameterTypes(s), args) : s \in templates}, args)} :
          /\ call' = [c EXCEPT !.args = args]
          /\ errors' = (errors \/ c = NoCall)
    /\ UNCHANGED <<functions, llvmFunctions>>

\* An error in a parameter: no function is declared.
BadDeclaration(params) ==
    /\ call = NoCall /\ NullType \in ToSet(params)
    /\ errors' = TRUE
    /\ UNCHANGED <<functions, llvmFunctions, call>>

RejectDeclaration == \E d \in Declarations : BadDeclaration(ParameterTypes(d.params))
Declare == \E d \in Declarations : AddFunctionDeclaration(ParameterTypes(d.params), d.ret, d.flags)
CallFunction == \E args \in Calls, ts \in TemplateSets : ResolveOverloads(args, ts)

OverloadNext == Declare \/ RejectDeclaration \/ CallFunction

-----------------------------------------------------------------------------
(***************************************************************************)
(* Properties                                                              *)
(***************************************************************************)

OverloadTypeOK ==
    /\ Len(functions) <= MaxFunctions /\ errors \in BOOLEAN
    /\ llvmFunctions = {functions[i].function : i \in DOMAIN functions}
    /\ call.match = NullType \/ Len(call.match.params) = Len(call.args)

\* No variability of the data is left open once a parameter is declared; a
\* struct's members follow the struct.  (The variability that a reference
\* keeps for itself is another matter: see ExportsTakeUniform.)
RECURSIVE Bound(_)
Bound(t) ==
    CASE t.kind = "pointer" -> t.var # "unbound" /\ Bound(t.base)
      [] IsSequential(t) -> Bound(t.base)
      [] t.kind = "ref" -> Bound(t.target)
      [] OTHER -> t.var # "unbound"

DeclaredTypesBound ==
    \A i \in DOMAIN functions : \A p \in ToSet(functions[i].type.params) : Bound(p)


\* The code of two overloads goes to two LLVM functions.
OwnLLVMFunction ==
    ~errors => \A i, j \in DOMAIN functions : functions[i].function = functions[j].function => i = j

\* Overloads that share an LLVM function, because the mangled name leaves out
\* the constness of pointers, do not differ in anything else.
NamesTellTypesApart ==
    ~errors => \A i, j \in DOMAIN functions :
        functions[i].function = functions[j].function =>
            EqualIgnoringConst(functions[i].type, functions[j].type)

\* Whether values of a type differ between program instances.
RECURSIVE HasLanes(_)
HasLanes(t) ==
    CASE IsSequential(t) -> HasLanes(t.base)
      [] t.kind = "ref" -> HasLanes(t.target)
      [] t.kind = "function" -> FALSE
      [] OTHER -> t.var = "varying"

\* An argument that differs between program instances never ends in a
\* parameter that is the same for all, through references, arrays or
\* templates.  An array's address is uniform whatever its elements are.
LanesKept ==
    call.match # NullType =>
        \A i \in DOMAIN call.args :
            HasLanes(call.args[i].type) /\ ~IsA(call.args[i].type, "array") => HasLanes(call.match.params[i])

\* Exported functions have no varying parameters, except through pointers:
\* the application's calling convention has no place for them.
ExportsTakeUniform ==
    ~errors => \A i \in DOMAIN functions :
        "export" \in functions[i].type.flags =>
            \A p \in ToSet(functions[i].type.params) : ~IsA(p, "pointer") => ~HasLanes(p)

\* What overload resolution accepts, FunctionCallExpr::GetValue can convert,
\* except for pointers passed by reference, which resolution accepts and the
\* conversion refuses.
AcceptedCallsConvert ==
    call.match # NullType =>
        \A i \in DOMAIN call.args :
            LET a == call.args[i]
                p == call.match.params[i]
            IN \/ IsA(p, "ref") /\ IsA(p.target, "pointer")
               \/ DoTypeConv(a.type, p, IF a.null THEN "zero" ELSE "other").ok

\* What a call may change is not const: a reference parameter that is not
\* const never gets a const argument.
ConstKept ==
    call.match # NullType =>
        \A i \in DOMAIN call.args :
            IsA(call.match.params[i], "ref") /\ IsConst(call.args[i].type) =>
                IsConst(call.match.params[i].target)

\* A function whose parameters are exactly the arguments' types is chosen
\* over every other function and template.  (A constant zero also matches
\* pointers exactly.)
ExactMatchChosen ==
    LET Exact(f) == \A i \in DOMAIN call.args : Equal(call.args[i].type, f.params[i])
    IN (/\ call # NoCall /\ \A i \in DOMAIN call.args : ~call.args[i].null
        /\ \E f \in Candidates(Len(call.args)) : Exact(f))
       => call.match # NullType /\ Exact(call.match)

\* The common type of two operands does not depend on their order, and both
\* operands convert to it (null pointers aside; a uniform array has a common
\* type with a varying one, and does not convert to it).
CommonTypeAgrees ==
    \A i, j \in DOMAIN call.args :
        LET t == Target(call.args[i].type)
            u == Target(call.args[j].type)
            m == MoreGeneralType(t, u, FALSE, 0)
        IN m # NullType /\ ~IsA(m, "array") =>
             /\ EqualIgnoringConst(m, MoreGeneralType(u, t, FALSE, 0))
             /\ IsVoidPointer(t) \/ IsVoidPointer(u) \/ (CanConvertTypes(t, m) /\ CanConvertTypes(u, m))

\* A call that is accepted passes values that its parameters can hold: they
\* convert, keep their lanes and do not lose const, and two operands have one
\* common type; and the function that it calls is the exact match if there is one.
CallsConvert == AcceptedCallsConvert /\ LanesKept /\ ConstKept /\ CommonTypeAgrees /\ ExactMatchChosen
=============================================================================
