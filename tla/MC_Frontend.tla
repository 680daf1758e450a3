---------------------------- MODULE MC_Frontend -----------------------------
(***************************************************************************)
(* FunctionOverloads, FunctionTemplates, ModuleSymbols, Expressions and    *)
(* Initializers for TLC.  They share no state: each is explored with the   *)
(* others at rest.                                                         *)
(***************************************************************************)
EXTENDS FunctionOverloads, FunctionTemplates, ModuleSymbols, Expressions, Initializers

-----------------------------------------------------------------------------
(*****************************************************************************)
(* Expressions: a gang of two, a variable of each kind, and families of forms *)
(*****************************************************************************)

UInt == Atomic("int8", "uniform")
VInt == Atomic("int8", "varying")
MCStructFields ==
    [S |-> <<Atomic("int8", "unbound"), Atomic("int16", "unbound")>>,
     R |-> <<Atomic("int8", "unbound"), UInt>>]
MCFieldNames == [S |-> <<"m", "n">>, R |-> <<"m", "k">>]
Struct(n, v) == [kind |-> "struct", name |-> n, var |-> v, const |-> FALSE]
FunctionType(r, p) == [kind |-> "function", ret |-> r, params |-> <<p>>, flags |-> {}]

Variable(n, t, d, st, cells) == [name |-> n, type |-> t, depth |-> d, storage |-> st, cells |-> cells]

\* A gap of three cells follows every variable.
MCVariables == <<
    Variable("u", UInt, 0, "local", <<3>>),                                             \* at 1
    Variable("x", VInt, 1, "local", <<1, 2>>),                                          \* 5
    Variable("y", VInt, 0, "local", <<1, 0>>),                                          \* 10
    Variable("g", VInt, 0, "global", <<127, -128>>),                                    \* 15
    Variable("b", Bool("varying"), 0, "local", <<1, 0>>),                               \* 20
    Variable("c", Bool("uniform"), 0, "local", <<0>>),                                  \* 25
    Variable("a", ArrayOf(UInt, 3), 0, "local", <<2, 0, 1>>),                           \* 29
    Variable("va", ArrayOf(VInt, 2), 0, "local", <<20, 21, 22, 23>>),                   \* 35
    Variable("p", UniformPointer(UInt), 0, "local", <<30>>),                            \* 42
    Variable("q", VaryingPointer(UInt), 0, "local", <<29, 31>>),                        \* 46
    Variable("vp", UniformPointer(VInt), 0, "local", <<35>>),                           \* 51
    Variable("s", Struct("S", "varying"), 0, "local", <<30, 31, 32, 33>>),              \* 55
    Variable("ss", ArrayOf(Struct("S", "uniform"), 2), 0, "local", <<34, 35, 36, 37>>), \* 62
    Variable("sq", VaryingPointer(Struct("S", "uniform")), 0, "local", <<64, 62>>),     \* 69
    Variable("so", ArrayOf(Struct("S", "soa2"), 2), 0, "local", <<40, 41, 42, 43, 44, 45, 46, 47>>), \* 74
    Variable("r", ArrayOf(Struct("R", "varying"), 2), 0, "local", <<50, 51, 52, 53, 54, 55>>), \* 85
    Variable("v", VectorOf(VInt, 2), 0, "local", <<60, 61, 62, 63>>),                   \* 94
    Variable("w", VectorOf(UInt, 2), 0, "local", <<2, 61>>),                            \* 101
    Variable("wp", UniformPointer(VectorOf(UInt, 2)), 0, "local", <<101>>),             \* 106
    Variable("f", FunctionType(VInt, VInt), 0, "global", <<>>),
    Variable("h", FunctionType(UInt, ReferenceTo(VInt)), 0, "global", <<>>),
    Variable("ga", ArrayOf(ArrayOf(UInt, 2), 2), 0, "global", <<70, 71, 72, 73>>),
    Variable("gp", UniformPointer(UInt), 0, "global", <<29>>)>>

Spaced(cells) == cells \o <<Gap, Gap, Gap>>
MCMemory == FlattenSeq([i \in DOMAIN MCVariables |-> Spaced(MCVariables[i].cells)])
MCSymbols ==
    [n \in {MCVariables[i].name : i \in DOMAIN MCVariables} |->
        LET i == CHOOSE j \in DOMAIN MCVariables : MCVariables[j].name = n
        IN [addr |-> 1 + Len(FlattenSeq([j \in 1..(i - 1) |-> Spaced(MCVariables[j].cells)])), type |-> MCVariables[i].type,
            depth |-> MCVariables[i].depth, storage |-> MCVariables[i].storage]]

Named(names) == {Sym(n, MCSymbols[n].type) : n \in names}
IntConst(n) == Const(WithConst(UInt, TRUE), <<n>>)

NoForm == [nodes |-> 4, leaves |-> {}, unary |-> {}, binary |-> {}, assign |-> {}, select |-> FALSE, index |-> FALSE,
           fields |-> {}, casts |-> {}, deref |-> FALSE, functions |-> {}]

Arithmetic ==
    [NoForm EXCEPT !.leaves = Named({"u", "y", "g"}) \cup {IntConst(0), IntConst(-3), Const(Atomic("uint8", "varying"), <<200, 2>>)},
                   !.unary = {"-", "!", "~", "x--"}, !.binary = {"+", "*", "/", ">>", "<", "&"},
                   !.casts = {Atomic("int16", "unbound"), Bool("unbound")}]
Conditionals ==
    [NoForm EXCEPT !.nodes = 6, !.leaves = Named({"x", "y", "b"}),
                   !.binary = {"&&"}, !.assign = {"-="}, !.select = TRUE, !.functions = Named({"f"})]
UniformConditionals ==
    [NoForm EXCEPT !.nodes = 5, !.leaves = Named({"b", "c", "u"}), !.unary = {"x++"}, !.binary = {"||", ","}, !.assign = {"="},
                   !.select = TRUE]
Pointers ==
    [NoForm EXCEPT !.nodes = 5, !.leaves = Named({"a", "va", "p", "q", "vp", "y"}) \cup {IntConst(1)},
                   !.unary = {"x--"}, !.binary = {"+", "-", "=="}, !.assign = {"=", "+="}, !.index = TRUE, !.deref = TRUE,
                   !.functions = Named({"h"})]
Structs ==
    [NoForm EXCEPT !.nodes = 5, !.leaves = Named({"s", "ss", "sq", "so", "r", "y"}) \cup {IntConst(1)},
                   !.unary = {"x++"}, !.assign = {"="}, !.index = TRUE, !.deref = TRUE, !.fields = {"m", "n", "k"},
                   !.binary = {"+"}, !.select = TRUE]
Vectors ==
    [NoForm EXCEPT !.leaves = Named({"v", "w", "wp", "y", "u"}),
                   !.unary = {"-", "++x", "!"}, !.binary = {"+", "<", "&&"}, !.assign = {"=", "*="}, !.select = TRUE, !.index = TRUE,
                   !.deref = TRUE, !.fields = {<<0>>, <<1>>, <<1, 0>>}]

MCMasks == {<<{0, 1}, {0, 1}>>, <<{1}, {0, 1}>>, <<{0, 1}, {0}>>, <<{0}, {1}>>}
MCForms == {Arithmetic, Conditionals, UniformConditionals, Pointers, Structs, Vectors}

-----------------------------------------------------------------------------
(*****************************************************************************)
(* Initializers: declarations over the variables of the expressions          *)
(*****************************************************************************)

UShort == Atomic("int16", "uniform")
MCDeclaredTypes ==
    {UInt, VInt, WithConst(VInt, TRUE), WithConst(UShort, TRUE), Bool("varying"), UniformPointer(UInt), ReferenceTo(UInt),
     VectorOf(UShort, 2), VectorOf(VInt, 2), ArrayOf(UShort, 2), ArrayOf(ArrayOf(UInt, 0), 0), ArrayOf(VInt, 0),
     Struct("S", "uniform"), Struct("S", "varying"), ArrayOf(Struct("S", "uniform"), 2)}

Global2 == Sym("ga", MCSymbols["ga"].type)
Row(i) == Index(Global2, IntConst(i))
CallOfH == Call(Sym("h", MCSymbols["h"].type), <<Sym("y", VInt)>>)
Numbers == {IntConst(5), Const(UShort, <<300>>), CallOfH}
Scalars == Numbers \cup {Const(VInt, <<1, 2>>), Sym("y", VInt), Cast(Atomic("int16", "unbound"), CallOfH)}
Others ==
    {IntConst(0), Sym("u", UInt), NullPtr, Sym("a", MCSymbols["a"].type), Sym("s", MCSymbols["s"].type), Sym("w", MCSymbols["w"].type), Sym("gp", MCSymbols["gp"].type),
     Row(1), AddressOf(Sym("u", UInt)), AddressOf(Index(Row(1), IntConst(1))),
     AddressOf(Index(Sym("gp", MCSymbols["gp"].type), IntConst(1))),
     Binary("+", AddressOf(Index(Row(0), IntConst(1))), IntConst(2)),
     Cast(UniformPointer(UInt), Row(1))}

Lists(S, n) == {List(es) : es \in [1..n -> S]}
MCInitExprs ==
    LET atoms == Scalars \cup Others
        pairs == Lists(Scalars, 2)
        few == {List(<<>>), List(<<IntConst(5)>>), List(<<IntConst(7), Sym("u", UInt)>>),
                List(<<IntConst(5), Const(UShort, <<300>>)>>)}
    IN {NoInitializer, List(<<>>)} \cup atoms \cup Lists(atoms, 1) \cup pairs \cup Lists(Numbers, 3)
         \cup Lists(few, 1) \cup Lists(few, 2) \cup {List(<<x, y>>) : x \in few, y \in Numbers}
         \cup {List(<<List(<<x>>)>>) : x \in few}

MCDeclMasks == {<<{0, 1}, {0, 1}>>}

-----------------------------------------------------------------------------
(*****************************************************************************)
(* Functions, templates and names                                            *)
(*****************************************************************************)

MCStructs ==
    MCStructFields
        @@ [P |-> <<Atomic("int32", "unbound"), PointerTo(Atomic("float", "uniform"), "unbound", FALSE, "none")>>,
            U |-> <<ArrayOf(Atomic("int32", "unbound"), 0)>>]

StructType(n) == [kind |-> "struct", name |-> n, var |-> "unbound", const |-> FALSE]
Enum(n) == [kind |-> "enum", name |-> n, var |-> "unbound", const |-> FALSE]
T == [kind |-> "template", name |-> "T", var |-> "unbound", const |-> FALSE]

Plain(b, q, d) == [base |-> b, quals |-> q, vector |-> 0, soa |-> "none", declarators |-> d]
IntP(q, d) == Plain(Atomic("int32", "unbound"), q, d)
FloatP(q, d) == Plain(Atomic("float", "unbound"), q, d)
Ptr(q) == [kind |-> "pointer", quals |-> q, size |-> 0]
Ref == [kind |-> "ref", quals |-> {}, size |-> 0]
Array(n) == [kind |-> "array", quals |-> {}, size |-> n]

MCParameters ==
    {IntP({}, <<>>), IntP({"const"}, <<>>), IntP({"uniform"}, <<>>), FloatP({"const"}, <<>>), IntP({"uniform", "varying"}, <<>>),
     Plain(Atomic("int64", "unbound"), {}, <<>>), Plain(Atomic("uint8", "unbound"), {"uniform"}, <<>>),
     IntP({}, <<Ptr({})>>), IntP({}, <<Ptr({"uniform"})>>), IntP({}, <<Ptr({"const"})>>), IntP({"const"}, <<Ptr({"uniform"})>>),
     IntP({"uniform"}, <<Ref>>), IntP({"const"}, <<Ref>>), IntP({}, <<Array(2)>>), IntP({}, <<Array(0), Array(0)>>),
     Plain(Void, {}, <<Ptr({"uniform"})>>), Plain(Enum("E"), {}, <<>>),
     Plain(StructType("P"), {"uniform"}, <<>>), Plain(StructType("U"), {}, <<>>),
     [Plain(StructType("P"), {}, <<Ptr({"uniform"})>>) EXCEPT !.soa = "soa2"],
     [IntP({}, <<>>) EXCEPT !.vector = 2]}

MCSignatures ==
    {<<p>> : p \in MCParameters}
        \cup {<<p, q>> : p \in {IntP({}, <<>>), FloatP({"uniform"}, <<>>)},
                         q \in {IntP({"uniform"}, <<>>), FloatP({}, <<>>), IntP({}, <<Ptr({"uniform"})>>)}}

UInt32 == Atomic("int32", "uniform")
VInt32 == Atomic("int32", "varying")

Function(s, r, f) == [params |-> s, ret |-> r, flags |-> f]

Flags == {{"unmasked"}, {"export"}, {"task"}, {"export", "task"}}
MCDeclarations ==
    {Function(s, Void, {}) : s \in MCSignatures}
        \cup {Function(<<p>>, Void, f) : p \in {IntP({}, <<Ref>>), Plain(StructType("P"), {"uniform"}, <<>>)}, f \in Flags}
        \cup {Function(<<IntP({}, <<>>)>>, VInt32, f) : f \in Flags}

MCTemplateSets ==
    {{}, {<<Plain(T, {}, <<>>)>>, <<Plain(T, {}, <<Ptr({"uniform"})>>)>>, <<Plain(T, {"const"}, <<Ref>>)>>,
     <<Plain(T, {"uniform"}, <<>>), Plain(T, {}, <<>>)>>}}

Arg(t) == [type |-> t, null |-> FALSE, constant |-> FALSE]

MCArguments ==
    {Arg(UInt32), Arg(VInt32), Arg(ReferenceTo(VInt32)), Arg(ReferenceTo(WithConst(UInt32, TRUE))),
     Arg(Atomic("float", "varying")), Arg(Atomic("uint8", "uniform")), Arg(Atomic("bool", "varying")),
     [type |-> WithConst(UInt32, TRUE), null |-> TRUE, constant |-> TRUE],
     Arg(PointerTo(UInt32, "varying", FALSE, "none")), Arg(PointerTo(WithConst(UInt32, TRUE), "uniform", FALSE, "none")),
     Arg(ArrayOf(UInt32, 2)), Arg(ArrayOf(VInt32, 2)), Arg(VectorOf(VInt32, 2)),
     Arg(ReferenceTo(PointerTo(UInt32, "uniform", FALSE, "none"))),
     Arg([kind |-> "struct", name |-> "P", var |-> "varying", const |-> FALSE]),
     Arg([kind |-> "enum", name |-> "E", var |-> "varying", const |-> FALSE])}

MCCalls ==
    {<<a>> : a \in MCArguments}
        \cup {<<a, b>> : a \in {Arg(UInt32), Arg(VInt32)},
                         b \in {c \in MCArguments : Target(c.type).kind \in {"atomic", "pointer"}}}

MCGlobalTypes == {[name |-> "int", const |-> TRUE], [name |-> "float", const |-> FALSE]}

Init == OverloadInit /\ TemplateInit /\ SymbolsInit /\ ExprInit /\ DeclInit

OverloadsAtRest == functions = <<>> /\ ~errors
TemplatesAtRest == ops = 0
SymbolsAtRest == maps = <<Empty>> /\ ~symbolErrors /\ functionNames = {}
ExpressionsAtRest == nodes = 0 /\ form = Arithmetic
DeclarationsAtRest == ~declared.done

OverloadStep ==
    /\ TemplatesAtRest /\ SymbolsAtRest /\ ExpressionsAtRest /\ DeclarationsAtRest /\ OverloadNext
    /\ UNCHANGED <<templateVars, symbolVars, exprVars, declared>>
TemplatesStep ==
    /\ OverloadsAtRest /\ SymbolsAtRest /\ ExpressionsAtRest /\ DeclarationsAtRest /\ TemplateNext
    /\ UNCHANGED <<overloadVars, symbolVars, exprVars, declared>>
SymbolsStep ==
    /\ OverloadsAtRest /\ TemplatesAtRest /\ ExpressionsAtRest /\ DeclarationsAtRest /\ SymbolsNext
    /\ UNCHANGED <<overloadVars, templateVars, exprVars, declared>>
ExpressionStep ==
    /\ OverloadsAtRest /\ TemplatesAtRest /\ SymbolsAtRest /\ DeclarationsAtRest /\ ExprNext
    /\ UNCHANGED <<overloadVars, templateVars, symbolVars, declared>>
DeclarationStep ==
    /\ OverloadsAtRest /\ TemplatesAtRest /\ SymbolsAtRest /\ ExpressionsAtRest /\ DeclNext
    /\ UNCHANGED <<overloadVars, templateVars, symbolVars, exprVars>>

Next == OverloadStep \/ TemplatesStep \/ SymbolsStep \/ ExpressionStep \/ DeclarationStep

vars == <<overloadVars, templateVars, symbolVars, exprVars, declared>>
Spec == Init /\ [][Next]_vars

\* Expressions are not built further once type checking rejects an operand,
\* which is reported whatever it is used in, or when the operands are too many
\* for the nodes that are left.
Worthwhile ==
    stack # <<>> /\ ~ran.done =>
        /\ Len(stack) - 1 <= (form.nodes - nodes) * (IF form.select THEN 2 ELSE 1)
        /\ ~Failed(TypeCheck(Last(stack)))

\* The variables of the components keep their types, no declared type leaves the
\* variability of its data open.
TypesOK == OverloadTypeOK /\ DeclaredTypesBound /\ TemplateTypeOK /\ SymbolsTypeOK /\ ExprTypeOK

\* The code of an expression computes in the lanes that are on what the
\* expression means, before and after Optimize, and changes nothing else; the
\* variables of a declaration get the values that their initialisers mean,
\* whether the compiler finds them constant or evaluates them.
CodeMeansSource == [][ExpressionsSound /\ DeclarationsSound]_vars
=============================================================================
