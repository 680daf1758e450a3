----------------------------- MODULE Expressions -----------------------------
(***************************************************************************)
(* An expression is built from its leaves up, as the parser does, then     *)
(* checked and run by a gang: the code for it, next to what the expression *)
(* means and to the code for it after Optimize.                            *)
(***************************************************************************)
EXTENDS ExpressionMeaning

-----------------------------------------------------------------------------
(***************************************************************************)
(* TypeCheck of an expression (WalkAST in ast.cpp): the operands first.     *)
(***************************************************************************)

\* What cannot be assigned to is reported with the code (AssignExpr::GetValue).
CheckNode(e, o) ==
    CASE e.k = "unary" -> CheckUnary(e.op, o[1])
      [] e.k = "binary" -> CheckBinary(e.op, o[1], o[2])
      [] e.k = "assign" -> IF LValueTypeOf(o[1]) = NullType THEN NullExpr ELSE CheckAssign(e.op, o[1], o[2])
      [] e.k = "select" -> CheckSelect(o[1], o[2], o[3])
      [] e.k = "index" -> CheckIndex(o[1], o[2])
      [] e.k = "member" -> CheckMember(o[1], e.field, e.arrow)
      [] e.k = "cast" -> CheckCast(e.to, o[1])
      [] e.k = "deref" -> CheckDeref(Dereferenced(o[1]))
      [] e.k = "addr" -> CheckAddressOf(o[1])
      [] e.k = "call" -> CheckCall(o[1], Tail(o))
      [] OTHER -> e

RECURSIVE TypeCheck(_)
TypeCheck(e) ==
    LET c == Children(e)
        o == [i \in DOMAIN c |-> TypeCheck(c[i])]
    IN CASE \E i \in DOMAIN o : o[i] = Crash -> Crash
         [] \E i \in DOMAIN o : o[i] = NullExpr -> NullExpr
         [] OTHER -> CheckNode(e, o)

-----------------------------------------------------------------------------
(***************************************************************************)
(* Constant folding of checked expressions (Optimize in expr.cpp), from    *)
(* the leaves up.  A constant is of atomic or enum type and holds one      *)
(* value, or one for each lane.                                            *)
(***************************************************************************)

\* lConvert: GetValues of a constant as another type.
GetValues(e, b, forceVarying) ==
    LET v == [i \in DOMAIN e.val |-> ConvertScalar(BasicOf(e.type), b, e.val[i])]
    IN IF forceVarying /\ Len(v) = 1 THEN [i \in 1..Width |-> v[1]] ELSE v

\* The C++ operators on a type of the constant's width.  Where C++ leaves the
\* result open, so does the language.
FoldScalar(op, b, x, y) ==
    CASE Undef \in {x, y} -> Undef
      [] op = "+" -> Wrap(b, x + y)
      [] op = "-" -> Wrap(b, x - y)
      [] op = "*" -> Wrap(b, x * y)
      [] op = "/" -> Wrap(b, Quotient(x, y))
      [] op = "%" -> Wrap(b, x - y * Quotient(x, y))
      [] op = "<<" -> IF y \in 0..15 THEN Wrap(b, x * 2 ^ y) ELSE Undef
      [] op = ">>" -> IF y \in 0..15 THEN x \div 2 ^ y ELSE Undef
      [] op \in {"&", "|", "^"} -> Arith(op, b, FALSE, x, y)
      [] op \in Comparisons -> Compare(op, x, y)
      [] op \in LogicalOps -> LogicalBit(op, Truth(x # 0), Truth(y # 0))

\* UnaryExpr::Optimize.  The type lists know no vectors, and no varying uint16
\* to negate.
FoldUnary(e) ==
    LET t == e.e.type
        b == BasicOf(t)
        F(x) == CASE x = Undef -> Undef
                  [] e.op = "-" -> Wrap(b, -x)
                  [] e.op = "~" -> Wrap(b, -1 - x)
                  [] e.op = "!" -> 1 - x
    IN CASE ~IsConstant(e.e) \/ e.op \in IncDec -> e
         [] e.op = "-" /\ EqualIgnoringConst(t, Atomic("uint16", "varying")) -> Crash
         [] OTHER -> Const(t, [i \in DOMAIN e.e.val |-> F(e.e.val[i])])

\* lConstFoldBinaryLogicalOp makes a bool, the other folds keep the type.
FoldedType(op, t) == IF op \in Comparisons \cup LogicalOps THEN Bool(Var(t)) ELSE t

\* Bool constants are folded under the logical and bit operators alone, and
\* nothing is divided by zero.
Folds(op, b, v, w) ==
    /\ op # ","
    /\ b \in BoolTypes => op \in Comparisons \cup LogicalOps \cup {"&", "|", "^"}
    /\ op \in {"/", "%"} => \A i \in DOMAIN w : w[i] # 0

FoldBinary(e) ==
    LET t == e.a.type
        b == BasicOf(t)
        v == e.a.val
        w == e.b.val
    IN CASE ~IsConstant(e.a) \/ ~IsConstant(e.b) -> e
         [] ~EqualIgnoringConst(t, e.b.type) -> Crash
         [] ~Folds(e.op, b, v, w) -> e
         [] OTHER -> Const(FoldedType(e.op, t), [i \in DOMAIN v |-> FoldScalar(e.op, b, v[i], w[i])])

\* A constant test that is the same in every lane chooses a side; constant
\* sides are chosen from lane by lane.
FoldSelect(e) ==
    LET bv == e.test.val
    IN CASE ~IsConstant(e.test) -> e
         [] \A i \in DOMAIN bv : bv[i] = bv[1] -> IF bv[1] = 1 THEN e.a ELSE e.b
         [] ~IsConstant(e.a) \/ ~IsConstant(e.b) -> e
         [] ~Equal(e.a.type, e.b.type) -> Crash
         [] OTHER -> Const(WithConst(e.a.type, FALSE), [i \in DOMAIN bv |-> IF bv[i] = 1 THEN e.a.val[i] ELSE e.b.val[i]])

FoldCast(e) ==
    IF IsConstant(e.e) /\ IsScalar(e.to) THEN Const(e.to, GetValues(e.e, BasicOf(e.to), IsVarying(e.to))) ELSE e

FoldNode(e) ==
    CASE e.k = "unary" -> FoldUnary(e)
      [] e.k = "binary" -> FoldBinary(e)
      [] e.k = "select" -> FoldSelect(e)
      [] e.k = "cast" -> FoldCast(e)
      [] OTHER -> e

\* A node with other operands.
WithChildren(e, o) ==
    CASE e.k \in {"unary", "member", "swizzle", "cast", "deref", "refderef", "ref", "addr"} -> [e EXCEPT !.e = o[1]]
      [] e.k \in {"binary", "assign", "index"} -> [e EXCEPT !.a = o[1], !.b = o[2]]
      [] e.k = "select" -> [e EXCEPT !.test = o[1], !.a = o[2], !.b = o[3]]
      [] e.k = "call" -> [e EXCEPT !.f = o[1], !.args = Tail(o)]
      [] OTHER -> e

\* lOptimizeNode after the operands.
RECURSIVE Optimize(_)
Optimize(e) ==
    LET c == Children(e)
        o == [i \in DOMAIN c |-> Optimize(c[i])]
    IN IF \E i \in DOMAIN o : o[i] = Crash THEN Crash ELSE FoldNode(WithChildren(e, o))

-----------------------------------------------------------------------------
(***************************************************************************)
(* Building an expression, and choosing the lanes that it runs for         *)
(***************************************************************************)

CONSTANTS
    Forms,          \* families of expressions: leaves, operators, ..., and how many nodes they have
    Memory,         \* what is in memory when the expression runs
    Masks           \* the function's mask and the internal one, where the code may run

VARIABLES
    form,           \* the family of this expression
    stack,          \* operands that are not used yet, the last one on top
    nodes,          \* how many leaves and operators they have
    ran             \* the masks it runs under, once it is complete
exprVars == <<form, stack, nodes, ran>>

NotRun == [done |-> FALSE]

ExprInit == form \in Forms /\ stack = <<>> /\ nodes = 0 /\ ran = NotRun

Push(e) ==
    /\ ~ran.done /\ nodes < form.nodes
    /\ stack' = Append(stack, e)
    /\ nodes' = nodes + 1
    /\ UNCHANGED <<form, ran>>

Operand(i) == stack[Len(stack) + 1 - i]

\* n operands become the expression e.
Build(n, e) ==
    /\ stack' = Append(SubSeq(stack, 1, Len(stack) - n), e)
    /\ nodes' = nodes + 1
    /\ UNCHANGED <<form, ran>>
CanBuild(n) == ~ran.done /\ nodes < form.nodes /\ Len(stack) >= n

BuildUnary == CanBuild(1) /\ \E op \in form.unary : Build(1, Unary(op, Operand(1)))
BuildBinary == CanBuild(2) /\ \E op \in form.binary : Build(2, Binary(op, Operand(2), Operand(1)))
BuildAssign == CanBuild(2) /\ \E op \in form.assign : Build(2, Assign(op, Operand(2), Operand(1)))
BuildSelect == CanBuild(3) /\ form.select /\ Build(3, Select(Operand(3), Operand(2), Operand(1)))
BuildIndex == CanBuild(2) /\ form.index /\ Build(2, Index(Operand(2), Operand(1)))
BuildMember == CanBuild(1) /\ \E f \in form.fields, arrow \in BOOLEAN : Build(1, Member(Operand(1), f, arrow))
BuildCast == CanBuild(1) /\ \E t \in form.casts : Build(1, Cast(t, Operand(1)))
BuildDeref == CanBuild(1) /\ form.deref /\ Build(1, Deref(Operand(1)))
BuildAddressOf == CanBuild(1) /\ form.deref /\ Build(1, AddressOf(Operand(1)))
BuildCall == CanBuild(1) /\ \E f \in form.functions : Build(1, Call(f, <<Operand(1)>>))

\* The expression is complete and runs where the function has the mask fm and
\* the statement the mask im.
Run(fm, im) ==
    /\ ~ran.done /\ Len(stack) = 1
    /\ ran' = [done |-> TRUE, fm |-> fm, im |-> im]
    /\ UNCHANGED <<form, stack, nodes>>

\* The statement after it.
NextExpression ==
    /\ ran.done
    /\ stack' = <<>> /\ nodes' = 0 /\ ran' = NotRun
    /\ UNCHANGED form

ExprNext ==
    \/ \E e \in form.leaves : Push(e)
    \/ BuildUnary \/ BuildBinary \/ BuildAssign \/ BuildSelect \/ BuildIndex
    \/ BuildMember \/ BuildCast \/ BuildDeref \/ BuildAddressOf \/ BuildCall
    \/ \E k \in Masks : Run(k[1], k[2])
    \/ NextExpression

ExprSpec == ExprInit /\ [][ExprNext]_exprVars

-----------------------------------------------------------------------------
(***************************************************************************)
(* What runs                                                               *)
(***************************************************************************)

Start(fm, im) == [mem |-> Memory, im |-> im, fm |-> fm, calls |-> <<>>, bad |-> FALSE, err |-> FALSE]

\* The code of an expression for which Optimize failed an assertion.
CodeOf(e, s) == IF e = Crash THEN Stop(Bad(s)) ELSE Value(e, s)

\* The code of the checked expression e, run from s.
Coded(e, s) == [expr |-> e, start |-> s, lanes |-> s.fm \cap s.im, code |-> Value(e, s)]

\* With no lane on, only what is safe to run is run.  There is no code where the
\* check, or generating the code, reported an error.
Runs ==
    LET checked == {e \in {TypeCheck(stack[1])} : ~Failed(e) /\ (ran.fm \cap ran.im = {} => SafeToRunWithMaskAllOff(e))}
    IN IF ran.done THEN {r \in {Coded(e, Start(ran.fm, ran.im)) : e \in checked} : ~r.code.s.err} ELSE {}

\* The code after Optimize, and the meaning.
Optimized(r, o) == [folded |-> o, code |-> CodeOf(o, r.start)]
MeaningOf(r) == MeansIn(r.expr, [mem |-> Memory, calls |-> <<>>, undef |-> FALSE], r.lanes)

-----------------------------------------------------------------------------
(***************************************************************************)
(* Properties                                                              *)
(***************************************************************************)

RECURSIVE Parts(_)
Parts(e) == {e} \cup UNION {Parts(Children(e)[i]) : i \in DOMAIN Children(e)}

Holds(e, P(_)) == \E x \in Parts(e) : P(x)

IsStore(e) == e.k = "assign" \/ (e.k = "unary" /\ e.op \in IncDec)
StoredIn(e) == IF e.k = "assign" THEN e.a ELSE e.e
HasEffects(e) == \E x \in Parts(e) : IsStore(x) \/ x.k = "call"
\* A store that takes every lane to be on.
StoresEveryLane(e) ==
    \E x \in Parts(e) : IsStore(x) /\ BaseSymbol(StoredIn(x)) # NoSymbol /\ StoreMask(BaseSymbol(StoredIn(x)), Start({}, {})) = Lanes
LanePointer(t) == IsA(t, "pointer") /\ IsVarying(t) /\ IsVarying(t.base) /\ IsBasic(t.base)
IsLogical(e) == e.k = "binary" /\ e.op \in LogicalOps

\* Expressions for which the code is known not to keep to the meaning:
\* the right side of && or || has effects and is not skipped;
EffectsNotSkipped(e) == Holds(e, LAMBDA x : IsLogical(x) /\ ~ShortCircuits(x.b) /\ HasEffects(x.b))
\* an operand that some lanes skip stores to a variable declared here;
UnmaskedOperand(e) ==
    Holds(e, LAMBDA x : (IsLogical(x) /\ StoresEveryLane(x.b))
                        \/ (x.k = "select" /\ (StoresEveryLane(x.a) \/ StoresEveryLane(x.b))))
\* an operand of ++ and --, or the index of a temporary, is evaluated twice;
EvaluatedTwice(e) ==
    Holds(e, LAMBDA x : (x.k = "unary" /\ x.op \in IncDec /\ HasEffects(x.e))
                        \/ (x.k = "index" /\ LValueTypeOf(x.a) = NullType /\ HasEffects(x.b)))
\* varying pointers to varying data get the offset of their lane once too often
\* or not at all;
LaneOffsetWrong(e) ==
    Holds(e, LAMBDA x : (x.k = "addr" /\ LanePointer(TypeOf(x)))
                        \/ (IsStore(x) /\ StoredIn(x).k = "deref" /\ LanePointer(TypeOf(StoredIn(x).e))))
\* elements of a vector behind a varying pointer and bound members of a struct
\* there have a uniform type, the target of a slice pointer that of the SOA data;
TypeWrong(e) ==
    Holds(e, LAMBDA x : (x.k = "swizzle" /\ Len(x.field) > 1 /\ IsA(BaseLValueType(x), "pointer")
                         /\ IsVarying(BaseLValueType(x)) /\ IsUniform(TypeOf(x)))
                        \/ (x.k \in {"index", "deref"} /\ IsA(TypeOf(x), "struct") /\ IsVarying(LValueTypeOf(x))
                              /\ \E i \in DOMAIN Basics(TypeOf(x)) : IsUniform(Basics(TypeOf(x))[i]))
                        \/ (x.k = "deref" /\ IsSlice(TypeOf(x.e)) /\ IsUniform(TypeOf(x.e))))
\* the check accepts what generating code does not: && of a uniform and a varying
\* vector, an array of SOA data as an operand of ?:, the address of a value.
NoCode(e) ==
    Holds(e, LAMBDA x : (IsLogical(x) /\ IsA(TypeOf(x.a), "vector") /\ Var(TypeOf(x.a)) # Var(TypeOf(x.b)))
                        \/ (x.k = "cast" /\ IsA(TypeOf(x.e), "array") /\ IsSOA(TypeOf(x.e)))
                        \/ (x.k = "addr" /\ ~IsA(TypeOf(x.e), "ref") /\ ~HasPlace(x.e)))
Known(e) ==
    EffectsNotSkipped(e) \/ UnmaskedOperand(e) \/ EvaluatedTwice(e) \/ LaneOffsetWrong(e) \/ TypeWrong(e) \/ NoCode(e)

\* A value against its meaning, which may leave it open.
Fits(x, y) == x = Undef \/ x = y
ValuesAgree(r, t, c, m) ==
    \A l \in r.lanes : LET v == Lane(t, c.v, l) IN \A k \in DOMAIN m.v[l] : Fits(m.v[l][k], v[k])
\* The cells of variables of this function that no program instance uses again:
\* those of the lanes that are off in the function, or off here and the variable
\* was declared here.
DeadLanes(r, d) == IF d.depth = Depth THEN Lanes \ r.lanes ELSE Lanes \ r.start.fm
DeadCells(r) ==
    UNION {LET d == Symbols[n]
               c == Layout(d.type)
           IN {d.addr + j - 1 : j \in {i \in DOMAIN c : IsVarying(Basics(d.type)[c[i].el]) /\ c[i].sub \in DeadLanes(r, d)}}
             : n \in {i \in DOMAIN Symbols : Symbols[i].storage = "local"}}
MemoryAgrees(r, c, mem) == \A a \in {i \in DOMAIN Memory : ~Fits(mem[i], c.s.mem[i])} : a \in DeadCells(r)

\* What c, the code of a value of type t, did in the run r against the meaning m.
Agrees(r, t, c, m) ==
    ~m.m.undef => ~c.s.bad /\ ValuesAgree(r, t, c, m) /\ MemoryAgrees(r, c, m.m.mem) /\ c.s.calls = m.m.calls

\* The type invariant.
ExprTypeOK ==
    /\ form \in Forms /\ nodes \in 0..form.nodes /\ Len(stack) <= nodes
    /\ ran.done => Len(stack) = 1 /\ <<ran.fm, ran.im>> \in Masks

\* An expression that type checking accepted has a type, and its code leaves a
\* value of that type.
TypeKept(r) ==
    /\ TypeOf(r.expr) # NullType /\ ~IsA(TypeOf(r.expr), "crash")
    /\ Stopped(r.code.s) \/ Len(r.code.v) = Cells(TypeOf(r.expr))

\* Optimize keeps the type and the meaning m of an expression.
OptimizeKeepsMeaning(r, o, m) ==
    /\ o.folded # Crash /\ EqualIgnoringConst(TypeOf(o.folded), TypeOf(r.expr))
    /\ Agrees(r, TypeOf(o.folded), o.code, m)

\* The code of an expression, as written and after Optimize, computes in every
\* lane that is on what the expression means there; it changes memory and calls
\* functions for these lanes and for no other that is used again.
ExpressionsSound ==
    \A r \in {x \in Runs : ~Known(x.expr)} :
        /\ TypeKept(r)
        /\ r.lanes # {} => \A m \in {MeaningOf(r)}, o \in {Optimized(r, Optimize(r.expr))} :
                               Agrees(r, TypeOf(r.expr), r.code, m) /\ OptimizeKeepsMeaning(r, o, m)

\* Code that SafeToRunWithMaskAllOff accepts does nothing when it runs with the
\* mask all off.
AllOffSound ==
    ran.done /\ ran.fm \cap ran.im = {} => \A r \in {x \in Runs : ~Known(x.expr)} :
        ~r.code.s.bad /\ MemoryAgrees(r, r.code, Memory) /\ \A i \in DOMAIN r.code.s.calls : r.code.s.calls[i].args = <<>>
SafeWhenAllOff == [][AllOffSound]_exprVars
=============================================================================
