-------------------------- MODULE ExpressionMeaning --------------------------
(***************************************************************************)
(* What a checked expression means, stated for one program instance at a   *)
(* time: every instance that is on evaluates every operand once, && || and *)
(* ?: evaluate an operand only in the instances that need it, and a store  *)
(* changes memory for the instances that are on and for no other.          *)
(*                                                                         *)
(* The meaning of an expression in the lanes L is its value in each of     *)
(* them, as the sequence of its basic elements, and what memory and the    *)
(* list of calls become.  A pointer to varying data has the same value in  *)
(* every lane; the lane chooses its element when the pointer is followed.  *)
(* undef is set where the language gives no meaning: a branch on an        *)
(* undefined value, a pointer that leads nowhere.  Operands are evaluated  *)
(* in the order of the code.                                               *)
(***************************************************************************)
EXTENDS ExpressionCode

Meaning(v, m) == [v |-> v, m |-> m]
Undefined(m) == Meaning(<<>>, [m EXCEPT !.undef = TRUE])
Then(r, F(_, _)) == IF r.m.undef THEN r ELSE F(r.v, r.m)

\* The cell of the k-th basic element of a t at p, in lane l.
CellOf(t, p, k, l) ==
    LET b == Basics(t)[k]
    IN IF IsSOA(b) THEN p.a + BasicOffset(t, k) + p.off
       ELSE p + BasicOffset(t, k) + (IF IsVarying(b) THEN l ELSE 0)
\* SOA data has no value as a whole: it is reached slot by slot.
Reaches(pt, p, m, l) ==
    /\ p # Undef /\ (IsSOA(pt.base) => IsSlice(pt))
    /\ \A k \in DOMAIN Basics(pt.base) :
        LET c == CellOf(pt.base, p, k, l) IN c \in DOMAIN m.mem /\ m.mem[c] # Gap

\* What lies behind the pointers ps of type pt.
ReadPlace(pt, ps, m) ==
    IF \E l \in DOMAIN ps : ~Reaches(pt, ps[l], m, l) THEN Undefined(m)
    ELSE Meaning([l \in DOMAIN ps |-> [k \in DOMAIN Basics(pt.base) |-> m.mem[CellOf(pt.base, ps[l], k, l)]]], m)

\* Where several lanes write a cell, the last one wins.
WritePlace(pt, ps, vs, m) ==
    LET t == pt.base
        Hit(c) == {w \in (DOMAIN ps) \X (DOMAIN Basics(t)) : CellOf(t, ps[w[1]], w[2], w[1]) = c}
        Winner(c) == CHOOSE w \in Hit(c) : \A x \in Hit(c) : x[1] <= w[1]
    IN IF \E l \in DOMAIN ps : ~Reaches(pt, ps[l], m, l) THEN Undefined(m)
       ELSE Meaning(vs, [m EXCEPT !.mem = [c \in DOMAIN @ |-> IF Hit(c) = {} THEN @[c] ELSE vs[Winner(c)[1]][Winner(c)[2]]]])

\* The same scalar operation in every lane and for every element; a scalar
\* operand goes with every element of the other.
PerLane(vs, F(_)) == [l \in DOMAIN vs |-> [k \in DOMAIN vs[l] |-> F(vs[l][k])]]
PerLane2(vs, ws, F(_, _)) == [l \in DOMAIN vs |-> [k \in DOMAIN vs[l] |-> F(vs[l][k], ws[l][k])]]

\* The i-th element after a pointer p of type pt; SOA slots are counted one by
\* one.
Following(pt, p, i) ==
    LET elt == pt.base
    IN CASE Undef \in {p, i} -> Undef
      [] IsSlice(pt) -> LET n == SOAWidth(elt)
                           slot == p.off + i
                       IN [a |-> p.a + (slot \div n) * Cells(elt), off |-> slot % n]
      [] OTHER -> p + i * Cells(elt)
\* Whether an index denotes an element of an array or vector.
InBounds(t, i) == i # Undef /\ i >= 0 /\ i < t.count * (IF IsSOA(t) THEN SOAWidth(t) ELSE 1)
\* A pointer of type pt into SOA data counts slots from the first one.
Sliced(pt, p) == ToSlice(<<p>>, pt)[1]

True(vs) == {l \in DOMAIN vs : vs[l][1] = 1}
Decided(vs) == \A l \in DOMAIN vs : vs[l][1] # Undef
Merge(L, vs, ws) == [l \in L |-> IF l \in DOMAIN vs THEN vs[l] ELSE ws[l]]

RECURSIVE Means(_, _, _)
RECURSIVE Place(_, _, _)

\* The meaning in a set of lanes that may be empty.
MeansIn(e, m, L) == IF L = {} THEN Meaning(<<>>, m) ELSE Means(e, m, L)
MeansBoth(a, b, m, L, F(_, _, _)) == Then(Means(a, m, L), LAMBDA v, m1 : Then(Means(b, m1, L), LAMBDA w, m2 : F(v, w, m2)))

\* The type of the pointers that Place gives.
PlacePointer(e) == IF IsA(TypeOf(e), "ref") THEN UniformPointer(Target(TypeOf(e))) ELSE Regular(LValueTypeOf(e))
HasPlace(e) == e.k \notin {"const", "nullptr", "unary", "binary", "assign", "select", "ref", "addr"} /\ LValueTypeOf(e) # NullType

\* Values of variability and shape t from values of a smaller shape.
Shaped(from, to, vs) ==
    IF IsCollection(from) THEN vs ELSE [l \in DOMAIN vs |-> [k \in DOMAIN Basics(to) |-> vs[l][1]]]

MeansConverted(from, to, vs) ==
    LET Number(x) == IF IsSlice(from) /\ x # Undef THEN x.a + x.off ELSE x
    IN CASE IsA(to, "pointer") -> IF IsSlice(to) /\ ~IsSlice(from) THEN PerLane(vs, AsSlice) ELSE vs
         [] to.kind \in {"struct", "array", "ref"} -> vs
         [] OTHER -> PerLane(Shaped(from, to, vs), LAMBDA x :
                LET n == Number(x)
                IN CASE n = Undef -> Undef [] IsBool(to) -> Truth(n # 0) [] OTHER -> Wrap(BasicOf(to), n))

MeansPointerSub(t, x, y) ==
    CASE Undef \in {x, y} -> Undef
      [] IsSlice(t) -> Quotient(x.a - y.a, Cells(t.base)) * SOAWidth(t.base) + x.off - y.off
      [] OTHER -> Quotient(x - y, Cells(t.base))

MeansOperate(op, t, t1, nsw, vs, ws) ==
    CASE op \in Comparisons -> PerLane2(vs, ws, LAMBDA x, y : Compare(op, x, y))
      [] IsA(t, "pointer") /\ IsA(t1, "pointer") -> PerLane2(vs, ws, LAMBDA x, y : MeansPointerSub(t, x, y))
      [] IsA(t, "pointer") -> PerLane2(vs, ws, LAMBDA p, i :
            Following(t, p, IF op = "-" /\ i # Undef THEN -i ELSE i))
      [] OTHER -> PerLane2(vs, ws, LAMBDA x, y : Arith(op, BasicOf(t), nsw, x, y))

MeansIncDec(e, m, L) ==
    LET t == Target(TypeOf(e.e))
        delta == IF e.op \in {"++x", "x++"} THEN 1 ELSE -1
        New(vs) == PerLane(vs, LAMBDA x :
            IF IsA(t, "pointer") THEN Following(t, x, delta) ELSE Arith("+", BasicOf(t), IsSigned(t), x, delta))
        pt == PlacePointer(e.e)
    IN Then(Place(e.e, m, L), LAMBDA ps, m1 :
         Then(ReadPlace(pt, ps, m1), LAMBDA v, m2 :
           Then(WritePlace(pt, ps, New(v), m2), LAMBDA w, m3 :
             Meaning(IF e.op \in {"++x", "--x"} THEN w ELSE v, m3))))

\* The lanes where the left side leaves the result open evaluate the right side.
MeansLogical(e, m, L) ==
    LET open(v) == IF e.op = "&&" THEN True(v) ELSE L \ True(v)
    IN IF IsA(TypeOf(e.a), "vector") \/ IsA(TypeOf(e.b), "vector")
       THEN MeansBoth(e.a, e.b, m, L, LAMBDA v, w, m1 : Meaning(PerLane2(v, w, LAMBDA x, y : LogicalBit(e.op, x, y)), m1))
       ELSE Then(Means(e.a, m, L), LAMBDA v, m1 :
              IF ~Decided(v) THEN Undefined(m1)
              ELSE Then(MeansIn(e.b, m1, open(v)), LAMBDA w, m2 : Meaning(Merge(L, w, v), m2)))

MeansSelect(e, m, L) ==
    LET Pick(tv, v, w) == [l \in L |-> [k \in DOMAIN v[l] |-> IF tv[l][k] = 1 THEN v[l][k] ELSE w[l][k]]]
    IN Then(Means(e.test, m, L), LAMBDA tv, m1 :
         CASE IsA(TypeOf(e.test), "vector") -> MeansBoth(e.a, e.b, m1, L, LAMBDA v, w, m2 : Meaning(Pick(tv, v, w), m2))
           [] ~Decided(tv) -> Undefined(m1)
           [] OTHER -> Then(MeansIn(e.a, m1, True(tv)), LAMBDA v, m2 :
                         Then(MeansIn(e.b, m2, L \ True(tv)), LAMBDA w, m3 : Meaning(Merge(L, v, w), m3))))

MeansAssign(e, m, L) ==
    LET t == PlacePointer(e.a)
    IN Then(Place(e.a, m, L), LAMBDA ps, m1 :
         Then(Means(e.b, m1, L), LAMBDA w, m2 :
           IF e.op = "=" THEN WritePlace(t, ps, w, m2)
           ELSE Then(ReadPlace(t, ps, m2), LAMBDA v, m3 :
                  WritePlace(t, ps, MeansOperate(BinaryOpOf[e.op], TypeOf(e.a), TypeOf(e.b), IsSigned(TypeOf(e.a)), v, w), m3))))

RECURSIVE MeansArguments(_, _, _)
MeansArguments(args, m, L) ==
    IF args = <<>> THEN Meaning([l \in L |-> <<>>], m)
    ELSE Then(Means(Head(args), m, L), LAMBDA v, m1 :
           Then(MeansArguments(Tail(args), m1, L), LAMBDA vs, m2 : Meaning([l \in L |-> <<v[l]>> \o vs[l]], m2)))

MeansCall(e, m, L) ==
    Then(MeansArguments(e.args, m, L), LAMBDA vs, m1 :
        LET m2 == [m1 EXCEPT !.calls = Append(@, [f |-> e.f.name, args |-> vs])]
            r == FunctionOf(TypeOf(e.f)).ret
        IN Meaning([l \in L |-> [k \in DOMAIN Basics(r) |-> IF IsA(r, "ref") THEN Symbols[e.f.name].addr ELSE Len(m2.calls)]], m2))

\* An element of a value that is not in memory.
ElementOf(t, v, i) ==
    LET n == Len(Basics(CollectionElements(t)[i]))
        before == FoldLeft(LAMBDA c, x : c + Len(Basics(x)), 0, SubSeq(CollectionElements(t), 1, i - 1))
    IN SubSeq(v, before + 1, before + n)

MeansElement(e, m, L) ==
    LET t == TypeOf(e.a)
    IN Then(Means(e.a, m, L), LAMBDA v, m1 :
         Then(Means(e.b, m1, L), LAMBDA i, m2 :
           IF \E l \in L : ~InBounds(t, i[l][1]) THEN Undefined(m2)
           ELSE Meaning([l \in L |-> ElementOf(t, v[l], i[l][1] + 1)], m2)))

\* Members of what is in memory, and elements of it in any order.
MeansMember(e, m, L) ==
    LET whole == IF IsA(TypeOf(e.e), "pointer") THEN TypeOf(e.e).base ELSE Target(TypeOf(e.e))
        numbers == IF e.k = "member" THEN <<ElementNumber(e)>> ELSE [i \in DOMAIN e.field |-> e.field[i] + 1]
        Parts(v) == FlattenSeq([i \in DOMAIN numbers |-> ElementOf(whole, v, numbers[i])])
        base == CASE e.arrow -> Then(Means(e.e, m, L), LAMBDA p, m1 : ReadPlace(TypeOf(e.e), [l \in L |-> p[l][1]], m1))
                  [] OTHER -> Means(e.e, m, L)
    IN Then(base, LAMBDA v, m1 : Meaning([l \in L |-> Parts(v[l])], m1))

\* A reference to a temporary puts it into memory.
MeansReference(e, m, L) ==
    LET t == TypeOf(e.e)
    IN IF HasPlace(e.e) THEN Then(Place(e.e, m, L), LAMBDA ps, m1 : Meaning([l \in L |-> <<ps[l]>>], m1))
       ELSE Then(Means(e.e, m, L), LAMBDA v, m1 :
              LET a == Len(m1.mem) + 1
                  m2 == [m1 EXCEPT !.mem = @ \o Junk(t)]
              IN Then(WritePlace(UniformPointer(t), [l \in L |-> a], v, m2), LAMBDA w, m3 : Meaning([l \in L |-> <<a>>], m3)))

MeansUnary(e, m, L) ==
    LET b == BasicOf(TypeOf(e.e))
        F(x) == CASE x = Undef -> Undef
                  [] e.op = "-" -> Arith("-", b, IsSigned(TypeOf(e.e)), 0, x)
                  [] e.op = "!" -> 1 - x
                  [] e.op = "~" -> Wrap(b, -1 - x)
    IN IF e.op \in IncDec THEN MeansIncDec(e, m, L)
       ELSE Then(Means(e.e, m, L), LAMBDA v, m1 : Meaning(PerLane(v, F), m1))

MeansBinary(e, m, L) ==
    IF e.op \in LogicalOps THEN MeansLogical(e, m, L)
    ELSE MeansBoth(e.a, e.b, m, L, LAMBDA v, w, m1 :
           Meaning(IF e.op = "," THEN w ELSE MeansOperate(e.op, TypeOf(e.a), TypeOf(e.b), IsSigned(TypeOf(e)), v, w), m1))

\* What is found at the place of an expression.
MeansPlace(e, m, L) == Then(Place(e, m, L), LAMBDA ps, m1 : ReadPlace(PlacePointer(e), ps, m1))

Means(e, m, L) ==
    CASE e.k = "sym" -> ReadPlace(UniformPointer(IF IsA(e.type, "ref") THEN UniformPointer(Void) ELSE e.type), [l \in L |-> Symbols[e.name].addr], m)
      [] e.k = "const" ->
            Meaning([l \in L |-> [k \in DOMAIN Basics(e.type) |->
                       e.val[IF Len(e.val) = 1 THEN 1 ELSE IF IsA(e.type, "vector") THEN k ELSE l + 1]]], m)
      [] e.k = "nullptr" -> Meaning([l \in L |-> <<0>>], m)
      [] e.k = "unary" -> MeansUnary(e, m, L)
      [] e.k = "binary" -> MeansBinary(e, m, L)
      [] e.k = "assign" -> MeansAssign(e, m, L)
      [] e.k = "select" -> MeansSelect(e, m, L)
      [] e.k = "index" -> IF HasPlace(e.a) \/ IsA(TypeOf(e.a), "pointer") THEN MeansPlace(e, m, L) ELSE MeansElement(e, m, L)
      [] e.k \in {"member", "swizzle"} -> IF HasPlace(e) THEN MeansPlace(e, m, L) ELSE MeansMember(e, m, L)
      [] e.k = "cast" -> Then(IF IsA(TypeOf(e.e), "array") /\ IsA(e.to, "pointer")
                              THEN Then(Place(e.e, m, L), LAMBDA ps, m1 : Meaning([l \in L |-> <<ps[l]>>], m1))
                              ELSE Means(e.e, m, L), LAMBDA v, m1 : Meaning(MeansConverted(TypeOf(e.e), e.to, v), m1))
      [] e.k \in {"deref", "refderef"} -> MeansPlace(e, m, L)
      [] e.k = "ref" -> MeansReference(e, m, L)
      [] e.k = "addr" -> IF IsA(TypeOf(e.e), "ref") THEN Means(e.e, m, L)
                         ELSE Then(Place(e.e, m, L), LAMBDA ps, m1 : Meaning([l \in L |-> <<ps[l]>>], m1))
      [] e.k = "call" -> MeansCall(e, m, L)

\* The address of what an expression denotes, in each lane.
Place(e, m, L) ==
    LET AsPlace(r) == Then(r, LAMBDA v, m1 : Meaning([l \in L |-> v[l][1]], m1))
        t == TypeOf(e.a)
        base == IF IsA(t, "pointer") THEN t ELSE PlacePointer(e.a)
        within == Regular(BaseLValueType(e))
    IN CASE IsA(TypeOf(e), "ref") -> AsPlace(Means(e, m, L))
         [] e.k = "sym" -> Meaning([l \in L |-> Symbols[e.name].addr], m)
         [] e.k = "index" ->
                Then(Means(e.b, m, L), LAMBDA i, m1 :
                  Then(IF IsA(t, "pointer") THEN AsPlace(Means(e.a, m1, L)) ELSE Place(e.a, m1, L), LAMBDA ps, m2 :
                    IF IsSequential(Target(t)) /\ \E l \in L : ~InBounds(Target(t), i[l][1]) THEN Undefined(m2)
                    ELSE Meaning([l \in L |-> Following(PlacePointer(e), Sliced(base, ps[l]), i[l][1])], m2)))
         [] e.k \in {"member", "swizzle"} ->
                Then(IF e.arrow THEN AsPlace(Means(e.e, m, L)) ELSE Place(e.e, m, L), LAMBDA ps, m1 :
                  Meaning([l \in L |-> Shift(within, ps[l], ElementOffset(within.base, ElementNumber(e)))], m1))
         [] e.k \in {"deref", "refderef"} -> AsPlace(Means(e.e, m, L))
         [] OTHER -> AsPlace(Means(e, m, L))
=============================================================================
