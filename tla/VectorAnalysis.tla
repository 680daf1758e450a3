--------------------------- MODULE VectorAnalysis ---------------------------
(***************************************************************************)
(* The analyses of llvmutil.cpp that the memory passes rest on: whether    *)
(* two values are the same, whether all lanes of a vector are equal,       *)
(* whether they step by a constant, and what a mask's lanes are.  phis     *)
(* maps every phi of the loop to its two incoming values; a set of phis    *)
(* already under examination stands for the vector seenPhis.               *)
(***************************************************************************)
EXTENDS Integers, Sequences, FiniteSets, Bitwise

-----------------------------------------------------------------------------
(***************************************************************************)
(* The vectors of integers the optimisation passes reason about, as LLVM   *)
(* gives them meaning: constants, insertelement chains, broadcasts,        *)
(* arithmetic, casts, loads, addresses of globals, aggregates, and the     *)
(* phis of one loop.  A value is a record with its kind k and its width w, *)
(* "i32" or "i64", which are taken small (NarrowBits, WideBits).  An       *)
(* environment holds what the loop has computed: the phis, the uniform     *)
(* argument and the loaded vector.                                         *)
(***************************************************************************)

CONSTANTS VectorWidth, NarrowBits, WideBits

ASSUME VectorAssumption ==
    /\ VectorWidth \in Nat \ {0}
    /\ NarrowBits \in Nat \ {0} /\ WideBits > NarrowBits

Elements == 1 .. VectorWidth

\* An element of a chain that no insertelement sets (poison).
NoValue == [k |-> "none"]

Bits(w) == IF w = "i32" THEN NarrowBits ELSE WideBits
Wrap(n, w) == n % 2^Bits(w)
Signed(n, w) == IF n >= 2^(Bits(w) - 1) THEN n - 2^Bits(w) ELSE n

\* Division of C: towards zero, with the remainder that belongs to it.
Quot(a, b) == IF a >= 0 THEN a \div b ELSE -((-a) \div b)
Rem(a, b) == a - b * Quot(a, b)

Number(n, w) == [k |-> "int", n |-> n, w |-> w]
Const(v, w) == [k |-> "const", v |-> v, w |-> w]
Splat(n, w) == Const([l \in Elements |-> n], w)
Zero(w) == Splat(0, w)
Ramp(n, s, w) == Const([l \in Elements |-> n + s * (l - 1)], w)
Arg(w) == [k |-> "arg", w |-> w]
Load(w) == [k |-> "load", w |-> w]
Phi(id, w) == [k |-> "phi", id |-> id, w |-> w]
Bin(op, a, b) == [k |-> "bin", op |-> op, a |-> a, b |-> b, w |-> a.w]
Cast(op, a, w) == [k |-> "cast", op |-> op, a |-> a, w |-> w]
Chain(s, w) == [k |-> "chain", s |-> s, w |-> w]
Bcast(a) == [k |-> "bcast", a |-> a, w |-> a.w]

\* insertelement of s in lane 0, then a shuffle that copies lane 0.
FirstOnly(s) == [l \in Elements |-> IF l = 1 THEN s ELSE NoValue]
Smear(s) == Bcast(Chain(FirstOnly(s), s.w))

\* One lane of an operation, on values of width w.
Apply(op, x, y, w) ==
    Wrap(CASE op = "add"  -> x + y
           [] op = "sub"  -> x - y
           [] op = "mul"  -> x * y
           [] op = "sdiv" -> Quot(Signed(x, w), Signed(y, w))
           [] op = "shl"  -> x * 2^y
           [] op = "lshr" -> x \div 2^y
           [] op = "ashr" -> Signed(x, w) \div 2^y
           [] op = "and"  -> x & y
           [] op = "or"   -> x | y, w)

Convert(op, x, from, to) ==
    Wrap(IF op = "sext" THEN Signed(x, from) ELSE x, to)

\* The lanes of a value (a scalar has the same one everywhere).
RECURSIVE Eval(_, _)
Eval(e, env) ==
    CASE e.k = "none"  -> [l \in Elements |-> 0]
      [] e.k = "int"   -> [l \in Elements |-> Wrap(e.n, e.w)]
      [] e.k = "const" -> [l \in Elements |-> Wrap(e.v[l], e.w)]
      [] e.k = "arg"   -> [l \in Elements |-> Wrap(env.arg, e.w)]
      [] e.k = "load"  -> [l \in Elements |-> Wrap(env.load[l], e.w)]
      [] e.k = "ptr"   -> [l \in Elements |-> Wrap(env.ptr[e.p], e.w)]
      [] e.k = "globals" -> [l \in Elements |-> Wrap(env.ptr[e.g[l].p] + e.g[l].d, e.w)]
      [] e.k = "extract" ->
           LET at == {n \in DOMAIN e.inserts : e.inserts[n].index = e.index}
           IN Eval(e.inserts[CHOOSE n \in at : \A m \in at : n <= m].val, env)
      [] e.k = "phi"   -> env.phi[e.id]
      [] e.k = "chain" -> [l \in Elements |-> Eval(e.s[l], env)[1]]
      [] e.k = "bcast" -> LET x == Eval(e.a, env) IN [l \in Elements |-> x[1]]
      [] e.k = "lane"  -> LET x == Eval(e.a, env) IN [l \in Elements |-> x[e.l]]
      [] e.k = "cast"  -> LET x == Eval(e.a, env)
                          IN [l \in Elements |-> Convert(e.op, x[l], e.a.w, e.w)]
      [] e.k = "bin"   -> LET x == Eval(e.a, env)
                              y == Eval(e.b, env)
                          IN [l \in Elements |-> Apply(e.op, x[l], y[l], e.w)]

\* No operation of the value is poison: signed arithmetic on i32 is emitted
\* with nsw, an or with its disjoint flag has no common bits, and an unsigned
\* value that is extended did not wrap.
RECURSIVE Defined(_, _)
Defined(e, env) ==
    CASE e.k \in {"bcast", "lane"} -> Defined(e.a, env)
      [] e.k = "chain" -> \A l \in Elements : Defined(e.s[l], env)
      [] e.k = "cast"  -> Defined(e.a, env)
      [] e.k = "bin"   ->
            /\ Defined(e.a, env) /\ Defined(e.b, env)
            /\ LET x == Eval(e.a, env)
                   y == Eval(e.b, env)
                   z == Eval(e, env)
                   S(n) == Signed(n, e.w)
               IN \A l \in Elements :
                    CASE e.op = "or"  -> x[l] & y[l] = 0
                      [] e.w # "i32"  -> TRUE
                      [] e.op = "add" -> S(z[l]) = S(x[l]) + S(y[l])
                      [] e.op = "sub" -> S(z[l]) = S(x[l]) - S(y[l])
                      [] e.op = "mul" -> S(z[l]) = S(x[l]) * S(y[l])
                      [] e.op = "shl" -> S(z[l]) = S(x[l]) * 2^y[l]
                      [] OTHER -> TRUE
      [] OTHER -> TRUE

-----------------------------------------------------------------------------

Incoming(phis, e) == {phis[e.id].init, phis[e.id].next}

\* An or known to set no common bits counts as an add.
IsAdd(e) == e.k = "bin" /\ e.op \in {"add", "or"}

\* The same value in every execution, as far as the shape tells: the phis in
\* seen are pairs assumed equal while their incoming values are compared.
RECURSIVE lValuesAreEqual(_, _, _, _)
lValuesAreEqual(v0, v1, phis, seen) ==
    \/ v0 = v1
    \/ /\ v0.k = "phi" /\ v1.k = "phi"
       /\ \/ <<v0.id, v1.id>> \in seen
          \/ LET s == seen \cup {<<v0.id, v1.id>>}
             IN /\ lValuesAreEqual(phis[v0.id].init, phis[v1.id].init, phis, s)
                /\ lValuesAreEqual(phis[v0.id].next, phis[v1.id].next, phis, s)
    \/ /\ v0.k = "bin" /\ v1.k = "bin" /\ v0.op = v1.op
       /\ lValuesAreEqual(v0.a, v1.a, phis, seen)
       /\ lValuesAreEqual(v0.b, v1.b, phis, seen)
    \/ /\ v0.k = "cast" /\ v1.k = "cast" /\ v0.op = v1.op
       /\ lValuesAreEqual(v0.a, v1.a, phis, seen)

\* A constant vector of which only the first lane is defined.
lIsFirstElementConstVector(e) ==
    e.k = "chain" /\ e.s[1].k = "int" /\ \A l \in Elements \ {1} : e.s[l] = NoValue

\* The scalar that every lane of a chain or of a broadcast holds, NoValue if
\* that is not known.  undef: lanes of a chain may be left unset.  first: also
\* the sum of a one-lane chain and a constant, for the chain's element.
LLVMFlattenInsertChain(e, phis, undef, first) ==
    CASE e.k = "chain" ->
           LET set == {l \in Elements : e.s[l] # NoValue}
               last == CHOOSE l \in set : \A m \in set : m <= l
           IN IF /\ set # {} /\ (undef \/ set = Elements)
                 /\ \A l \in set : lValuesAreEqual(e.s[last], e.s[l], phis, {})
              THEN e.s[last] ELSE NoValue
      [] e.k = "bcast" ->
           LET op == e.a
               ie == CASE op.k = "chain" -> op
                       [] first /\ IsAdd(op) /\ lIsFirstElementConstVector(op.b) -> op.a
                       [] first /\ IsAdd(op) /\ ~lIsFirstElementConstVector(op.b) -> op.b
                       [] OTHER -> NoValue
           IN IF ie.k = "chain" /\ \A l \in Elements \ {1} : ie.s[l] = NoValue
              THEN ie.s[1] ELSE NoValue
      [] OTHER -> NoValue

\* The elements of a constant vector as int64: narrow ones without sign.
LLVMExtractVectorInts(e) ==
    [l \in Elements |-> IF e.w = "i64" THEN Signed(Wrap(e.v[l], e.w), e.w)
                                    ELSE Wrap(e.v[l], e.w)]

IsSplat(e) == e.k = "const" /\ \A l \in Elements : e.v[l] = e.v[1]

\* Whether the value, the same in all lanes, is a multiple of base.
RECURSIVE lIsExactMultiple(_, _, _, _)
lIsExactMultiple(e, base, phis, seen) ==
    CASE e.k = "int" -> base # 0 /\ Wrap(e.n, e.w) % base = 0
      [] e.k \in {"chain", "bcast"} ->
            LET s == LLVMFlattenInsertChain(e, phis, TRUE, FALSE)
            IN s # NoValue /\ lIsExactMultiple(s, base, phis, seen)
      [] e.k = "phi" -> \/ e.id \in seen
                        \/ \A v \in Incoming(phis, e) :
                              lIsExactMultiple(v, base, phis, seen \cup {e.id})
      [] IsAdd(e) -> /\ lIsExactMultiple(e.a, base, phis, seen)
                     /\ lIsExactMultiple(e.b, base, phis, seen)
      [] OTHER -> FALSE

\* v - 1 with every bit below its highest one set, plus one.
lRoundUpPow2(v) ==
    IF v <= 0 THEN 0 ELSE CHOOSE p \in {2^n : n \in 0 .. v} :
                             p >= v /\ (p = 1 \/ p \div 2 < v)

RECURSIVE lVectorValuesAllEqual(_, _, _)
RECURSIVE lAllDivBaseEqual(_, _, _, _)

\* All lanes give the same quotient by base, a power of two.
lAllDivBaseEqual(e, base, phis, seen) ==
    \/ lVectorValuesAllEqual(e, phis, seen)
    \/ /\ e.k = "const"
       /\ LET v == LLVMExtractVectorInts(e)
          IN \A l \in Elements : Quot(v[l], base) = Quot(v[1], base)
    \/ /\ e.k = "phi"
       /\ \/ e.id \in seen
          \/ \A v \in Incoming(phis, e) :
                lAllDivBaseEqual(v, base, phis, seen \cup {e.id})
    \/ /\ IsAdd(e) /\ e.b.k = "const"
       /\ LET c == LLVMExtractVectorInts(e.b)
              mods == {Rem(c[l], base) : l \in Elements}
              maxMod == CHOOSE x \in mods : \A y \in mods : x >= y
          IN /\ \A l \in Elements : Quot(c[l], base) = Quot(c[1], base)
             /\ lVectorValuesAllEqual(e.a, phis, seen)
             /\ lIsExactMultiple(e.a, lRoundUpPow2(maxMod), phis, {})

\* The lanes of (e >> shift) agree: the bits shifted out are the only ones
\* that may differ.
lVectorShiftRightAllEqual(e, shift, phis) ==
    /\ shift.k = "const"
    /\ LET s == LLVMExtractVectorInts(shift)
       IN /\ \A l \in Elements : s[l] = s[1]
          /\ s[1] >= 0 /\ s[1] < Bits(e.w)
          /\ lAllDivBaseEqual(e, 2^s[1], phis, {})

lVectorValuesAllEqual(e, phis, seen) ==
    \/ VectorWidth = 1
    \/ IsSplat(e)
    \/ /\ e.k = "bin"
       /\ \/ /\ lVectorValuesAllEqual(e.a, phis, seen)
             /\ lVectorValuesAllEqual(e.b, phis, seen)
          \/ e.op \in {"ashr", "lshr"} /\ lVectorShiftRightAllEqual(e.a, e.b, phis)
    \/ e.k = "cast" /\ lVectorValuesAllEqual(e.a, phis, seen)
    \/ e.k = "chain" /\ LLVMFlattenInsertChain(e, phis, TRUE, FALSE) # NoValue
    \/ /\ e.k = "phi"
       /\ \/ e.id \in seen
          \/ \A v \in Incoming(phis, e) :
                lVectorValuesAllEqual(v, phis, seen \cup {e.id})
    \/ e.k = "bcast"

LLVMVectorValuesAllEqual(e, phis) == lVectorValuesAllEqual(e, phis, {})

\* Constants that step by stride, read with their sign.
lVectorIsLinearConstantInts(e, stride) ==
    LET x(l) == Signed(Wrap(e.v[l], e.w), e.w)
    IN /\ \E l \in Elements : e.v[l] # 0
       /\ \A l \in Elements \ {1} : x(l - 1) + stride = x(l)

RECURSIVE lVectorIsLinear(_, _, _, _)

Abs(n) == IF n < 0 THEN -n ELSE n
SplatValue(e) == Signed(Wrap(e.v[1], e.w), e.w)

\* op0 * op1 for a constant op0 that divides the stride.
lCheckMulForLinear(op0, op1, stride, phis, seen) ==
    /\ IsSplat(op0)
    /\ LET s == SplatValue(op0)
       IN /\ s # 0 /\ s <= Abs(stride) /\ Rem(Abs(stride), Abs(s)) = 0
          /\ lVectorIsLinear(op1, IF s > 0 THEN Quot(stride, s) ELSE -Quot(stride, -s),
                             phis, seen)

lCheckShlForLinear(op0, op1, stride, phis, seen) ==
    /\ IsSplat(op1)
    /\ LET s == SplatValue(op1)
       IN /\ s >= 0 /\ s < 63
          /\ 2^s <= Abs(stride) /\ Abs(stride) % 2^s = 0
          /\ lVectorIsLinear(op0, Quot(stride, 2^s), phis, seen)

\* Mutant: the lanes of op0 may wrap at different places.
AndMayWrap(op0, op1, stride, phis, seen) ==
    /\ IsSplat(op1)
    /\ LLVMExtractVectorInts(op1)[1] + 1 \in {2^n : n \in 0 .. WideBits}
    /\ lVectorIsLinear(op0, stride, phis, seen)

\* op0 & (2^n - 1), where the lanes of op0 agree above the mask.
lCheckAndForLinear(op0, op1, stride, phis, seen) ==
    /\ IsSplat(op1)
    /\ LET maskPlusOne == LLVMExtractVectorInts(op1)[1] + 1
       IN /\ maskPlusOne \in {2^n : n \in 0 .. WideBits}
          /\ lVectorIsLinear(op0, stride, phis, seen)
          /\ lAllDivBaseEqual(op0, maskPlusOne, phis, seen)

lVectorIsLinear(e, stride, phis, seen) ==
    LET Lin(v, s) == lVectorIsLinear(v, s, phis, seen)
        Eq(v) == lVectorValuesAllEqual(v, phis, seen)
    IN \/ e.k = "const" /\ lVectorIsLinearConstantInts(e, stride)
       \/ IsAdd(e) /\ ((Lin(e.a, stride) /\ Eq(e.b)) \/ (Eq(e.a) /\ Lin(e.b, stride)))
       \/ /\ e.k = "bin"
          /\ \/ e.op = "sub" /\ \/ Lin(e.a, stride) /\ Eq(e.b)
                                \/ Eq(e.a) /\ Lin(e.b, -stride)
             \/ e.op = "mul" /\ \/ lCheckMulForLinear(e.a, e.b, stride, phis, seen)
                                \/ lCheckMulForLinear(e.b, e.a, stride, phis, seen)
             \/ e.op = "shl" /\ lCheckShlForLinear(e.a, e.b, stride, phis, seen)
             \/ e.op = "and" /\ lCheckAndForLinear(e.a, e.b, stride, phis, seen)
       \/ e.k = "cast" /\ Lin(e.a, stride)
       \/ /\ e.k = "phi"
          /\ \/ e.id \in seen
             \/ \A v \in Incoming(phis, e) :
                   lVectorIsLinear(v, stride, phis, seen \cup {e.id})

LLVMVectorIsLinear(e, stride, phis) == lVectorIsLinear(e, stride, phis, {})

\* The first lane of a vector as a scalar.  A phi becomes a scalar phi of the
\* loop, named Elt0[phi]; ScalarPhis gives the ones the value needs.
Elt0 == [p |-> "p0", q |-> "q0"]

RECURSIVE LLVMExtractFirstVectorElement(_)
LLVMExtractFirstVectorElement(e) ==
    CASE e.k = "const" -> Number(e.v[1], e.w)
      [] e.k = "bin"   -> Bin(e.op, LLVMExtractFirstVectorElement(e.a),
                                    LLVMExtractFirstVectorElement(e.b))
      [] e.k = "cast"  -> Cast(e.op, LLVMExtractFirstVectorElement(e.a), e.w)
      [] e.k = "phi"   -> Phi(Elt0[e.id], e.w)
      [] e.k = "bcast" -> LLVMExtractFirstVectorElement(e.a)
      [] e.k = "chain" -> e.s[1]
      [] OTHER         -> [k |-> "lane", l |-> 1, a |-> e, w |-> e.w]

VectorPhis == DOMAIN Elt0

RECURSIVE PhisIn(_)
PhisIn(e) ==
    CASE e.k = "phi" -> {e.id} \cap VectorPhis
      [] e.k \in {"cast", "bcast", "lane"} -> PhisIn(e.a)
      [] e.k = "bin" -> PhisIn(e.a) \cup PhisIn(e.b)
      [] OTHER -> {}

\* The phis reached from a set of them through what they are assigned.
RECURSIVE PhiClosure(_, _)
PhiClosure(ids, phis) ==
    LET more == ids \cup UNION {UNION {PhisIn(v) : v \in Incoming(phis, Phi(i, "i32"))} : i \in ids}
    IN IF more = ids THEN ids ELSE PhiClosure(more, phis)

ScalarPhis(e, phis) ==
    [id \in {Elt0[i] : i \in PhiClosure(PhisIn(e), phis)} |->
        LET i == CHOOSE i \in VectorPhis : Elt0[i] = id
        IN [init |-> LLVMExtractFirstVectorElement(phis[i].init),
            next |-> LLVMExtractFirstVectorElement(phis[i].next)]]

\* A mask is known when the code is compiled, with lanes that are on, off or
\* undefined, or only when it runs ("live").  An undefined lane counts as on
\* beside one that is.
ConstMask(m) == [known |-> TRUE, lanes |-> m]
LiveMask == [known |-> FALSE]

lConstElementsToMask(m) ==
    LET on == {l \in Elements : m[l] = "on"}
    IN IF on = {} THEN {} ELSE on \cup {l \in Elements : m[l] = "undef"}

GetMaskStatusFromValue(mk) ==
    IF ~mk.known THEN "unknown"
    ELSE LET bits == lConstElementsToMask(mk.lanes)
         IN CASE bits = {} -> "all_off"
              [] bits = Elements -> "all_on"
              [] OTHER -> "mixed"
=============================================================================
