--------------------------- MODULE TypeConversion ---------------------------
(***************************************************************************)
(* Implicit conversions between types (lDoTypeConv in expr.cpp).           *)
(***************************************************************************)
EXTENDS Types

(***************************************************************************)
(* The expression that is converted, as far as conversions look at it: a   *)
(* null pointer constant, integer constants that are all zero, anything    *)
(* else, or none (CanConvertTypes passes no expression and no message).    *)
(***************************************************************************)
Exprs == {"none", "null", "zero", "other"}

\* Result of a conversion: whether it is possible and the type that the
\* expression has afterwards.
No == [ok |-> FALSE, type |-> NullType]
CastTo(t) == [ok |-> TRUE, type |-> t]          \* lTypeCastOk
Unchanged(t) == [ok |-> TRUE, type |-> t]       \* "nothing to do"

\* Arrays become pointers to their elements.
ArrayToPointer(from, to) ==
    LET elt == IF IsConst(to.base) THEN WithConst(from.base, TRUE) ELSE from.base
    IN IF IsVoidPointer(to) \/ Equal(to, PointerTo(elt, to.var, to.const, "none")) THEN CastTo(to) ELSE No

\* Pointers other than to const data convert to void pointers.
VoidPointerOk(from, to) == ~(IsConst(from.base) /\ ~IsConst(to.base))

\* What pointers convert to: bools, arrays of the same type and pointers.
PointerConv(from, to, e) ==
    CASE IsA(to, "atomic") /\ IsBool(to) -> CastTo(to)
      [] IsA(to, "array") /\ Equal(from.base, to.base) -> CastTo(to)
      [] ~IsA(to, "pointer") -> No
      [] IsA(to, "pointer") /\ from.prop = "slice" /\ to.prop # "slice" -> No
      [] IsVoidPointer(to) -> IF VoidPointerOk(from, to) THEN CastTo(to) ELSE No
      [] IsVoidPointer(from) /\ e = "null" -> CastTo(to)
      [] ~EqualIgnoringConst(from.base, to.base) /\ ~Equal(WithConst(from.base, TRUE), to.base) -> No
      [] OTHER -> IF (IsVarying(to) /\ IsUniform(from)) \/ (to.prop = "slice" /\ from.prop # "slice")
                  THEN CastTo(to) ELSE Unchanged(from)

\* A reference converts to a const reference to the same type and, whatever
\* the sizes, between arrays with the same elements.
ReferenceConv(from, to) ==
    IF \/ Equal(to.target, WithConst(from.target, TRUE))
       \/ /\ IsA(from.target, "array") /\ IsA(to.target, "array")
          /\ Equal(from.target.base, to.target.base)
    THEN CastTo(to) ELSE No

ArrayConv(from, to, e) ==
    CASE Equal(to.base, from.base) -> IF to.count = 0 /\ e # "none" THEN No ELSE CastTo(to)
      [] Equal(to.base, WithConst(from.base, TRUE)) -> CastTo(to)
      [] OTHER -> No

\* Conversions between values that are not pointers, references or functions.
ValueConv(from, to, e) ==
    CASE IsA(to, "array") /\ IsA(from, "array") -> ArrayConv(from, to, e)
      [] IsA(to, "vector") /\ IsA(from, "vector") -> IF from.count = to.count THEN CastTo(to) ELSE No
      [] IsA(to, "struct") /\ IsA(from, "struct") ->
            IF Equal(WithConst(AsUniform(to), TRUE), WithConst(AsUniform(from), TRUE)) THEN CastTo(to) ELSE No
      [] IsA(to, "enum") /\ IsA(from, "enum") ->
            IF EqualIgnoringConst(AsUniform(to), AsUniform(from)) THEN CastTo(to) ELSE No
      [] IsA(from, "enum") /\ ~IsA(to, "enum") -> IF to.kind \in {"atomic", "vector"} THEN CastTo(to) ELSE No
      [] ~IsA(from, "atomic") -> No
      [] IsA(to, "vector") -> IF SOAWidth(from) = SOAWidth(to) THEN CastTo(to) ELSE No
      [] OTHER -> IF IsA(to, "atomic") /\ SOAWidth(from) = SOAWidth(to) THEN CastTo(to) ELSE No

\* Mutant: the test that keeps varying values out of uniform types is gone.
LosesLanesIgnored(from, to) == FALSE

LosesLanes(from, to) == IsUniform(to) /\ IsVarying(from)

\* Address spaces differ where everything else agrees.
SpacesDiffer(from, to) ==
    \/ IsA(from, "ref") /\ IsA(to, "ref") /\ Equal(from.target, to.target) /\ from.space # to.space
    \/ IsA(from, "pointer") /\ IsA(to, "pointer") /\ Equal(from.base, to.base) /\ from.space # to.space

\* The conversion of an expression of type from to type to.
RECURSIVE DoTypeConv(_, _, _)
DoTypeConv(from, to, e) ==
    CASE from = NullType \/ to = NullType -> No
      [] Equal(to, from) -> Unchanged(from)
      [] IsVoid(from) \/ IsVoid(to) -> No
      [] IsA(from, "function") ->
            IF IsA(to, "pointer") THEN DoTypeConv(PointerTo(from, "uniform", FALSE, "none"), to, e) ELSE No
      [] IsA(to, "function") -> No
      [] /\ IsSOA(to) \/ IsSOA(from)
         /\ Equal(AsUniform(to), AsUniform(from)) /\ SOAWidth(to) # SOAWidth(from) -> No
      [] IsA(from, "array") /\ IsA(to, "pointer") -> ArrayToPointer(from, to)
      [] LosesLanes(from, to) -> No
      [] SpacesDiffer(from, to) -> No
      [] IsA(from, "pointer") -> PointerConv(from, to, e)
      [] IsA(to, "pointer") /\ IsA(from, "atomic") /\ IsInt(from) /\ e = "zero" ->
            DoTypeConv(PointerTo(Void, "uniform", FALSE, "none"), to, "null")
      [] IsA(to, "struct") /\ IsA(from, "struct") /\ SOAWidth(to) # SOAWidth(from) -> No
      [] EqualIgnoringConst(to, from) /\ IsConst(to) /\ ~IsConst(from) -> CastTo(to)
      [] IsA(from, "ref") /\ IsA(to, "ref") -> ReferenceConv(from, to)
      [] IsA(from, "ref") /\ ~IsA(to, "ref") -> DoTypeConv(from.target, to, IF e = "none" THEN e ELSE "other")
      [] IsA(to, "ref") -> DoTypeConv(ReferenceTo(from), to, IF e = "none" THEN e ELSE "other")
      [] Equal(to, WithConst(from, FALSE)) -> CastTo(to)
      [] OTHER -> ValueConv(from, to, e)

CanConvertTypes(from, to) == DoTypeConv(from, to, "none").ok
=============================================================================
