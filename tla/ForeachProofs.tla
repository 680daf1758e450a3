---------------------------- MODULE ForeachProofs ----------------------------
(***************************************************************************)
(* The loops of foreach cover their domain exactly (IterationsExact), for  *)
(* every width, any number of dimensions and any ranges, with the code for *)
(* CPUs and that for Xe.                                                   *)
(*                                                                         *)
(* First come facts about numbers: the spans multiply to the width, and    *)
(* the lanes of a vector are the elements of the box at the counters.      *)
(* Then, for counters c, which elements of the domain are in the vectors   *)
(* before c.  The invariant LoopInv gives for each block what is done in   *)
(* these terms; a step is first a fact about the values (OuterTest, ...),  *)
(* then about the variables.                                               *)
(***************************************************************************)
EXTENDS Foreach, FiniteSetTheorems, WellFoundedInduction, TLAPS

(***************************************************************************)
(* Arithmetic                                                              *)
(***************************************************************************)

\* Quotient and remainder by a positive number.
LEMMA DivMod ==
    ASSUME NEW n \in Nat, NEW d \in Nat \ {0}
    PROVE  /\ n \div d \in Nat /\ n % d \in 0 .. d - 1
           /\ n = d * (n \div d) + (n % d)
  <1>1. n \div d \in Int /\ n % d \in 0 .. d - 1
    OBVIOUS
  <1>2. n = d * (n \div d) + (n % d)
    OBVIOUS
  <1>3. n \div d >= 0
    OBVIOUS
  <1> QED BY <1>1, <1>2, <1>3

\* A number has one quotient and one remainder.
LEMMA DivModUnique ==
    ASSUME NEW d \in Nat \ {0}, NEW q \in Nat, NEW r \in 0 .. d - 1
    PROVE  (d * q + r) \div d = q /\ (d * q + r) % d = r
  OBVIOUS

\* Division by a product is division by its factors in turn.
LEMMA DivProduct ==
    ASSUME NEW n \in Nat, NEW a \in Nat \ {0}, NEW b \in Nat \ {0}
    PROVE  n \div (a * b) = (n \div a) \div b
  OBVIOUS

\* The product of two numbers above zero is one.
LEMMA PositiveProduct ==
    ASSUME NEW a \in Nat \ {0}, NEW b \in Nat \ {0}
    PROVE  a * b \in Nat \ {0}
  OBVIOUS

\* Induction from 0 up to n, and from n down to 1, for sets of numbers.
LEMMA UpTo ==
    ASSUME NEW n \in Nat, NEW S, 0 \in S, \A k \in 0 .. n - 1 : k \in S => k + 1 \in S
    PROVE  0 .. n \subseteq S
  <1> DEFINE R == OpToRel(<, Nat)
             T == (0 .. n) \ S
  <1> SUFFICES ASSUME T # {} PROVE FALSE
    OBVIOUS
  <1>1. \A x, y \in Nat : x < y => <<x, y>> \in R
    BY DEF OpToRel
  <1>2. IsWellFoundedOn(R, Nat)
    BY NatLessThanWellFounded, Zenon
  <1> HIDE DEF R
  <1>3. PICK k \in T : \A y \in T : ~(<<y, k>> \in R)
    <2>1. T \subseteq Nat
      OBVIOUS
    <2> HIDE DEF T
    <2> QED BY <1>2, <2>1, WFMin
  <1>4. k \in 0 .. n /\ k # 0 /\ k \notin S
    BY <1>3
  <1>5. k - 1 \in 0 .. n - 1 /\ <<k - 1, k>> \in R
    BY <1>1, <1>4
  <1>6. k - 1 \in S
    BY <1>3, <1>5
  <1>7. (k - 1) + 1 \in S
    BY <1>5, <1>6
  <1> QED BY <1>4, <1>7

LEMMA DownTo ==
    ASSUME NEW n \in Nat \ {0}, NEW S, n \in S, \A k \in 1 .. n - 1 : k + 1 \in S => k \in S
    PROVE  1 .. n \subseteq S
  <1> DEFINE T == {k \in 0 .. n - 1 : n - k \in S}
  <1>1. 0 \in T
    OBVIOUS
  <1>2. ASSUME NEW k \in 0 .. (n - 1) - 1, k \in T
        PROVE  k + 1 \in T
    <2>1. n - (k + 1) \in 1 .. n - 1 /\ (n - (k + 1)) + 1 = n - k /\ n - k \in S
      BY <1>2
    <2>2. n - (k + 1) \in S
      BY <2>1
    <2> QED BY <2>2
  <1> HIDE DEF T
  <1>3. 0 .. n - 1 \subseteq T
    BY <1>1, <1>2, UpTo
  <1>4. ASSUME NEW i \in 1 .. n PROVE i \in S
    <2>1. n - i \in T
      BY <1>3
    <2>2. n - (n - i) \in S
      BY <2>1 DEF T
    <2> QED BY <2>2
  <1> QED BY <1>4

-----------------------------------------------------------------------------
(***************************************************************************)
(* Spans.  The dimensions share out the lanes: what a dimension has left   *)
(* is its span times what those inside it get.                             *)
(***************************************************************************)

\* A span divides what there is to share out.
LEMMA SpanDivides ==
    ASSUME NEW left \in Powers, NEW d \in Nat, NEW t \in BOOLEAN, NEW s, s = SpanOf(d, left, t)
    PROVE  s \in Powers /\ left \div s \in Powers /\ s * (left \div s) = left /\ (d = 0 => s = left)
  <1>1. CASE d = 0
    <2>1. s = left
      BY <1>1 DEF SpanOf
    <2>2. left \div left = 1
      BY DEF Powers
    <2> QED BY <2>1, <2>2 DEF Powers
  <1>2. CASE d > 0 /\ (~t \/ d >= Log2(left))
    <2>1. s = 1
      BY <1>2 DEF SpanOf
    <2>2. left \div 1 = left
      BY DEF Powers
    <2> QED BY <1>2, <2>1, <2>2 DEF Powers
  <1>3. CASE d > 0 /\ t /\ ~(d >= Log2(left))
    <2>0. d # 0
      BY <1>3
    <2>1. left # 1
      <3>1. {p \in Powers : 1 < p /\ p <= 1} = {}
        BY DEF Powers
      <3>2. Log2(1) = 0
        BY <3>1, FS_EmptySet DEF Log2
      <3> QED BY <1>3, <3>2
    <2>2. CASE d = 1 /\ left >= 16
      <3>1. s = 4
        BY <1>3, <2>2 DEF SpanOf
      <3>2. left \in {16, 32, 64}
        BY <2>2 DEF Powers
      <3>3. left \div 4 \in {4, 8, 16} /\ 4 * (left \div 4) = left
        BY <3>2
      <3>4. left \div s = left \div 4
        BY <3>1
      <3>5. s \in Powers /\ left \div s \in Powers /\ s * (left \div s) = left
        BY <3>1, <3>3, <3>4 DEF Powers
      <3> QED BY <2>0, <3>5
    <2>3. CASE ~(d = 1 /\ left >= 16)
      <3>1. s = 2
        BY <1>3, <2>3 DEF SpanOf
      <3>2. left \in {2, 4, 8, 16, 32, 64}
        BY <2>1 DEF Powers
      <3>3. left \div 2 \in {1, 2, 4, 8, 16, 32} /\ 2 * (left \div 2) = left
        BY <3>2
      <3>4. left \div s = left \div 2
        BY <3>1
      <3>5. s \in Powers /\ left \div s \in Powers /\ s * (left \div s) = left
        BY <3>1, <3>3, <3>4 DEF Powers
      <3> QED BY <2>0, <3>5
    <2> QED BY <2>2, <2>3
  <1> QED BY <1>1, <1>2, <1>3

\* There is such a function as ItemsLeft.
LEMMA ItemsLeftExists ==
    ASSUME NEW n \in Nat \ {0}, NEW width \in Powers, NEW t \in BOOLEAN
    PROVE  \E f : f = [i \in 1 .. n |-> IF i = 1 THEN width ELSE f[i - 1] \div SpanOf(n - i + 1, f[i - 1], t)]
  <1> DEFINE G(m, f) == [i \in 1 .. m |-> IF i = 1 THEN width ELSE f[i - 1] \div SpanOf(n - i + 1, f[i - 1], t)]
             S == {m \in 0 .. n : \E f : f = G(m, f)}
  <1>1. 0 \in S
    <2> DEFINE f == [i \in 1 .. 0 |-> 0]
    <2>1. 1 .. 0 = {}
      OBVIOUS
    <2>2. f = G(0, f)
      BY <2>1
    <2>3. \E ff : ff = G(0, ff)
      BY <2>2
    <2> HIDE DEF G
    <2>4. 0 \in 0 .. n
      OBVIOUS
    <2> QED BY <2>3, <2>4
  <1>2. ASSUME NEW m \in 0 .. n - 1, m \in S
        PROVE  m + 1 \in S
    <2>1. PICK f : f = G(m, f)
      BY <1>2
    <2> DEFINE h == [i \in 1 .. m + 1 |-> IF i <= m THEN f[i] ELSE
                        IF i = 1 THEN width ELSE f[i - 1] \div SpanOf(n - i + 1, f[i - 1], t)]
    <2>2. \A i \in 1 .. m : h[i] = f[i]
      OBVIOUS
    <2>3. \A i \in 1 .. m : f[i] = IF i = 1 THEN width ELSE f[i - 1] \div SpanOf(n - i + 1, f[i - 1], t)
      BY <2>1
    <2>4. \A i \in 1 .. m + 1 : h[i] = IF i = 1 THEN width ELSE h[i - 1] \div SpanOf(n - i + 1, h[i - 1], t)
      <3>1. ASSUME NEW i \in 1 .. m
            PROVE  h[i] = IF i = 1 THEN width ELSE h[i - 1] \div SpanOf(n - i + 1, h[i - 1], t)
        <4>1. i # 1 => i - 1 \in 1 .. m
          OBVIOUS
        <4> HIDE DEF h
        <4> QED BY <2>2, <2>3, <4>1
      <3>2. h[m + 1] = IF m + 1 = 1 THEN width ELSE f[(m + 1) - 1] \div SpanOf(n - (m + 1) + 1, f[(m + 1) - 1], t)
        OBVIOUS
      <3>3. m + 1 # 1 => h[(m + 1) - 1] = f[(m + 1) - 1]
        BY <2>2
      <3> HIDE DEF h
      <3> QED BY <3>1, <3>2, <3>3
    <2>5. h = [i \in 1 .. m + 1 |-> h[i]]
      OBVIOUS
    <2> HIDE DEF h
    <2>6. h = G(m + 1, h)
      BY <2>4, <2>5
    <2> QED BY <2>6
  <1> HIDE DEF S
  <1>3. n \in S
    BY <1>1, <1>2, UpTo
  <1> QED BY <1>3 DEF S

LEMMA ItemsLeftFacts ==
    ASSUME NEW n \in Nat \ {0}, NEW width \in Powers, NEW t \in BOOLEAN
    PROVE  LET left == ItemsLeft(n, width, t)
           IN  /\ left \in [1 .. n -> Powers] /\ left[1] = width
               /\ \A i \in 1 .. n - 1 : left[i + 1] = left[i] \div SpanOf(n - i, left[i], t)
  <1> DEFINE left == ItemsLeft(n, width, t)
  <1>1. left = [i \in 1 .. n |-> IF i = 1 THEN width ELSE left[i - 1] \div SpanOf(n - i + 1, left[i - 1], t)]
    <2> DEFINE F(f) == [i \in 1 .. n |-> IF i = 1 THEN width ELSE f[i - 1] \div SpanOf(n - i + 1, f[i - 1], t)]
    <2>1. \E f : f = F(f)
      BY ItemsLeftExists
    <2>2. left = CHOOSE f : f = F(f)
      BY DEF ItemsLeft
    <2> HIDE DEF F, left
    <2>3. left = F(left)
      BY <2>1, <2>2
    <2> QED BY <2>3 DEF F
  <1> HIDE DEF left
  <1>2. left[1] = width
    BY <1>1
  <1>3. \A i \in 1 .. n - 1 : left[i + 1] = left[i] \div SpanOf(n - i, left[i], t)
    <2> TAKE i \in 1 .. n - 1
    <2>1. i + 1 \in 1 .. n /\ i + 1 # 1 /\ (i + 1) - 1 = i /\ n - (i + 1) + 1 = n - i
      OBVIOUS
    <2> QED BY <1>1, <2>1
  <1>4. \A i \in 1 .. n : left[i] \in Powers
    <2> DEFINE S == {m \in 0 .. n - 1 : left[m + 1] \in Powers}
    <2>1. 0 \in S
      BY <1>2
    <2>2. ASSUME NEW m \in 0 .. (n - 1) - 1, m \in S PROVE m + 1 \in S
      <3>1. m + 1 \in 1 .. n - 1 /\ n - (m + 1) \in Nat
        OBVIOUS
      <3>2. left[m + 1] \div SpanOf(n - (m + 1), left[m + 1], t) \in Powers
        BY <2>2, <3>1, SpanDivides
      <3> QED BY <1>3, <3>1, <3>2
    <2> HIDE DEF S
    <2>3. 0 .. n - 1 \subseteq S
      BY <2>1, <2>2, UpTo
    <2> TAKE i \in 1 .. n
    <2>4. i - 1 \in S /\ (i - 1) + 1 = i
      BY <2>3
    <2> QED BY <2>4 DEF S
  <1>5. left = [i \in 1 .. n |-> left[i]]
    BY <1>1
  <1> QED BY <1>2, <1>3, <1>4, <1>5 DEF left

\* One step of the recursion of SpansInside.
InsideOnce(n, spans, f) == [i \in 1 .. n |-> IF i = n THEN 1 ELSE spans[i + 1] * f[i + 1]]

\* There is such a function as SpansInside.
LEMMA SpansInsideExists ==
    ASSUME NEW n \in Nat \ {0}, NEW spans
    PROVE  \E f : f = InsideOnce(n, spans, f)
  <1> DEFINE G(m, f) == [i \in m .. n |-> IF i = n THEN 1 ELSE spans[i + 1] * f[i + 1]]
             S == {m \in 1 .. n : \E f : f = G(m, f)}
  <1>1. n \in S
    <2> DEFINE f == [i \in n .. n |-> 1]
    <2>1. \A i \in n .. n : i = n
      OBVIOUS
    <2>2. f = G(n, f)
      BY <2>1
    <2>3. \E ff : ff = G(n, ff)
      BY <2>2
    <2> HIDE DEF G
    <2>4. n \in 1 .. n
      OBVIOUS
    <2> QED BY <2>3, <2>4
  <1>2. ASSUME NEW m \in 1 .. n - 1, m + 1 \in S
        PROVE  m \in S
    <2>1. PICK f : f = G(m + 1, f)
      BY <1>2
    <2> DEFINE h == [i \in m .. n |-> IF i = m THEN spans[m + 1] * f[m + 1] ELSE f[i]]
    <2>2. \A i \in m + 1 .. n : h[i] = f[i]
      OBVIOUS
    <2>3. \A i \in m + 1 .. n : f[i] = IF i = n THEN 1 ELSE spans[i + 1] * f[i + 1]
      BY <2>1
    <2>4. h[m] = spans[m + 1] * f[m + 1]
      OBVIOUS
    <2>5. h = [i \in m .. n |-> h[i]]
      OBVIOUS
    <2> HIDE DEF h
    <2>6. \A i \in m .. n : h[i] = IF i = n THEN 1 ELSE spans[i + 1] * h[i + 1]
      <3>1. ASSUME NEW i \in m + 1 .. n
            PROVE  h[i] = IF i = n THEN 1 ELSE spans[i + 1] * h[i + 1]
        <4>1. i # n => i + 1 \in m + 1 .. n
          OBVIOUS
        <4> QED BY <2>2, <2>3, <4>1
      <3>2. h[m] = spans[m + 1] * h[m + 1] /\ m # n
        <4>1. m + 1 \in m + 1 .. n
          OBVIOUS
        <4> QED BY <2>2, <2>4, <4>1
      <3>3. \A i \in m .. n : i = m \/ i \in m + 1 .. n
        OBVIOUS
      <3> QED BY <3>1, <3>2, <3>3
    <2>7. \E ff : ff = G(m, ff)
      BY <2>5, <2>6
    <2> HIDE DEF G
    <2>8. m \in 1 .. n
      OBVIOUS
    <2> QED BY <2>7, <2>8
  <1> HIDE DEF S
  <1>3. 1 .. n \subseteq S
    BY <1>1, <1>2, DownTo
  <1>4. 1 \in S
    BY <1>3
  <1>5. \E f : f = G(1, f)
    BY <1>4 DEF S
  <1> QED BY <1>5 DEF InsideOnce

LEMMA SpansInsideFacts ==
    ASSUME NEW n \in Nat \ {0}, NEW spans
    PROVE  LET inside == SpansInside(n, spans)
           IN  /\ inside = [i \in 1 .. n |-> inside[i]]
               /\ inside[n] = 1 /\ \A i \in 1 .. n - 1 : inside[i] = spans[i + 1] * inside[i + 1]
  <1> DEFINE inside == SpansInside(n, spans)
  <1>1. inside = [i \in 1 .. n |-> IF i = n THEN 1 ELSE spans[i + 1] * inside[i + 1]]
    <2>1. \E f : f = InsideOnce(n, spans, f)
      BY SpansInsideExists
    <2>2. inside = CHOOSE f : f = InsideOnce(n, spans, f)
      BY DEF SpansInside, InsideOnce
    <2> HIDE DEF inside
    <2>3. inside = InsideOnce(n, spans, inside)
      BY <2>1, <2>2
    <2> QED BY <2>3 DEF InsideOnce
  <1> HIDE DEF inside
  <1>2. inside[n] = 1
    BY <1>1
  <1>3. \A i \in 1 .. n - 1 : inside[i] = spans[i + 1] * inside[i + 1]
    BY <1>1
  <1>4. inside = [i \in 1 .. n |-> inside[i]]
    BY <1>1
  <1> QED BY <1>2, <1>3, <1>4 DEF inside

(***************************************************************************)
(* The vocabulary of the loop, as operators of the foreach l, which does   *)
(* not change.                                                             *)
(***************************************************************************)
Rank(l) == Len(l.startVals)
DimsOf(l) == 1 .. Rank(l)
LanesOf(l) == 0 .. l.width - 1
Span(l) == lGetSpans(Rank(l), l.width, l.isTiled)
Inner(l) == SpansInside(Rank(l), Span(l))
Offset(l, i, lane) == (lane \div Inner(l)[i]) % Span(l)[i]
AlignedEnd(l, i) == l.endVals[i] - ((l.endVals[i] - l.startVals[i]) % Span(l)[i])

LEMMA Vocabulary ==
    /\ nDims = Rank(loop) /\ Dims = DimsOf(loop) /\ Lanes = LanesOf(loop) /\ span = Span(loop)
    /\ \A i, lane : Delta(i, lane) = Offset(loop, i, lane)
    /\ \A i : alignedEnd(i) = AlignedEnd(loop, i)
    /\ \A i, v : InsideOf(i, v) = {lane \in LanesOf(loop) : v + Offset(loop, i, lane) < loop.endVals[i]}
  <1>1. nDims = Rank(loop) /\ Dims = DimsOf(loop) /\ Lanes = LanesOf(loop) /\ span = Span(loop)
    BY DEF nDims, Rank, Dims, DimsOf, Lanes, LanesOf, span, Span
  <1>2. \A i, lane : Delta(i, lane) = Offset(loop, i, lane)
    BY <1>1 DEF Delta, Offset, Inner
  <1>3. \A i : alignedEnd(i) = AlignedEnd(loop, i)
    BY <1>1 DEF alignedEnd, nExtras, AlignedEnd
  <1>4. \A i, v : InsideOf(i, v) = {lane \in LanesOf(loop) : v + Offset(loop, i, lane) < loop.endVals[i]}
    BY <1>1, <1>2 DEF InsideOf
  <1> QED BY <1>1, <1>2, <1>3, <1>4

\* What is assumed of a loop.
LEMMA DomainFacts ==
    ASSUME NEW l \in Domains
    PROVE  /\ l.width \in Powers /\ l.isTiled \in BOOLEAN /\ l.xe \in BOOLEAN /\ l.unmask \in BOOLEAN
           /\ Rank(l) \in Nat \ {0} /\ DOMAIN l.startVals = DimsOf(l)
           /\ l.startVals \in [DimsOf(l) -> Int] /\ l.endVals \in [DimsOf(l) -> Int]
           /\ \A i \in DimsOf(l) : l.startVals[i] <= l.endVals[i]
           /\ l.oldMask \in SUBSET LanesOf(l)
           /\ l.xe => l.unmask \/ l.oldMask = LanesOf(l)
  BY DomainsAssumption DEF Rank, DimsOf, LanesOf

\* The spans, and what they come to: there is one more span in what is inside
\* the next dimension out, and all of them together are the gang.
LEMMA SpanFacts ==
    ASSUME NEW l \in Domains
    PROVE  /\ Span(l) \in [DimsOf(l) -> Nat \ {0}] /\ Inner(l) \in [DimsOf(l) -> Nat \ {0}]
           /\ Inner(l)[Rank(l)] = 1 /\ l.width = Span(l)[1] * Inner(l)[1]
           /\ \A i \in 1 .. Rank(l) - 1 : Inner(l)[i] = Span(l)[i + 1] * Inner(l)[i + 1]
  <1> DEFINE n == Rank(l)
             left == ItemsLeft(n, l.width, l.isTiled)
             s == Span(l)
             p == Inner(l)
  <1>1. n \in Nat \ {0} /\ DimsOf(l) = 1 .. n /\ l.width \in Powers /\ l.isTiled \in BOOLEAN
    BY DomainFacts DEF DimsOf
  <1>2. /\ left \in [1 .. n -> Powers] /\ left[1] = l.width
        /\ \A i \in 1 .. n - 1 : left[i + 1] = left[i] \div SpanOf(n - i, left[i], l.isTiled)
    BY <1>1, ItemsLeftFacts
  <1>3. s = [i \in 1 .. n |-> SpanOf(n - i, left[i], l.isTiled)]
    BY DEF Span, lGetSpans
  <1>4. p = [i \in 1 .. n |-> p[i]] /\ p[n] = 1 /\ \A i \in 1 .. n - 1 : p[i] = s[i + 1] * p[i + 1]
    BY <1>1, SpansInsideFacts DEF Inner
  <1> HIDE DEF n, left, s, p
  <1>5. \A i \in 1 .. n : /\ s[i] \in Powers /\ left[i] \div s[i] \in Powers /\ s[i] * (left[i] \div s[i]) = left[i]
                          /\ i = n => s[i] = left[i]
    <2> TAKE i \in 1 .. n
    <2>1. left[i] \in Powers /\ n - i \in Nat /\ s[i] = SpanOf(n - i, left[i], l.isTiled)
      BY <1>1, <1>2, <1>3
    <2>2. i = n => n - i = 0
      BY <1>1
    <2> QED BY <1>1, <2>1, <2>2, SpanDivides
  <1>6. \A i \in 1 .. n - 1 : left[i + 1] = left[i] \div s[i]
    BY <1>1, <1>2, <1>3
  <1>7. \A i \in 1 .. n : p[i] \in Nat \ {0} /\ left[i] = s[i] * p[i]
    <2> DEFINE S == {i \in 1 .. n : p[i] \in Nat \ {0} /\ left[i] = s[i] * p[i]}
    <2>1. n \in S
      <3>1. n \in 1 .. n
        BY <1>1
      <3>2. s[n] \in Nat
        BY <1>5, <3>1 DEF Powers
      <3> QED BY <1>4, <1>5, <3>1, <3>2
    <2>2. ASSUME NEW i \in 1 .. n - 1, i + 1 \in S PROVE i \in S
      <3>1. i \in 1 .. n /\ i + 1 \in 1 .. n
        BY <1>1
      <3>2. p[i] = left[i + 1]
        BY <1>4, <2>2
      <3>3. left[i + 1] \in Powers
        BY <1>2, <3>1
      <3>4. left[i] = s[i] * left[i + 1]
        BY <1>5, <1>6, <3>1
      <3> QED BY <3>1, <3>2, <3>3, <3>4 DEF Powers
    <2> HIDE DEF S
    <2>3. 1 .. n \subseteq S
      BY <1>1, <2>1, <2>2, DownTo
    <2> QED BY <2>3 DEF S
  <1>8. 1 \in 1 .. n
    BY <1>1
  <1>9. s \in [1 .. n -> Nat \ {0}]
    BY <1>3, <1>5 DEF Powers
  <1>10. p \in [1 .. n -> Nat \ {0}]
    BY <1>4, <1>7
  <1>11. l.width = s[1] * p[1]
    BY <1>2, <1>7, <1>8
  <1> QED BY <1>1, <1>4, <1>9, <1>10, <1>11 DEF n, s, p

-----------------------------------------------------------------------------
(***************************************************************************)
(* Offsets.  The lanes of a vector are the elements of a box whose sides   *)
(* are the spans: a lane's offsets are its digits in mixed radix.          *)
(***************************************************************************)
LEMMA LoopSize ==
    ASSUME NEW l \in Domains
    PROVE  Rank(l) \in Nat \ {0} /\ DimsOf(l) = 1 .. Rank(l) /\ l.width \in Nat \ {0}
  <1>1. Rank(l) \in Nat \ {0} /\ l.width \in Powers
    BY DomainFacts
  <1>2. Powers \subseteq Nat \ {0}
    BY DEF Powers
  <1> QED BY <1>1, <1>2 DEF DimsOf

LEMMA OffsetBounds ==
    ASSUME NEW l \in Domains, NEW i \in DimsOf(l)
    PROVE  /\ \A lane \in LanesOf(l) : Offset(l, i, lane) \in 0 .. Span(l)[i] - 1
           /\ Offset(l, i, 0) = 0 /\ 0 \in LanesOf(l)
  <1>1. Span(l)[i] \in Nat \ {0} /\ Inner(l)[i] \in Nat \ {0}
    BY SpanFacts
  <1>2. \A lane \in LanesOf(l) : lane \in Nat
    BY DomainFacts DEF LanesOf, Powers
  <1>3. ASSUME NEW lane \in LanesOf(l) PROVE Offset(l, i, lane) \in 0 .. Span(l)[i] - 1
    <2>1. lane \div Inner(l)[i] \in Nat
      BY <1>1, <1>2, DivMod
    <2> QED BY <1>1, <2>1, DivMod DEF Offset
  <1>4. Offset(l, i, 0) = 0
    <2> DEFINE p == Inner(l)[i]
               s == Span(l)[i]
    <2> HIDE DEF p, s
    <2>1. p \in Nat \ {0} /\ s \in Nat \ {0}
      BY <1>1 DEF p, s
    <2>2. 0 \div p = 0 /\ 0 % s = 0
      BY <2>1
    <2> QED BY <2>2 DEF Offset, p, s
  <1>5. 0 \in LanesOf(l)
    BY DomainFacts DEF LanesOf, Powers
  <1> QED BY <1>3, <1>4, <1>5

\* The lanes up to the i-th dimension: what is inside the i-th, with the gang
\* for i = 0.
Below(l, i) == IF i = 0 THEN l.width ELSE Inner(l)[i]

LEMMA BelowFacts ==
    ASSUME NEW l \in Domains
    PROVE  /\ Below(l, 0) = l.width /\ Below(l, Rank(l)) = 1
           /\ \A i \in 0 .. Rank(l) : Below(l, i) \in Nat \ {0}
           /\ \A i \in 1 .. Rank(l) : Span(l)[i] \in Nat \ {0} /\ Below(l, i - 1) = Span(l)[i] * Below(l, i)
           /\ \A i \in 1 .. Rank(l) : \A lane : Offset(l, i, lane) = (lane \div Below(l, i)) % Span(l)[i]
  <1>1. Rank(l) \in Nat \ {0} /\ DimsOf(l) = 1 .. Rank(l) /\ l.width \in Nat \ {0}
    BY DomainFacts DEF DimsOf, Powers
  <1>2. \A i \in 1 .. Rank(l) : Below(l, i - 1) = Span(l)[i] * Below(l, i)
    <2> TAKE i \in 1 .. Rank(l)
    <2>1. CASE i = 1
      BY <2>1, SpanFacts DEF Below
    <2>2. CASE i # 1
      <3>1. i - 1 \in 1 .. Rank(l) - 1 /\ (i - 1) + 1 = i /\ i # 0 /\ i - 1 # 0
        BY <1>1, <2>2
      <3> QED BY <3>1, SpanFacts DEF Below
    <2> QED BY <2>1, <2>2
  <1>3. \A i \in 1 .. Rank(l) : \A lane : Offset(l, i, lane) = (lane \div Below(l, i)) % Span(l)[i]
    BY <1>1 DEF Offset, Below
  <1>4. \A i \in 0 .. Rank(l) : Below(l, i) \in Nat \ {0}
    <2> TAKE i \in 0 .. Rank(l)
    <2>1. i = 0 \/ i \in DimsOf(l)
      BY <1>1
    <2> QED BY <1>1, <2>1, SpanFacts DEF Below
  <1>5. Below(l, 0) = l.width
    BY DEF Below
  <1>6. Below(l, Rank(l)) = 1
    <2>1. Rank(l) # 0 /\ Inner(l)[Rank(l)] = 1
      BY <1>1, SpanFacts
    <2> QED BY <2>1 DEF Below
  <1>7. \A i \in 1 .. Rank(l) : Span(l)[i] \in Nat \ {0}
    BY <1>1, SpanFacts
  <1> QED BY <1>2, <1>3, <1>4, <1>5, <1>6, <1>7

\* Two lanes of the same offsets are one.
LEMMA OffsetsDiffer ==
    ASSUME NEW l \in Domains, NEW x \in LanesOf(l), NEW y \in LanesOf(l),
           \A i \in DimsOf(l) : Offset(l, i, x) = Offset(l, i, y)
    PROVE  x = y
  <1> DEFINE n == Rank(l)
             S == {i \in 0 .. n : x \div Below(l, i) = y \div Below(l, i)}
  <1>1. n \in Nat \ {0} /\ DimsOf(l) = 1 .. n /\ l.width \in Nat \ {0} /\ x \in Nat /\ y \in Nat /\ x < l.width /\ y < l.width
    <2>1. n \in Nat \ {0} /\ DimsOf(l) = 1 .. n
      BY LoopSize
    <2>2. l.width \in Nat \ {0}
      BY LoopSize
    <2> QED BY <2>1, <2>2 DEF LanesOf
  <1>2. 0 \in S
    <2>1. x \div l.width = 0 /\ y \div l.width = 0
      BY <1>1
    <2>2. 0 \in 0 .. n
      BY <1>1
    <2> QED BY <2>1, <2>2, BelowFacts
  <1>3. ASSUME NEW k \in 0 .. n - 1, k \in S PROVE k + 1 \in S
    <2> DEFINE b == Below(l, k + 1)
               s == Span(l)[k + 1]
    <2>1. k + 1 \in 1 .. n /\ (k + 1) - 1 = k /\ k \in 0 .. n /\ k + 1 \in 0 .. n
      BY <1>1
    <2>2. /\ b \in Nat \ {0} /\ s \in Nat \ {0} /\ Below(l, k) = s * b
          /\ Offset(l, k + 1, x) = (x \div b) % s /\ Offset(l, k + 1, y) = (y \div b) % s
      BY <2>1, BelowFacts
    <2> HIDE DEF b, s
    <2>3. x \div Below(l, k) = y \div Below(l, k)
      BY <1>3
    <2>4. x \div (b * s) = y \div (b * s)
      <3>1. b * s = s * b
        BY <2>2
      <3> QED BY <2>2, <2>3, <3>1
    <2>5. (x \div b) \div s = (y \div b) \div s
      BY <1>1, <2>2, <2>4, DivProduct
    <2>6. (x \div b) % s = (y \div b) % s
      BY <1>1, <2>1, <2>2
    <2>7. x \div b \in Nat /\ y \div b \in Nat
      BY <1>1, <2>2, DivMod
    <2>8. x \div b = y \div b
      <3>1. x \div b = s * ((x \div b) \div s) + ((x \div b) % s)
        BY <2>2, <2>7, DivMod
      <3>2. y \div b = s * ((y \div b) \div s) + ((y \div b) % s)
        BY <2>2, <2>7, DivMod
      <3> QED BY <2>5, <2>6, <3>1, <3>2
    <2> QED BY <2>1, <2>8 DEF b
  <1> HIDE DEF S
  <1>4. n \in S
    <2>1. 0 .. n \subseteq S
      BY <1>1, <1>2, <1>3, UpTo
    <2>2. n \in 0 .. n
      BY <1>1
    <2> QED BY <2>1, <2>2
  <1>5. x \div 1 = y \div 1
    BY <1>4, BelowFacts DEF S
  <1> QED BY <1>1, <1>5

\* Every choice of offsets is a lane's.
LEMMA OffsetsReached ==
    ASSUME NEW l \in Domains, NEW d, \A i \in DimsOf(l) : d[i] \in 0 .. Span(l)[i] - 1
    PROVE  \E lane \in LanesOf(l) : \A i \in DimsOf(l) : Offset(l, i, lane) = d[i]
  <1> DEFINE n == Rank(l)
             Fits(q, k) == /\ (q + 1) * Below(l, k) <= l.width
                           /\ \A x \in Nat : x \div Below(l, k) = q => \A i \in 1 .. k : Offset(l, i, x) = d[i]
             S == {k \in 0 .. n : \E q \in Nat : Fits(q, k)}
  <1>1. n \in Nat \ {0} /\ DimsOf(l) = 1 .. n /\ l.width \in Nat \ {0}
    BY DomainFacts DEF DimsOf, Powers
  <1>2. 0 \in S
    <2>1. Fits(0, 0)
      BY <1>1, BelowFacts
    <2>2. 0 \in 0 .. n
      BY <1>1
    <2> HIDE DEF Fits
    <2> QED BY <2>1, <2>2
  <1>3. ASSUME NEW k \in 0 .. n - 1, k \in S PROVE k + 1 \in S
    <2> DEFINE b == Below(l, k + 1)
               s == Span(l)[k + 1]
               e == d[k + 1]
    <2>1. k + 1 \in 1 .. n /\ (k + 1) - 1 = k /\ k \in 0 .. n /\ k + 1 \in 0 .. n
      BY <1>1
    <2>2. /\ b \in Nat \ {0} /\ s \in Nat \ {0} /\ Below(l, k) = s * b /\ e \in 0 .. s - 1
          /\ \A x : Offset(l, k + 1, x) = (x \div b) % s
      BY <1>1, <2>1, BelowFacts
    <2>3. PICK q \in Nat : Fits(q, k)
      BY <1>3
    <2> DEFINE q2 == s * q + e
    <2>4. (q + 1) * (s * b) <= l.width /\ \A x \in Nat : x \div (s * b) = q => \A i \in 1 .. k : Offset(l, i, x) = d[i]
      BY <2>2, <2>3
    <2> HIDE DEF b, s, e
    <2>5. q2 \in Nat /\ q2 + 1 <= (q + 1) * s
      BY <2>2
    <2>6. (q2 + 1) * b <= l.width
      <3>1. (q2 + 1) * b <= ((q + 1) * s) * b
        BY <2>2, <2>5
      <3>2. ((q + 1) * s) * b = (q + 1) * (s * b)
        BY <2>2
      <3> HIDE DEF q2
      <3>3. (q2 + 1) * b \in Int /\ (q + 1) * (s * b) \in Int /\ l.width \in Int
        BY <1>1, <2>2, <2>5
      <3> QED BY <2>4, <3>1, <3>2, <3>3
    <2>7. ASSUME NEW x \in Nat, x \div b = q2, NEW i \in 1 .. k + 1 PROVE Offset(l, i, x) = d[i]
      <3>1. q2 \div s = q /\ q2 % s = e
        BY <2>2, DivModUnique
      <3>2. CASE i = k + 1
        BY <2>2, <2>7, <3>1, <3>2 DEF e
      <3>3. CASE i # k + 1
        <4>1. x \div (b * s) = q
          <5> HIDE DEF q2
          <5>1. x \div (b * s) = (x \div b) \div s
            BY <2>2, DivProduct
          <5> QED BY <2>7, <3>1, <5>1
        <4>2. b * s = s * b
          BY <2>2
        <4>3. i \in 1 .. k
          BY <3>3
        <4> QED BY <2>4, <4>1, <4>2, <4>3
      <3> QED BY <3>2, <3>3
    <2>8. Fits(q2, k + 1)
      <3> HIDE DEF q2
      <3> QED BY <2>6, <2>7 DEF b
    <2> HIDE DEF Fits, q2
    <2> QED BY <2>1, <2>5, <2>8
  <1> HIDE DEF S
  <1>4. n \in S
    <2>1. 0 .. n \subseteq S
      BY <1>1, <1>2, <1>3, UpTo
    <2>2. n \in 0 .. n
      BY <1>1
    <2> QED BY <2>1, <2>2
  <1>5. PICK q \in Nat : Fits(q, n)
    BY <1>4 DEF S
  <1>6. Below(l, n) = 1 /\ q \div 1 = q
    BY BelowFacts
  <1>7. q \in LanesOf(l)
    BY <1>1, <1>5, <1>6 DEF LanesOf
  <1>8. \A i \in DimsOf(l) : Offset(l, i, q) = d[i]
    BY <1>1, <1>5, <1>6
  <1> QED BY <1>7, <1>8

-----------------------------------------------------------------------------
(***************************************************************************)
(* The iteration domain, and how far the counters c are in it: the         *)
(* elements in the vector at c, up to dimension i, and those in the        *)
(* vectors before it.                                                      *)
(***************************************************************************)
Space(l) == {e \in [DimsOf(l) -> Int] : \A i \in DimsOf(l) : l.startVals[i] <= e[i] /\ e[i] < l.endVals[i]}

Window(l, c, e, i) == \A k \in 1 .. i : c[k] <= e[k] /\ e[k] < c[k] + Span(l)[k]
Earlier(l, c, e, i) == \E j \in 1 .. i : e[j] < c[j] /\ Window(l, c, e, j - 1)

Before(l, c, i) == {e \in Space(l) : Earlier(l, c, e, i)}
Through(l, c, i) == {e \in Space(l) : Earlier(l, c, e, i) \/ Window(l, c, e, i)}

\* The counters are at vectors; those up to the i-th are inside the domain, and
\* those after it at the start.
Aligned(l, c) ==
    /\ c \in [DimsOf(l) -> Int]
    /\ \A i \in DimsOf(l) : \E m \in Nat : c[i] = l.startVals[i] + m * Span(l)[i]
Inside(l, c, i) == \A k \in 1 .. i : c[k] < l.endVals[k]
FromStart(l, c, i) == \A k \in i + 1 .. Rank(l) : c[k] = l.startVals[k]

\* The lanes inside the domain up to dimension i.
Passed(l, c, i) == {lane \in LanesOf(l) : \A k \in 1 .. i : c[k] + Offset(l, k, lane) < l.endVals[k]}

\* The counter of a dimension after a step.
Stepped(l, c, i) == [c EXCEPT ![i] = @ + Span(l)[i]]

\* The types that the facts below need.
LEMMA LoopTypes ==
    ASSUME NEW l \in Domains
    PROVE  /\ Rank(l) \in Nat \ {0} /\ DimsOf(l) = 1 .. Rank(l)
           /\ \A i \in DimsOf(l) : l.startVals[i] \in Int /\ l.endVals[i] \in Int /\ l.startVals[i] <= l.endVals[i]
           /\ \A i \in DimsOf(l) : Span(l)[i] \in Nat /\ Span(l)[i] > 0
           /\ \A e \in Space(l), i \in DimsOf(l) : e[i] \in Int /\ l.startVals[i] <= e[i] /\ e[i] < l.endVals[i]
  <1>1. Rank(l) \in Nat \ {0} /\ DimsOf(l) = 1 .. Rank(l)
    BY DomainFacts DEF DimsOf
  <1>2. \A i \in DimsOf(l) : l.startVals[i] \in Int /\ l.endVals[i] \in Int /\ l.startVals[i] <= l.endVals[i]
    BY DomainFacts
  <1>3. \A i \in DimsOf(l) : Span(l)[i] \in Nat \ {0}
    BY SpanFacts
  <1>4. \A e \in Space(l), i \in DimsOf(l) : e[i] \in Int /\ l.startVals[i] <= e[i] /\ e[i] < l.endVals[i]
    BY DEF Space
  <1> QED BY <1>1, <1>2, <1>3, <1>4

\* What is before the i-th dimension depends on the counters up to it.
LEMMA SamePlace ==
    ASSUME NEW l, NEW c, NEW d, NEW i \in Nat, \A k \in 1 .. i : c[k] = d[k]
    PROVE  Before(l, c, i) = Before(l, d, i) /\ Through(l, c, i) = Through(l, d, i) /\ Passed(l, c, i) = Passed(l, d, i)
           /\ (Inside(l, c, i) <=> Inside(l, d, i))
  <1>1. \A e : \A j \in 0 .. i : Window(l, c, e, j) <=> Window(l, d, e, j)
    BY DEF Window
  <1>2. \A e : Earlier(l, c, e, i) <=> Earlier(l, d, e, i)
    <2>1. \A j \in 1 .. i : j - 1 \in 0 .. i
      OBVIOUS
    <2> QED BY <1>1, <2>1 DEF Earlier
  <1>3. \A e : Window(l, c, e, i) <=> Window(l, d, e, i)
    BY DEF Window
  <1>4. Passed(l, c, i) = Passed(l, d, i)
    BY DEF Passed
  <1> QED BY <1>2, <1>3, <1>4 DEF Before, Through, Inside

\* At the start of a dimension nothing of it has been done.
LEMMA BeforeStart ==
    ASSUME NEW l \in Domains, NEW c, NEW i \in DimsOf(l), c[i] = l.startVals[i]
    PROVE  Before(l, c, i) = Before(l, c, i - 1)
  <1>1. i \in 1 .. Rank(l) /\ i - 1 \in 0 .. Rank(l)
    BY LoopTypes
  <1>2. ASSUME NEW e \in Space(l) PROVE Earlier(l, c, e, i) <=> Earlier(l, c, e, i - 1)
    <2>1. ~(e[i] < c[i])
      BY LoopTypes
    <2>2. \A j \in 1 .. i : j = i \/ j \in 1 .. i - 1
      BY <1>1
    <2>3. \A j \in 1 .. i - 1 : j \in 1 .. i
      BY <1>1
    <2> QED BY <2>1, <2>2, <2>3 DEF Earlier
  <1> QED BY <1>2 DEF Before

\* At the end of a dimension it has been done.
LEMMA ThroughAtEnd ==
    ASSUME NEW l \in Domains, NEW c, NEW i \in DimsOf(l), c[i] \in Int, l.endVals[i] <= c[i]
    PROVE  Before(l, c, i) = Through(l, c, i - 1)
  <1>1. i \in 1 .. Rank(l) /\ i - 1 \in 0 .. Rank(l)
    BY LoopTypes
  <1>2. ASSUME NEW e \in Space(l) PROVE Earlier(l, c, e, i) <=> Earlier(l, c, e, i - 1) \/ Window(l, c, e, i - 1)
    <2>1. e[i] < c[i]
      BY LoopTypes
    <2>2. \A j \in 1 .. i : j = i \/ j \in 1 .. i - 1
      BY <1>1
    <2>3. i \in 1 .. i /\ \A j \in 1 .. i - 1 : j \in 1 .. i
      BY <1>1
    <2> QED BY <2>1, <2>2, <2>3 DEF Earlier
  <1> QED BY <1>2 DEF Before, Through

\* The last vector of a dimension completes it.
LEMMA ThroughLast ==
    ASSUME NEW l \in Domains, NEW c, NEW i \in DimsOf(l), c[i] \in Int, l.endVals[i] <= c[i] + Span(l)[i]
    PROVE  Through(l, c, i) = Through(l, c, i - 1)
  <1>1. i \in 1 .. Rank(l) /\ i - 1 \in 0 .. Rank(l) /\ i \in 1 .. i
    BY LoopTypes
  <1>2. ASSUME NEW e \in Space(l)
        PROVE  Earlier(l, c, e, i) \/ Window(l, c, e, i) <=> Earlier(l, c, e, i - 1) \/ Window(l, c, e, i - 1)
    <2>1. e[i] \in Int /\ e[i] < c[i] + Span(l)[i]
      BY LoopTypes
    <2>2. \A j \in 1 .. i : j = i \/ j \in 1 .. i - 1
      BY <1>1
    <2>3. \A j \in 1 .. i - 1 : j \in 1 .. i
      BY <1>1
    <2>4. Window(l, c, e, i) <=> Window(l, c, e, i - 1) /\ c[i] <= e[i]
      BY <1>1, <2>1, <2>2, <2>3 DEF Window
    <2>5. Earlier(l, c, e, i) <=> Earlier(l, c, e, i - 1) \/ (e[i] < c[i] /\ Window(l, c, e, i - 1))
      BY <1>1, <2>2, <2>3 DEF Earlier
    <2>6. e[i] < c[i] \/ c[i] <= e[i]
      BY <2>1
    <2> QED BY <2>4, <2>5, <2>6
  <1> QED BY <1>2 DEF Through

\* A step leaves the vector behind.
LEMMA StepPlace ==
    ASSUME NEW l \in Domains, NEW c \in [DimsOf(l) -> Int], NEW i \in DimsOf(l)
    PROVE  Before(l, Stepped(l, c, i), i) = Through(l, c, i)
  <1> DEFINE d == Stepped(l, c, i)
  <1>1. i \in 1 .. Rank(l) /\ i - 1 \in 0 .. Rank(l) /\ i \in 1 .. i
    BY LoopTypes
  <1>2. d[i] = c[i] + Span(l)[i] /\ \A k \in 1 .. i - 1 : d[k] = c[k]
    BY LoopTypes DEF Stepped
  <1> HIDE DEF d
  <1>3. ASSUME NEW e \in Space(l)
        PROVE  Earlier(l, d, e, i) <=> Earlier(l, c, e, i) \/ Window(l, c, e, i)
    <2>1. e[i] \in Int /\ c[i] \in Int /\ Span(l)[i] \in Nat
      BY LoopTypes
    <2>2. \A j \in 1 .. i : j = i \/ j \in 1 .. i - 1
      BY <1>1
    <2>3. \A j \in 1 .. i - 1 : j \in 1 .. i
      BY <1>1
    <2>4. Window(l, c, e, i) <=> Window(l, c, e, i - 1) /\ c[i] <= e[i] /\ e[i] < c[i] + Span(l)[i]
      BY <1>1, <2>2, <2>3 DEF Window
    <2>5. Earlier(l, c, e, i) <=> Earlier(l, c, e, i - 1) \/ (e[i] < c[i] /\ Window(l, c, e, i - 1))
      BY <1>1, <2>2, <2>3 DEF Earlier
    <2>6. Earlier(l, d, e, i) <=> Earlier(l, d, e, i - 1) \/ (e[i] < d[i] /\ Window(l, d, e, i - 1))
      BY <1>1, <2>2, <2>3 DEF Earlier
    <2>7. \A j \in 0 .. i - 1 : Window(l, c, e, j) <=> Window(l, d, e, j)
      <3> TAKE j \in 0 .. i - 1
      <3>1. \A k \in 1 .. j : k \in 1 .. i - 1
        BY <1>1
      <3> QED BY <1>2, <3>1 DEF Window
    <2>8. Earlier(l, c, e, i - 1) <=> Earlier(l, d, e, i - 1)
      <3>1. \A j \in 1 .. i - 1 : j - 1 \in 0 .. i - 1
        BY <1>1
      <3> QED BY <1>2, <2>7, <3>1 DEF Earlier
    <2>9. e[i] < d[i] <=> e[i] < c[i] \/ (c[i] <= e[i] /\ e[i] < c[i] + Span(l)[i])
      BY <1>2, <2>1
    <2>10. Window(l, c, e, i - 1) <=> Window(l, d, e, i - 1)
      BY <1>1, <2>7
    <2> QED BY <2>4, <2>5, <2>6, <2>8, <2>9, <2>10
  <1> QED BY <1>3 DEF Before, Through, d

\* The body, run for the lanes that are inside the domain in all dimensions:
\* their elements are those of the vector, one for each lane, and none has been
\* done.
LEMMA BodyElements ==
    ASSUME NEW l \in Domains, NEW c \in [DimsOf(l) -> Int], NEW el, \A i \in DimsOf(l) : l.startVals[i] <= c[i],
           \A lane \in Passed(l, c, Rank(l)) : el[lane] = [i \in DimsOf(l) |-> c[i] + Offset(l, i, lane)]
    PROVE  LET on == Passed(l, c, Rank(l))
           IN  /\ {el[lane] : lane \in on} = {e \in Space(l) : Window(l, c, e, Rank(l))}
               /\ \A lane \in on : el[lane] \in Space(l) /\ el[lane] \notin Before(l, c, Rank(l))
               /\ \A x, y \in on : el[x] = el[y] => x = y
  <1> DEFINE n == Rank(l)
             on == Passed(l, c, n)
  <1>1. n \in Nat \ {0} /\ DimsOf(l) = 1 .. n /\ on \subseteq LanesOf(l)
    BY LoopTypes DEF Passed
  <1>2. ASSUME NEW lane \in on
        PROVE  el[lane] \in Space(l) /\ Window(l, c, el[lane], n) /\ ~Earlier(l, c, el[lane], n)
    <2> DEFINE e == el[lane]
    <2>1. e = [i \in DimsOf(l) |-> c[i] + Offset(l, i, lane)]
      OBVIOUS
    <2>2. \A i \in DimsOf(l) : /\ e[i] \in Int /\ c[i] <= e[i] /\ e[i] < c[i] + Span(l)[i] /\ e[i] < l.endVals[i]
                               /\ l.startVals[i] <= e[i]
      <3> TAKE i \in DimsOf(l)
      <3>1. Offset(l, i, lane) \in 0 .. Span(l)[i] - 1 /\ Span(l)[i] \in Nat /\ c[i] \in Int /\ l.startVals[i] \in Int
        BY <1>1, OffsetBounds, LoopTypes
      <3>2. c[i] + Offset(l, i, lane) < l.endVals[i]
        BY <1>1 DEF Passed
      <3> HIDE DEF e
      <3>3. e[i] = c[i] + Offset(l, i, lane)
        BY <2>1
      <3> QED BY <3>1, <3>2, <3>3
    <2>3. e \in [DimsOf(l) -> Int]
      BY <2>1, <2>2
    <2> HIDE DEF e
    <2>4. e \in Space(l) /\ Window(l, c, e, n)
      BY <1>1, <2>2, <2>3 DEF Space, Window
    <2>5. ~Earlier(l, c, e, n)
      BY <1>1, <2>2 DEF Earlier
    <2> QED BY <2>4, <2>5 DEF e
  <1>3. ASSUME NEW e \in Space(l), Window(l, c, e, n)
        PROVE  \E lane \in on : e = el[lane]
    <2> DEFINE d == [i \in DimsOf(l) |-> e[i] - c[i]]
    <2>1. \A i \in DimsOf(l) : e[i] \in Int /\ c[i] \in Int /\ c[i] <= e[i] /\ e[i] < c[i] + Span(l)[i] /\ e[i] < l.endVals[i] /\ Span(l)[i] \in Nat
      BY <1>1, <1>3, LoopTypes DEF Window
    <2>2. \A i \in DimsOf(l) : d[i] \in 0 .. Span(l)[i] - 1 /\ c[i] + d[i] = e[i]
      BY <2>1
    <2> HIDE DEF d
    <2>3. PICK lane \in LanesOf(l) : \A i \in DimsOf(l) : Offset(l, i, lane) = d[i]
      BY <2>2, OffsetsReached
    <2>4. lane \in on
      BY <1>1, <2>1, <2>2, <2>3 DEF Passed
    <2>5. e = [i \in DimsOf(l) |-> e[i]]
      BY DEF Space
    <2>6. el[lane] = [i \in DimsOf(l) |-> c[i] + Offset(l, i, lane)]
      BY <2>4
    <2>7. \A i \in DimsOf(l) : c[i] + Offset(l, i, lane) = e[i]
      BY <2>2, <2>3
    <2>8. e = el[lane]
      BY <2>5, <2>6, <2>7
    <2> QED BY <2>4, <2>8
  <1>4. ASSUME NEW x \in on, NEW y \in on, el[x] = el[y] PROVE x = y
    <2>1. \A i \in DimsOf(l) : c[i] + Offset(l, i, x) = c[i] + Offset(l, i, y)
      <3>1. el[x] = [i \in DimsOf(l) |-> c[i] + Offset(l, i, x)]
        OBVIOUS
      <3>2. el[y] = [i \in DimsOf(l) |-> c[i] + Offset(l, i, y)]
        OBVIOUS
      <3> HIDE DEF on
      <3> QED BY <1>4, <3>1, <3>2
    <2>2. \A i \in DimsOf(l) : Offset(l, i, x) = Offset(l, i, y)
      <3> TAKE i \in DimsOf(l)
      <3>1. Offset(l, i, x) \in 0 .. Span(l)[i] - 1 /\ Offset(l, i, y) \in 0 .. Span(l)[i] - 1
        BY <1>1, OffsetBounds
      <3>2. c[i] \in Int /\ Span(l)[i] \in Nat
        BY LoopTypes
      <3>3. c[i] + Offset(l, i, x) = c[i] + Offset(l, i, y)
        BY <2>1
      <3> QED BY <3>1, <3>2, <3>3
    <2> QED BY <1>1, <2>2, OffsetsDiffer
  <1> HIDE DEF on, n
  <1>5. {el[lane] : lane \in on} = {e \in Space(l) : Window(l, c, e, n)}
    <2>1. \A lane \in on : el[lane] \in {e \in Space(l) : Window(l, c, e, n)}
      BY <1>2
    <2>2. \A e \in {e \in Space(l) : Window(l, c, e, n)} : \E lane \in on : e = el[lane]
      BY <1>3
    <2> QED BY <2>1, <2>2
  <1>6. \A lane \in on : el[lane] \in Space(l) /\ el[lane] \notin Before(l, c, n)
    BY <1>2 DEF Before
  <1> QED BY <1>4, <1>5, <1>6 DEF on, n

\* The end of the whole spans, and the counters relative to it.
LEMMA EndFacts ==
    ASSUME NEW l \in Domains, NEW c, Aligned(l, c), NEW i \in DimsOf(l)
    PROVE  LET a == AlignedEnd(l, i)
           IN  /\ a \in Int /\ l.startVals[i] <= a /\ a <= l.endVals[i] /\ l.endVals[i] < a + Span(l)[i]
               /\ c[i] \in Int /\ l.startVals[i] <= c[i]
               /\ c[i] < a => c[i] + Span(l)[i] <= a
               /\ c[i] < l.endVals[i] => c[i] <= a
  <1> DEFINE a == AlignedEnd(l, i)
             s == Span(l)[i]
             b == l.startVals[i]
             x == l.endVals[i] - b
             q == x \div s
  <1>1. b \in Int /\ l.endVals[i] \in Int /\ x \in Nat /\ s \in Nat \ {0}
    BY LoopTypes
  <1>2. PICK m \in Nat : c[i] = b + m * s
    BY DEF Aligned
  <1>3. a = l.endVals[i] - (x % s)
    BY DEF AlignedEnd
  <1>4. l.endVals[i] = b + x
    BY <1>1
  <1> HIDE DEF a, s, b, x
  <1>5. q \in Nat /\ x % s \in 0 .. s - 1 /\ x = s * q + (x % s)
    BY <1>1, DivMod
  <1> HIDE DEF q
  <1>6. m * s \in Nat /\ q * s \in Nat /\ s * q = q * s
    BY <1>1, <1>5
  <1>7. m * s < q * s => m * s + s <= q * s
    <2> SUFFICES ASSUME m * s < q * s PROVE m * s + s <= q * s
      OBVIOUS
    <2>1. m < q
      <3>1. m >= q => m * s >= q * s
        BY <1>1, <1>5
      <3> QED BY <1>5, <1>6, <3>1
    <2>2. q = (m + 1) + (q - (m + 1)) /\ q - (m + 1) \in Nat
      BY <1>5, <2>1
    <2>3. q * s = (m + 1) * s + (q - (m + 1)) * s
      BY <1>1, <1>5, <2>2
    <2>4. (q - (m + 1)) * s \in Nat /\ (m + 1) * s = m * s + s
      BY <1>1, <2>2
    <2> DEFINE ms == m * s
               ns == (m + 1) * s
               ds == (q - (m + 1)) * s
               qs == q * s
    <2>5. ms \in Nat /\ qs \in Nat /\ ds \in Nat /\ ns = ms + s /\ qs = ns + ds
      BY <1>6, <2>3, <2>4
    <2> HIDE DEF ms, ns, ds, qs
    <2>6. ms + s <= qs
      BY <1>1, <2>5
    <2> QED BY <2>6 DEF ms, qs
  <1>8. m * s < (q + 1) * s => m * s <= q * s
    <2> SUFFICES ASSUME m * s < (q + 1) * s PROVE m * s <= q * s
      OBVIOUS
    <2>1. m <= q
      <3>1. m >= q + 1 => m * s >= (q + 1) * s
        BY <1>1, <1>5
      <3> QED BY <1>1, <1>5, <1>6, <3>1
    <2> QED BY <1>1, <1>5, <2>1
  <1>9. (q + 1) * s = q * s + s
    BY <1>1, <1>5
  <1> DEFINE ms == m * s
             qs == q * s
             r == x % s
  <1>10. ms \in Nat /\ qs \in Nat /\ r \in 0 .. s - 1 /\ x = qs + r /\ c[i] = b + ms /\ a = l.endVals[i] - r
    BY <1>2, <1>3, <1>5, <1>6
  <1>11. (ms < qs => ms + s <= qs) /\ (ms < qs + s => ms <= qs)
    BY <1>7, <1>8, <1>9
  <1> HIDE DEF ms, qs, r
  <1>12. /\ a \in Int /\ b <= a /\ a <= l.endVals[i] /\ l.endVals[i] < a + s
         /\ c[i] \in Int /\ b <= c[i]
         /\ c[i] < a => c[i] + s <= a
         /\ c[i] < l.endVals[i] => c[i] <= a
    BY <1>1, <1>4, <1>10, <1>11
  <1> QED BY <1>12 DEF a, s, b

\* A vector that is not the ragged one of its dimension is inside the domain.
Ragged(l, c, j) == l.endVals[j] > AlignedEnd(l, j) /\ c[j] = AlignedEnd(l, j)

LEMMA WholeVector ==
    ASSUME NEW l \in Domains, NEW c, Aligned(l, c), NEW i \in 0 .. Rank(l), Inside(l, c, i),
           \A j \in 1 .. i : ~Ragged(l, c, j)
    PROVE  Passed(l, c, i) = LanesOf(l)
  <1>1. ASSUME NEW j \in 1 .. i, NEW lane \in LanesOf(l)
        PROVE  c[j] + Offset(l, j, lane) < l.endVals[j]
    <2> DEFINE a == AlignedEnd(l, j)
               s == Span(l)[j]
    <2>1. j \in DimsOf(l)
      BY LoopTypes
    <2>2. /\ a \in Int /\ a <= l.endVals[j] /\ c[j] \in Int /\ (c[j] < a => c[j] + s <= a)
          /\ (c[j] < l.endVals[j] => c[j] <= a)
      BY <2>1, EndFacts
    <2>3. l.endVals[j] \in Int /\ s \in Nat /\ Offset(l, j, lane) \in 0 .. s - 1
      BY <2>1, LoopTypes, OffsetBounds
    <2>4. c[j] < l.endVals[j] /\ (c[j] = a => ~(l.endVals[j] > a))
      BY DEF Inside, Ragged
    <2> HIDE DEF a, s
    <2>5. c[j] # a
      BY <2>2, <2>3, <2>4
    <2> QED BY <2>2, <2>3, <2>4, <2>5
  <1> QED BY <1>1 DEF Passed

\* Steps and resets keep the counters at vectors.
LEMMA AlignedStep ==
    ASSUME NEW l \in Domains, NEW c, Aligned(l, c), NEW i \in DimsOf(l)
    PROVE  Aligned(l, Stepped(l, c, i)) /\ Aligned(l, [c EXCEPT ![i] = l.startVals[i]])
  <1>1. c \in [DimsOf(l) -> Int] /\ Span(l)[i] \in Nat /\ l.startVals[i] \in Int
    BY LoopTypes DEF Aligned
  <1>2. PICK m \in Nat : c[i] = l.startVals[i] + m * Span(l)[i]
    BY DEF Aligned
  <1>3. c[i] + Span(l)[i] = l.startVals[i] + (m + 1) * Span(l)[i]
    <2> DEFINE ms == m * Span(l)[i]
               ns == (m + 1) * Span(l)[i]
    <2>1. ns = ms + Span(l)[i] /\ ms \in Int
      BY <1>1
    <2>2. c[i] = l.startVals[i] + ms
      BY <1>2
    <2> HIDE DEF ms, ns
    <2>3. c[i] + Span(l)[i] = l.startVals[i] + ns
      BY <1>1, <2>1, <2>2
    <2> QED BY <2>3 DEF ns
  <1>4. l.startVals[i] = l.startVals[i] + 0 * Span(l)[i]
    BY <1>1
  <1>5. Aligned(l, Stepped(l, c, i))
    <2> DEFINE d == Stepped(l, c, i)
    <2>1. d \in [DimsOf(l) -> Int] /\ d[i] = c[i] + Span(l)[i] /\ \A j \in DimsOf(l) \ {i} : d[j] = c[j]
      BY <1>1 DEF Stepped
    <2> HIDE DEF d
    <2>2. m + 1 \in Nat
      OBVIOUS
    <2>3. \A j \in DimsOf(l) : \E k \in Nat : d[j] = l.startVals[j] + k * Span(l)[j]
      <3> TAKE j \in DimsOf(l)
      <3>1. CASE j = i BY <1>3, <2>1, <2>2, <3>1
      <3>2. CASE j # i BY <2>1, <3>2 DEF Aligned
      <3> QED BY <3>1, <3>2
    <2> QED BY <2>1, <2>3 DEF Aligned, d
  <1>6. Aligned(l, [c EXCEPT ![i] = l.startVals[i]])
    <2> DEFINE d == [c EXCEPT ![i] = l.startVals[i]]
    <2>1. d \in [DimsOf(l) -> Int] /\ d[i] = l.startVals[i] /\ \A j \in DimsOf(l) \ {i} : d[j] = c[j]
      BY <1>1
    <2> HIDE DEF d
    <2>2. 0 \in Nat
      OBVIOUS
    <2>3. \A j \in DimsOf(l) : \E k \in Nat : d[j] = l.startVals[j] + k * Span(l)[j]
      <3> TAKE j \in DimsOf(l)
      <3>1. CASE j = i BY <1>4, <2>1, <2>2, <3>1
      <3>2. CASE j # i BY <2>1, <3>2 DEF Aligned
      <3> QED BY <3>1, <3>2
    <2> QED BY <2>1, <2>3 DEF Aligned, d
  <1> QED BY <1>5, <1>6

-----------------------------------------------------------------------------
(***************************************************************************)
(* The inductive invariant says, for each block, where the counters are    *)
(* and what has been done.  Its parts are operators of the values of the   *)
(* variables: l the loop, c the counters, s smeared, x extrasMask, e       *)
(* inExtras, m the mask, d what has been done.                             *)
(***************************************************************************)

\* The outer dimensions up to the k-th have computed their values, their masks
\* and whether one is ragged from the counters.
Outer(l, c, s, x, e, k) ==
    \A j \in 1 .. k :
        /\ s[j] = c[j]
        /\ x[j] = Passed(l, c, j)
        /\ e[j] <=> \E r \in 1 .. j : Ragged(l, c, r)

\* In dimension i: those outside it are inside the domain, those inside it at
\* their start.
InDim(l, i, c, s, x, e) ==
    /\ i \in DimsOf(l)
    /\ Inside(l, c, i - 1)
    /\ FromStart(l, c, i)
    /\ Outer(l, c, s, x, e, i - 1)

AtTest(l, i, c, s, x, e, d) ==
    /\ InDim(l, i, c, s, x, e)
    /\ i = Rank(l) => c[i] = l.startVals[i]
    /\ d = Before(l, c, i)

AtReset(l, i, c, s, x, e, d) ==
    /\ InDim(l, i, c, s, x, e)
    /\ d = Through(l, c, i - 1)

AtStep(l, i, c, s, x, e, d) ==
    /\ InDim(l, i, c, s, x, e)
    /\ i < Rank(l)
    /\ c[i] < l.endVals[i]
    /\ d = Through(l, c, i)

\* The last vector of the innermost dimension starts at its aligned end.
OuterRagged(l, e) == Rank(l) > 1 /\ e[Rank(l) - 1]

AtInner(l, c, s, x, e, d) ==
    /\ InDim(l, Rank(l), c, s, x, e)
    /\ c[Rank(l)] <= AlignedEnd(l, Rank(l))
    /\ d = Before(l, c, Rank(l))

AtFullBody(l, c, s, x, e, m, d) ==
    /\ AtInner(l, c, s, x, e, d)
    /\ ~OuterRagged(l, e)
    /\ c[Rank(l)] < AlignedEnd(l, Rank(l))
    /\ s[Rank(l)] = c[Rank(l)]
    /\ m = LanesOf(l)

\* t is stepIndex.
AtMaskedBody(l, c, s, x, e, m, t, d) ==
    /\ AtInner(l, c, s, x, e, d)
    /\ c[Rank(l)] < l.endVals[Rank(l)]
    /\ s[Rank(l)] = c[Rank(l)]
    /\ m = Passed(l, c, Rank(l))
    /\ t => OuterRagged(l, e) /\ c[Rank(l)] < AlignedEnd(l, Rank(l))
    /\ ~t => l.endVals[Rank(l)] <= c[Rank(l)] + Span(l)[Rank(l)]

CpuInv ==
    /\ Aligned(loop, counter)
    /\ block[1] \in {"test", "reset", "step", "outer_in_extras", "outer_not_in_extras", "full_body", "masked_body",
                     "exit", "end"}
    /\ block[1] = "test" => AtTest(loop, block[2], counter, smeared, extrasMask, inExtras, done)
    /\ block[1] = "reset" => AtReset(loop, block[2], counter, smeared, extrasMask, inExtras, done)
    /\ block[1] = "step" => AtStep(loop, block[2], counter, smeared, extrasMask, inExtras, done)
    /\ block[1] = "outer_in_extras" =>
           AtInner(loop, counter, smeared, extrasMask, inExtras, done) /\ OuterRagged(loop, inExtras)
    /\ block[1] = "outer_not_in_extras" =>
           AtInner(loop, counter, smeared, extrasMask, inExtras, done) /\ ~OuterRagged(loop, inExtras)
    /\ block[1] = "full_body" => AtFullBody(loop, counter, smeared, extrasMask, inExtras, mask, done)
    /\ block[1] = "masked_body" => AtMaskedBody(loop, counter, smeared, extrasMask, inExtras, mask, stepIndex, done)
    /\ block[1] = "exit" => done = Space(loop)
    /\ block[1] = "end" => mask = loop.oldMask

\* Xe: v are the lanes' counters, p the lanes that wait.  Those that wait in the
\* dimensions up to the k-th have passed the tests of the dimensions around
\* theirs and failed its own, at the counters c.
ParkedUpTo(l, c, p, k) == \A j \in 1 .. k : p[j] = Passed(l, c, j - 1) \ Passed(l, c, j)
NoneParked(l, p, k) == \A j \in k + 1 .. Rank(l) : p[j] = {}

\* The counters of a lane that does not wait are those of c with the lane's
\* offset; the inner ones of a lane that waits are at the start.  Those of
\* dimension k0 are about to be set.
LaneCounters(l, c, v, p, k0) ==
    \A k \in DimsOf(l) : \A lane \in LanesOf(l) :
        /\ k # k0 /\ (\A j \in 1 .. k : lane \notin p[j]) => v[k][lane] = c[k] + Offset(l, k, lane)
        /\ (\E j \in 1 .. k - 1 : lane \in p[j]) => v[k][lane] = l.startVals[k] + Offset(l, k, lane)

XeInDim(l, i, c, p) ==
    /\ i \in DimsOf(l)
    /\ Inside(l, c, i - 1)
    /\ FromStart(l, c, i)
    /\ ParkedUpTo(l, c, p, i - 1)
    /\ NoneParked(l, p, i)

AtXeTest(l, i, c, m, p, v, d) ==
    /\ XeInDim(l, i, c, p)
    /\ p[i] \subseteq Passed(l, c, i - 1) \ Passed(l, c, i)
    /\ m = Passed(l, c, i - 1) \ p[i]
    /\ LaneCounters(l, c, v, p, 0)
    /\ d = Before(l, c, i)

AtXeReset(l, i, c, m, p, v, d) ==
    /\ XeInDim(l, i, c, p)
    /\ p[i] = {}
    /\ m = Passed(l, c, i - 1)
    /\ LaneCounters(l, c, v, p, i)
    /\ d = Through(l, c, i - 1)

\* In dimension i, with the lanes on that have passed its test.
XeOn(l, i, c, m, p, v) ==
    /\ XeInDim(l, i, c, p)
    /\ c[i] < l.endVals[i]
    /\ p[i] = Passed(l, c, i - 1) \ Passed(l, c, i)
    /\ m = Passed(l, c, i)
    /\ LaneCounters(l, c, v, p, 0)

AtXeStep(l, i, c, m, p, v, d) == XeOn(l, i, c, m, p, v) /\ d = Through(l, c, i)
AtXeBody(l, c, m, p, v, d) == XeOn(l, Rank(l), c, m, p, v) /\ d = Before(l, c, Rank(l))

XeInv ==
    /\ block[1] \in {"start", "xe_test", "xe_reset", "xe_step", "xe_body", "exit", "end"}
    /\ block[1] = "start" => mask = loop.oldMask /\ done = {} /\ parked = [i \in DimsOf(loop) |-> {}]
    /\ block[1] = "xe_test" =>
           \E c : Aligned(loop, c) /\ AtXeTest(loop, block[2], c, mask, parked, varying, done)
    /\ block[1] = "xe_reset" =>
           \E c : Aligned(loop, c) /\ AtXeReset(loop, block[2], c, mask, parked, varying, done)
    /\ block[1] = "xe_step" =>
           \E c : Aligned(loop, c) /\ AtXeStep(loop, block[2], c, mask, parked, varying, done)
    /\ block[1] = "xe_body" =>
           \E c : Aligned(loop, c) /\ AtXeBody(loop, c, mask, parked, varying, done)
    /\ block[1] = "exit" => done = Space(loop) /\ mask = LanesOf(loop)
    /\ block[1] = "end" => mask = loop.oldMask

LoopTypeInv ==
    /\ loop \in Domains
    /\ block \in (Blocks \X DimsOf(loop)) \cup {<<"start", 0>>, <<"exit", 0>>, <<"end", 0>>}
    /\ counter \in [DimsOf(loop) -> Int] /\ smeared \in [DimsOf(loop) -> Int]
    /\ extrasMask \in [DimsOf(loop) -> SUBSET LanesOf(loop)] /\ inExtras \in [DimsOf(loop) -> BOOLEAN]
    /\ varying \in [DimsOf(loop) -> [LanesOf(loop) -> Int]] /\ parked \in [DimsOf(loop) -> SUBSET LanesOf(loop)]
    /\ mask \in SUBSET LanesOf(loop) /\ stepIndex \in BOOLEAN

\* The blocks of the innermost dimension.
InnerBlock == block[1] \in {"outer_in_extras", "outer_not_in_extras", "full_body", "masked_body", "xe_body"} => block[2] = Rank(loop)

LoopInv == LoopTypeInv /\ InnerBlock /\ (loop.xe => XeInv) /\ (~loop.xe => CpuInv)

-----------------------------------------------------------------------------
(***************************************************************************)
(* The steps of the CPU's blocks, as facts about the values.               *)
(***************************************************************************)

\* The lanes that pass one more test.
LEMMA PassedFacts ==
    ASSUME NEW l \in Domains, NEW c, NEW i \in DimsOf(l)
    PROVE  /\ Passed(l, c, i) = {lane \in Passed(l, c, i - 1) : c[i] + Offset(l, i, lane) < l.endVals[i]}
           /\ Passed(l, c, 0) = LanesOf(l)
           /\ \A k \in 0 .. i : Passed(l, c, k) \subseteq LanesOf(l) /\ Passed(l, c, i) \subseteq Passed(l, c, k)
           /\ Inside(l, c, i) <=> Inside(l, c, i - 1) /\ c[i] < l.endVals[i]
  <1>1. i \in 1 .. i /\ i \in Nat /\ (\A j \in 1 .. i : j = i \/ j \in 1 .. i - 1) /\ \A j \in 1 .. i - 1 : j \in 1 .. i
    BY LoopTypes
  <1>2. Passed(l, c, i) = {lane \in Passed(l, c, i - 1) : c[i] + Offset(l, i, lane) < l.endVals[i]}
    BY <1>1 DEF Passed
  <1>3. Passed(l, c, 0) = LanesOf(l)
    BY DEF Passed
  <1>4. \A k \in 0 .. i : Passed(l, c, k) \subseteq LanesOf(l) /\ Passed(l, c, i) \subseteq Passed(l, c, k)
    <2> TAKE k \in 0 .. i
    <2>1. \A j \in 1 .. k : j \in 1 .. i
      BY <1>1
    <2> QED BY <2>1 DEF Passed
  <1>5. Inside(l, c, i) <=> Inside(l, c, i - 1) /\ c[i] < l.endVals[i]
    BY <1>1 DEF Inside
  <1> QED BY <1>2, <1>3, <1>4, <1>5

\* The first lane is at the counters itself.
LEMMA FirstLane ==
    ASSUME NEW l \in Domains, NEW c, Aligned(l, c), NEW i \in 0 .. Rank(l), Inside(l, c, i)
    PROVE  0 \in Passed(l, c, i)
  <1>1. Rank(l) \in Nat \ {0} /\ DimsOf(l) = 1 .. Rank(l)
    BY LoopTypes
  <1>2. \A k \in 1 .. i : k \in DimsOf(l)
    BY <1>1
  <1>3. 0 \in LanesOf(l)
    <2>1. 1 \in DimsOf(l)
      BY <1>1
    <2> QED BY <2>1, OffsetBounds
  <1>4. \A k \in 1 .. i : c[k] + Offset(l, k, 0) < l.endVals[k]
    <2> TAKE k \in 1 .. i
    <2>1. Offset(l, k, 0) = 0 /\ c[k] \in Int
      BY <1>2, OffsetBounds DEF Aligned
    <2>2. c[k] < l.endVals[k]
      BY DEF Inside
    <2> QED BY <2>1, <2>2
  <1> QED BY <1>3, <1>4 DEF Passed

\* The lanes that pass the test of dimension i alone.
Fitting(l, c, i) == {lane \in LanesOf(l) : c[i] + Offset(l, i, lane) < l.endVals[i]}

\* foreach_test of an outer dimension.
LEMMA OuterTest ==
    ASSUME NEW l \in Domains, NEW c, Aligned(l, c), NEW i, i < Rank(l),
           NEW s \in [DimsOf(l) -> Int], NEW x \in [DimsOf(l) -> SUBSET LanesOf(l)], NEW e \in [DimsOf(l) -> BOOLEAN],
           NEW d, AtTest(l, i, c, s, x, e, d),
           NEW s2, s2 = [s EXCEPT ![i] = c[i]],
           NEW x2, x2 = [x EXCEPT ![i] = IF i = 1 THEN Fitting(l, c, i) ELSE x[i - 1] \cap Fitting(l, c, i)],
           NEW e2, e2 = [e EXCEPT ![i] = Ragged(l, c, i) \/ (i > 1 /\ e[i - 1])]
    PROVE  /\ c[i] < l.endVals[i] => AtTest(l, i + 1, c, s2, x2, e2, d)
           /\ ~(c[i] < l.endVals[i]) => AtReset(l, i, c, s2, x2, e2, d)
  <1>1. /\ i \in 1 .. Rank(l) /\ DimsOf(l) = 1 .. Rank(l) /\ Rank(l) \in Nat /\ i \in DimsOf(l)
        /\ c \in [DimsOf(l) -> Int] /\ i + 1 \in DimsOf(l) /\ (i + 1) - 1 = i
    <2>1. i \in DimsOf(l) /\ c \in [DimsOf(l) -> Int]
      BY DEF AtTest, InDim, Aligned
    <2>2. Rank(l) \in Nat \ {0} /\ DimsOf(l) = 1 .. Rank(l)
      BY LoopTypes
    <2>3. i \in 1 .. Rank(l)
      BY <2>1, <2>2
    <2>4. i + 1 \in 1 .. Rank(l) /\ (i + 1) - 1 = i
      BY <2>2, <2>3
    <2>5. i + 1 \in DimsOf(l)
      BY <2>2, <2>4
    <2> QED BY <2>1, <2>2, <2>3, <2>4, <2>5
  <1>2. Inside(l, c, i - 1) /\ FromStart(l, c, i) /\ Outer(l, c, s, x, e, i - 1) /\ d = Before(l, c, i)
    BY DEF AtTest, InDim
  <1>3. s2[i] = c[i] /\ \A j \in 1 .. i - 1 : s2[j] = s[j] /\ x2[j] = x[j] /\ e2[j] = e[j]
    BY <1>1
  <1>4. x2[i] = Passed(l, c, i)
    <2>1. Passed(l, c, i) = {lane \in Passed(l, c, i - 1) : c[i] + Offset(l, i, lane) < l.endVals[i]}
      BY <1>1, PassedFacts
    <2>2. CASE i = 1
      <3>1. Passed(l, c, i - 1) = LanesOf(l)
        BY <1>1, <2>2, PassedFacts
      <3>2. x2[i] = {lane \in LanesOf(l) : c[i] + Offset(l, i, lane) < l.endVals[i]}
        BY <1>1, <2>2 DEF Fitting
      <3> QED BY <2>1, <3>1, <3>2
    <2>3. CASE i # 1
      <3>1. x2[i] = x[i - 1] \cap {lane \in LanesOf(l) : c[i] + Offset(l, i, lane) < l.endVals[i]}
        BY <1>1, <2>3 DEF Fitting
      <3>2. i - 1 \in 1 .. i - 1
        BY <1>1, <2>3
      <3>3. x[i - 1] = Passed(l, c, i - 1) /\ Passed(l, c, i - 1) \subseteq LanesOf(l)
        BY <1>2, <3>2 DEF Outer, Passed
      <3> QED BY <2>1, <3>1, <3>3
    <2> QED BY <2>2, <2>3
  <1>5. e2[i] <=> \E r \in 1 .. i : Ragged(l, c, r)
    <2>1. e2[i] <=> Ragged(l, c, i) \/ (i > 1 /\ e[i - 1])
      BY <1>1
    <2>2. i \in 1 .. i /\ (\A r \in 1 .. i : r = i \/ r \in 1 .. i - 1) /\ \A r \in 1 .. i - 1 : r \in 1 .. i
      BY <1>1
    <2>3. i > 1 => i - 1 \in 1 .. i - 1
      BY <1>1
    <2>4. ~(i > 1) => 1 .. i - 1 = {}
      BY <1>1
    <2>5. (i > 1 /\ e[i - 1]) <=> \E r \in 1 .. i - 1 : Ragged(l, c, r)
      BY <1>2, <2>3, <2>4 DEF Outer
    <2> QED BY <2>1, <2>2, <2>5
  <1>6. Outer(l, c, s2, x2, e2, i)
    <2> SUFFICES ASSUME NEW j \in 1 .. i
                 PROVE  s2[j] = c[j] /\ x2[j] = Passed(l, c, j) /\ (e2[j] <=> \E r \in 1 .. j : Ragged(l, c, r))
      BY DEF Outer
    <2>1. CASE j = i
      BY <1>3, <1>4, <1>5, <2>1
    <2>2. CASE j # i
      <3>1. j \in 1 .. i - 1
        BY <1>1, <2>2
      <3> QED BY <1>2, <1>3, <3>1 DEF Outer
    <2> QED BY <2>1, <2>2
  <1>7. ASSUME c[i] < l.endVals[i] PROVE AtTest(l, i + 1, c, s2, x2, e2, d)
    <2>1. Inside(l, c, i)
      BY <1>1, <1>2, <1>7, PassedFacts
    <2>2. c[i + 1] = l.startVals[i + 1] /\ FromStart(l, c, i + 1)
      <3>1. \A k \in (i + 1) + 1 .. Rank(l) : k \in i + 1 .. Rank(l)
        BY <1>1
      <3>2. i + 1 \in i + 1 .. Rank(l)
        BY <1>1
      <3> QED BY <1>2, <3>1, <3>2 DEF FromStart
    <2>3. Before(l, c, i + 1) = Before(l, c, i)
      BY <1>1, <2>2, BeforeStart
    <2> QED BY <1>1, <1>2, <1>6, <2>1, <2>2, <2>3 DEF AtTest, InDim
  <1>8. ASSUME ~(c[i] < l.endVals[i]) PROVE AtReset(l, i, c, s2, x2, e2, d)
    <2>1. l.endVals[i] <= c[i] /\ c[i] \in Int
      <3>1. l.endVals[i] \in Int
        BY <1>1, LoopTypes
      <3>2. c[i] \in Int
        BY <1>1
      <3> QED BY <1>8, <3>1, <3>2
    <2>2. d = Through(l, c, i - 1)
      BY <1>1, <1>2, <2>1, ThroughAtEnd
    <2>3. Outer(l, c, s2, x2, e2, i - 1)
      BY <1>1, <1>6 DEF Outer
    <2> QED BY <1>1, <1>2, <2>2, <2>3 DEF AtReset, InDim
  <1> QED BY <1>7, <1>8


\* What is known of the outer dimensions depends on the values up to them.
LEMMA OuterSame ==
    ASSUME NEW l, NEW k \in Nat, NEW c, NEW s, NEW x, NEW e, Outer(l, c, s, x, e, k), NEW c2, NEW s2, NEW x2,
           \A j \in 1 .. k : c2[j] = c[j] /\ s2[j] = s[j] /\ x2[j] = x[j]
    PROVE  Outer(l, c2, s2, x2, e, k)
  <1> SUFFICES ASSUME NEW j \in 1 .. k
               PROVE  s2[j] = c2[j] /\ x2[j] = Passed(l, c2, j) /\ (e[j] <=> \E r \in 1 .. j : Ragged(l, c2, r))
    BY DEF Outer
  <1>1. s[j] = c[j] /\ x[j] = Passed(l, c, j) /\ (e[j] <=> \E r \in 1 .. j : Ragged(l, c, r))
    BY DEF Outer
  <1>2. \A r \in 1 .. j : r \in 1 .. k
    OBVIOUS
  <1>3. \A r \in 1 .. j : Ragged(l, c2, r) <=> Ragged(l, c, r)
    BY <1>2 DEF Ragged
  <1>4. Passed(l, c2, j) = Passed(l, c, j)
    BY <1>2, SamePlace
  <1> QED BY <1>1, <1>3, <1>4

\* The shape of a dimension's facts.
LEMMA InDimFacts ==
    ASSUME NEW l \in Domains, NEW c, Aligned(l, c), NEW i, NEW s, NEW x, NEW e, InDim(l, i, c, s, x, e)
    PROVE  /\ Rank(l) \in Nat /\ DimsOf(l) = 1 .. Rank(l) /\ i \in DimsOf(l) /\ i \in 1 .. Rank(l)
           /\ c \in [DimsOf(l) -> Int] /\ c[i] \in Int
           /\ Inside(l, c, i - 1) /\ FromStart(l, c, i) /\ Outer(l, c, s, x, e, i - 1)
  <1>1. i \in DimsOf(l) /\ c \in [DimsOf(l) -> Int]
    BY DEF InDim, Aligned
  <1>2. Rank(l) \in Nat \ {0} /\ DimsOf(l) = 1 .. Rank(l)
    BY LoopTypes
  <1>3. Inside(l, c, i - 1) /\ FromStart(l, c, i) /\ Outer(l, c, s, x, e, i - 1)
    BY DEF InDim
  <1>4. i \in 1 .. Rank(l) /\ c[i] \in Int
    BY <1>1, <1>2
  <1> QED BY <1>1, <1>2, <1>3, <1>4

\* foreach_reset.
LEMMA ResetStep ==
    ASSUME NEW l \in Domains, NEW c, Aligned(l, c), NEW i,
           NEW s, NEW x \in [DimsOf(l) -> SUBSET LanesOf(l)], NEW e, NEW d, AtReset(l, i, c, s, x, e, d)
    PROVE  /\ i = 1 => d = Space(l)
           /\ i # 1 => LET c2 == [c EXCEPT ![i] = l.startVals[i]]
                           x2 == [x EXCEPT ![i] = LanesOf(l)]
                       IN  Aligned(l, c2) /\ AtStep(l, i - 1, c2, s, x2, e, d)
  <1>1. InDim(l, i, c, s, x, e) /\ d = Through(l, c, i - 1)
    BY DEF AtReset
  <1>2. /\ Rank(l) \in Nat /\ DimsOf(l) = 1 .. Rank(l) /\ i \in DimsOf(l) /\ i \in 1 .. Rank(l)
        /\ c \in [DimsOf(l) -> Int]
        /\ Inside(l, c, i - 1) /\ FromStart(l, c, i) /\ Outer(l, c, s, x, e, i - 1)
    BY <1>1, InDimFacts
  <1>3. ASSUME i = 1 PROVE d = Space(l)
    <2>1. \A en \in Space(l) : Window(l, c, en, i - 1)
      BY <1>3 DEF Window
    <2> QED BY <1>1, <2>1 DEF Through
  <1>4. ASSUME i # 1, NEW c2, c2 = [c EXCEPT ![i] = l.startVals[i]], NEW x2, x2 = [x EXCEPT ![i] = LanesOf(l)]
        PROVE  Aligned(l, c2) /\ AtStep(l, i - 1, c2, s, x2, e, d)
    <2>1. Aligned(l, c2)
      BY <1>2, <1>4, AlignedStep
    <2>2. i - 1 \in 1 .. Rank(l) /\ i - 1 < Rank(l) /\ (i - 1) + 1 = i /\ i - 1 \in Nat /\ (i - 1) - 1 \in Nat
      BY <1>2, <1>4
    <2>3. \A j \in 1 .. i - 1 : j \in DimsOf(l) /\ j # i
      BY <1>2
    <2>4. \A j \in 1 .. i - 1 : c2[j] = c[j] /\ x2[j] = x[j]
      BY <1>2, <1>4, <2>3
    <2>5. Through(l, c2, i - 1) = Through(l, c, i - 1) /\ (Inside(l, c2, i - 1) <=> Inside(l, c, i - 1))
      BY <2>2, <2>4, SamePlace
    <2>6. Inside(l, c2, (i - 1) - 1) /\ c2[i - 1] < l.endVals[i - 1]
      <3>1. i - 1 \in DimsOf(l)
        BY <1>2, <2>2
      <3> QED BY <1>2, <2>5, <3>1, PassedFacts
    <2>7. FromStart(l, c2, i - 1)
      <3> SUFFICES ASSUME NEW k \in i .. Rank(l) PROVE c2[k] = l.startVals[k]
        BY <2>2 DEF FromStart
      <3>1. k \in DimsOf(l) /\ (k = i \/ k \in i + 1 .. Rank(l))
        BY <1>2
      <3> QED BY <1>2, <1>4, <3>1 DEF FromStart
    <2>8. Outer(l, c2, s, x2, e, i - 1)
      BY <1>2, <2>2, <2>4, OuterSame
    <2>9. Outer(l, c2, s, x2, e, (i - 1) - 1)
      <3>1. \A j \in 1 .. (i - 1) - 1 : j \in 1 .. i - 1
        BY <2>2
      <3> QED BY <2>8, <3>1 DEF Outer
    <2>10. i - 1 \in DimsOf(l)
      BY <1>2, <2>2
    <2> QED BY <1>1, <2>1, <2>2, <2>5, <2>6, <2>7, <2>9, <2>10 DEF AtStep, InDim
  <1> QED BY <1>3, <1>4

\* foreach_step.
LEMMA StepTest ==
    ASSUME NEW l \in Domains, NEW c, Aligned(l, c), NEW i,
           NEW s, NEW x, NEW e, NEW d, AtStep(l, i, c, s, x, e, d)
    PROVE  Aligned(l, Stepped(l, c, i)) /\ AtTest(l, i, Stepped(l, c, i), s, x, e, d)
  <1>1. InDim(l, i, c, s, x, e) /\ i < Rank(l) /\ d = Through(l, c, i)
    BY DEF AtStep
  <1>2. /\ Rank(l) \in Nat /\ DimsOf(l) = 1 .. Rank(l) /\ i \in DimsOf(l) /\ i \in 1 .. Rank(l)
        /\ c \in [DimsOf(l) -> Int]
        /\ Inside(l, c, i - 1) /\ FromStart(l, c, i) /\ Outer(l, c, s, x, e, i - 1)
    BY <1>1, InDimFacts
  <1>3. Before(l, Stepped(l, c, i), i) = Through(l, c, i)
    BY <1>2, StepPlace
  <1>4. Aligned(l, Stepped(l, c, i))
    BY <1>2, AlignedStep
  <1> DEFINE c2 == Stepped(l, c, i)
  <1>5. \A j \in DimsOf(l) \ {i} : c2[j] = c[j]
    BY <1>2 DEF Stepped
  <1> HIDE DEF c2
  <1>6. i - 1 \in Nat /\ \A j \in 1 .. i - 1 : j \in DimsOf(l) \ {i}
    BY <1>2
  <1>7. Inside(l, c2, i - 1)
    BY <1>2, <1>5, <1>6, SamePlace
  <1>8. Outer(l, c2, s, x, e, i - 1)
    BY <1>2, <1>5, <1>6, OuterSame
  <1>9. FromStart(l, c2, i)
    <2>1. \A k \in i + 1 .. Rank(l) : k \in DimsOf(l) \ {i}
      BY <1>2
    <2> QED BY <1>2, <1>5, <2>1 DEF FromStart
  <1>10. i # Rank(l)
    BY <1>1, <1>2
  <1> QED BY <1>1, <1>2, <1>3, <1>4, <1>7, <1>8, <1>9, <1>10 DEF AtTest, InDim, c2

\* foreach_test of the innermost dimension.
LEMMA InnerTest ==
    ASSUME NEW l \in Domains, NEW c, Aligned(l, c), NEW s, NEW x, NEW e, NEW d, AtTest(l, Rank(l), c, s, x, e, d)
    PROVE  AtInner(l, c, s, x, e, d)
  <1>1. InDim(l, Rank(l), c, s, x, e) /\ c[Rank(l)] = l.startVals[Rank(l)] /\ d = Before(l, c, Rank(l))
    BY DEF AtTest
  <1>2. Rank(l) \in DimsOf(l)
    BY <1>1, InDimFacts
  <1>3. c[Rank(l)] <= AlignedEnd(l, Rank(l))
    BY <1>1, <1>2, EndFacts
  <1> QED BY <1>1, <1>3 DEF AtInner


\* The masks of the vector of the innermost dimension.
LEMMA InnerMasks ==
    ASSUME NEW l \in Domains, NEW c, Aligned(l, c), NEW s, NEW x, NEW e, NEW d, AtInner(l, c, s, x, e, d)
    PROVE  LET n == Rank(l)
           IN  /\ OuterRagged(l, e) => x[n - 1] \cap Fitting(l, c, n) = Passed(l, c, n)
               /\ OuterRagged(l, e) /\ c[n] < AlignedEnd(l, n) => x[n - 1] = Passed(l, c, n)
               /\ ~OuterRagged(l, e) => Fitting(l, c, n) = Passed(l, c, n)
               /\ ~OuterRagged(l, e) /\ c[n] < AlignedEnd(l, n) => LanesOf(l) = Passed(l, c, n)
  <1> DEFINE n == Rank(l)
             emask == Fitting(l, c, n)
  <1>1. InDim(l, n, c, s, x, e) /\ c[n] <= AlignedEnd(l, n)
    BY DEF AtInner
  <1>2. /\ n \in Nat /\ DimsOf(l) = 1 .. n /\ n \in DimsOf(l) /\ n \in 1 .. n /\ c[n] \in Int
        /\ Inside(l, c, n - 1) /\ Outer(l, c, s, x, e, n - 1)
    BY <1>1, InDimFacts
  <1>3. Passed(l, c, n) = {lane \in Passed(l, c, n - 1) : c[n] + Offset(l, n, lane) < l.endVals[n]}
        /\ Passed(l, c, n - 1) \subseteq LanesOf(l) /\ Passed(l, c, 0) = LanesOf(l)
    <2>1. n - 1 \in 0 .. n
      BY <1>2
    <2> QED BY <1>2, <2>1, PassedFacts
  <1>4. Passed(l, c, n) = Passed(l, c, n - 1) \cap emask
    BY <1>3 DEF Fitting
  <1>5. ASSUME c[n] < AlignedEnd(l, n) PROVE emask = LanesOf(l)
    <2> SUFFICES ASSUME NEW lane \in LanesOf(l) PROVE c[n] + Offset(l, n, lane) < l.endVals[n]
      BY DEF Fitting
    <2> DEFINE a == AlignedEnd(l, n)
               w == Span(l)[n]
    <2>1. a \in Int /\ a <= l.endVals[n] /\ c[n] + w <= a
      BY <1>2, <1>5, EndFacts
    <2>2. w \in Nat /\ l.endVals[n] \in Int /\ Offset(l, n, lane) \in 0 .. w - 1
      BY <1>2, OffsetBounds, LoopTypes
    <2> HIDE DEF a, w
    <2> QED BY <1>2, <2>1, <2>2
  <1> HIDE DEF emask
  <1>6. OuterRagged(l, e) => x[n - 1] = Passed(l, c, n - 1)
    <2> SUFFICES ASSUME OuterRagged(l, e) PROVE x[n - 1] = Passed(l, c, n - 1)
      OBVIOUS
    <2>1. n - 1 \in 1 .. n - 1
      BY <1>2 DEF OuterRagged
    <2> QED BY <1>2, <2>1 DEF Outer
  <1>7. ~OuterRagged(l, e) => Passed(l, c, n - 1) = LanesOf(l)
    <2> SUFFICES ASSUME ~OuterRagged(l, e) PROVE Passed(l, c, n - 1) = LanesOf(l)
      OBVIOUS
    <2>1. CASE n = 1
      BY <1>3, <2>1
    <2>2. CASE n # 1
      <3>1. n - 1 \in 1 .. n - 1 /\ n > 1 /\ n - 1 \in 0 .. n
        BY <1>2, <2>2
      <3>2. ~e[n - 1]
        BY <3>1 DEF OuterRagged
      <3>3. \A r \in 1 .. n - 1 : ~Ragged(l, c, r)
        BY <1>2, <3>1, <3>2 DEF Outer
      <3> QED BY <1>2, <3>1, <3>3, WholeVector
    <2> QED BY <2>1, <2>2
  <1> DEFINE outer == Passed(l, c, n - 1)
  <1>8. Passed(l, c, n) = outer \cap emask /\ outer \subseteq LanesOf(l)
    BY <1>3, <1>4
  <1> HIDE DEF outer, n
  <1>9. emask \subseteq LanesOf(l)
    BY DEF emask, Fitting
  <1>10. OuterRagged(l, e) => x[n - 1] \cap emask = Passed(l, c, n)
    BY <1>6, <1>8 DEF outer
  <1>11. OuterRagged(l, e) /\ c[n] < AlignedEnd(l, n) => x[n - 1] = Passed(l, c, n)
    BY <1>5, <1>6, <1>8 DEF outer
  <1>12. ~OuterRagged(l, e) => emask = Passed(l, c, n)
    BY <1>7, <1>8, <1>9 DEF outer
  <1>13. ~OuterRagged(l, e) /\ c[n] < AlignedEnd(l, n) => LanesOf(l) = Passed(l, c, n)
    BY <1>5, <1>12
  <1> QED BY <1>10, <1>11, <1>12, <1>13 DEF emask, n

\* At the end of the innermost dimension.
LEMMA InnerEnd ==
    ASSUME NEW l \in Domains, NEW c, Aligned(l, c), NEW s, NEW x, NEW e, NEW d, AtInner(l, c, s, x, e, d)
    PROVE  LET n == Rank(l)
           IN  /\ c[n] < AlignedEnd(l, n) => c[n] < l.endVals[n] /\ c[n] # l.endVals[n]
               /\ ~(c[n] < AlignedEnd(l, n)) => l.endVals[n] <= c[n] + Span(l)[n]
               /\ c[n] # l.endVals[n] => c[n] < l.endVals[n]
               /\ ~(c[n] < l.endVals[n]) => AtReset(l, n, c, s, x, e, d)
               /\ c[n] = l.endVals[n] => AtReset(l, n, c, s, x, e, d)
  <1> DEFINE n == Rank(l)
  <1>1. InDim(l, n, c, s, x, e) /\ c[n] <= AlignedEnd(l, n) /\ d = Before(l, c, n)
    BY DEF AtInner
  <1>2. n \in DimsOf(l) /\ c[n] \in Int
    BY <1>1, InDimFacts
  <1> DEFINE a == AlignedEnd(l, n)
             w == Span(l)[n]
  <1>3. a \in Int /\ a <= l.endVals[n] /\ l.endVals[n] < a + w /\ w \in Nat /\ l.endVals[n] \in Int /\ c[n] <= a
    BY <1>1, <1>2, EndFacts, LoopTypes
  <1>4. l.endVals[n] <= c[n] => AtReset(l, n, c, s, x, e, d)
    BY <1>1, <1>2, ThroughAtEnd DEF AtReset
  <1> HIDE DEF a, w, n
  <1>5. /\ c[n] < a => c[n] < l.endVals[n] /\ c[n] # l.endVals[n]
        /\ ~(c[n] < a) => l.endVals[n] <= c[n] + w
        /\ c[n] # l.endVals[n] => c[n] < l.endVals[n]
        /\ ~(c[n] < l.endVals[n]) => l.endVals[n] <= c[n]
        /\ c[n] = l.endVals[n] => l.endVals[n] <= c[n]
    BY <1>2, <1>3
  <1> QED BY <1>4, <1>5 DEF a, w, n

\* dimVariables of the innermost dimension is computed from its counter.
LEMMA InnerSmeared ==
    ASSUME NEW l \in Domains, NEW c, Aligned(l, c), NEW s \in [DimsOf(l) -> Int], NEW x, NEW e, NEW d,
           AtInner(l, c, s, x, e, d)
    PROVE  LET s2 == [s EXCEPT ![Rank(l)] = c[Rank(l)]]
           IN  AtInner(l, c, s2, x, e, d) /\ s2[Rank(l)] = c[Rank(l)]
  <1> DEFINE n == Rank(l)
             s2 == [s EXCEPT ![n] = c[n]]
  <1>1. InDim(l, n, c, s, x, e) /\ c[n] <= AlignedEnd(l, n) /\ d = Before(l, c, n)
    BY DEF AtInner
  <1>2. /\ n \in Nat /\ DimsOf(l) = 1 .. n /\ n \in DimsOf(l)
        /\ Inside(l, c, n - 1) /\ FromStart(l, c, n) /\ Outer(l, c, s, x, e, n - 1)
    BY <1>1, InDimFacts
  <1> HIDE DEF n
  <1>3. n - 1 \in Nat /\ \A j \in 1 .. n - 1 : j \in DimsOf(l) \ {n}
    BY <1>2
  <1>4. s2[n] = c[n] /\ \A j \in 1 .. n - 1 : s2[j] = s[j]
    BY <1>2, <1>3 DEF n
  <1> HIDE DEF s2
  <1>5. Outer(l, c, s2, x, e, n - 1)
    BY <1>2, <1>3, <1>4, OuterSame
  <1> QED BY <1>1, <1>2, <1>4, <1>5 DEF AtInner, InDim, n, s2

\* all_inner_partial_outer or both_partial, or the end of the dimension.
LEMMA RaggedOuter ==
    ASSUME NEW l \in Domains, NEW c, Aligned(l, c), NEW s \in [DimsOf(l) -> Int], NEW x, NEW e, NEW d,
           AtInner(l, c, s, x, e, d), OuterRagged(l, e)
    PROVE  LET n == Rank(l)
               before == c[n] < AlignedEnd(l, n)
               s2 == [s EXCEPT ![n] = c[n]]
               m == IF before THEN x[n - 1] ELSE x[n - 1] \cap Fitting(l, c, n)
           IN  /\ before \/ c[n] # l.endVals[n] => AtMaskedBody(l, c, s2, x, e, m, before, d)
               /\ ~(before \/ c[n] # l.endVals[n]) => AtReset(l, n, c, s2, x, e, d)
  <1> DEFINE n == Rank(l)
             before == c[n] < AlignedEnd(l, n)
             s2 == [s EXCEPT ![n] = c[n]]
             m == IF before THEN x[n - 1] ELSE x[n - 1] \cap Fitting(l, c, n)
  <1>1. AtInner(l, c, s2, x, e, d) /\ s2[n] = c[n]
    BY InnerSmeared
  <1>2. m = Passed(l, c, n)
    BY InnerMasks
  <1> HIDE DEF s2, m
  <1>3. ASSUME before \/ c[n] # l.endVals[n] PROVE AtMaskedBody(l, c, s2, x, e, m, before, d)
    <2>1. c[n] < l.endVals[n] /\ (~before => l.endVals[n] <= c[n] + Span(l)[n])
      BY <1>3, InnerEnd
    <2> QED BY <1>1, <1>2, <2>1 DEF AtMaskedBody
  <1>4. ASSUME ~(before \/ c[n] # l.endVals[n]) PROVE AtReset(l, n, c, s2, x, e, d)
    BY <1>1, <1>4, InnerEnd
  <1> QED BY <1>3, <1>4 DEF s2, m

\* full_body.
LEMMA WholeOuter ==
    ASSUME NEW l \in Domains, NEW c, Aligned(l, c), NEW s \in [DimsOf(l) -> Int], NEW x, NEW e, NEW d,
           AtInner(l, c, s, x, e, d), ~OuterRagged(l, e), c[Rank(l)] < AlignedEnd(l, Rank(l))
    PROVE  AtFullBody(l, c, [s EXCEPT ![Rank(l)] = c[Rank(l)]], x, e, LanesOf(l), d)
  <1> DEFINE s2 == [s EXCEPT ![Rank(l)] = c[Rank(l)]]
  <1>1. AtInner(l, c, s2, x, e, d) /\ s2[Rank(l)] = c[Rank(l)]
    BY InnerSmeared
  <1> HIDE DEF s2
  <1>2. AtFullBody(l, c, s2, x, e, LanesOf(l), d)
    BY <1>1 DEF AtFullBody
  <1> QED BY <1>2 DEF s2

\* partial_inner_only, or the end of the dimension.
LEMMA RaggedInner ==
    ASSUME NEW l \in Domains, NEW c, Aligned(l, c), NEW s \in [DimsOf(l) -> Int], NEW x, NEW e, NEW d,
           AtInner(l, c, s, x, e, d), ~OuterRagged(l, e), ~(c[Rank(l)] < AlignedEnd(l, Rank(l)))
    PROVE  LET n == Rank(l)
           IN  /\ c[n] < l.endVals[n] =>
                      AtMaskedBody(l, c, [s EXCEPT ![n] = c[n]], x, e, Fitting(l, c, n), FALSE, d)
               /\ ~(c[n] < l.endVals[n]) => AtReset(l, n, c, s, x, e, d)
  <1> DEFINE n == Rank(l)
             s2 == [s EXCEPT ![n] = c[n]]
             m == Fitting(l, c, n)
  <1>1. AtInner(l, c, s2, x, e, d) /\ s2[n] = c[n]
    BY InnerSmeared
  <1>2. m = Passed(l, c, n)
    BY InnerMasks
  <1> HIDE DEF s2, m
  <1>3. ASSUME c[n] < l.endVals[n] PROVE AtMaskedBody(l, c, s2, x, e, m, FALSE, d)
    <2>1. l.endVals[n] <= c[n] + Span(l)[n]
      BY InnerEnd
    <2> QED BY <1>1, <1>2, <1>3, <2>1 DEF AtMaskedBody
  <1>4. ASSUME ~(c[n] < l.endVals[n]) PROVE AtReset(l, n, c, s, x, e, d)
    BY <1>4, InnerEnd
  <1> QED BY <1>3, <1>4 DEF s2, m

\* The body: some lane runs it, each for an element of its own that has not been
\* done, and the vector is done then.  el are the lanes' elements.
BodyRight(l, c, m, d, el) ==
    /\ m # {} /\ m \subseteq LanesOf(l)
    /\ \A lane \in m : el[lane] \in Space(l) /\ el[lane] \notin d
    /\ \A a, b \in m : el[a] = el[b] => a = b
    /\ d \cup {el[lane] : lane \in m} = Through(l, c, Rank(l))

LEMMA CpuBody ==
    ASSUME NEW l \in Domains, NEW c, Aligned(l, c), NEW s \in [DimsOf(l) -> Int], NEW x, NEW e, NEW m, NEW d,
           NEW el,
           \/ AtFullBody(l, c, s, x, e, m, d)
           \/ \E t \in BOOLEAN : AtMaskedBody(l, c, s, x, e, m, t, d),
           \A lane \in m : el[lane] = [i \in DimsOf(l) |-> s[i] + Offset(l, i, lane)]
    PROVE  BodyRight(l, c, m, d, el)
  <1> DEFINE n == Rank(l)
  <1>1. AtInner(l, c, s, x, e, d) /\ s[n] = c[n] /\ c[n] < l.endVals[n] /\ m = Passed(l, c, n)
    <2>1. CASE AtFullBody(l, c, s, x, e, m, d)
      <3>1. AtInner(l, c, s, x, e, d) /\ ~OuterRagged(l, e) /\ c[n] < AlignedEnd(l, n) /\ s[n] = c[n] /\ m = LanesOf(l)
        BY <2>1 DEF AtFullBody
      <3>2. m = Passed(l, c, n)
        BY <3>1, InnerMasks
      <3>3. c[n] < l.endVals[n]
        BY <3>1, InnerEnd
      <3> QED BY <3>1, <3>2, <3>3
    <2>2. CASE \E t \in BOOLEAN : AtMaskedBody(l, c, s, x, e, m, t, d)
      BY <2>2 DEF AtMaskedBody
    <2> QED BY <2>1, <2>2
  <1>2. InDim(l, n, c, s, x, e) /\ d = Before(l, c, n)
    BY <1>1 DEF AtInner
  <1>3. /\ n \in Nat /\ DimsOf(l) = 1 .. n /\ n \in DimsOf(l)
        /\ c \in [DimsOf(l) -> Int]
        /\ Inside(l, c, n - 1) /\ Outer(l, c, s, x, e, n - 1)
    BY <1>2, InDimFacts
  <1>4. Inside(l, c, n)
    BY <1>1, <1>3, PassedFacts
  <1>5. \A i \in DimsOf(l) : s[i] = c[i] /\ l.startVals[i] <= c[i]
    <2> TAKE i \in DimsOf(l)
    <2>1. l.startVals[i] <= c[i]
      BY EndFacts
    <2>2. CASE i = n
      BY <1>1, <2>1, <2>2
    <2>3. CASE i # n
      <3>1. i \in 1 .. n - 1
        BY <1>3, <2>3
      <3> QED BY <1>3, <2>1, <3>1 DEF Outer
    <2> QED BY <2>2, <2>3
  <1>6. \A lane \in Passed(l, c, Rank(l)) : el[lane] = [i \in DimsOf(l) |-> c[i] + Offset(l, i, lane)]
    <2> TAKE lane \in Passed(l, c, Rank(l))
    <2>1. el[lane] = [i \in DimsOf(l) |-> s[i] + Offset(l, i, lane)]
      BY <1>1
    <2> QED BY <1>5, <2>1
  <1>7. /\ {el[lane] : lane \in m} = {en \in Space(l) : Window(l, c, en, n)}
        /\ \A lane \in m : el[lane] \in Space(l) /\ el[lane] \notin d
        /\ \A a, b \in m : el[a] = el[b] => a = b
    <2> DEFINE on == Passed(l, c, Rank(l))
    <2>1. /\ {el[lane] : lane \in on} = {en \in Space(l) : Window(l, c, en, Rank(l))}
          /\ \A lane \in on : el[lane] \in Space(l) /\ el[lane] \notin Before(l, c, Rank(l))
          /\ \A a, b \in on : el[a] = el[b] => a = b
      BY <1>3, <1>5, <1>6, BodyElements
    <2>2. on = m /\ d = Before(l, c, Rank(l))
      BY <1>1, <1>2
    <2> HIDE DEF on
    <2> QED BY <2>1, <2>2
  <1>8. m # {} /\ m \subseteq LanesOf(l)
    <2>1. n \in 0 .. n
      BY <1>3
    <2> QED BY <1>1, <1>3, <1>4, <2>1, FirstLane DEF Passed
  <1>9. d \cup {en \in Space(l) : Window(l, c, en, n)} = Through(l, c, n)
    BY <1>2 DEF Before, Through
  <1> QED BY <1>7, <1>8, <1>9 DEF BodyRight


\* step_inner_index.
LEMMA InnerStep ==
    ASSUME NEW l \in Domains, NEW c, Aligned(l, c), NEW s, NEW x, NEW e, NEW d, AtInner(l, c, s, x, e, d),
           c[Rank(l)] < AlignedEnd(l, Rank(l))
    PROVE  LET c2 == Stepped(l, c, Rank(l))
           IN  Aligned(l, c2) /\ AtInner(l, c2, s, x, e, Through(l, c, Rank(l)))
  <1> DEFINE n == Rank(l)
             c2 == Stepped(l, c, n)
  <1>1. InDim(l, n, c, s, x, e) /\ d = Before(l, c, n)
    BY DEF AtInner
  <1>2. /\ n \in Nat /\ DimsOf(l) = 1 .. n /\ n \in DimsOf(l)
        /\ c \in [DimsOf(l) -> Int]
        /\ Inside(l, c, n - 1) /\ FromStart(l, c, n) /\ Outer(l, c, s, x, e, n - 1)
    BY <1>1, InDimFacts
  <1>3. Aligned(l, c2)
    BY <1>2, AlignedStep
  <1>4. Before(l, c2, n) = Through(l, c, n)
    BY <1>2, StepPlace
  <1>5. c[n] + Span(l)[n] <= AlignedEnd(l, n)
    BY <1>2, EndFacts
  <1>6. c2[n] = c[n] + Span(l)[n] /\ \A j \in DimsOf(l) \ {n} : c2[j] = c[j]
    BY <1>2 DEF Stepped
  <1> HIDE DEF c2, n
  <1>7. n - 1 \in Nat /\ \A j \in 1 .. n - 1 : j \in DimsOf(l) \ {n}
    BY <1>2
  <1>8. Inside(l, c2, n - 1)
    BY <1>2, <1>6, <1>7, SamePlace
  <1>9. Outer(l, c2, s, x, e, n - 1)
    BY <1>2, <1>6, <1>7, OuterSame
  <1>10. FromStart(l, c2, n)
    <2>1. n + 1 .. n = {}
      BY <1>2
    <2> QED BY <2>1 DEF FromStart, n
  <1>11. AtInner(l, c2, s, x, e, Through(l, c, n))
    BY <1>2, <1>4, <1>5, <1>6, <1>8, <1>9, <1>10 DEF AtInner, InDim, n
  <1> QED BY <1>3, <1>11 DEF c2, n

\* The end of masked_body where the vector was the dimension's last.
LEMMA MaskedEnd ==
    ASSUME NEW l \in Domains, NEW c, Aligned(l, c), NEW s, NEW x, NEW e, NEW m, NEW t, NEW d,
           AtMaskedBody(l, c, s, x, e, m, t, d), ~t
    PROVE  AtReset(l, Rank(l), c, s, x, e, Through(l, c, Rank(l)))
  <1>1. InDim(l, Rank(l), c, s, x, e) /\ l.endVals[Rank(l)] <= c[Rank(l)] + Span(l)[Rank(l)]
    BY DEF AtMaskedBody, AtInner
  <1>2. Rank(l) \in DimsOf(l) /\ c[Rank(l)] \in Int
    BY <1>1, InDimFacts
  <1>3. Through(l, c, Rank(l)) = Through(l, c, Rank(l) - 1)
    BY <1>1, <1>2, ThroughLast
  <1> QED BY <1>1, <1>3 DEF AtReset
-----------------------------------------------------------------------------
(***************************************************************************)
(* The invariant holds initially, and every step keeps it.                 *)
(***************************************************************************)
LEMMA LoopStart == LoopInit => LoopInv
  <1> SUFFICES ASSUME LoopInit PROVE LoopInv
    OBVIOUS
  <1>1. loop \in Domains
    BY DEF LoopInit
  <1>2. /\ Rank(loop) \in Nat \ {0} /\ DimsOf(loop) = 1 .. Rank(loop) /\ 1 \in DimsOf(loop)
        /\ loop.startVals \in [DimsOf(loop) -> Int] /\ loop.oldMask \in SUBSET LanesOf(loop) /\ loop.xe \in BOOLEAN
    <2>1. Rank(loop) \in Nat \ {0} /\ DimsOf(loop) = 1 .. Rank(loop)
      BY <1>1, LoopTypes
    <2> QED BY <1>1, <2>1, DomainFacts
  <1>3. /\ block = IF loop.xe THEN <<"start", 0>> ELSE <<"test", 1>>
        /\ counter = loop.startVals /\ smeared = loop.startVals
        /\ extrasMask = [i \in DimsOf(loop) |-> LanesOf(loop)]
        /\ inExtras = [i \in DimsOf(loop) |-> FALSE]
        /\ mask = IF loop.xe THEN loop.oldMask ELSE LanesOf(loop)
        /\ stepIndex = FALSE
        /\ varying = [i \in DimsOf(loop) |-> [lane \in LanesOf(loop) |-> 0]]
        /\ parked = [i \in DimsOf(loop) |-> {}]
        /\ done = {}
    BY Vocabulary DEF LoopInit
  <1>4. LoopTypeInv
    <2>1. block \in (Blocks \X DimsOf(loop)) \cup {<<"start", 0>>, <<"exit", 0>>, <<"end", 0>>}
      BY <1>2, <1>3 DEF Blocks
    <2>2. extrasMask \in [DimsOf(loop) -> SUBSET LanesOf(loop)] /\ inExtras \in [DimsOf(loop) -> BOOLEAN]
      BY <1>3
    <2>3. varying \in [DimsOf(loop) -> [LanesOf(loop) -> Int]] /\ parked \in [DimsOf(loop) -> SUBSET LanesOf(loop)]
      BY <1>3
    <2>4. mask \in SUBSET LanesOf(loop) /\ stepIndex \in BOOLEAN
      BY <1>2, <1>3
    <2> QED BY <1>1, <1>2, <1>3, <2>1, <2>2, <2>3, <2>4 DEF LoopTypeInv
  <1>5. InnerBlock
    BY <1>3 DEF InnerBlock
  <1>6. ASSUME loop.xe PROVE XeInv
    BY <1>3, <1>6 DEF XeInv
  <1>7. ASSUME ~loop.xe PROVE CpuInv
    <2>1. Aligned(loop, counter)
      <3> SUFFICES ASSUME NEW i \in DimsOf(loop)
                   PROVE  \E m \in Nat : counter[i] = loop.startVals[i] + m * Span(loop)[i]
        BY <1>2, <1>3 DEF Aligned
      <3>1. loop.startVals[i] \in Int /\ Span(loop)[i] \in Nat
        BY <1>1, LoopTypes
      <3>2. counter[i] = loop.startVals[i] + 0 * Span(loop)[i] /\ 0 \in Nat
        BY <1>3, <3>1
      <3> QED BY <3>2
    <2>2. Before(loop, counter, 1) = {}
      <3>1. Before(loop, counter, 1) = Before(loop, counter, 1 - 1)
        BY <1>1, <1>2, <1>3, BeforeStart
      <3>2. 1 .. 1 - 1 = {}
        OBVIOUS
      <3> QED BY <3>1, <3>2 DEF Before, Earlier
    <2>3. AtTest(loop, 1, counter, smeared, extrasMask, inExtras, done)
      <3>1. Inside(loop, counter, 1 - 1) /\ Outer(loop, counter, smeared, extrasMask, inExtras, 1 - 1)
        BY DEF Inside, Outer
      <3>2. FromStart(loop, counter, 1)
        BY <1>3 DEF FromStart
      <3> QED BY <1>2, <1>3, <2>2, <3>1, <3>2 DEF AtTest, InDim
    <2> QED BY <1>3, <1>7, <2>1, <2>3 DEF CpuInv
  <1> QED BY <1>4, <1>5, <1>6, <1>7 DEF LoopInv

\* The blocks of the CPU's code.
CpuBlocks == {"test", "reset", "step", "outer_in_extras", "outer_not_in_extras", "full_body", "masked_body"}

LEMMA CpuBlock ==
    ASSUME LoopInv, block[1] \in CpuBlocks
    PROVE  CpuInv /\ ~loop.xe /\ loop \in Domains /\ block[2] \in DimsOf(loop) /\ block = <<block[1], block[2]>>
  <1>1. ~loop.xe
    BY DEF LoopInv, XeInv, CpuBlocks
  <1>2. CpuInv /\ loop \in Domains /\ LoopTypeInv
    BY <1>1 DEF LoopInv, LoopTypeInv
  <1>3. block \in Blocks \X DimsOf(loop)
    BY <1>2 DEF LoopTypeInv, CpuBlocks
  <1> QED BY <1>1, <1>2, <1>3


\* A step of the CPU's code keeps the invariant if it keeps what CpuInv says.
LEMMA CpuStep ==
    ASSUME LoopInv, ~loop.xe, loop' = loop, CpuInv', InnerBlock', varying' = varying, parked' = parked,
           block' \in (Blocks \X DimsOf(loop)) \cup {<<"start", 0>>, <<"exit", 0>>, <<"end", 0>>},
           smeared' \in [DimsOf(loop) -> Int], extrasMask' \in [DimsOf(loop) -> SUBSET LanesOf(loop)],
           inExtras' \in [DimsOf(loop) -> BOOLEAN], mask' \in SUBSET LanesOf(loop), stepIndex' \in BOOLEAN
    PROVE  LoopInv'
  <1>1. loop \in Domains /\ varying \in [DimsOf(loop) -> [LanesOf(loop) -> Int]] /\ parked \in [DimsOf(loop) -> SUBSET LanesOf(loop)]
    BY DEF LoopInv, LoopTypeInv
  <1>2. counter' \in [DimsOf(loop) -> Int]
    BY DEF CpuInv, Aligned
  <1>3. LoopTypeInv'
    BY <1>1, <1>2 DEF LoopTypeInv
  <1> QED BY <1>3 DEF LoopInv

LEMMA TestOuterKeeps ==
    ASSUME LoopInv, TestOuter PROVE LoopInv'
  <1>1. block[1] = "test" /\ ~loop.xe /\ CpuInv /\ LoopTypeInv /\ loop \in Domains /\ block[2] \in DimsOf(loop)
    BY CpuBlock DEF TestOuter, At, CpuBlocks, LoopInv
  <1>2. PICK i \in DimsOf(loop) : i = block[2]
    BY <1>1
  <1>3. Aligned(loop, counter) /\ AtTest(loop, i, counter, smeared, extrasMask, inExtras, done)
    BY <1>1, <1>2 DEF CpuInv
  <1>4. /\ smeared \in [DimsOf(loop) -> Int] /\ extrasMask \in [DimsOf(loop) -> SUBSET LanesOf(loop)]
        /\ inExtras \in [DimsOf(loop) -> BOOLEAN] /\ counter \in [DimsOf(loop) -> Int]
        /\ mask \in SUBSET LanesOf(loop) /\ stepIndex \in BOOLEAN
    BY <1>1 DEF LoopTypeInv
  <1>5. i < Rank(loop) /\ Rank(loop) \in Nat /\ DimsOf(loop) = 1 .. Rank(loop)
    BY <1>1, <1>2, Vocabulary, LoopTypes DEF TestOuter
  <1>6. /\ loop' = loop /\ counter' = counter /\ done' = done /\ varying' = varying /\ parked' = parked
        /\ mask' = mask /\ stepIndex' = stepIndex
        /\ smeared' = [smeared EXCEPT ![i] = counter[i]]
        /\ block' = IF counter[i] < loop.endVals[i] THEN <<"test", i + 1>> ELSE <<"reset", i>>
    BY <1>2 DEF TestOuter, xeVars
  <1>7. extrasMask' = [extrasMask EXCEPT ![i] = IF i = 1 THEN Fitting(loop, counter, i)
                                                ELSE extrasMask[i - 1] \cap Fitting(loop, counter, i)]
    BY <1>2, Vocabulary DEF TestOuter, Fitting
  <1>8. inExtras' = [inExtras EXCEPT ![i] = Ragged(loop, counter, i) \/ (i > 1 /\ inExtras[i - 1])]
    BY <1>2, Vocabulary DEF TestOuter, Ragged
  <1>9. /\ counter[i] < loop.endVals[i] => AtTest(loop, i + 1, counter, smeared', extrasMask', inExtras', done)
        /\ ~(counter[i] < loop.endVals[i]) => AtReset(loop, i, counter, smeared', extrasMask', inExtras', done)
    BY <1>1, <1>3, <1>4, <1>5, <1>6, <1>7, <1>8, OuterTest
  <1>10. CpuInv' /\ InnerBlock'
    <2>1. CASE counter[i] < loop.endVals[i]
      <3>1. block'[1] = "test" /\ block'[2] = i + 1
        BY <1>6, <2>1
      <3> QED BY <1>3, <1>6, <1>9, <2>1, <3>1 DEF CpuInv, InnerBlock
    <2>2. CASE ~(counter[i] < loop.endVals[i])
      <3>1. block'[1] = "reset" /\ block'[2] = i
        BY <1>6, <2>2
      <3> QED BY <1>3, <1>6, <1>9, <2>2, <3>1 DEF CpuInv, InnerBlock
    <2> QED BY <2>1, <2>2
  <1>11. block' \in Blocks \X DimsOf(loop)
    <2>1. i + 1 \in DimsOf(loop)
      BY <1>5
    <2>2. {"test", "reset"} \subseteq Blocks
      BY DEF Blocks
    <2> QED BY <1>6, <2>1, <2>2
  <1>12. smeared' \in [DimsOf(loop) -> Int] /\ extrasMask' \in [DimsOf(loop) -> SUBSET LanesOf(loop)]
    <2>1. Fitting(loop, counter, i) \in SUBSET LanesOf(loop)
      BY DEF Fitting
    <2>2. i # 1 => i - 1 \in DimsOf(loop)
      BY <1>5
    <2>3. smeared' \in [DimsOf(loop) -> Int]
      BY <1>4, <1>6
    <2> DEFINE xi == IF i = 1 THEN Fitting(loop, counter, i) ELSE extrasMask[i - 1] \cap Fitting(loop, counter, i)
    <2>4. xi \in SUBSET LanesOf(loop)
      BY <1>4, <2>1, <2>2
    <2>5. extrasMask' = [extrasMask EXCEPT ![i] = xi]
      BY <1>7
    <2> HIDE DEF xi
    <2>6. extrasMask' \in [DimsOf(loop) -> SUBSET LanesOf(loop)]
      BY <1>4, <2>4, <2>5
    <2> QED BY <2>3, <2>6
  <1>13. inExtras' \in [DimsOf(loop) -> BOOLEAN]
    <2> DEFINE ei == Ragged(loop, counter, i) \/ (i > 1 /\ inExtras[i - 1])
    <2>1. ei \in BOOLEAN
      OBVIOUS
    <2>2. inExtras' = [inExtras EXCEPT ![i] = ei]
      BY <1>8
    <2> HIDE DEF ei
    <2> QED BY <1>4, <2>1, <2>2
  <1> QED BY <1>1, <1>4, <1>6, <1>10, <1>11, <1>12, <1>13, CpuStep

LEMMA TestInnerKeeps ==
    ASSUME LoopInv, TestInner PROVE LoopInv'
  <1>1. block = <<"test", Rank(loop)>>
    BY Vocabulary DEF TestInner
  <1>2. ~loop.xe /\ CpuInv /\ LoopTypeInv /\ loop \in Domains /\ Rank(loop) \in DimsOf(loop)
    BY <1>1, CpuBlock DEF CpuBlocks, LoopInv
  <1>3. Aligned(loop, counter) /\ AtTest(loop, Rank(loop), counter, smeared, extrasMask, inExtras, done)
    BY <1>1, <1>2 DEF CpuInv
  <1>4. /\ smeared \in [DimsOf(loop) -> Int] /\ extrasMask \in [DimsOf(loop) -> SUBSET LanesOf(loop)]
        /\ inExtras \in [DimsOf(loop) -> BOOLEAN]
        /\ mask \in SUBSET LanesOf(loop) /\ stepIndex \in BOOLEAN
    BY <1>2 DEF LoopTypeInv
  <1>5. /\ loop' = loop /\ counter' = counter /\ done' = done /\ varying' = varying /\ parked' = parked
        /\ mask' = mask /\ stepIndex' = stepIndex /\ smeared' = smeared /\ extrasMask' = extrasMask /\ inExtras' = inExtras
        /\ block' = IF OuterRagged(loop, inExtras) THEN <<"outer_in_extras", Rank(loop)>>
                                                   ELSE <<"outer_not_in_extras", Rank(loop)>>
    BY Vocabulary DEF TestInner, OuterRagged, cpuVars, xeVars
  <1>6. AtInner(loop, counter, smeared, extrasMask, inExtras, done)
    BY <1>2, <1>3, InnerTest
  <1>7. CpuInv' /\ InnerBlock'
    <2>1. CASE OuterRagged(loop, inExtras)
      <3>1. block'[1] = "outer_in_extras" /\ block'[2] = Rank(loop)
        BY <1>5, <2>1
      <3> QED BY <1>3, <1>5, <1>6, <2>1, <3>1 DEF CpuInv, InnerBlock
    <2>2. CASE ~OuterRagged(loop, inExtras)
      <3>1. block'[1] = "outer_not_in_extras" /\ block'[2] = Rank(loop)
        BY <1>5, <2>2
      <3> QED BY <1>3, <1>5, <1>6, <2>2, <3>1 DEF CpuInv, InnerBlock
    <2> QED BY <2>1, <2>2
  <1>8. block' \in Blocks \X DimsOf(loop)
    <2>1. {"outer_in_extras", "outer_not_in_extras"} \subseteq Blocks
      BY DEF Blocks
    <2> QED BY <1>2, <1>5, <2>1
  <1> QED BY <1>2, <1>4, <1>5, <1>7, <1>8, CpuStep


LEMMA ResetKeeps ==
    ASSUME LoopInv, Reset PROVE LoopInv'
  <1>1. block[1] = "reset" /\ ~loop.xe /\ CpuInv /\ LoopTypeInv /\ loop \in Domains /\ block[2] \in DimsOf(loop)
    BY CpuBlock DEF Reset, At, CpuBlocks, LoopInv
  <1>2. PICK i \in DimsOf(loop) : i = block[2]
    BY <1>1
  <1>3. Aligned(loop, counter) /\ AtReset(loop, i, counter, smeared, extrasMask, inExtras, done)
    BY <1>1, <1>2 DEF CpuInv
  <1>4. /\ smeared \in [DimsOf(loop) -> Int] /\ extrasMask \in [DimsOf(loop) -> SUBSET LanesOf(loop)]
        /\ inExtras \in [DimsOf(loop) -> BOOLEAN]
        /\ mask \in SUBSET LanesOf(loop) /\ stepIndex \in BOOLEAN
    BY <1>1 DEF LoopTypeInv
  <1>5. /\ loop' = loop /\ done' = done /\ varying' = varying /\ parked' = parked
        /\ mask' = mask /\ stepIndex' = stepIndex /\ smeared' = smeared /\ inExtras' = inExtras
    BY DEF Reset, xeVars
  <1>6. /\ i = 1 => done = Space(loop)
        /\ i # 1 => /\ Aligned(loop, [counter EXCEPT ![i] = loop.startVals[i]])
                    /\ AtStep(loop, i - 1, [counter EXCEPT ![i] = loop.startVals[i]], smeared,
                              [extrasMask EXCEPT ![i] = LanesOf(loop)], inExtras, done)
    BY <1>1, <1>3, <1>4, ResetStep
  <1>7. CASE i = 1
    <2>1. block' = <<"exit", 0>> /\ counter' = counter /\ extrasMask' = extrasMask
      BY <1>2, <1>7 DEF Reset
    <2>2. CpuInv'
      BY <1>3, <1>5, <1>6, <1>7, <2>1 DEF CpuInv
    <2>3. InnerBlock'
      BY <2>1 DEF InnerBlock
    <2> QED BY <1>1, <1>4, <1>5, <2>1, <2>2, <2>3, CpuStep
  <1>8. CASE i # 1
    <2>1. /\ block' = <<"step", i - 1>>
          /\ counter' = [counter EXCEPT ![i] = loop.startVals[i]]
          /\ extrasMask' = [extrasMask EXCEPT ![i] = LanesOf(loop)]
      BY <1>2, <1>8, Vocabulary DEF Reset
    <2>2. Aligned(loop, counter') /\ AtStep(loop, i - 1, counter', smeared, extrasMask', inExtras, done)
      BY <1>6, <1>8, <2>1
    <2>3. block'[1] = "step" /\ block'[2] = i - 1
      BY <2>1
    <2>4. CpuInv'
      BY <1>5, <2>2, <2>3 DEF CpuInv
    <2>5. InnerBlock'
      BY <2>3 DEF InnerBlock
    <2>6. block' \in Blocks \X DimsOf(loop)
      <3>1. i - 1 \in DimsOf(loop)
        BY <2>2 DEF AtStep, InDim
      <3>2. "step" \in Blocks
        BY DEF Blocks
      <3> QED BY <2>1, <3>1, <3>2
    <2>7. extrasMask' \in [DimsOf(loop) -> SUBSET LanesOf(loop)]
      BY <1>4, <2>1
    <2> QED BY <1>1, <1>4, <1>5, <2>4, <2>5, <2>6, <2>7, CpuStep
  <1> QED BY <1>7, <1>8

LEMMA StepKeeps ==
    ASSUME LoopInv, Step PROVE LoopInv'
  <1>1. block[1] = "step" /\ ~loop.xe /\ CpuInv /\ LoopTypeInv /\ loop \in Domains /\ block[2] \in DimsOf(loop)
    BY CpuBlock DEF Step, At, CpuBlocks, LoopInv
  <1>2. PICK i \in DimsOf(loop) : i = block[2]
    BY <1>1
  <1>3. Aligned(loop, counter) /\ AtStep(loop, i, counter, smeared, extrasMask, inExtras, done)
    BY <1>1, <1>2 DEF CpuInv
  <1>4. /\ smeared \in [DimsOf(loop) -> Int] /\ extrasMask \in [DimsOf(loop) -> SUBSET LanesOf(loop)]
        /\ inExtras \in [DimsOf(loop) -> BOOLEAN]
        /\ mask \in SUBSET LanesOf(loop) /\ stepIndex \in BOOLEAN
    BY <1>1 DEF LoopTypeInv
  <1>5. /\ loop' = loop /\ done' = done /\ varying' = varying /\ parked' = parked
        /\ mask' = mask /\ stepIndex' = stepIndex /\ smeared' = smeared /\ extrasMask' = extrasMask /\ inExtras' = inExtras
        /\ block' = <<"test", i>>
    BY <1>2 DEF Step, xeVars
  <1>6. counter' = Stepped(loop, counter, i)
    BY <1>2, Vocabulary DEF Step, Stepped
  <1>7. Aligned(loop, counter') /\ AtTest(loop, i, counter', smeared, extrasMask, inExtras, done)
    BY <1>1, <1>3, <1>6, StepTest
  <1>8. block'[1] = "test" /\ block'[2] = i
    BY <1>5
  <1>9. CpuInv'
    BY <1>5, <1>7, <1>8 DEF CpuInv
  <1>10. InnerBlock'
    BY <1>8 DEF InnerBlock
  <1>11. block' \in Blocks \X DimsOf(loop)
    BY <1>5 DEF Blocks
  <1> QED BY <1>1, <1>4, <1>5, <1>9, <1>10, <1>11, CpuStep

LEMMA OuterInExtrasKeeps ==
    ASSUME LoopInv, OuterInExtras PROVE LoopInv'
  <1> DEFINE n == Rank(loop)
             before == counter[n] < AlignedEnd(loop, n)
  <1>1. block[1] = "outer_in_extras" /\ ~loop.xe /\ CpuInv /\ LoopTypeInv /\ loop \in Domains
    BY CpuBlock DEF OuterInExtras, At, CpuBlocks, LoopInv
  <1>2. Aligned(loop, counter) /\ AtInner(loop, counter, smeared, extrasMask, inExtras, done) /\ OuterRagged(loop, inExtras)
    BY <1>1 DEF CpuInv
  <1>3. n \in DimsOf(loop) /\ n - 1 \in DimsOf(loop) /\ n \in Nat
    <2>1. n \in Nat \ {0} /\ DimsOf(loop) = 1 .. n
      BY <1>1, LoopTypes
    <2> QED BY <1>2, <2>1 DEF OuterRagged
  <1>4. /\ smeared \in [DimsOf(loop) -> Int] /\ extrasMask \in [DimsOf(loop) -> SUBSET LanesOf(loop)]
        /\ inExtras \in [DimsOf(loop) -> BOOLEAN] /\ counter \in [DimsOf(loop) -> Int]
        /\ mask \in SUBSET LanesOf(loop) /\ stepIndex \in BOOLEAN
    BY <1>1 DEF LoopTypeInv
  <1>5. /\ loop' = loop /\ counter' = counter /\ done' = done /\ varying' = varying /\ parked' = parked
        /\ extrasMask' = extrasMask /\ inExtras' = inExtras
        /\ smeared' = [smeared EXCEPT ![n] = counter[n]]
        /\ stepIndex' = before
        /\ block' = IF before \/ counter[n] # loop.endVals[n] THEN <<"masked_body", n>> ELSE <<"reset", n>>
    BY Vocabulary DEF OuterInExtras, xeVars
  <1>6. mask' = IF before THEN extrasMask[n - 1] ELSE extrasMask[n - 1] \cap Fitting(loop, counter, n)
    BY Vocabulary DEF OuterInExtras, Fitting
  <1>7. /\ before \/ counter[n] # loop.endVals[n] =>
               AtMaskedBody(loop, counter, smeared', extrasMask, inExtras, mask', stepIndex', done)
        /\ ~(before \/ counter[n] # loop.endVals[n]) => AtReset(loop, n, counter, smeared', extrasMask, inExtras, done)
    BY <1>1, <1>2, <1>4, <1>5, <1>6, RaggedOuter
  <1>8. CpuInv' /\ InnerBlock' /\ block' \in Blocks \X DimsOf(loop)
    <2>1. CASE before \/ counter[n] # loop.endVals[n]
      <3>1. block' = <<"masked_body", n>> /\ block'[1] = "masked_body" /\ block'[2] = n
        BY <1>5, <2>1
      <3>2. CpuInv' /\ InnerBlock'
        BY <1>2, <1>5, <1>7, <2>1, <3>1 DEF CpuInv, InnerBlock
      <3>3. block' \in Blocks \X DimsOf(loop)
        BY <1>3, <3>1 DEF Blocks
      <3> QED BY <3>2, <3>3
    <2>2. CASE ~(before \/ counter[n] # loop.endVals[n])
      <3>1. block' = <<"reset", n>> /\ block'[1] = "reset" /\ block'[2] = n
        BY <1>5, <2>2
      <3>2. CpuInv' /\ InnerBlock'
        BY <1>2, <1>5, <1>7, <2>2, <3>1 DEF CpuInv, InnerBlock
      <3>3. block' \in Blocks \X DimsOf(loop)
        BY <1>3, <3>1 DEF Blocks
      <3> QED BY <3>2, <3>3
    <2> QED BY <2>1, <2>2
  <1>9. smeared' \in [DimsOf(loop) -> Int] /\ stepIndex' \in BOOLEAN /\ mask' \in SUBSET LanesOf(loop)
    <2>1. smeared' \in [DimsOf(loop) -> Int]
      BY <1>3, <1>4, <1>5
    <2>2. stepIndex' \in BOOLEAN
      BY <1>5
    <2>3. mask' \in SUBSET LanesOf(loop)
      BY <1>3, <1>4, <1>6
    <2> QED BY <2>1, <2>2, <2>3
  <1> QED BY <1>1, <1>4, <1>5, <1>8, <1>9, CpuStep


LEMMA FullVectorKeeps ==
    ASSUME LoopInv, FullVector PROVE LoopInv'
  <1> DEFINE n == Rank(loop)
  <1>1. block[1] = "outer_not_in_extras" /\ ~loop.xe /\ CpuInv /\ LoopTypeInv /\ loop \in Domains
    BY CpuBlock DEF FullVector, At, CpuBlocks, LoopInv
  <1>2. Aligned(loop, counter) /\ AtInner(loop, counter, smeared, extrasMask, inExtras, done) /\ ~OuterRagged(loop, inExtras)
    BY <1>1 DEF CpuInv
  <1>3. n \in DimsOf(loop)
    BY <1>1, LoopTypes
  <1>4. /\ smeared \in [DimsOf(loop) -> Int] /\ extrasMask \in [DimsOf(loop) -> SUBSET LanesOf(loop)]
        /\ inExtras \in [DimsOf(loop) -> BOOLEAN] /\ counter \in [DimsOf(loop) -> Int] /\ stepIndex \in BOOLEAN
    BY <1>1 DEF LoopTypeInv
  <1>5. /\ loop' = loop /\ counter' = counter /\ done' = done /\ varying' = varying /\ parked' = parked
        /\ extrasMask' = extrasMask /\ inExtras' = inExtras /\ stepIndex' = stepIndex
        /\ smeared' = [smeared EXCEPT ![n] = counter[n]]
        /\ mask' = LanesOf(loop)
        /\ block' = <<"full_body", n>>
        /\ counter[n] < AlignedEnd(loop, n)
    BY Vocabulary DEF FullVector, xeVars
  <1>6. AtFullBody(loop, counter, smeared', extrasMask, inExtras, mask', done)
    BY <1>1, <1>2, <1>4, <1>5, WholeOuter
  <1>7. block'[1] = "full_body" /\ block'[2] = n
    BY <1>5
  <1>8. CpuInv' /\ InnerBlock'
    BY <1>2, <1>5, <1>6, <1>7 DEF CpuInv, InnerBlock
  <1>9. block' \in Blocks \X DimsOf(loop)
    BY <1>3, <1>5 DEF Blocks
  <1>10. smeared' \in [DimsOf(loop) -> Int] /\ mask' \in SUBSET LanesOf(loop)
    BY <1>3, <1>4, <1>5
  <1> QED BY <1>1, <1>4, <1>5, <1>8, <1>9, <1>10, CpuStep

LEMMA PartialInnerKeeps ==
    ASSUME LoopInv, PartialInner PROVE LoopInv'
  <1> DEFINE n == Rank(loop)
  <1>1. block[1] = "outer_not_in_extras" /\ ~loop.xe /\ CpuInv /\ LoopTypeInv /\ loop \in Domains
    BY CpuBlock DEF PartialInner, At, CpuBlocks, LoopInv
  <1>2. Aligned(loop, counter) /\ AtInner(loop, counter, smeared, extrasMask, inExtras, done) /\ ~OuterRagged(loop, inExtras)
    BY <1>1 DEF CpuInv
  <1>3. n \in DimsOf(loop)
    BY <1>1, LoopTypes
  <1>4. /\ smeared \in [DimsOf(loop) -> Int] /\ extrasMask \in [DimsOf(loop) -> SUBSET LanesOf(loop)]
        /\ inExtras \in [DimsOf(loop) -> BOOLEAN] /\ counter \in [DimsOf(loop) -> Int]
        /\ mask \in SUBSET LanesOf(loop) /\ stepIndex \in BOOLEAN
    BY <1>1 DEF LoopTypeInv
  <1>5. /\ loop' = loop /\ counter' = counter /\ done' = done /\ varying' = varying /\ parked' = parked
        /\ extrasMask' = extrasMask /\ inExtras' = inExtras
    BY DEF PartialInner, xeVars
  <1>6. ~(counter[n] < AlignedEnd(loop, n))
    <2>1. counter[n] >= AlignedEnd(loop, n)
      BY Vocabulary DEF PartialInner
    <2>2. counter[n] \in Int /\ AlignedEnd(loop, n) \in Int
      BY <1>1, <1>2, <1>3, EndFacts
    <2> QED BY <2>1, <2>2
  <1>7. /\ counter[n] < loop.endVals[n] =>
               AtMaskedBody(loop, counter, [smeared EXCEPT ![n] = counter[n]], extrasMask, inExtras,
                            Fitting(loop, counter, n), FALSE, done)
        /\ ~(counter[n] < loop.endVals[n]) => AtReset(loop, n, counter, smeared, extrasMask, inExtras, done)
    BY <1>1, <1>2, <1>4, <1>6, RaggedInner
  <1>8. CASE counter[n] < loop.endVals[n]
    <2>1. /\ smeared' = [smeared EXCEPT ![n] = counter[n]]
          /\ stepIndex' = FALSE
          /\ block' = <<"masked_body", n>> /\ block'[1] = "masked_body" /\ block'[2] = n
      BY <1>8, Vocabulary DEF PartialInner
    <2>2. mask' = Fitting(loop, counter, n)
      BY <1>8, Vocabulary DEF PartialInner, Fitting
    <2>3. AtMaskedBody(loop, counter, smeared', extrasMask, inExtras, mask', stepIndex', done)
      BY <1>7, <1>8, <2>1, <2>2
    <2>4. CpuInv' /\ InnerBlock'
      BY <1>2, <1>5, <2>1, <2>3 DEF CpuInv, InnerBlock
    <2>5. block' \in Blocks \X DimsOf(loop)
      BY <1>3, <2>1 DEF Blocks
    <2>6. smeared' \in [DimsOf(loop) -> Int] /\ mask' \in SUBSET LanesOf(loop) /\ stepIndex' \in BOOLEAN
      BY <1>3, <1>4, <2>1, <2>2 DEF Fitting
    <2> QED BY <1>1, <1>4, <1>5, <2>4, <2>5, <2>6, CpuStep
  <1>9. CASE ~(counter[n] < loop.endVals[n])
    <2>1. /\ smeared' = smeared /\ mask' = mask /\ stepIndex' = stepIndex
          /\ block' = <<"reset", n>> /\ block'[1] = "reset" /\ block'[2] = n
      BY <1>9, Vocabulary DEF PartialInner
    <2>2. CpuInv' /\ InnerBlock'
      BY <1>2, <1>5, <1>7, <1>9, <2>1 DEF CpuInv, InnerBlock
    <2>3. block' \in Blocks \X DimsOf(loop)
      BY <1>3, <2>1 DEF Blocks
    <2> QED BY <1>1, <1>4, <1>5, <2>1, <2>2, <2>3, CpuStep
  <1> QED BY <1>8, <1>9

\* The elements of the lanes, on a CPU and on Xe.
Elements == [lane \in LanesOf(loop) |-> Element(lane)]

LEMMA ElementFacts ==
    /\ ~loop.xe => \A lane \in LanesOf(loop) : Elements[lane] = [i \in DimsOf(loop) |-> smeared[i] + Offset(loop, i, lane)]
    /\ loop.xe => \A lane \in LanesOf(loop) : Elements[lane] = [i \in DimsOf(loop) |-> varying[i][lane]]
    /\ \A lane \in LanesOf(loop) : Elements[lane] = Element(lane)
  BY Vocabulary DEF Elements, Element

\* What a run of the body means.
LEMMA CpuBodyRun ==
    ASSUME LoopInv, block[1] \in {"full_body", "masked_body"}
    PROVE  BodyRight(loop, counter, mask, done, Elements)
  <1>1. ~loop.xe /\ CpuInv /\ LoopTypeInv /\ loop \in Domains
    BY CpuBlock DEF CpuBlocks, LoopInv
  <1>2. smeared \in [DimsOf(loop) -> Int] /\ mask \subseteq LanesOf(loop) /\ stepIndex \in BOOLEAN
    BY <1>1 DEF LoopTypeInv
  <1>3. /\ Aligned(loop, counter)
        /\ \/ AtFullBody(loop, counter, smeared, extrasMask, inExtras, mask, done)
           \/ \E t \in BOOLEAN : AtMaskedBody(loop, counter, smeared, extrasMask, inExtras, mask, t, done)
    BY <1>1, <1>2 DEF CpuInv
  <1>4. \A lane \in mask : Elements[lane] = [i \in DimsOf(loop) |-> smeared[i] + Offset(loop, i, lane)]
    BY <1>1, <1>2, ElementFacts
  <1> HIDE DEF Elements
  <1> QED BY <1>1, <1>2, <1>3, <1>4, CpuBody

LEMMA BodyDone ==
    ASSUME NEW c, BodyRight(loop, c, mask, done, Elements), RunBody
    PROVE  done' = Through(loop, c, Rank(loop))
  <1>1. {Element(lane) : lane \in mask} = {Elements[lane] : lane \in mask}
    BY ElementFacts DEF BodyRight
  <1> QED BY <1>1 DEF BodyRight, RunBody

LEMMA FullBodyKeeps ==
    ASSUME LoopInv, FullBody PROVE LoopInv'
  <1> DEFINE n == Rank(loop)
  <1>1. block[1] = "full_body" /\ ~loop.xe /\ CpuInv /\ LoopTypeInv /\ loop \in Domains
    BY CpuBlock DEF FullBody, At, CpuBlocks, LoopInv
  <1>2. Aligned(loop, counter) /\ AtFullBody(loop, counter, smeared, extrasMask, inExtras, mask, done)
    BY <1>1 DEF CpuInv
  <1>3. /\ AtInner(loop, counter, smeared, extrasMask, inExtras, done) /\ ~OuterRagged(loop, inExtras)
        /\ counter[n] < AlignedEnd(loop, n)
    BY <1>2 DEF AtFullBody
  <1>4. /\ smeared \in [DimsOf(loop) -> Int] /\ extrasMask \in [DimsOf(loop) -> SUBSET LanesOf(loop)]
        /\ inExtras \in [DimsOf(loop) -> BOOLEAN]
        /\ mask \in SUBSET LanesOf(loop) /\ stepIndex \in BOOLEAN
    BY <1>1 DEF LoopTypeInv
  <1>5. /\ loop' = loop /\ varying' = varying /\ parked' = parked /\ mask' = mask /\ stepIndex' = stepIndex
        /\ smeared' = smeared /\ extrasMask' = extrasMask /\ inExtras' = inExtras
        /\ done' = done \cup {Element(lane) : lane \in mask}
        /\ block' = <<"outer_not_in_extras", n>> /\ block'[1] = "outer_not_in_extras" /\ block'[2] = n
    BY Vocabulary DEF FullBody, RunBody, xeVars
  <1>6. counter' = Stepped(loop, counter, n)
    BY Vocabulary DEF FullBody, StepInnerIndex, Stepped
  <1>7. done' = Through(loop, counter, n)
    BY <1>1, CpuBodyRun, BodyDone DEF FullBody
  <1>8. Aligned(loop, counter') /\ AtInner(loop, counter', smeared, extrasMask, inExtras, done')
    BY <1>1, <1>2, <1>3, <1>6, <1>7, InnerStep
  <1>9. CpuInv' /\ InnerBlock'
    BY <1>3, <1>5, <1>8 DEF CpuInv, InnerBlock
  <1>10. block' \in Blocks \X DimsOf(loop)
    <2>1. n \in DimsOf(loop)
      BY <1>1, LoopTypes
    <2> QED BY <1>5, <2>1 DEF Blocks
  <1> QED BY <1>1, <1>4, <1>5, <1>9, <1>10, CpuStep

LEMMA MaskedBodyKeeps ==
    ASSUME LoopInv, MaskedBody PROVE LoopInv'
  <1> DEFINE n == Rank(loop)
  <1>1. block[1] = "masked_body" /\ ~loop.xe /\ CpuInv /\ LoopTypeInv /\ loop \in Domains
    BY CpuBlock DEF MaskedBody, At, CpuBlocks, LoopInv
  <1>2. Aligned(loop, counter) /\ AtMaskedBody(loop, counter, smeared, extrasMask, inExtras, mask, stepIndex, done)
    BY <1>1 DEF CpuInv
  <1>3. /\ smeared \in [DimsOf(loop) -> Int] /\ extrasMask \in [DimsOf(loop) -> SUBSET LanesOf(loop)]
        /\ inExtras \in [DimsOf(loop) -> BOOLEAN]
        /\ mask \in SUBSET LanesOf(loop) /\ stepIndex \in BOOLEAN
    BY <1>1 DEF LoopTypeInv
  <1>4. /\ loop' = loop /\ varying' = varying /\ parked' = parked /\ mask' = mask /\ stepIndex' = stepIndex
        /\ smeared' = smeared /\ extrasMask' = extrasMask /\ inExtras' = inExtras
        /\ done' = done \cup {Element(lane) : lane \in mask}
    BY DEF MaskedBody, RunBody, xeVars
  <1>5. done' = Through(loop, counter, n)
    BY <1>1, CpuBodyRun, BodyDone DEF MaskedBody
  <1>6. n \in DimsOf(loop)
    BY <1>1, LoopTypes
  <1>7. CASE stepIndex
    <2>1. /\ counter' = Stepped(loop, counter, n)
          /\ block' = <<"outer_in_extras", n>> /\ block'[1] = "outer_in_extras" /\ block'[2] = n
      BY <1>7, Vocabulary DEF MaskedBody, StepInnerIndex, Stepped
    <2>2. /\ AtInner(loop, counter, smeared, extrasMask, inExtras, done) /\ OuterRagged(loop, inExtras)
          /\ counter[n] < AlignedEnd(loop, n)
      BY <1>2, <1>7 DEF AtMaskedBody
    <2>3. Aligned(loop, counter') /\ AtInner(loop, counter', smeared, extrasMask, inExtras, done')
      BY <1>1, <1>2, <1>5, <2>1, <2>2, InnerStep
    <2>4. CpuInv' /\ InnerBlock'
      BY <1>4, <2>1, <2>2, <2>3 DEF CpuInv, InnerBlock
    <2>5. block' \in Blocks \X DimsOf(loop)
      BY <1>6, <2>1 DEF Blocks
    <2> QED BY <1>1, <1>3, <1>4, <2>4, <2>5, CpuStep
  <1>8. CASE ~stepIndex
    <2>1. counter' = counter /\ block' = <<"reset", n>> /\ block'[1] = "reset" /\ block'[2] = n
      BY <1>8, Vocabulary DEF MaskedBody
    <2>2. AtReset(loop, n, counter, smeared, extrasMask, inExtras, done')
      BY <1>1, <1>2, <1>5, <1>8, MaskedEnd
    <2>3. CpuInv' /\ InnerBlock'
      BY <1>2, <1>4, <2>1, <2>2 DEF CpuInv, InnerBlock
    <2>4. block' \in Blocks \X DimsOf(loop)
      BY <1>6, <2>1 DEF Blocks
    <2> QED BY <1>1, <1>3, <1>4, <2>3, <2>4, CpuStep
  <1> QED BY <1>7, <1>8

-----------------------------------------------------------------------------
(***************************************************************************)
(* The steps of the Xe code, as facts about the values.                    *)
(***************************************************************************)
LEMMA XeInDimFacts ==
    ASSUME NEW l \in Domains, NEW c, Aligned(l, c), NEW i, NEW p, XeInDim(l, i, c, p)
    PROVE  /\ Rank(l) \in Nat /\ DimsOf(l) = 1 .. Rank(l) /\ i \in DimsOf(l) /\ i \in 1 .. Rank(l)
           /\ c \in [DimsOf(l) -> Int] /\ c[i] \in Int
           /\ Inside(l, c, i - 1) /\ FromStart(l, c, i)
           /\ ParkedUpTo(l, c, p, i - 1) /\ NoneParked(l, p, i)
  <1>1. i \in DimsOf(l) /\ c \in [DimsOf(l) -> Int]
    BY DEF XeInDim, Aligned
  <1>2. Rank(l) \in Nat \ {0} /\ DimsOf(l) = 1 .. Rank(l)
    BY LoopTypes
  <1>3. Inside(l, c, i - 1) /\ FromStart(l, c, i) /\ ParkedUpTo(l, c, p, i - 1) /\ NoneParked(l, p, i)
    BY DEF XeInDim
  <1>4. i \in 1 .. Rank(l) /\ c[i] \in Int
    BY <1>1, <1>2
  <1> QED BY <1>1, <1>2, <1>3, <1>4

\* A lane that does not wait has passed the tests.
LEMMA NotParked ==
    ASSUME NEW l \in Domains, NEW c, NEW p, NEW i \in 0 .. Rank(l), ParkedUpTo(l, c, p, i),
           NEW lane \in LanesOf(l), \A j \in 1 .. i : lane \notin p[j]
    PROVE  lane \in Passed(l, c, i)
  <1> DEFINE S == {k \in 0 .. i : lane \in Passed(l, c, k)}
  <1>1. i \in Nat /\ Rank(l) \in Nat
    BY LoopTypes
  <1>2. 0 \in S
    <2>1. 0 \in 0 .. i
      BY <1>1
    <2>2. lane \in Passed(l, c, 0)
      BY DEF Passed
    <2> QED BY <2>1, <2>2
  <1>3. ASSUME NEW k \in 0 .. i - 1, k \in S PROVE k + 1 \in S
    <2>1. k + 1 \in 1 .. i /\ (k + 1) - 1 = k /\ k + 1 \in 0 .. i
      BY <1>1
    <2>2. p[k + 1] = Passed(l, c, k) \ Passed(l, c, k + 1)
      BY <2>1 DEF ParkedUpTo
    <2> QED BY <1>3, <2>1, <2>2
  <1> HIDE DEF S
  <1>4. 0 .. i \subseteq S
    BY <1>1, <1>2, <1>3, UpTo
  <1>5. i \in 0 .. i
    BY <1>1
  <1>6. i \in S
    BY <1>4, <1>5
  <1> QED BY <1>6 DEF S

\* A lane that waits is not among those that have passed further in.
LEMMA ParkedOff ==
    ASSUME NEW l \in Domains, NEW c, NEW p, NEW i \in DimsOf(l), ParkedUpTo(l, c, p, i),
           NEW j \in 1 .. i, NEW lane \in p[j]
    PROVE  lane \notin Passed(l, c, i)
  <1>1. p[j] = Passed(l, c, j - 1) \ Passed(l, c, j)
    BY DEF ParkedUpTo
  <1>2. j \in 0 .. i
    BY LoopTypes
  <1>3. Passed(l, c, i) \subseteq Passed(l, c, j)
    BY <1>2, PassedFacts
  <1> QED BY <1>1, <1>3

\* What the waiting lanes are depends on the counters up to the dimension.
LEMMA ParkedSame ==
    ASSUME NEW l, NEW c, NEW c2, NEW p, NEW k \in Nat, \A j \in 1 .. k : c2[j] = c[j]
    PROVE  /\ ParkedUpTo(l, c2, p, k) <=> ParkedUpTo(l, c, p, k)
           /\ \A j \in 0 .. k : Passed(l, c2, j) = Passed(l, c, j)
  <1>1. \A j \in 0 .. k : Passed(l, c2, j) = Passed(l, c, j)
    <2> TAKE j \in 0 .. k
    <2>1. j \in Nat /\ \A r \in 1 .. j : r \in 1 .. k
      OBVIOUS
    <2> QED BY <2>1, SamePlace
  <1>2. \A j \in 1 .. k : j - 1 \in 0 .. k /\ j \in 0 .. k
    OBVIOUS
  <1> QED BY <1>1, <1>2 DEF ParkedUpTo

\* foreach_test: the lanes that pass it are those inside the domain.
LEMMA XePassed ==
    ASSUME NEW l \in Domains, NEW c, Aligned(l, c), NEW i, NEW m, NEW p, NEW v, NEW d,
           AtXeTest(l, i, c, m, p, v, d)
    PROVE  {lane \in m : v[i][lane] < l.endVals[i]} = Passed(l, c, i)
  <1>1. XeInDim(l, i, c, p) /\ p[i] \subseteq Passed(l, c, i - 1) \ Passed(l, c, i)
        /\ m = Passed(l, c, i - 1) \ p[i] /\ LaneCounters(l, c, v, p, 0)
    BY DEF AtXeTest
  <1>2. /\ Rank(l) \in Nat /\ DimsOf(l) = 1 .. Rank(l) /\ i \in DimsOf(l) /\ i \in 1 .. Rank(l)
        /\ ParkedUpTo(l, c, p, i - 1)
    BY <1>1, XeInDimFacts
  <1>3. Passed(l, c, i) = {lane \in Passed(l, c, i - 1) : c[i] + Offset(l, i, lane) < l.endVals[i]}
        /\ Passed(l, c, i - 1) \subseteq LanesOf(l)
    <2>1. i - 1 \in 0 .. i
      BY <1>2
    <2> QED BY <1>2, <2>1, PassedFacts
  <1>4. ASSUME NEW lane \in m PROVE v[i][lane] = c[i] + Offset(l, i, lane)
    <2>1. lane \in LanesOf(l) /\ lane \in Passed(l, c, i - 1) /\ lane \notin p[i]
      BY <1>1, <1>3
    <2>2. ASSUME NEW j \in 1 .. i PROVE lane \notin p[j]
      <3>1. CASE j = i
        BY <2>1, <3>1
      <3>2. CASE j # i
        <4>1. j \in 1 .. i - 1 /\ i - 1 \in DimsOf(l)
          BY <1>2, <3>2
        <4> QED BY <1>2, <2>1, <4>1, ParkedOff
      <3> QED BY <3>1, <3>2
    <2>3. i # 0
      BY <1>2
    <2> QED BY <1>1, <1>2, <2>1, <2>2, <2>3 DEF LaneCounters
  <1> QED BY <1>1, <1>3, <1>4


\* Some lane passes the test: the others wait.
LEMMA XeTestOn ==
    ASSUME NEW l \in Domains, NEW c, Aligned(l, c), NEW i, NEW m, NEW p \in [DimsOf(l) -> SUBSET LanesOf(l)],
           NEW v, NEW d, AtXeTest(l, i, c, m, p, v, d), Passed(l, c, i) # {}
    PROVE  LET p2 == [p EXCEPT ![i] = p[i] \cup (m \ Passed(l, c, i))]
           IN  /\ i < Rank(l) => AtXeTest(l, i + 1, c, Passed(l, c, i), p2, v, d)
               /\ i = Rank(l) => AtXeBody(l, c, Passed(l, c, i), p2, v, d)
  <1> DEFINE p2 == [p EXCEPT ![i] = p[i] \cup (m \ Passed(l, c, i))]
             on == Passed(l, c, i)
  <1>1. XeInDim(l, i, c, p) /\ p[i] \subseteq Passed(l, c, i - 1) \ on
        /\ m = Passed(l, c, i - 1) \ p[i] /\ LaneCounters(l, c, v, p, 0) /\ d = Before(l, c, i)
    BY DEF AtXeTest
  <1>2. /\ Rank(l) \in Nat /\ DimsOf(l) = 1 .. Rank(l) /\ i \in DimsOf(l) /\ i \in 1 .. Rank(l)
        /\ c \in [DimsOf(l) -> Int] /\ c[i] \in Int
        /\ Inside(l, c, i - 1) /\ FromStart(l, c, i) /\ ParkedUpTo(l, c, p, i - 1) /\ NoneParked(l, p, i)
    BY <1>1, XeInDimFacts
  <1>3. /\ on = {lane \in Passed(l, c, i - 1) : c[i] + Offset(l, i, lane) < l.endVals[i]}
        /\ on \subseteq Passed(l, c, i - 1) /\ Passed(l, c, i - 1) \subseteq LanesOf(l)
    <2>1. i - 1 \in 0 .. i
      BY <1>2
    <2> QED BY <1>2, <2>1, PassedFacts
  <1>4. p2[i] = Passed(l, c, i - 1) \ on /\ \A j \in DimsOf(l) \ {i} : p2[j] = p[j]
    BY <1>1, <1>2
  <1>5. c[i] < l.endVals[i]
    <2>1. PICK lane \in on : TRUE
      OBVIOUS
    <2>2. c[i] + Offset(l, i, lane) < l.endVals[i] /\ lane \in LanesOf(l)
      BY <1>3
    <2>3. Offset(l, i, lane) \in 0 .. Span(l)[i] - 1
      BY <1>2, <2>2, OffsetBounds
    <2>4. l.endVals[i] \in Int /\ Span(l)[i] \in Nat
      BY <1>2, LoopTypes
    <2> QED BY <1>2, <2>2, <2>3, <2>4
  <1> HIDE DEF p2, on
  <1>6. ParkedUpTo(l, c, p2, i)
    <2> SUFFICES ASSUME NEW j \in 1 .. i PROVE p2[j] = Passed(l, c, j - 1) \ Passed(l, c, j)
      BY DEF ParkedUpTo
    <2>1. CASE j = i
      BY <1>4, <2>1 DEF on
    <2>2. CASE j # i
      <3>1. j \in 1 .. i - 1 /\ j \in DimsOf(l) \ {i}
        BY <1>2, <2>2
      <3> QED BY <1>2, <1>4, <3>1 DEF ParkedUpTo
    <2> QED BY <2>1, <2>2
  <1>7. NoneParked(l, p2, i)
    <2>1. \A j \in i + 1 .. Rank(l) : j \in DimsOf(l) \ {i}
      BY <1>2
    <2> QED BY <1>2, <1>4, <2>1 DEF NoneParked
  <1>8. LaneCounters(l, c, v, p2, 0)
    <2> SUFFICES ASSUME NEW k \in DimsOf(l), NEW lane \in LanesOf(l)
                 PROVE  /\ k # 0 /\ (\A j \in 1 .. k : lane \notin p2[j]) => v[k][lane] = c[k] + Offset(l, k, lane)
                        /\ (\E j \in 1 .. k - 1 : lane \in p2[j]) => v[k][lane] = l.startVals[k] + Offset(l, k, lane)
      BY DEF LaneCounters
    <2>1. k \in 1 .. Rank(l) /\ k # 0 /\ (\A j \in 1 .. k : j \in DimsOf(l)) /\ \A j \in 1 .. k - 1 : j \in DimsOf(l)
      BY <1>2
    <2>2. \A j \in DimsOf(l) : p[j] \subseteq p2[j]
      BY <1>1, <1>4
    <2>3. ASSUME \A j \in 1 .. k : lane \notin p2[j] PROVE v[k][lane] = c[k] + Offset(l, k, lane)
      <3>1. \A j \in 1 .. k : lane \notin p[j]
        BY <2>1, <2>2, <2>3
      <3> QED BY <1>1, <2>1, <3>1 DEF LaneCounters
    <2>4. ASSUME NEW j \in 1 .. k - 1, lane \in p2[j] PROVE v[k][lane] = l.startVals[k] + Offset(l, k, lane)
      <3>1. CASE lane \in p[j]
        BY <1>1, <3>1 DEF LaneCounters
      <3>2. CASE lane \notin p[j]
        <4>1. j = i
          BY <1>4, <2>1, <2>4, <3>2
        <4>2. lane \in Passed(l, c, i - 1)
          BY <1>4, <2>4, <4>1
        <4>3. ASSUME NEW r \in 1 .. k PROVE lane \notin p[r]
          <5>1. CASE r \in 1 .. i - 1
            <6>1. i - 1 \in DimsOf(l)
              BY <1>2, <5>1
            <6> QED BY <1>2, <4>2, <5>1, <6>1, ParkedOff
          <5>2. CASE r = i
            BY <3>2, <4>1, <5>2
          <5>3. CASE r \in i + 1 .. Rank(l)
            BY <1>2, <5>3 DEF NoneParked
          <5>4. r \in 1 .. i - 1 \/ r = i \/ r \in i + 1 .. Rank(l)
            BY <1>2, <2>1
          <5> QED BY <5>1, <5>2, <5>3, <5>4
        <4>4. v[k][lane] = c[k] + Offset(l, k, lane)
          BY <1>1, <2>1, <4>3 DEF LaneCounters
        <4>5. c[k] = l.startVals[k]
          <5>1. k \in i + 1 .. Rank(l)
            BY <1>2, <2>1, <4>1
          <5> QED BY <1>2, <5>1 DEF FromStart
        <4> QED BY <4>4, <4>5
      <3> QED BY <3>1, <3>2
    <2> QED BY <2>3, <2>4
  <1>9. ASSUME i < Rank(l) PROVE AtXeTest(l, i + 1, c, on, p2, v, d)
    <2>1. i + 1 \in DimsOf(l) /\ (i + 1) - 1 = i /\ i + 1 \in i + 1 .. Rank(l)
          /\ \A j \in (i + 1) + 1 .. Rank(l) : j \in i + 1 .. Rank(l)
      BY <1>2, <1>9
    <2>2. Inside(l, c, i)
      BY <1>2, <1>5, PassedFacts
    <2>3. p2[i + 1] = {} /\ NoneParked(l, p2, i + 1)
      BY <1>7, <2>1 DEF NoneParked
    <2>4. c[i + 1] = l.startVals[i + 1] /\ FromStart(l, c, i + 1)
      BY <1>2, <2>1 DEF FromStart
    <2>5. Before(l, c, i + 1) = Before(l, c, i)
      BY <2>1, <2>4, BeforeStart
    <2>6. XeInDim(l, i + 1, c, p2)
      BY <1>6, <2>1, <2>2, <2>3, <2>4 DEF XeInDim
    <2> QED BY <1>1, <1>8, <2>1, <2>3, <2>5, <2>6 DEF AtXeTest, on
  <1>10. ASSUME i = Rank(l) PROVE AtXeBody(l, c, on, p2, v, d)
    <2>1. ParkedUpTo(l, c, p2, i - 1)
      <3>1. \A j \in 1 .. i - 1 : j \in 1 .. i
        BY <1>2
      <3> QED BY <1>6, <3>1 DEF ParkedUpTo
    <2>2. XeInDim(l, i, c, p2)
      BY <1>2, <1>7, <2>1 DEF XeInDim
    <2> QED BY <1>1, <1>4, <1>5, <1>8, <1>10, <2>2 DEF AtXeBody, XeOn, on
  <1> QED BY <1>9, <1>10 DEF p2, on

\* No lane passes it: the dimension is through, and those that waited go on.
LEMMA XeTestOff ==
    ASSUME NEW l \in Domains, NEW c, Aligned(l, c), NEW i, NEW m, NEW p \in [DimsOf(l) -> SUBSET LanesOf(l)],
           NEW v, NEW d, AtXeTest(l, i, c, m, p, v, d), Passed(l, c, i) = {}
    PROVE  AtXeReset(l, i, c, m \cup p[i], [p EXCEPT ![i] = {}], v, d)
  <1> DEFINE p2 == [p EXCEPT ![i] = {}]
  <1>1. XeInDim(l, i, c, p) /\ p[i] \subseteq Passed(l, c, i - 1)
        /\ m = Passed(l, c, i - 1) \ p[i] /\ LaneCounters(l, c, v, p, 0) /\ d = Before(l, c, i)
    BY DEF AtXeTest
  <1>2. /\ Rank(l) \in Nat /\ DimsOf(l) = 1 .. Rank(l) /\ i \in DimsOf(l) /\ i \in 1 .. Rank(l)
        /\ c \in [DimsOf(l) -> Int] /\ c[i] \in Int
        /\ Inside(l, c, i - 1) /\ FromStart(l, c, i) /\ ParkedUpTo(l, c, p, i - 1) /\ NoneParked(l, p, i)
    BY <1>1, XeInDimFacts
  <1>3. p2[i] = {} /\ \A j \in DimsOf(l) \ {i} : p2[j] = p[j]
    BY <1>2
  <1>4. m \cup p[i] = Passed(l, c, i - 1)
    BY <1>1
  <1>5. d = Through(l, c, i - 1)
    <2>1. ~Inside(l, c, i)
      <3>1. i \in 0 .. Rank(l)
        BY <1>2
      <3> QED BY <3>1, FirstLane
    <2>2. ~(c[i] < l.endVals[i])
      BY <1>2, <2>1, PassedFacts
    <2>3. l.endVals[i] <= c[i]
      <3>1. l.endVals[i] \in Int
        BY <1>2, LoopTypes
      <3> QED BY <1>2, <2>2, <3>1
    <2> QED BY <1>1, <1>2, <2>3, ThroughAtEnd
  <1> HIDE DEF p2
  <1>6. ParkedUpTo(l, c, p2, i - 1)
    <2>1. \A j \in 1 .. i - 1 : j \in DimsOf(l) \ {i}
      BY <1>2
    <2> QED BY <1>2, <1>3, <2>1 DEF ParkedUpTo
  <1>7. NoneParked(l, p2, i)
    <2>1. \A j \in i + 1 .. Rank(l) : j \in DimsOf(l) \ {i}
      BY <1>2
    <2> QED BY <1>2, <1>3, <2>1 DEF NoneParked
  <1>8. LaneCounters(l, c, v, p2, i)
    <2> SUFFICES ASSUME NEW k \in DimsOf(l), NEW lane \in LanesOf(l)
                 PROVE  /\ k # i /\ (\A j \in 1 .. k : lane \notin p2[j]) => v[k][lane] = c[k] + Offset(l, k, lane)
                        /\ (\E j \in 1 .. k - 1 : lane \in p2[j]) => v[k][lane] = l.startVals[k] + Offset(l, k, lane)
      BY DEF LaneCounters
    <2>1. k \in 1 .. Rank(l) /\ k # 0 /\ (\A j \in 1 .. k : j \in DimsOf(l)) /\ \A j \in 1 .. k - 1 : j \in DimsOf(l)
      BY <1>2
    <2>2. \A j \in DimsOf(l) : p2[j] \subseteq p[j]
      BY <1>3
    <2>3. ASSUME k # i, \A j \in 1 .. k : lane \notin p2[j] PROVE v[k][lane] = c[k] + Offset(l, k, lane)
      <3>1. CASE \A j \in 1 .. k : lane \notin p[j]
        BY <1>1, <2>1, <3>1 DEF LaneCounters
      <3>2. CASE \E j \in 1 .. k : lane \in p[j]
        <4>1. PICK j \in 1 .. k : lane \in p[j]
          BY <3>2
        <4>2. j = i
          BY <1>3, <2>1, <2>3, <4>1
        <4>3. i \in 1 .. k - 1 /\ k \in i + 1 .. Rank(l)
          BY <1>2, <2>1, <2>3, <4>2
        <4>4. v[k][lane] = l.startVals[k] + Offset(l, k, lane)
          BY <1>1, <4>1, <4>2, <4>3 DEF LaneCounters
        <4>5. c[k] = l.startVals[k]
          BY <1>2, <4>3 DEF FromStart
        <4> QED BY <4>4, <4>5
      <3> QED BY <3>1, <3>2
    <2>4. ASSUME NEW j \in 1 .. k - 1, lane \in p2[j] PROVE v[k][lane] = l.startVals[k] + Offset(l, k, lane)
      <3>1. lane \in p[j]
        BY <2>1, <2>2, <2>4
      <3> QED BY <1>1, <3>1 DEF LaneCounters
    <2> QED BY <2>3, <2>4
  <1>9. AtXeReset(l, i, c, m \cup p[i], p2, v, d)
    BY <1>2, <1>3, <1>4, <1>5, <1>6, <1>7, <1>8 DEF AtXeReset, XeInDim
  <1> QED BY <1>9 DEF p2


\* The lanes of m set their counters of dimension i to w.
Updated(l, v, i, m, w) == [v EXCEPT ![i] = [lane \in LanesOf(l) |-> IF lane \in m THEN w[lane] ELSE v[i][lane]]]

\* v2 is that update of v.
IsUpdated(l, v2, v, i, m, w) ==
    /\ v2 \in [DimsOf(l) -> [LanesOf(l) -> Int]]
    /\ \A k \in DimsOf(l) \ {i} : v2[k] = v[k]
    /\ \A lane \in m : v2[i][lane] = w[lane]
    /\ \A lane \in LanesOf(l) \ m : v2[i][lane] = v[i][lane]

LEMMA UpdatedFacts ==
    ASSUME NEW l \in Domains, NEW v \in [DimsOf(l) -> [LanesOf(l) -> Int]], NEW i \in DimsOf(l), NEW m \in SUBSET LanesOf(l),
           NEW w \in [LanesOf(l) -> Int]
    PROVE  IsUpdated(l, Updated(l, v, i, m, w), v, i, m, w)
  <1> DEFINE u == [lane \in LanesOf(l) |-> IF lane \in m THEN w[lane] ELSE v[i][lane]]
  <1>1. u \in [LanesOf(l) -> Int]
    BY DEF LanesOf
  <1>2. (\A lane \in m : u[lane] = w[lane]) /\ \A lane \in LanesOf(l) \ m : u[lane] = v[i][lane]
    OBVIOUS
  <1>3. Updated(l, v, i, m, w) = [v EXCEPT ![i] = u]
    BY DEF Updated
  <1> DEFINE v2 == Updated(l, v, i, m, w)
  <1>4. v2 = [v EXCEPT ![i] = u]
    BY <1>3
  <1> HIDE DEF u, v2
  <1>5. v2 \in [DimsOf(l) -> [LanesOf(l) -> Int]] /\ v2[i] = u /\ \A k \in DimsOf(l) \ {i} : v2[k] = v[k]
    BY <1>1, <1>4
  <1>6. IsUpdated(l, v2, v, i, m, w)
    BY <1>2, <1>5 DEF IsUpdated
  <1> QED BY <1>6 DEF v2

\* foreach_reset.
LEMMA XeResetStep ==
    ASSUME NEW l \in Domains, NEW c, Aligned(l, c), NEW i, NEW m \in SUBSET LanesOf(l), NEW p,
           NEW v \in [DimsOf(l) -> [LanesOf(l) -> Int]], NEW d, AtXeReset(l, i, c, m, p, v, d)
    PROVE  /\ i = 1 => d = Space(l) /\ m = LanesOf(l)
           /\ i # 1 => \A w \in [LanesOf(l) -> Int] :
                  (\A lane \in LanesOf(l) : w[lane] = l.startVals[i] + Offset(l, i, lane)) =>
                      LET c2 == [c EXCEPT ![i] = l.startVals[i]]
                      IN  Aligned(l, c2) /\ AtXeStep(l, i - 1, c2, m, p, Updated(l, v, i, m, w), d)
  <1>1. XeInDim(l, i, c, p) /\ p[i] = {} /\ m = Passed(l, c, i - 1) /\ LaneCounters(l, c, v, p, i) /\ d = Through(l, c, i - 1)
    BY DEF AtXeReset
  <1>2. /\ Rank(l) \in Nat /\ DimsOf(l) = 1 .. Rank(l) /\ i \in DimsOf(l) /\ i \in 1 .. Rank(l)
        /\ c \in [DimsOf(l) -> Int]
        /\ Inside(l, c, i - 1) /\ FromStart(l, c, i) /\ ParkedUpTo(l, c, p, i - 1) /\ NoneParked(l, p, i)
    BY <1>1, XeInDimFacts
  <1>3. ASSUME i = 1 PROVE d = Space(l) /\ m = LanesOf(l)
    <2>1. \A en \in Space(l) : Window(l, c, en, i - 1)
      BY <1>3 DEF Window
    <2>2. Passed(l, c, i - 1) = LanesOf(l)
      BY <1>3 DEF Passed
    <2> QED BY <1>1, <2>1, <2>2 DEF Through
  <1>4. ASSUME i # 1, NEW w \in [LanesOf(l) -> Int], \A lane \in LanesOf(l) : w[lane] = l.startVals[i] + Offset(l, i, lane),
               NEW c2, c2 = [c EXCEPT ![i] = l.startVals[i]]
        PROVE  Aligned(l, c2) /\ AtXeStep(l, i - 1, c2, m, p, Updated(l, v, i, m, w), d)
    <2> DEFINE v2 == Updated(l, v, i, m, w)
    <2>1. Aligned(l, c2)
      BY <1>2, <1>4, AlignedStep
    <2>2. i - 1 \in 1 .. Rank(l) /\ i - 1 \in DimsOf(l) /\ (i - 1) + 1 = i /\ i - 1 \in Nat /\ i - 1 \in 0 .. i - 1
          /\ (i - 1) - 1 \in 0 .. i - 1 /\ i - 1 \in 1 .. i - 1
      BY <1>2, <1>4
    <2>3. c2[i] = l.startVals[i] /\ \A j \in DimsOf(l) \ {i} : c2[j] = c[j]
      BY <1>2, <1>4
    <2>4. \A j \in 1 .. i - 1 : j \in DimsOf(l) \ {i}
      BY <1>2
    <2>4a. \A j \in 1 .. i - 1 : c2[j] = c[j]
      BY <2>3, <2>4
    <2>4b. i \in DimsOf(l)
      BY <1>2
    <2>5. ParkedUpTo(l, c2, p, i - 1) /\ \A j \in 0 .. i - 1 : Passed(l, c2, j) = Passed(l, c, j)
      BY <1>2, <2>2, <2>4a, ParkedSame
    <2>6. Through(l, c2, i - 1) = Through(l, c, i - 1) /\ Inside(l, c2, i - 1)
      BY <1>2, <2>2, <2>4a, SamePlace
    <2>7. Inside(l, c2, (i - 1) - 1) /\ c2[i - 1] < l.endVals[i - 1]
      BY <2>2, <2>6, PassedFacts
    <2>8. FromStart(l, c2, i - 1)
      <3> SUFFICES ASSUME NEW k \in i .. Rank(l) PROVE c2[k] = l.startVals[k]
        BY <2>2 DEF FromStart
      <3>1. k \in DimsOf(l) /\ (k = i \/ (k \in i + 1 .. Rank(l) /\ k # i))
        BY <1>2
      <3> QED BY <1>2, <2>3, <3>1 DEF FromStart
    <2>9. NoneParked(l, p, i - 1)
      <3> SUFFICES ASSUME NEW k \in i .. Rank(l) PROVE p[k] = {}
        BY <2>2 DEF NoneParked
      <3>1. k = i \/ k \in i + 1 .. Rank(l)
        BY <1>2
      <3> QED BY <1>1, <1>2, <3>1 DEF NoneParked
    <2>10. ParkedUpTo(l, c2, p, (i - 1) - 1) /\ p[i - 1] = Passed(l, c2, (i - 1) - 1) \ Passed(l, c2, i - 1)
      <3>1. \A j \in 1 .. (i - 1) - 1 : j \in 1 .. i - 1
        BY <1>2
      <3> QED BY <2>2, <2>5, <3>1 DEF ParkedUpTo
    <2>11. (\A k \in DimsOf(l) \ {i} : v2[k] = v[k]) /\ (\A lane \in m : v2[i][lane] = w[lane])
           /\ \A lane \in LanesOf(l) \ m : v2[i][lane] = v[i][lane]
      <3>1. IsUpdated(l, v2, v, i, m, w)
        BY <2>4b, UpdatedFacts
      <3> HIDE DEF v2
      <3> QED BY <3>1 DEF IsUpdated
    <2> HIDE DEF v2
    <2>12. LaneCounters(l, c2, v2, p, 0)
      <3> SUFFICES ASSUME NEW k \in DimsOf(l), NEW lane \in LanesOf(l)
                   PROVE  /\ k # 0 /\ (\A j \in 1 .. k : lane \notin p[j]) => v2[k][lane] = c2[k] + Offset(l, k, lane)
                          /\ (\E j \in 1 .. k - 1 : lane \in p[j]) => v2[k][lane] = l.startVals[k] + Offset(l, k, lane)
        BY DEF LaneCounters
      <3>1. CASE k # i
        BY <1>1, <2>3, <2>11, <3>1 DEF LaneCounters
      <3>2. CASE k = i
        <4>1. ASSUME \A j \in 1 .. i : lane \notin p[j] PROVE v2[i][lane] = c2[i] + Offset(l, i, lane)
          <5>1. \A j \in 1 .. i - 1 : lane \notin p[j]
            <6>1. \A j \in 1 .. i - 1 : j \in 1 .. i
              BY <1>2
            <6> QED BY <4>1, <6>1
          <5>2. i - 1 \in 0 .. Rank(l)
            BY <2>2
          <5>3. lane \in Passed(l, c, i - 1)
            BY <1>2, <5>1, <5>2, NotParked
          <5> QED BY <1>1, <1>4, <2>3, <2>11, <5>3
        <4>2. ASSUME NEW j \in 1 .. i - 1, lane \in p[j] PROVE v2[i][lane] = l.startVals[i] + Offset(l, i, lane)
          <5>1. lane \notin m
            BY <1>1, <1>2, <2>2, <4>2, ParkedOff
          <5>2. v[i][lane] = l.startVals[i] + Offset(l, i, lane)
            BY <1>1, <1>2, <4>2 DEF LaneCounters
          <5> QED BY <2>11, <5>1, <5>2
        <4> QED BY <3>2, <4>1, <4>2
      <3> QED BY <3>1, <3>2
    <2>13. XeInDim(l, i - 1, c2, p)
      BY <2>2, <2>7, <2>8, <2>9, <2>10 DEF XeInDim
    <2>14. m = Passed(l, c2, i - 1)
      BY <1>1, <2>2, <2>5
    <2>15. XeOn(l, i - 1, c2, m, p, v2)
      BY <2>7, <2>10, <2>12, <2>13, <2>14 DEF XeOn
    <2> QED BY <1>1, <2>1, <2>6, <2>15 DEF AtXeStep, v2
  <1> QED BY <1>3, <1>4

\* foreach_step.
LEMMA XeStepTest ==
    ASSUME NEW l \in Domains, NEW c, Aligned(l, c), NEW i, NEW m \in SUBSET LanesOf(l), NEW p,
           NEW v \in [DimsOf(l) -> [LanesOf(l) -> Int]], NEW d, AtXeStep(l, i, c, m, p, v, d),
           NEW w \in [LanesOf(l) -> Int], \A lane \in LanesOf(l) : w[lane] = v[i][lane] + Span(l)[i]
    PROVE  LET c2 == Stepped(l, c, i)
           IN  Aligned(l, c2) /\ AtXeTest(l, i, c2, m, p, Updated(l, v, i, m, w), d)
  <1> DEFINE c2 == Stepped(l, c, i)
             v2 == Updated(l, v, i, m, w)
  <1>1. /\ XeInDim(l, i, c, p) /\ p[i] = Passed(l, c, i - 1) \ Passed(l, c, i) /\ m = Passed(l, c, i)
        /\ LaneCounters(l, c, v, p, 0) /\ d = Through(l, c, i)
    BY DEF AtXeStep, XeOn
  <1>2. /\ Rank(l) \in Nat /\ DimsOf(l) = 1 .. Rank(l) /\ i \in DimsOf(l) /\ i \in 1 .. Rank(l)
        /\ c \in [DimsOf(l) -> Int] /\ c[i] \in Int
        /\ Inside(l, c, i - 1) /\ FromStart(l, c, i) /\ ParkedUpTo(l, c, p, i - 1) /\ NoneParked(l, p, i)
    BY <1>1, XeInDimFacts
  <1>3. Aligned(l, c2)
    BY <1>2, AlignedStep
  <1>4. Before(l, c2, i) = Through(l, c, i)
    BY <1>2, StepPlace
  <1>5. c2[i] = c[i] + Span(l)[i] /\ \A j \in DimsOf(l) \ {i} : c2[j] = c[j]
    BY <1>2 DEF Stepped
  <1>5a. i \in DimsOf(l)
    BY <1>2
  <1>6. (\A k \in DimsOf(l) \ {i} : v2[k] = v[k]) /\ (\A lane \in m : v2[i][lane] = w[lane])
        /\ \A lane \in LanesOf(l) \ m : v2[i][lane] = v[i][lane]
    <2>1. IsUpdated(l, v2, v, i, m, w)
      BY <1>5a, UpdatedFacts
    <2> HIDE DEF v2
    <2> QED BY <2>1 DEF IsUpdated
  <1> HIDE DEF c2, v2
  <1>7. i - 1 \in Nat /\ i - 1 \in 0 .. i - 1 /\ i - 1 \in 0 .. i /\ \A j \in 1 .. i - 1 : j \in DimsOf(l) \ {i}
    BY <1>2
  <1>7a. \A j \in 1 .. i - 1 : c2[j] = c[j]
    BY <1>5, <1>7
  <1>8. ParkedUpTo(l, c2, p, i - 1) /\ Passed(l, c2, i - 1) = Passed(l, c, i - 1)
    <2>1. ParkedUpTo(l, c2, p, i - 1) /\ \A j \in 0 .. i - 1 : Passed(l, c2, j) = Passed(l, c, j)
      <3>1. i - 1 \in Nat
        BY <1>7
      <3> QED BY <1>2, <1>7a, <3>1, ParkedSame
    <2> QED BY <1>7, <2>1
  <1>9. Inside(l, c2, i - 1)
    BY <1>2, <1>5, <1>7, SamePlace
  <1>10. FromStart(l, c2, i)
    <2>1. \A k \in i + 1 .. Rank(l) : k \in DimsOf(l) \ {i}
      BY <1>2
    <2> QED BY <1>2, <1>5, <2>1 DEF FromStart
  <1>11. XeInDim(l, i, c2, p)
    BY <1>2, <1>8, <1>9, <1>10 DEF XeInDim
  <1>12. Passed(l, c2, i) \subseteq Passed(l, c, i) /\ Passed(l, c, i) \subseteq Passed(l, c, i - 1)
    <2>1. Passed(l, c, i) = {lane \in Passed(l, c, i - 1) : c[i] + Offset(l, i, lane) < l.endVals[i]}
          /\ Passed(l, c, i - 1) \subseteq LanesOf(l) /\ Passed(l, c, i) \subseteq Passed(l, c, i - 1)
      BY <1>2, <1>7, PassedFacts
    <2>2. Passed(l, c2, i) = {lane \in Passed(l, c, i - 1) : c2[i] + Offset(l, i, lane) < l.endVals[i]}
      BY <1>2, <1>8, PassedFacts
    <2>3. \A lane \in LanesOf(l) : c2[i] + Offset(l, i, lane) < l.endVals[i] => c[i] + Offset(l, i, lane) < l.endVals[i]
      <3> TAKE lane \in LanesOf(l)
      <3>1. Offset(l, i, lane) \in 0 .. Span(l)[i] - 1
        BY <1>2, OffsetBounds
      <3>2. l.endVals[i] \in Int /\ Span(l)[i] \in Nat
        BY <1>2, LoopTypes
      <3>3. c2[i] = c[i] + Span(l)[i] /\ c[i] \in Int
        BY <1>2, <1>5
      <3> QED BY <3>1, <3>2, <3>3
    <2> QED BY <2>1, <2>2, <2>3
  <1>13. p[i] \subseteq Passed(l, c2, i - 1) \ Passed(l, c2, i) /\ m = Passed(l, c2, i - 1) \ p[i]
    BY <1>1, <1>8, <1>12
  <1>14. ParkedUpTo(l, c, p, i)
    <2> SUFFICES ASSUME NEW j \in 1 .. i PROVE p[j] = Passed(l, c, j - 1) \ Passed(l, c, j)
      BY DEF ParkedUpTo
    <2>1. j = i \/ j \in 1 .. i - 1
      BY <1>2
    <2> QED BY <1>1, <1>2, <2>1 DEF ParkedUpTo
  <1>15. LaneCounters(l, c2, v2, p, 0)
    <2> SUFFICES ASSUME NEW k \in DimsOf(l), NEW lane \in LanesOf(l)
                 PROVE  /\ k # 0 /\ (\A j \in 1 .. k : lane \notin p[j]) => v2[k][lane] = c2[k] + Offset(l, k, lane)
                        /\ (\E j \in 1 .. k - 1 : lane \in p[j]) => v2[k][lane] = l.startVals[k] + Offset(l, k, lane)
      BY DEF LaneCounters
    <2>1. CASE k # i
      BY <1>1, <1>5, <1>6, <2>1 DEF LaneCounters
    <2>2. CASE k = i
      <3>1. ASSUME \A j \in 1 .. i : lane \notin p[j] PROVE v2[i][lane] = c2[i] + Offset(l, i, lane)
        <4>1. i \in 0 .. Rank(l) /\ i # 0
          BY <1>2
        <4>2. lane \in m
          BY <1>1, <1>14, <3>1, <4>1, NotParked
        <4>3. v[i][lane] = c[i] + Offset(l, i, lane)
          BY <1>1, <1>2, <3>1, <4>1 DEF LaneCounters
        <4>4. Offset(l, i, lane) \in Int /\ Span(l)[i] \in Int
          <5>1. Offset(l, i, lane) \in 0 .. Span(l)[i] - 1
            BY <1>2, OffsetBounds
          <5>2. Span(l)[i] \in Nat
            BY <1>2, LoopTypes
          <5> QED BY <5>1, <5>2
        <4>5. v2[i][lane] = (c[i] + Offset(l, i, lane)) + Span(l)[i]
          BY <1>6, <4>2, <4>3
        <4> QED BY <1>2, <1>5, <4>4, <4>5
      <3>2. ASSUME NEW j \in 1 .. i - 1, lane \in p[j] PROVE v2[i][lane] = l.startVals[i] + Offset(l, i, lane)
        <4>1. j \in 1 .. i
          BY <1>2
        <4>2. lane \notin m
          BY <1>1, <1>2, <1>14, <3>2, <4>1, ParkedOff
        <4>3. v[i][lane] = l.startVals[i] + Offset(l, i, lane)
          BY <1>1, <1>2, <3>2 DEF LaneCounters
        <4> QED BY <1>6, <4>2, <4>3
      <3> QED BY <2>2, <3>1, <3>2
    <2> QED BY <2>1, <2>2
  <1>16. AtXeTest(l, i, c2, m, p, v2, d)
    BY <1>1, <1>4, <1>11, <1>13, <1>15 DEF AtXeTest
  <1> QED BY <1>3, <1>16 DEF c2, v2

\* foreach_body.
LEMMA XeBodyStep ==
    ASSUME NEW l \in Domains, NEW c, Aligned(l, c), NEW m, NEW p, NEW v, NEW d, AtXeBody(l, c, m, p, v, d), NEW el,
           \A lane \in m : el[lane] = [i \in DimsOf(l) |-> v[i][lane]]
    PROVE  BodyRight(l, c, m, d, el) /\ AtXeStep(l, Rank(l), c, m, p, v, Through(l, c, Rank(l)))
  <1> DEFINE n == Rank(l)
             on == Passed(l, c, n)
  <1>1. /\ XeInDim(l, n, c, p) /\ c[n] < l.endVals[n] /\ p[n] = Passed(l, c, n - 1) \ on /\ m = on
        /\ LaneCounters(l, c, v, p, 0) /\ d = Before(l, c, n)
    BY DEF AtXeBody, XeOn
  <1>2. /\ n \in Nat /\ DimsOf(l) = 1 .. n /\ n \in DimsOf(l) /\ c \in [DimsOf(l) -> Int]
        /\ Inside(l, c, n - 1) /\ ParkedUpTo(l, c, p, n - 1)
    BY <1>1, XeInDimFacts
  <1>3. Inside(l, c, n)
    BY <1>1, <1>2, PassedFacts
  <1>4. ParkedUpTo(l, c, p, n)
    <2> SUFFICES ASSUME NEW j \in 1 .. n PROVE p[j] = Passed(l, c, j - 1) \ Passed(l, c, j)
      BY DEF ParkedUpTo
    <2>1. j = n \/ j \in 1 .. n - 1
      BY <1>2
    <2> QED BY <1>1, <1>2, <2>1 DEF ParkedUpTo
  <1>5. \A lane \in on : el[lane] = [i \in DimsOf(l) |-> c[i] + Offset(l, i, lane)]
    <2> TAKE lane \in on
    <2>1. lane \in LanesOf(l)
      BY DEF Passed
    <2>2. \A j \in 1 .. n : lane \notin p[j]
      BY <1>2, <1>4, ParkedOff
    <2>3. \A i \in DimsOf(l) : v[i][lane] = c[i] + Offset(l, i, lane)
      <3> TAKE i \in DimsOf(l)
      <3>1. i # 0 /\ \A j \in 1 .. i : j \in 1 .. n
        BY <1>2
      <3> QED BY <1>1, <2>1, <2>2, <3>1 DEF LaneCounters
    <2>4. el[lane] = [i \in DimsOf(l) |-> v[i][lane]]
      BY <1>1
    <2> QED BY <2>3, <2>4
  <1>6. \A i \in DimsOf(l) : l.startVals[i] <= c[i]
    BY EndFacts
  <1>7. /\ {el[lane] : lane \in on} = {en \in Space(l) : Window(l, c, en, n)}
        /\ \A lane \in on : el[lane] \in Space(l) /\ el[lane] \notin d
        /\ \A a, b \in on : el[a] = el[b] => a = b
    <2>1. /\ {el[lane] : lane \in Passed(l, c, Rank(l))} = {en \in Space(l) : Window(l, c, en, Rank(l))}
          /\ \A lane \in Passed(l, c, Rank(l)) : el[lane] \in Space(l) /\ el[lane] \notin Before(l, c, Rank(l))
          /\ \A a, b \in Passed(l, c, Rank(l)) : el[a] = el[b] => a = b
      BY <1>2, <1>5, <1>6, BodyElements
    <2> QED BY <1>1, <2>1
  <1>8. m # {} /\ m \subseteq LanesOf(l)
    <2>1. n \in 0 .. n
      BY <1>2
    <2> QED BY <1>1, <1>3, <2>1, FirstLane DEF Passed
  <1>9. d \cup {en \in Space(l) : Window(l, c, en, n)} = Through(l, c, n)
    BY <1>1 DEF Before, Through
  <1> HIDE DEF on, n
  <1>10. BodyRight(l, c, m, d, el)
    BY <1>1, <1>7, <1>8, <1>9 DEF BodyRight, n
  <1>11. AtXeStep(l, Rank(l), c, m, p, v, Through(l, c, Rank(l)))
    BY DEF AtXeStep, AtXeBody
  <1> QED BY <1>10, <1>11

-----------------------------------------------------------------------------
\* The blocks of the Xe code.
XeBlocks == {"xe_test", "xe_reset", "xe_step", "xe_body"}

LEMMA XeBlock ==
    ASSUME LoopInv, block[1] \in XeBlocks \cup {"start"}
    PROVE  /\ XeInv /\ loop.xe /\ loop \in Domains /\ LoopTypeInv
           /\ block[1] \in XeBlocks => block[2] \in DimsOf(loop)
  <1>1. loop \in Domains /\ LoopTypeInv
    BY DEF LoopInv, LoopTypeInv
  <1>2. loop.xe
    BY DEF LoopInv, CpuInv, XeBlocks
  <1>3. XeInv
    BY <1>2 DEF LoopInv
  <1>4. ASSUME block[1] \in XeBlocks PROVE block[2] \in DimsOf(loop)
    <2>1. block \in Blocks \X DimsOf(loop)
      BY <1>1, <1>4 DEF LoopTypeInv, XeBlocks
    <2> QED BY <2>1
  <1> QED BY <1>1, <1>2, <1>3, <1>4

\* A step of the Xe code keeps the invariant if it keeps what XeInv says.
LEMMA XeStepped ==
    ASSUME LoopInv, loop.xe, loop' = loop, XeInv', InnerBlock', UNCHANGED cpuVars,
           block' \in (Blocks \X DimsOf(loop)) \cup {<<"start", 0>>, <<"exit", 0>>, <<"end", 0>>},
           varying' \in [DimsOf(loop) -> [LanesOf(loop) -> Int]], parked' \in [DimsOf(loop) -> SUBSET LanesOf(loop)],
           mask' \in SUBSET LanesOf(loop)
    PROVE  LoopInv'
  <1>1. LoopTypeInv'
    BY DEF LoopInv, LoopTypeInv, cpuVars
  <1> QED BY <1>1 DEF LoopInv

LEMMA XeStartKeeps ==
    ASSUME LoopInv, XeStart PROVE LoopInv'
  <1>1. XeInv /\ loop.xe /\ loop \in Domains /\ LoopTypeInv /\ block[1] = "start"
    BY XeBlock DEF XeStart, At
  <1>2. /\ Rank(loop) \in Nat \ {0} /\ DimsOf(loop) = 1 .. Rank(loop) /\ 1 \in DimsOf(loop)
        /\ mask = loop.oldMask /\ done = {} /\ parked = [i \in DimsOf(loop) |-> {}]
        /\ loop.startVals \in [DimsOf(loop) -> Int]
    <2>1. Rank(loop) \in Nat \ {0} /\ DimsOf(loop) = 1 .. Rank(loop)
      BY <1>1, LoopTypes
    <2>2. mask = loop.oldMask /\ done = {} /\ parked = [i \in DimsOf(loop) |-> {}]
      BY <1>1 DEF XeInv
    <2> QED BY <1>1, <2>1, <2>2, DomainFacts
  <1>3. mask' = LanesOf(loop)
    BY <1>1, <1>2, DomainFacts, Vocabulary DEF XeStart
  <1>4. /\ loop' = loop /\ done' = done /\ parked' = parked /\ UNCHANGED cpuVars
        /\ block' = <<"xe_test", 1>> /\ block'[1] = "xe_test" /\ block'[2] = 1
    BY DEF XeStart
  <1>5. varying' = [i \in DimsOf(loop) |-> [lane \in LanesOf(loop) |-> loop.startVals[i] + Offset(loop, i, lane)]]
    BY <1>3, Vocabulary DEF XeStart
  <1>6. \A i \in DimsOf(loop) : \A lane \in LanesOf(loop) : loop.startVals[i] + Offset(loop, i, lane) \in Int
    <2> TAKE i \in DimsOf(loop)
    <2> TAKE lane \in LanesOf(loop)
    <2>1. Offset(loop, i, lane) \in 0 .. Span(loop)[i] - 1
      BY <1>1, OffsetBounds
    <2>2. Span(loop)[i] \in Nat /\ loop.startVals[i] \in Int
      BY <1>1, LoopTypes
    <2> QED BY <2>1, <2>2
  <1>7. varying' \in [DimsOf(loop) -> [LanesOf(loop) -> Int]]
    BY <1>5, <1>6
  <1>8. parked' \in [DimsOf(loop) -> SUBSET LanesOf(loop)] /\ mask' \in SUBSET LanesOf(loop)
    BY <1>2, <1>3, <1>4
  <1> DEFINE c == loop.startVals
  <1>9. Aligned(loop, c)
    <2> SUFFICES ASSUME NEW i \in DimsOf(loop)
                 PROVE  \E m \in Nat : c[i] = loop.startVals[i] + m * Span(loop)[i]
      BY <1>2 DEF Aligned
    <2>1. loop.startVals[i] \in Int /\ Span(loop)[i] \in Nat
      BY <1>1, LoopTypes
    <2>2. c[i] = loop.startVals[i] + 0 * Span(loop)[i] /\ 0 \in Nat
      BY <2>1
    <2> QED BY <2>2
  <1>10. AtXeTest(loop, 1, c, mask', parked', varying', done')
    <2>1. Before(loop, c, 1) = {}
      <3>1. Before(loop, c, 1) = Before(loop, c, 1 - 1)
        BY <1>1, <1>2, BeforeStart
      <3>2. 1 .. 1 - 1 = {}
        OBVIOUS
      <3> QED BY <3>1, <3>2 DEF Before, Earlier
    <2>2. /\ Inside(loop, c, 1 - 1) /\ ParkedUpTo(loop, c, parked', 1 - 1) /\ FromStart(loop, c, 1)
      BY DEF Inside, ParkedUpTo, FromStart
    <2>3. \A j \in DimsOf(loop) : parked'[j] = {}
      BY <1>2, <1>4
    <2>4. NoneParked(loop, parked', 1)
      BY <1>2, <2>3 DEF NoneParked
    <2>5. Passed(loop, c, 1 - 1) = LanesOf(loop)
      BY DEF Passed
    <2>6. LaneCounters(loop, c, varying', parked', 0)
      <3>1. \A k \in DimsOf(loop) : \A lane \in LanesOf(loop) : varying'[k][lane] = c[k] + Offset(loop, k, lane)
        BY <1>5
      <3> QED BY <3>1 DEF LaneCounters
    <2> HIDE DEF c
    <2> QED BY <1>2, <1>3, <1>4, <2>1, <2>2, <2>3, <2>4, <2>5, <2>6 DEF AtXeTest, XeInDim
  <1> HIDE DEF c
  <1>11. XeInv'
    BY <1>4, <1>9, <1>10 DEF XeInv
  <1>12. InnerBlock'
    BY <1>4 DEF InnerBlock
  <1>13. block' \in Blocks \X DimsOf(loop)
    BY <1>2, <1>4 DEF Blocks
  <1> QED BY <1>1, <1>4, <1>7, <1>8, <1>11, <1>12, <1>13, XeStepped

LEMMA XeTestKeeps ==
    ASSUME LoopInv, XeTest PROVE LoopInv'
  <1>1. XeInv /\ loop.xe /\ loop \in Domains /\ LoopTypeInv /\ block[1] = "xe_test" /\ block[2] \in DimsOf(loop)
    BY XeBlock DEF XeTest, At, XeBlocks
  <1>2. PICK i \in DimsOf(loop) : i = block[2]
    BY <1>1
  <1>3. PICK c : Aligned(loop, c) /\ AtXeTest(loop, i, c, mask, parked, varying, done)
    BY <1>1, <1>2 DEF XeInv
  <1>4. /\ varying \in [DimsOf(loop) -> [LanesOf(loop) -> Int]] /\ parked \in [DimsOf(loop) -> SUBSET LanesOf(loop)]
        /\ mask \in SUBSET LanesOf(loop)
    BY <1>1 DEF LoopTypeInv
  <1>5. {lane \in mask : varying[i][lane] < loop.endVals[i]} = Passed(loop, c, i)
    BY <1>1, <1>3, XePassed
  <1>6. loop' = loop /\ done' = done /\ varying' = varying /\ UNCHANGED cpuVars
    BY DEF XeTest
  <1>7. Rank(loop) \in Nat \ {0} /\ DimsOf(loop) = 1 .. Rank(loop) /\ Rank(loop) \in DimsOf(loop)
    BY <1>1, LoopTypes
  <1>8. CASE Passed(loop, c, i) # {}
    <2>1. /\ mask' = Passed(loop, c, i)
          /\ parked' = [parked EXCEPT ![i] = parked[i] \cup (mask \ Passed(loop, c, i))]
          /\ block' = IF i < Rank(loop) THEN <<"xe_test", i + 1>> ELSE <<"xe_body", Rank(loop)>>
      BY <1>2, <1>4, <1>5, <1>8, Vocabulary DEF XeTest
    <2>2. /\ i < Rank(loop) => AtXeTest(loop, i + 1, c, mask', parked', varying', done')
          /\ i = Rank(loop) => AtXeBody(loop, c, mask', parked', varying', done')
      BY <1>1, <1>3, <1>4, <1>6, <1>8, <2>1, XeTestOn
    <2>3. parked' \in [DimsOf(loop) -> SUBSET LanesOf(loop)] /\ mask' \in SUBSET LanesOf(loop)
      <3>1. Passed(loop, c, i) \in SUBSET LanesOf(loop)
        BY DEF Passed
      <3>2. parked[i] \cup (mask \ Passed(loop, c, i)) \in SUBSET LanesOf(loop)
        BY <1>4
      <3> QED BY <1>4, <2>1, <3>1, <3>2
    <2>4. CASE i < Rank(loop)
      <3>1. block' = <<"xe_test", i + 1>> /\ block'[1] = "xe_test" /\ block'[2] = i + 1
        BY <2>1, <2>4
      <3>2. XeInv' /\ InnerBlock'
        BY <1>3, <1>6, <2>2, <2>4, <3>1 DEF XeInv, InnerBlock
      <3>3. block' \in Blocks \X DimsOf(loop)
        <4>1. i + 1 \in DimsOf(loop)
          BY <1>7, <2>4
        <4> QED BY <3>1, <4>1 DEF Blocks
      <3> QED BY <1>1, <1>4, <1>6, <2>3, <3>2, <3>3, XeStepped
    <2>5. CASE i = Rank(loop)
      <3>1. block' = <<"xe_body", Rank(loop)>> /\ block'[1] = "xe_body" /\ block'[2] = Rank(loop)
        BY <1>7, <2>1, <2>5
      <3>2. XeInv' /\ InnerBlock'
        BY <1>3, <1>6, <2>2, <2>5, <3>1 DEF XeInv, InnerBlock
      <3>3. block' \in Blocks \X DimsOf(loop)
        BY <1>7, <3>1 DEF Blocks
      <3> QED BY <1>1, <1>4, <1>6, <2>3, <3>2, <3>3, XeStepped
    <2>6. i < Rank(loop) \/ i = Rank(loop)
      BY <1>7
    <2> QED BY <2>4, <2>5, <2>6
  <1>9. CASE Passed(loop, c, i) = {}
    <2>1. /\ mask' = mask \cup parked[i]
          /\ parked' = [parked EXCEPT ![i] = {}]
          /\ block' = <<"xe_reset", i>> /\ block'[1] = "xe_reset" /\ block'[2] = i
      BY <1>2, <1>5, <1>9 DEF XeTest
    <2>2. AtXeReset(loop, i, c, mask', parked', varying', done')
      BY <1>1, <1>3, <1>4, <1>6, <1>9, <2>1, XeTestOff
    <2>3. parked' \in [DimsOf(loop) -> SUBSET LanesOf(loop)] /\ mask' \in SUBSET LanesOf(loop)
      BY <1>4, <2>1
    <2>4. XeInv' /\ InnerBlock'
      BY <1>3, <1>6, <2>1, <2>2 DEF XeInv, InnerBlock
    <2>5. block' \in Blocks \X DimsOf(loop)
      BY <2>1 DEF Blocks
    <2> QED BY <1>1, <1>4, <1>6, <2>3, <2>4, <2>5, XeStepped
  <1> QED BY <1>8, <1>9

LEMMA XeResetKeeps ==
    ASSUME LoopInv, XeReset PROVE LoopInv'
  <1>1. XeInv /\ loop.xe /\ loop \in Domains /\ LoopTypeInv /\ block[1] = "xe_reset" /\ block[2] \in DimsOf(loop)
    BY XeBlock DEF XeReset, At, XeBlocks
  <1>2. PICK i \in DimsOf(loop) : i = block[2]
    BY <1>1
  <1>3. PICK c : Aligned(loop, c) /\ AtXeReset(loop, i, c, mask, parked, varying, done)
    BY <1>1, <1>2 DEF XeInv
  <1>4. /\ varying \in [DimsOf(loop) -> [LanesOf(loop) -> Int]] /\ parked \in [DimsOf(loop) -> SUBSET LanesOf(loop)]
        /\ mask \in SUBSET LanesOf(loop)
    BY <1>1 DEF LoopTypeInv
  <1>5. loop' = loop /\ done' = done /\ mask' = mask /\ parked' = parked /\ UNCHANGED cpuVars
    BY DEF XeReset
  <1>6. CASE i = 1
    <2>1. block' = <<"exit", 0>> /\ block'[1] = "exit" /\ varying' = varying
      BY <1>2, <1>6 DEF XeReset, SetVarying
    <2>2. done = Space(loop) /\ mask = LanesOf(loop)
      BY <1>1, <1>3, <1>4, <1>6, XeResetStep
    <2>3. XeInv' /\ InnerBlock'
      BY <1>5, <2>1, <2>2 DEF XeInv, InnerBlock
    <2> QED BY <1>1, <1>4, <1>5, <2>1, <2>3, XeStepped
  <1>7. CASE i # 1
    <2> DEFINE w == [lane \in LanesOf(loop) |-> loop.startVals[i] + Offset(loop, i, lane)]
               c2 == [c EXCEPT ![i] = loop.startVals[i]]
    <2>1. block' = <<"xe_step", i - 1>> /\ block'[1] = "xe_step" /\ block'[2] = i - 1
      BY <1>2, <1>7 DEF XeReset, SetVarying
    <2>2. varying' = Updated(loop, varying, i, mask, w)
      BY <1>2, <1>4, <1>7, Vocabulary DEF XeReset, SetVarying, Updated
    <2>3. w \in [LanesOf(loop) -> Int] /\ \A lane \in LanesOf(loop) : w[lane] = loop.startVals[i] + Offset(loop, i, lane)
      <3>1. \A lane \in LanesOf(loop) : loop.startVals[i] + Offset(loop, i, lane) \in Int
        <4> TAKE lane \in LanesOf(loop)
        <4>1. Offset(loop, i, lane) \in 0 .. Span(loop)[i] - 1
          BY <1>1, OffsetBounds
        <4>2. Span(loop)[i] \in Nat /\ loop.startVals[i] \in Int
          BY <1>1, LoopTypes
        <4> QED BY <4>1, <4>2
      <3> QED BY <3>1
    <2> HIDE DEF w
    <2>4. Aligned(loop, c2) /\ AtXeStep(loop, i - 1, c2, mask, parked, Updated(loop, varying, i, mask, w), done)
      BY <1>1, <1>3, <1>4, <1>7, <2>3, XeResetStep
    <2> HIDE DEF c2
    <2>5. XeInv' /\ InnerBlock'
      BY <1>5, <2>1, <2>2, <2>4 DEF XeInv, InnerBlock
    <2>6. IsUpdated(loop, Updated(loop, varying, i, mask, w), varying, i, mask, w)
      BY <1>1, <1>4, <2>3, UpdatedFacts
    <2>7. varying' \in [DimsOf(loop) -> [LanesOf(loop) -> Int]]
      BY <2>2, <2>6 DEF IsUpdated
    <2>8. i - 1 \in DimsOf(loop)
      BY <2>4 DEF AtXeStep, XeOn, XeInDim
    <2>9. block' \in Blocks \X DimsOf(loop)
      BY <2>1, <2>8 DEF Blocks
    <2> QED BY <1>1, <1>4, <1>5, <2>5, <2>7, <2>9, XeStepped
  <1> QED BY <1>6, <1>7

LEMMA XeStepKeeps ==
    ASSUME LoopInv, XeStep PROVE LoopInv'
  <1>1. XeInv /\ loop.xe /\ loop \in Domains /\ LoopTypeInv /\ block[1] = "xe_step" /\ block[2] \in DimsOf(loop)
    BY XeBlock DEF XeStep, At, XeBlocks
  <1>2. PICK i \in DimsOf(loop) : i = block[2]
    BY <1>1
  <1>3. PICK c : Aligned(loop, c) /\ AtXeStep(loop, i, c, mask, parked, varying, done)
    BY <1>1, <1>2 DEF XeInv
  <1>4. /\ varying \in [DimsOf(loop) -> [LanesOf(loop) -> Int]] /\ parked \in [DimsOf(loop) -> SUBSET LanesOf(loop)]
        /\ mask \in SUBSET LanesOf(loop)
    BY <1>1 DEF LoopTypeInv
  <1>5. /\ loop' = loop /\ done' = done /\ mask' = mask /\ parked' = parked /\ UNCHANGED cpuVars
        /\ block' = <<"xe_test", i>> /\ block'[1] = "xe_test" /\ block'[2] = i
    BY <1>2 DEF XeStep
  <1> DEFINE w == [lane \in LanesOf(loop) |-> varying[i][lane] + Span(loop)[i]]
             c2 == Stepped(loop, c, i)
  <1>6. varying' = Updated(loop, varying, i, mask, w)
    BY <1>2, <1>4, Vocabulary DEF XeStep, SetVarying, Updated
  <1>7. w \in [LanesOf(loop) -> Int] /\ \A lane \in LanesOf(loop) : w[lane] = varying[i][lane] + Span(loop)[i]
    <2>1. Span(loop)[i] \in Nat
      BY <1>1, LoopTypes
    <2> QED BY <1>4, <2>1
  <1> HIDE DEF w
  <1>8. Aligned(loop, c2) /\ AtXeTest(loop, i, c2, mask, parked, Updated(loop, varying, i, mask, w), done)
    BY <1>1, <1>3, <1>4, <1>7, XeStepTest
  <1> HIDE DEF c2
  <1>9. XeInv' /\ InnerBlock'
    BY <1>5, <1>6, <1>8 DEF XeInv, InnerBlock
  <1>10. IsUpdated(loop, Updated(loop, varying, i, mask, w), varying, i, mask, w)
    BY <1>1, <1>4, <1>7, UpdatedFacts
  <1>11. varying' \in [DimsOf(loop) -> [LanesOf(loop) -> Int]]
    BY <1>6, <1>10 DEF IsUpdated
  <1>12. block' \in Blocks \X DimsOf(loop)
    BY <1>5 DEF Blocks
  <1> QED BY <1>1, <1>4, <1>5, <1>9, <1>11, <1>12, XeStepped

\* What a run of the body means on Xe.
LEMMA XeBodyRun ==
    ASSUME LoopInv, block[1] = "xe_body"
    PROVE  \E c : /\ Aligned(loop, c)
                  /\ BodyRight(loop, c, mask, done, Elements)
                  /\ AtXeStep(loop, Rank(loop), c, mask, parked, varying, Through(loop, c, Rank(loop)))
  <1>1. XeInv /\ loop.xe /\ loop \in Domains /\ LoopTypeInv
    BY XeBlock DEF XeBlocks
  <1>2. PICK c : Aligned(loop, c) /\ AtXeBody(loop, c, mask, parked, varying, done)
    BY <1>1 DEF XeInv
  <1>3. mask \subseteq LanesOf(loop)
    BY <1>1 DEF LoopTypeInv
  <1>4. \A lane \in mask : Elements[lane] = [i \in DimsOf(loop) |-> varying[i][lane]]
    BY <1>1, <1>3, ElementFacts
  <1> HIDE DEF Elements
  <1>5. BodyRight(loop, c, mask, done, Elements)
        /\ AtXeStep(loop, Rank(loop), c, mask, parked, varying, Through(loop, c, Rank(loop)))
    BY <1>1, <1>2, <1>4, XeBodyStep
  <1> QED BY <1>2, <1>5

LEMMA XeBodyKeeps ==
    ASSUME LoopInv, XeBody PROVE LoopInv'
  <1>1. XeInv /\ loop.xe /\ loop \in Domains /\ LoopTypeInv /\ block[1] = "xe_body"
    BY XeBlock DEF XeBody, At, XeBlocks
  <1>2. PICK c : /\ Aligned(loop, c)
                 /\ BodyRight(loop, c, mask, done, Elements)
                 /\ AtXeStep(loop, Rank(loop), c, mask, parked, varying, Through(loop, c, Rank(loop)))
    BY <1>1, XeBodyRun
  <1>3. /\ varying \in [DimsOf(loop) -> [LanesOf(loop) -> Int]] /\ parked \in [DimsOf(loop) -> SUBSET LanesOf(loop)]
        /\ mask \in SUBSET LanesOf(loop)
    BY <1>1 DEF LoopTypeInv
  <1>4. /\ loop' = loop /\ mask' = mask /\ parked' = parked /\ varying' = varying /\ UNCHANGED cpuVars
        /\ block' = <<"xe_step", Rank(loop)>> /\ block'[1] = "xe_step" /\ block'[2] = Rank(loop)
    BY Vocabulary DEF XeBody, xeVars
  <1>5. done' = Through(loop, c, Rank(loop))
    BY <1>2, BodyDone DEF XeBody
  <1>6. XeInv' /\ InnerBlock'
    BY <1>2, <1>4, <1>5 DEF XeInv, InnerBlock
  <1>7. block' \in Blocks \X DimsOf(loop)
    <2>1. Rank(loop) \in DimsOf(loop)
      BY <1>1, LoopTypes
    <2> QED BY <1>4, <2>1 DEF Blocks
  <1> QED BY <1>1, <1>3, <1>4, <1>6, <1>7, XeStepped


\* The end of the loop.
LEMMA ExitKeeps ==
    ASSUME LoopInv, Exit PROVE LoopInv'
  <1>1. /\ loop' = loop /\ done' = done /\ UNCHANGED cpuVars /\ UNCHANGED xeVars
        /\ block[1] = "exit" /\ block' = <<"end", 0>> /\ block'[1] = "end"
    BY DEF Exit, At
  <1>2. loop \in Domains /\ LoopTypeInv
    BY DEF LoopInv, LoopTypeInv
  <1>3. mask' = loop.oldMask
    <2>1. CASE loop.xe
      <3>1. mask = LanesOf(loop)
        BY <1>1, <2>1 DEF LoopInv, XeInv
      <3>2. loop.unmask \/ loop.oldMask = LanesOf(loop)
        BY <1>2, <2>1, DomainFacts
      <3> QED BY <2>1, <3>1, <3>2 DEF Exit, XeRestoredMask
    <2>2. CASE ~loop.xe
      BY <2>2 DEF Exit
    <2> QED BY <2>1, <2>2
  <1>4. mask' \in SUBSET LanesOf(loop)
    BY <1>2, <1>3, DomainFacts
  <1>5. LoopTypeInv'
    BY <1>1, <1>2, <1>4 DEF LoopTypeInv, cpuVars, xeVars
  <1>6. InnerBlock'
    BY <1>1 DEF InnerBlock
  <1>7. ASSUME loop.xe PROVE XeInv'
    BY <1>1, <1>3 DEF XeInv
  <1>8. ASSUME ~loop.xe PROVE CpuInv'
    <2>1. Aligned(loop, counter)
      BY <1>8 DEF LoopInv, CpuInv
    <2> QED BY <1>1, <1>3, <2>1 DEF CpuInv, cpuVars
  <1> QED BY <1>1, <1>5, <1>6, <1>7, <1>8 DEF LoopInv

LEMMA LoopSteps == LoopInv /\ [LoopNext]_loopVars => LoopInv'
  <1> SUFFICES ASSUME LoopInv, [LoopNext]_loopVars PROVE LoopInv'
    OBVIOUS
  <1>1. ASSUME UNCHANGED loopVars PROVE LoopInv'
    <2>1. /\ loop' = loop /\ block' = block /\ mask' = mask /\ done' = done /\ counter' = counter /\ smeared' = smeared
          /\ extrasMask' = extrasMask /\ inExtras' = inExtras /\ stepIndex' = stepIndex /\ varying' = varying /\ parked' = parked
      BY <1>1 DEF loopVars, cpuVars, xeVars
    <2>2. LoopTypeInv' /\ InnerBlock'
      BY <2>1 DEF LoopInv, LoopTypeInv, InnerBlock
    <2>3. loop.xe => XeInv'
      BY <2>1 DEF LoopInv, XeInv
    <2>4. ~loop.xe => CpuInv'
      BY <2>1 DEF LoopInv, CpuInv
    <2> QED BY <2>1, <2>2, <2>3, <2>4 DEF LoopInv
  <1>2. CASE LoopNext
    <2>1. CASE TestOuter BY <2>1, TestOuterKeeps
    <2>2. CASE TestInner BY <2>2, TestInnerKeeps
    <2>3. CASE Reset BY <2>3, ResetKeeps
    <2>4. CASE Step BY <2>4, StepKeeps
    <2>5. CASE OuterInExtras BY <2>5, OuterInExtrasKeeps
    <2>6. CASE FullVector BY <2>6, FullVectorKeeps
    <2>7. CASE PartialInner BY <2>7, PartialInnerKeeps
    <2>8. CASE FullBody BY <2>8, FullBodyKeeps
    <2>9. CASE MaskedBody BY <2>9, MaskedBodyKeeps
    <2>10. CASE XeStart BY <2>10, XeStartKeeps
    <2>11. CASE XeTest BY <2>11, XeTestKeeps
    <2>12. CASE XeReset BY <2>12, XeResetKeeps
    <2>13. CASE XeStep BY <2>13, XeStepKeeps
    <2>14. CASE XeBody BY <2>14, XeBodyKeeps
    <2>15. CASE Exit BY <2>15, ExitKeeps
    <2>16. CASE LoopEnded BY <1>1, <2>16 DEF LoopEnded
    <2> QED BY <1>2, <2>1, <2>2, <2>3, <2>4, <2>5, <2>6, <2>7, <2>8, <2>9, <2>10, <2>11, <2>12, <2>13, <2>14, <2>15,
               <2>16 DEF LoopNext
  <1> QED BY <1>1, <1>2

LEMMA LoopInvariant == LoopSpec => []LoopInv
  <1>1. LoopInit => LoopInv
    BY LoopStart
  <1>2. LoopInv /\ [LoopNext]_loopVars => LoopInv'
    BY LoopSteps
  <1> QED BY <1>1, <1>2, PTL DEF LoopSpec

\* The variables of a foreach keep their types (ForeachStmt::EmitCode and
\* EmitCodeForXe): block is a basic block of one of the loop's dimensions.
THEOREM LoopTypeCorrect == LoopSpec => []LoopTypeOK
  <1>1. LoopInv => LoopTypeOK
    <2> SUFFICES ASSUME LoopInv PROVE LoopTypeOK
      OBVIOUS
    <2>1. LoopTypeInv
      BY DEF LoopInv
    <2>2. Lanes = LanesOf(loop) /\ Dims = DimsOf(loop)
      BY Vocabulary
    <2> QED BY <2>1, <2>2 DEF LoopTypeInv, LoopTypeOK
  <1> QED BY <1>1, LoopInvariant, PTL

\* The body of a foreach runs once for every element of the iteration domain
\* and for nothing else, with some lane on, and the mask is as it was after the
\* loop (ForeachStmt::EmitCode and EmitCodeForXe), for every number of
\* dimensions, every gang, tiled or not, and every range.
THEOREM IterationsAreExact == LoopSpec => []IterationsExact
  <1>1. LoopInv => IterationsExact
    <2> SUFFICES ASSUME LoopInv PROVE IterationsExact
      OBVIOUS
    <2>1. loop \in Domains /\ LoopTypeInv
      BY DEF LoopInv, LoopTypeInv
    <2>2. Dims = DimsOf(loop)
      BY Vocabulary
    <2>3. ASSUME AtBody PROVE \E c : BodyRight(loop, c, mask, done, Elements)
      <3>1. CASE block[1] \in {"full_body", "masked_body"}
        BY <3>1, CpuBodyRun
      <3>2. CASE block[1] = "xe_body"
        BY <3>2, XeBodyRun
      <3> QED BY <2>3, <3>1, <3>2 DEF AtBody
    <2>4. ElementsFresh
      <3> SUFFICES ASSUME AtBody, NEW lane \in mask
                   PROVE  /\ InDomain(Element(lane))
                          /\ Element(lane) \notin done
                          /\ \A other \in mask \ {lane} : Element(other) # Element(lane)
        BY DEF ElementsFresh
      <3>1. PICK c : BodyRight(loop, c, mask, done, Elements)
        BY <2>3
      <3>2. mask \subseteq LanesOf(loop)
        BY <3>1 DEF BodyRight
      <3>3. \A a \in mask : Element(a) = Elements[a]
        BY <3>2, ElementFacts
      <3> HIDE DEF Elements
      <3>4. Elements[lane] \in Space(loop) /\ Elements[lane] \notin done
            /\ \A other \in mask \ {lane} : Elements[other] # Elements[lane]
        BY <3>1 DEF BodyRight
      <3>5. InDomain(Elements[lane])
        BY <2>2, <3>4 DEF InDomain, Space
      <3> QED BY <3>3, <3>4, <3>5
    <2>5. BodyHasLanes
      BY <2>3 DEF BodyHasLanes, BodyRight
    <2>6. DomainCovered
      <3> SUFFICES ASSUME block[1] = "exit", NEW e \in [Dims -> Indices], InDomain(e) PROVE e \in done
        BY DEF DomainCovered, At
      <3>1. done = Space(loop)
        BY DEF LoopInv, XeInv, CpuInv
      <3>2. Indices \subseteq Int
        <4>1. \A i \in Dims : loop.startVals[i] \in Int /\ loop.endVals[i] \in Int
          BY <2>1, <2>2, LoopTypes
        <4> QED BY <4>1 DEF Indices
      <3>3. e \in [DimsOf(loop) -> Int]
        BY <2>2, <3>2
      <3>4. e \in Space(loop)
        BY <2>2, <3>3 DEF InDomain, Space
      <3> QED BY <3>1, <3>4
    <2>7. LanesBack
      BY DEF LanesBack, At, LoopInv, XeInv, CpuInv
    <2> QED BY <2>4, <2>5, <2>6, <2>7 DEF IterationsExact
  <1> QED BY <1>1, LoopInvariant, PTL

=============================================================================
