------------------------ MODULE MC_MaskedControlFlow ------------------------
(***************************************************************************)
(* MaskedControlFlow for TLC: the function bodies, by grammar.             *)
(***************************************************************************)
EXTENDS MaskedControlFlow

CONSTANTS l1, l2, l3

Symmetry == Permutations(Lanes)

E(name) == ExprStmt(name, FALSE)

\* if (v) s, as a plain if, a flat one, and a cif with an else branch.
VaryingIfs(s) ==
    {IfStmt(FALSE, FALSE, FALSE, <<s>>, <<>>),
     IfStmt(FALSE, FALSE, TRUE, <<s>>, <<>>),
     IfStmt(FALSE, TRUE, FALSE, <<s>>, <<E("else")>>)}

\* Just a varying if.
PlainIf(s) == IfStmt(FALSE, FALSE, FALSE, <<s>>, <<>>)

\* s on its own and under a uniform if.
UniformIfs(s) == {s, IfStmt(TRUE, FALSE, FALSE, <<s>>, <<>>)}

\* s under varying control flow, two deep at most.
Masked(s) ==
    VaryingIfs(s) \cup {IfStmt(FALSE, FALSE, FALSE, <<i, E("in")>>, <<E("else")>>) :
                            i \in UniformIfs(s) \cup {PlainIf(s)}}

Jumps == {BreakStmt, ContinueStmt, ReturnStmt}

Loops(body) == {LoopStmt(op, uniform, body) : op \in {"for", "do"},
                                              uniform \in BOOLEAN}

Function(stmts) == {<<s, E("end")>> : s \in stmts}

\* Two jumps in a row in a loop, the second masked or not.
TwoJumps(j, k) ==
    {<<i, E("mid"), n, E("last")>> : i \in Masked(j),
                                     n \in UniformIfs(k) \cup {PlainIf(k)}}

\* A continue that lanes take on their own, and later in the same iteration a
\* break that the others take together.
BreakAfterContinue ==
    UNION {Function(Loops(<<i, E("mid"), n, E("last")>>)) :
               i \in VaryingIfs(ContinueStmt), n \in UniformIfs(BreakStmt)}

LoopPrograms ==
    UNION {UNION {Function(Loops(b)) : b \in TwoJumps(j, k)} :
               <<j, k>> \in {p \in Jumps \X Jumps : p # <<ContinueStmt, BreakStmt>>}}

\* A loop in a loop, and in a varying if in a loop.
NestedPrograms ==
    UNION {UNION {Function(Loops(<<i, n, E("last")>>)
                      \cup Loops(<<IfStmt(FALSE, FALSE, FALSE, <<n, E("in")>>, <<i>>),
                                  E("last")>>)) :
                      n \in Loops(<<m, E("inner")>>)} :
               i \in {PlainIf(BreakStmt), PlainIf(ReturnStmt)},
               m \in UNION {VaryingIfs(j) : j \in Jumps}}

\* A switch with cases that may fall through, in a function and in a loop.
Switches(s, t, check) ==
    {SwitchStmt(uniform, body) : uniform \in BOOLEAN,
        body \in {<<LabelStmt(1, check), E("one"), s, LabelStmt(0, check), t,
                   E("other"), LabelStmt(2, check), E("two")>>,
                 <<LabelStmt(1, check), s, E("one"), LabelStmt(2, check), t,
                   E("two")>>}}

SwitchPrograms ==
    Function(UNION {Switches(s, t, check) :
                 s \in UNION {{PlainIf(j)} \cup UniformIfs(j) :
                                  j \in {BreakStmt, ReturnStmt}},
                 t \in {PlainIf(BreakStmt), E("none")}, check \in BOOLEAN})
    \cup Function({LoopStmt("for", FALSE, <<PlainIf(ContinueStmt), s, E("last")>>) :
                 s \in Switches(PlainIf(BreakStmt), PlainIf(ReturnStmt), TRUE)})

\* foreach_active, where a continue stands under uniform ifs, and
\* foreach_unique.
Foreachs ==
    {ForeachLanesStmt("foreach_active", <<E("a"), s, E("b")>>) :
         s \in {IfStmt(TRUE, FALSE, FALSE, <<ContinueStmt>>, <<>>),
                LoopStmt("for", FALSE, <<PlainIf(BreakStmt), E("loop")>>)}}
    \cup {ForeachLanesStmt("foreach_unique", <<s, E("b")>>) :
              s \in VaryingIfs(ContinueStmt) \cup UniformIfs(ContinueStmt)
                       \cup {LoopStmt("do", TRUE, <<PlainIf(BreakStmt), E("loop")>>)}}

\* In a function, a varying if, and a loop that lanes leave.
ForeachPrograms ==
    Function(Foreachs \cup {PlainIf(s) : s \in Foreachs})
    \cup Function({LoopStmt("for", FALSE, <<PlainIf(j), s, E("last")>>) :
                      j \in Jumps, s \in Foreachs})

\* A foreach_unique and nothing else.
UniqueOnly == Function({ForeachLanesStmt("foreach_unique", <<E("body")>>)})

AllPrograms ==
    LoopPrograms \cup NestedPrograms \cup SwitchPrograms \cup ForeachPrograms
=============================================================================
