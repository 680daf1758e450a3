------------------------- MODULE MaskedControlFlow -------------------------
(***************************************************************************)
(* How the code ispc emits for if, for, do, switch, foreach_active,        *)
(* foreach_unique, break, continue and return runs one function for a      *)
(* whole gang: one program counter and an execution mask that says which   *)
(* program instances (lanes) take part (FunctionEmitContext in ctx.cpp,    *)
(* the EmitCode methods in stmt.cpp).                                      *)
(*                                                                         *)
(* work is the code left to run, the next statement first.  Besides        *)
(* statements it holds the code emitted at the end of a construct:         *)
(*   else             the false branch of a varying if                     *)
(*   endif, endloop,  what EndIf, EndLoop, EndSwitch and EndForeach emit;  *)
(*   endswitch,       with the saved mask they are the control flow stack  *)
(*   endforeach       (controlFlowInfo) of the code at the front of work   *)
(*   next             the continue target of a loop                        *)
(*   more             that of a foreach_active or foreach_unique           *)
(*   after            the break target of a switch                         *)
(*                                                                         *)
(* Each lane also has the continuation kont[lane] of its own, serial       *)
(* execution of the function; it advances when the gang runs the lane's    *)
(* next statement with the lane on.  kont is not in the code: it says what *)
(* each program instance wants to execute.                                 *)
(*                                                                         *)
(* Tests are chosen for every lane, off lanes included, whose registers    *)
(* hold anything.  cfor and cdo run the same code as for and do with a     *)
(* mask the compiler knows to be all on, so they are not told apart.       *)
(* The mask of a regular foreach is the subject of module Foreach; goto,   *)
(* unmasked and targets with a hardware mask (Xe) are left out.            *)
(***************************************************************************)
EXTENDS SpmdStatements, SequencesExt

CONSTANTS
    Lanes,          \* the program instances of the gang
    Programs,       \* the function bodies to run, sequences of statements
    Values,         \* the values a foreach_unique may find in the lanes
    NaN             \* the floating-point value that equals no value

VARIABLES
    work,           \* the code left to run
    internal,       \* *internalMaskAddressInfo
    function,       \* functionMaskValue
    returned,       \* *returnedLanesAddressInfo
    ctx,            \* the state of the innermost loop or switch
    kont            \* what each lane has left of its serial execution

vars == <<work, internal, function, returned, ctx, kont>>

-----------------------------------------------------------------------------
\* GetFullMask.
Full == internal \cap function

\* The lanes of the construct: brk and cont are *breakLanesAddressInfo and
\* *continueLanesAddressInfo, tracked says that they are allocated, entry is
\* blockEntryMask.
Context(tracked, switchUniform, entry) ==
    [brk |-> {}, cont |-> {}, tracked |-> tracked, entry |-> entry,
     switchConditionWasUniform |-> switchUniform]

Frames == {"endif", "endloop", "endswitch", "endforeach"}

\* The index in w of the first element of a kind.
First(w, kinds) == SelectInSeq(w, LAMBDA e : e.op \in kinds)

\* The suffix of w that starts at the first element of a kind.
From(w, kinds) == SubSeq(w, First(w, kinds), Len(w))

\* Every enclosing construct inside the innermost one of the kind is uniform.
ifsInCFAllUniform(kind) ==
    \A i \in 1 .. Len(work) :
        (work[i].op \in Frames /\ \A j \in 1 .. i : work[j].op # kind)
            => work[i].uniform

inSwitchStatement ==
    LET i == First(work, Frames \ {"endif"})
    IN i # 0 /\ work[i].op = "endswitch"

inForeach ==
    LET i == First(work, Frames \ {"endif"})
    IN i # 0 /\ work[i].op = "endforeach"

EnclosingLoopIsForeachActive ==
    \E i \in 1 .. Len(work) : work[i].op = "endforeach" /\ work[i].active

VaryingCFDepthIsZero ==
    \A i \in 1 .. Len(work) : work[i].op \in Frames => work[i].uniform

\* The code of work that the lanes that are on will run.
WantedByOnLanes == SelectSeq(work, LAMBDA e : e.op \notin Frames \cup {"else"})

Here(op) == work # <<>> /\ Head(work).op = op

\* The lanes of mask whose next statement is at the front of work execute it
\* and go on with new(lane).
Step(mask, new(_)) ==
    kont' = [l \in Lanes |->
        IF l \in mask /\ kont[l] # <<>> /\ Head(kont[l]) = Head(work)
        THEN new(l) ELSE kont[l]]

Init ==
    /\ work \in Programs
    /\ internal = Lanes
    /\ function \in SUBSET Lanes \ {{}}
    /\ returned = {}
    /\ ctx = Context(FALSE, FALSE, {})
    /\ kont = [l \in Lanes |-> work]

-----------------------------------------------------------------------------
\* A statement without control flow.
ExprStep ==
    /\ Here("expr")
    /\ work' = Tail(work)
    /\ Step(Full, LAMBDA l : Tail(kont[l]))
    /\ UNCHANGED <<internal, function, returned, ctx>>

Branch(s, taken) == IF taken THEN s.trueStmts ELSE s.falseStmts

EndIfFrame(uniform, mask) ==
    [op |-> "endif", uniform |-> uniform, mask |-> mask]

ElseFrame(s, mask, test, check) ==
    [op |-> "else", stmts |-> s.falseStmts, mask |-> mask \ test, check |-> check]

\* IfStmt::EmitCode, uniform test: all lanes take the same branch.
UniformIf ==
    /\ Here("if")
    /\ Head(work).uniform
    /\ \E taken \in BOOLEAN :
        /\ work' = Branch(Head(work), taken)
                       \o <<EndIfFrame(TRUE, internal)>> \o Tail(work)
        /\ Step(Full, LAMBDA l : Branch(Head(work), taken) \o Tail(kont[l]))
    /\ UNCHANGED <<internal, function, returned, ctx>>

\* emitMaskedTrueAndFalse: both branches run whatever the mask.
FlatIf(s, test) ==
    /\ internal' = internal \cap test
    /\ work' = s.trueStmts \o <<ElseFrame(s, internal, test, FALSE)>>
                   \o <<EndIfFrame(FALSE, internal)>> \o Tail(work)

\* emitMaskMixed: a branch that no lane wants is jumped over.
MixedIf(s, test) ==
    /\ internal' = internal \cap test
    /\ work' = (IF Full \cap test # {} THEN s.trueStmts ELSE <<>>)
                   \o <<ElseFrame(s, internal, test, TRUE)>>
                   \o <<EndIfFrame(FALSE, internal)>> \o Tail(work)

\* emitMaskAllOn: the mask is all on; a test that is all true or all false
\* runs one branch only.
AllOnIf(s, test) ==
    IF test \in {{}, Lanes}
    THEN /\ work' = Branch(s, test = Lanes)
                        \o <<EndIfFrame(FALSE, Lanes)>> \o Tail(work)
         /\ UNCHANGED internal
    ELSE FlatIf(s, test)

\* IfStmt::emitVaryingIf.
VaryingIf ==
    /\ Here("if")
    /\ ~Head(work).uniform
    /\ \E test \in SUBSET Lanes :
        /\ IF Head(work).coherent
           THEN IF Full = Lanes THEN AllOnIf(Head(work), test)
                                ELSE MixedIf(Head(work), test)
           ELSE IF Head(work).flat THEN FlatIf(Head(work), test)
                                   ELSE MixedIf(Head(work), test)
        /\ Step(Full, LAMBDA l : Branch(Head(work), l \in test) \o Tail(kont[l]))
    /\ UNCHANGED <<function, returned, ctx>>

\* The false branch, after the true one.
Else ==
    /\ Here("else")
    /\ internal' = Head(work).mask
    /\ work' = (IF Head(work).check /\ Head(work).mask \cap function = {}
                THEN <<>> ELSE Head(work).stmts) \o Tail(work)
    /\ UNCHANGED <<function, returned, ctx, kont>>

\* restoreMaskGivenReturns.
GivenReturns(mask) == mask \ returned

\* Mutant: the lanes that broke are on again.
EndIfKeepsBreaks ==
    /\ Here("endif")
    /\ internal' = IF Head(work).uniform THEN internal
                   ELSE GivenReturns(Head(work).mask) \ ctx.cont
    /\ work' = Tail(work)
    /\ UNCHANGED <<function, returned, ctx, kont>>

\* Back to the mask before the if, without the lanes that returned, broke or
\* continued in it.
EndIf ==
    /\ Here("endif")
    /\ internal' = IF Head(work).uniform THEN internal
                   ELSE GivenReturns(Head(work).mask) \ (ctx.brk \cup ctx.cont)
    /\ work' = Tail(work)
    /\ UNCHANGED <<function, returned, ctx, kont>>

-----------------------------------------------------------------------------
Next_(s) == [op |-> "next", loop |-> s]

Iteration(s) == s.body \o <<Next_(s)>>

EndLoopFrame(s) ==
    [op |-> "endloop", uniform |-> s.uniform, mask |-> internal, outer |-> ctx]

\* The values a test can take: the same for all lanes, or any.
Tests(s) == IF s.uniform THEN {{}, Lanes} ELSE SUBSET Lanes

\* A uniform test jumps; a varying one turns lanes off, and the loop goes on
\* while a lane is on (BranchIfMaskAny).
TestedMask(s, mask, test) == IF s.uniform THEN mask ELSE mask \cap test

GoesOn(s, mask, test) ==
    IF s.uniform THEN test = Lanes ELSE mask \cap test \cap function # {}

\* ForStmt::EmitCode up to the body: StartLoop and the first test.
ForLoop ==
    /\ Here("for")
    /\ \E test \in Tests(Head(work)) :
        LET s == Head(work) IN
        /\ work' = (IF GoesOn(s, internal, test) THEN Iteration(s) ELSE <<>>)
                       \o <<EndLoopFrame(s)>> \o Tail(work)
        /\ internal' = TestedMask(s, internal, test)
        /\ ctx' = Context(~s.uniform, ctx.switchConditionWasUniform,
                          internal' \cap function)
        /\ Step(Full, LAMBDA l :
               (IF l \in test THEN Iteration(s) ELSE <<>>) \o Tail(kont[l]))
    /\ UNCHANGED <<function, returned>>

\* DoStmt::EmitCode up to the body.
DoLoop ==
    /\ Here("do")
    /\ work' = Iteration(Head(work)) \o <<EndLoopFrame(Head(work))>> \o Tail(work)
    /\ ctx' = Context(~Head(work).uniform, ctx.switchConditionWasUniform, Full)
    /\ Step(Full, LAMBDA l : Iteration(Head(work)) \o Tail(kont[l]))
    /\ UNCHANGED <<internal, function, returned>>

\* RestoreContinuedLanes.
WithContinued == internal \cup ctx.cont

\* The continue target: RestoreContinuedLanes, ClearBreakLanes, the step and
\* the test.
LoopNextWith(mask) ==
    /\ Here("next")
    /\ LET s == Head(work).loop IN
       \E test \in Tests(s) :
        /\ work' = (IF GoesOn(s, mask, test) THEN Iteration(s) ELSE <<>>)
                       \o Tail(work)
        /\ internal' = TestedMask(s, mask, test)
        /\ ctx' = [ctx EXCEPT !.brk = {}, !.cont = {},
                              !.entry = internal' \cap function]
        /\ Step(mask \cap function, LAMBDA l :
               (IF l \in test THEN Iteration(s) ELSE <<>>) \o Tail(kont[l]))
    /\ UNCHANGED <<function, returned>>

\* Mutant: RestoreContinuedLanes is left out.
LoopNextForgetsContinued == LoopNextWith(internal)

LoopNext == LoopNextWith(WithContinued)

EndLoop ==
    /\ Here("endloop")
    /\ internal' = IF Head(work).uniform THEN internal
                   ELSE GivenReturns(Head(work).mask)
    /\ ctx' = Head(work).outer
    /\ work' = Tail(work)
    /\ UNCHANGED <<function, returned, kont>>

-----------------------------------------------------------------------------
\* jumpIfAllLoopLanesAreDone: every lane that was on when the iteration (the
\* switch) began has returned, broken or continued; in a foreach they can only
\* have continued.
AllLoopLanesAreDone(brk, cont) ==
    (IF inForeach THEN cont ELSE returned \cup brk \cup cont) \cap function
        = ctx.entry

LeaveConstruct(k) ==
    LET i == First(k, {"next", "after"}) IN SubSeq(k, i + 1, Len(k))

\* Break jumps when every lane that is on goes along.
BreakJumps ==
    IF inSwitchStatement
    THEN ctx.switchConditionWasUniform /\ ifsInCFAllUniform("endswitch")
    ELSE ifsInCFAllUniform("endloop")

\* Break, when the lanes that are on leave together.
BreakJump ==
    /\ Here("break")
    /\ BreakJumps
    /\ work' = From(work, IF inSwitchStatement THEN {"endswitch"} ELSE {"endloop"})
    /\ Step(Full, LAMBDA l : LeaveConstruct(kont[l]))
    /\ UNCHANGED <<internal, function, returned, ctx>>

\* Break under varying control flow: the lanes are noted and turned off.
\* When no lane is left the code jumps to the continue target, since some
\* lanes may have continued; in a switch, to the break target.
BreakMask ==
    /\ Here("break")
    /\ ~BreakJumps
    /\ ctx' = [ctx EXCEPT !.brk = @ \cup internal]
    /\ internal' = {}
    /\ work' = IF AllLoopLanesAreDone(ctx'.brk, ctx.cont)
               THEN From(work, IF inSwitchStatement THEN {"after"} ELSE {"next"})
               ELSE Tail(work)
    /\ Step(Full, LAMBDA l : LeaveConstruct(kont[l]))
    /\ UNCHANGED <<function, returned>>

ContinueTarget == {"next", "more"}

\* Continue jumps as Break does, and always in a foreach_active, where one lane
\* runs alone.
ContinueJumps == ifsInCFAllUniform("endloop") \/ EnclosingLoopIsForeachActive

ContinueJump ==
    /\ Here("continue")
    /\ ContinueJumps
    /\ work' = From(work, ContinueTarget)
    /\ Step(Full, LAMBDA l : From(kont[l], ContinueTarget))
    /\ UNCHANGED <<internal, function, returned, ctx>>

ContinueMask ==
    /\ Here("continue")
    /\ ~ContinueJumps
    /\ ctx' = [ctx EXCEPT !.cont = @ \cup internal]
    /\ internal' = {}
    /\ work' = IF AllLoopLanesAreDone(ctx.brk, ctx'.cont)
               THEN From(work, ContinueTarget) ELSE Tail(work)
    /\ Step(Full, LAMBDA l : From(kont[l], ContinueTarget))
    /\ UNCHANGED <<function, returned>>

\* CurrentLanesReturned under uniform control flow only, or when no lane of
\* the function is left: ReturnInst.
ReturnJump ==
    /\ Here("return")
    /\ VaryingCFDepthIsZero \/ returned \cup Full = function
    /\ work' = <<>>
    /\ Step(Full, LAMBDA l : <<>>)
    /\ UNCHANGED <<internal, function, returned, ctx>>

\* CurrentLanesReturned otherwise: the lanes are noted and turned off.
ReturnMask ==
    /\ Here("return")
    /\ ~VaryingCFDepthIsZero
    /\ returned \cup Full # function
    /\ returned' = returned \cup Full
    /\ internal' = {}
    /\ work' = Tail(work)
    /\ Step(Full, LAMBDA l : <<>>)
    /\ UNCHANGED <<function, ctx>>

-----------------------------------------------------------------------------
After == [op |-> "after"]

Labels(s) == {i \in DOMAIN s.body : s.body[i].op = "label"}

CaseValues(s) == {s.body[i].value : i \in Labels(s)} \ {0}

\* The code value v runs: from its case, else from default (0), else none.
Entry(s, v) ==
    LET w == IF v \in CaseValues(s) THEN v ELSE 0
        at == {i \in Labels(s) : s.body[i].value = w}
    IN IF at = {} THEN <<>>
       ELSE SubSeq(s.body, CHOOSE i \in at : TRUE, Len(s.body)) \o <<After>>

EndSwitchFrame(s, value) ==
    [op |-> "endswitch", uniform |-> s.uniform, mask |-> internal,
     outer |-> ctx, value |-> value, cases |-> CaseValues(s)]

\* The values of the expression that the labels tell apart; one matches none.
SwitchValues(s) == {0} \cup CaseValues(s)

\* SwitchStmt::EmitCode and SwitchInst.  A uniform expression jumps to its
\* label.  A varying one turns all lanes off and starts at the first label.
Switch ==
    /\ Here("switch")
    /\ LET s == Head(work) IN
       \E value \in (IF s.uniformExpr
                     THEN {[l \in Lanes |-> v] : v \in SwitchValues(s)}
                     ELSE [Lanes -> SwitchValues(s)]) :
        /\ work' = (IF s.uniformExpr
                    THEN Entry(s, value[CHOOSE l \in Lanes : TRUE])
                    ELSE From(s.body \o <<After>>, {"label", "after"}))
                       \o <<EndSwitchFrame(s, value)>> \o Tail(work)
        /\ internal' = IF s.uniformExpr THEN internal ELSE {}
        /\ ctx' = Context(TRUE, s.uniformExpr, Full)
        /\ Step(Full, LAMBDA l : Entry(s, value[l]) \o Tail(kont[l]))
    /\ UNCHANGED <<function, returned>>

\* The lanes of the switch that want a case, and those that match none.
CaseLanes(frame, v) == {l \in frame.mask : frame.value[l] = v}

DefaultLanes(frame) == frame.mask \ UNION {CaseLanes(frame, v) : v \in frame.cases}

\* EmitCaseLabel and EmitDefaultLabel: the lanes whose value the label names
\* join those that fall through.  addSwitchMaskCheck then jumps to the next
\* label, or out of the switch, if the mask is all off.
Label ==
    /\ Here("label")
    /\ LET frame == work[First(work, {"endswitch"})]
           mask == internal \cup IF Head(work).value = 0 THEN DefaultLanes(frame)
                                 ELSE CaseLanes(frame, Head(work).value)
       IN IF ctx.switchConditionWasUniform
          THEN /\ work' = Tail(work)
               /\ Step(Full, LAMBDA l : Tail(kont[l]))
               /\ UNCHANGED internal
          ELSE /\ internal' = mask
               /\ work' = IF Head(work).check /\ mask = {}
                          THEN From(Tail(work), {"label", "after"})
                          ELSE Tail(work)
               /\ Step(mask \cap function, LAMBDA l : Tail(kont[l]))
    /\ UNCHANGED <<function, returned, ctx>>

\* The block after the switch: EndSwitch.
SwitchDone ==
    /\ Here("after")
    /\ work' = Tail(work)
    /\ Step(Full, LAMBDA l : Tail(kont[l]))
    /\ UNCHANGED <<internal, function, returned, ctx>>

EndSwitch ==
    /\ Here("endswitch")
    /\ internal' = IF Head(work).uniform THEN internal
                   ELSE GivenReturns(Head(work).mask)
    /\ ctx' = Head(work).outer
    /\ work' = Tail(work)
    /\ UNCHANGED <<function, returned, kont>>

-----------------------------------------------------------------------------
\* The end of the body for the lanes with a value.
More(s, value) == [op |-> "more", loop |-> s, value |-> value]

EndForeachFrame(s, value) ==
    [op |-> "endforeach", uniform |-> FALSE, active |-> s.op = "foreach_active",
     mask |-> internal, outer |-> ctx, remaining |-> Full, value |-> value]

\* ICMP_EQ, and FCMP_OEQ of floating-point values.
Equal(a, b) == a = b /\ a # NaN

\* The lanes to run for a value: one that remains, or, in a foreach_unique, all
\* lanes of the mask with the value.
IterMask(frame, value) ==
    {l \in (IF frame.active THEN frame.remaining ELSE frame.mask) :
        Equal(frame.value[l], value)}

(***************************************************************************)
(* find_next: the body for the lanes with the value of a lane that         *)
(* remains (the code takes the first, but lanes have no order here).  If   *)
(* none remains, count_trailing_zeros finds no lane: a foreach_active runs *)
(* the body for none, and the value of a foreach_unique is undefined.      *)
(***************************************************************************)
FindNext(s, frame, rest) ==
    \E first \in (IF frame.remaining # {} THEN frame.remaining ELSE Lanes) :
        LET value == frame.value[first]
            loopMask == IterMask(frame, value)
        IN /\ internal' = loopMask
           /\ work' = s.body \o <<More(s, value)>>
                         \o <<[frame EXCEPT !.remaining = @ \ loopMask]>> \o rest
           /\ ctx' = Context(TRUE, ctx.switchConditionWasUniform,
                             loopMask \cap function)

\* What the lanes iterate over: a foreach_active runs the body for one lane at a
\* time, as if each had a value of its own.
IterationValues(s) ==
    IF s.op = "foreach_active" THEN {[l \in Lanes |-> l]} ELSE [Lanes -> Values]

\* ForeachActiveStmt::EmitCode and ForeachUniqueStmt::EmitCode.
ForeachLanes ==
    /\ Here("foreach_active") \/ Here("foreach_unique")
    /\ LET s == Head(work) IN
       \E value \in IterationValues(s) :
        /\ FindNext(s, EndForeachFrame(s, value), Tail(work))
        /\ Step(Full, LAMBDA l : s.body \o <<More(s, value[l])>> \o Tail(kont[l]))
    /\ UNCHANGED <<function, returned>>

\* check_for_more, the continue target, and EndForeach.
CheckForMore ==
    /\ Here("more")
    /\ LET frame == work[2]
           rest == SubSeq(work, 3, Len(work))
       IN IF frame.remaining # {}
          THEN FindNext(Head(work).loop, frame, rest)
          ELSE /\ internal' = frame.mask
               /\ ctx' = frame.outer
               /\ work' = rest
    /\ Step(WithContinued \cap function, LAMBDA l : Tail(kont[l]))
    /\ UNCHANGED <<function, returned>>

-----------------------------------------------------------------------------
\* The function has returned.
Done == work = <<>> /\ UNCHANGED vars

Next ==
    \/ ExprStep \/ UniformIf \/ VaryingIf \/ Else \/ EndIf
    \/ ForLoop \/ DoLoop \/ LoopNext \/ EndLoop
    \/ BreakJump \/ BreakMask \/ ContinueJump \/ ContinueMask
    \/ ReturnJump \/ ReturnMask
    \/ Switch \/ Label \/ SwitchDone \/ EndSwitch
    \/ ForeachLanes \/ CheckForMore
    \/ Done

Spec == Init /\ [][Next]_vars

\* A thread that runs the function takes its next step.
FairSpec == Spec /\ WF_vars(Next)
-----------------------------------------------------------------------------
(***************************************************************************)
(* At each statement the execution mask is on for a program instance if    *)
(* and only if the instance wants to execute that statement (the language  *)
(* reference, "Control Flow").  A lane that is on is where the gang is in  *)
(* its own serial execution; a lane that is there is on.                   *)
(***************************************************************************)
MaskExact ==
    /\ \A l \in Full : kont[l] = WantedByOnLanes
    /\ Here("expr") =>
           \A l \in function : kont[l] = WantedByOnLanes => l \in Full

(***************************************************************************)
(* The program counter passes through every statement that any program     *)
(* instance wants to execute: when the function returns, no instance has   *)
(* anything left to run.                                                   *)
(***************************************************************************)
InstancesFinish == work = <<>> => \A l \in function : kont[l] = <<>>

(***************************************************************************)
(* A break or continue that cannot jump finds the lane masks of its loop   *)
(* or switch allocated (the assertions in Break and Continue): no loop     *)
(* with such a statement was taken for a uniform one.                      *)
(***************************************************************************)
LanesTracked ==
    /\ (Here("break") /\ ~BreakJumps) => ctx.tracked
    /\ (Here("continue") /\ ~ContinueJumps) => ctx.tracked

(***************************************************************************)
(* No program instance is lost: those that break or continue are recorded  *)
(* until they are on again, and all of them reach the end of the function. *)
(***************************************************************************)
NoLaneLeftBehind == InstancesFinish /\ LanesTracked

(***************************************************************************)
(* A function whose only loops are foreach_active and foreach_unique       *)
(* returns: they run the body once for each lane or each unique value.     *)
(***************************************************************************)
FunctionReturns == <>(work = <<>>)
=============================================================================
