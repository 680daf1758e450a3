--------------------------- MODULE SpmdStatements ---------------------------
(***************************************************************************)
(* The statements the execution masks are about, as the code generator     *)
(* sees them: every node carries what the compiler computed for it before  *)
(* it emits code.  "uniform" is the outcome of type checking, bc and vbc   *)
(* are what lHasVaryingBreakOrContinue looks for, "safe" is                *)
(* SafeToRunWithMaskAllOff.  The analyses walk the tree bottom-up, so each *)
(* constructor computes its own values from those of its children.         *)
(*                                                                         *)
(* What an expression computes is left out: an expression statement has a  *)
(* name, so that two of them differ, and is safe to run with the mask all  *)
(* off or not.                                                             *)
(***************************************************************************)
EXTENDS Naturals, Sequences

\* Some statement of the list breaks or continues out of the list.
HasBC(stmts) == \E i \in DOMAIN stmts : stmts[i].bc

\* Some statement of the list does so under a varying if.
HasVaryingBC(stmts) == \E i \in DOMAIN stmts : stmts[i].vbc

SafeToRunWithMaskAllOff(stmts) == \A i \in DOMAIN stmts : stmts[i].safe

ExprStmt(name, safe) ==
    [op |-> "expr", name |-> name, bc |-> FALSE, vbc |-> FALSE, safe |-> safe]

BreakStmt == [op |-> "break", bc |-> TRUE, vbc |-> FALSE, safe |-> TRUE]

ContinueStmt == [op |-> "continue", bc |-> TRUE, vbc |-> FALSE, safe |-> TRUE]

ReturnStmt == [op |-> "return", bc |-> FALSE, vbc |-> FALSE, safe |-> TRUE]

(***************************************************************************)
(* "coherent" is a cif; "cheap" that both branches cost less than          *)
(* PREDICATE_SAFE_IF_STATEMENT_COST.  A flat if runs both branches without *)
(* asking whether any lane wants them.                                     *)
(***************************************************************************)
IfStmt(uniform, coherent, cheap, trueStmts, falseStmts) ==
    LET both == trueStmts \o falseStmts IN
    [op |-> "if", uniform |-> uniform, coherent |-> coherent,
     flat |-> cheap /\ SafeToRunWithMaskAllOff(both),
     trueStmts |-> trueStmts, falseStmts |-> falseStmts,
     bc |-> HasBC(both),
     vbc |-> HasVaryingBC(both) \/ (~uniform /\ HasBC(both)),
     safe |-> SafeToRunWithMaskAllOff(both)]

(***************************************************************************)
(* A loop ("for" tests before the body, "do" after it).  A uniform test is *)
(* made varying when lanes may break or continue on their own.  The walk   *)
(* does not look into nested loops: bc and vbc are false.                  *)
(***************************************************************************)

LoopStmt(op, uniformTest, body) ==
    [op |-> op, uniform |-> uniformTest /\ ~HasVaryingBC(body), body |-> body,
     bc |-> FALSE, vbc |-> FALSE, safe |-> SafeToRunWithMaskAllOff(body)]

(***************************************************************************)
(* foreach_active and foreach_unique (op).  They are no place for break or *)
(* return; the walk looks for a continue in them as in a block.            *)
(***************************************************************************)
ForeachLanesStmt(op, body) ==
    [op |-> op, body |-> body,
     bc |-> HasBC(body), vbc |-> HasVaryingBC(body), safe |-> FALSE]

(***************************************************************************)
(* A label of a switch; value 0 is default.  The mask is checked at the    *)
(* label when the one statement it stands before asks for it (lCheckMask). *)
(***************************************************************************)
LabelStmt(value, check) ==
    [op |-> "label", value |-> value, check |-> check,
     bc |-> FALSE, vbc |-> FALSE, safe |-> TRUE]

SwitchStmt(uniformExpr, body) ==
    [op |-> "switch", uniformExpr |-> uniformExpr,
     uniform |-> uniformExpr /\ ~HasVaryingBC(body), body |-> body,
     bc |-> HasBC(body), vbc |-> HasVaryingBC(body),
     safe |-> SafeToRunWithMaskAllOff(body)]
=============================================================================
