-------------------------- MODULE MC_FunctionCalls --------------------------
(***************************************************************************)
(* A module with a function of each kind, for TLC.                         *)
(***************************************************************************)
EXTENDS FunctionCalls

PlainFunction == [task |-> FALSE, exported |-> FALSE, externC |-> FALSE, unmasked |-> FALSE,
          externalOnly |-> FALSE, alwaysInline |-> FALSE, costly |-> FALSE]

MCTypes ==
    [f  |-> [PlainFunction EXCEPT !.costly = TRUE],
     g  |-> [PlainFunction EXCEPT !.alwaysInline = TRUE],
     u  |-> [PlainFunction EXCEPT !.unmasked = TRUE],
     e  |-> [PlainFunction EXCEPT !.exported = TRUE, !.costly = TRUE],
     eo |-> [PlainFunction EXCEPT !.exported = TRUE, !.externalOnly = TRUE],
     c  |-> [PlainFunction EXCEPT !.externC = TRUE, !.costly = TRUE],
     t  |-> [PlainFunction EXCEPT !.task = TRUE],
     ut |-> [PlainFunction EXCEPT !.task = TRUE, !.unmasked = TRUE]]

\* The defaults, and settings that all differ from them.
Defaults ==
    [generateInternalExportFunctions |-> TRUE, mangleFunctionsWithTarget |-> FALSE,
     resetFTZ_DAZ |-> FALSE, maskingIsFree |-> FALSE,
     disableCoherentControlFlow |-> FALSE, disableMaskAllOnOptimizations |-> FALSE]
MCOptions == {Defaults, [o \in DOMAIN Defaults |-> ~Defaults[o]]}
=============================================================================
