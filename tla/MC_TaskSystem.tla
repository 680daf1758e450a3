---------------------------- MODULE MC_TaskSystem ----------------------------
(***************************************************************************)
(* TaskSystem for TLC: application threads and groups are interchangeable. *)
(***************************************************************************)
EXTENDS TaskSystem, TLC

CONSTANTS c1, c2, g1, g2, g3

Symmetry == Permutations(Clients) \cup Permutations(Groups)
=============================================================================
