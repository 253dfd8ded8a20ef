----------------------------- MODULE MCContainer -----------------------------
(***************************************************************************)
(* Container with names that nothing tells apart.                          *)
(***************************************************************************)
EXTENDS Container, TLC

NamePermutations == Permutations(Name)
==============================================================================
