------------------------------- MODULE MCGencgc -------------------------------
(* Model-checking instance of Gencgc.                                          *)
EXTENDS GencgcInv, TLC

Symmetry == Permutations(Ids) \cup Permutations(Registers)
==============================================================================
