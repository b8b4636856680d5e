----------------------------- MODULE MCCarrying -----------------------------
(* One vehicle, norns and things that are alike; the space they move in is  *)
(* evaluated with them.                                                     *)
EXTENDS Carrying, MCWorldSpace, TLC
Symmetry == Permutations(Norns) \union Permutations(Things)
=============================================================================
