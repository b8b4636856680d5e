---------------------------- MODULE MCObjectEvents ----------------------------
(* Instances of ObjectEvents for TLC. *)
EXTENDS ObjectEvents, TLC

Symmetry == Permutations(Objects \ Creatures)
=============================================================================
