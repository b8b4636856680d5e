------------------------------ MODULE MCKitSlots ------------------------------
(* Instances of KitSlots for TLC. *)
EXTENDS KitSlots, TLC

Symmetry == Permutations(Procs)
=============================================================================
