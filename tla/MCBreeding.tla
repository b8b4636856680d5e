----------------------------- MODULE MCBreeding -----------------------------
(* A few places, names and files; and the bounded checks of genomes.        *)
EXTENDS Breeding, MCGenome
Symmetry == Permutations(Creatures) \union Permutations(Names)
=============================================================================
