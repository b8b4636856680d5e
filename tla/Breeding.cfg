SPECIFICATION Spec
CONSTANTS
    Creatures = {c1, c2}
    Eggs = {e1}
    Names = {n1, n2, n3}
    Nobody = Nobody
    Genes = {1, 2, 3, 4}
    RunLengths = {1, 2}
    MaxDead = 1
    MaxExported = 1
SYMMETRY Symmetry
INVARIANTS BreedingSound
