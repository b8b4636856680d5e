SPECIFICATION Spec
CONSTANTS
    Norns = {n1, n2}
    Things = {t1, t2}
    Vehicles = {v}
    Hand = Hand
    Nil = Nil
    MaxQueue = 2
    MaxEnded = 1
    WorldWidth = 6
    WorldHeight = 4
    QueueSize = 2
SYMMETRY Symmetry
INVARIANTS HandFree RidesSound
 
