CONSTANTS
    c1 = c1  c2 = c2  c3 = c3  k1 = k1  Nobody = Nobody
    Creatures <- McCreatures
    Kits <- McKits
    Stride = 2
    MaxTick = 2
    MaxFailures = 1
    Hands <- McNoHands
SPECIFICATION FairSpec
INVARIANTS TickSound
PROPERTIES ChemistryOnce WorldServes
