SPECIFICATION Spec
CONSTANTS
  m1 = m1 m2 = m2 m3 = m3 norn = norn toy = toy zzz = zzz
  Macros = {m1, m2, m3}
  NoMacro = NoMacro
  Objects = {norn, toy, zzz}
  Creatures = {norn}
  Indicators = {zzz}
  Selectable = {toy}
  Nobody = Nobody
  Kits = TRUE
  Limit = 3
  MaxDepth = 4
SYMMETRY Addresses
INVARIANTS  EachOnce PurgedRunsNoMore DeferredHasTurn
