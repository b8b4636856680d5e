SPECIFICATION CaosFairSpec
CONSTANTS
  norn = norn toy = toy egg = egg
  Programs <- McPrograms
  Objects = {norn, toy, egg}
  Creatures = {norn, egg}
  Nobody = Nobody
  Owner = Owner
  StackSize = 9
  LogLimit = 4
  Word = 5
INVARIANTS EnumSound NeverCrossed
PROPERTIES WaitLasts TurnsEnd
