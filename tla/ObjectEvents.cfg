SPECIFICATION Spec
CONSTANTS
  Objects = {o1, c1}
  Creatures = {c1}
  Nobody = Nobody
  Capacity = 3
  Privileged = TRUE
  Delays = {1}
  MaxTick = 1
  MaxEvents = 3
INVARIANTS RecordsSound NoDanglingRecord
PROPERTIES KeepsOrder
