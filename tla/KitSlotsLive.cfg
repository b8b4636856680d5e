SPECIFICATION FairSpec
CONSTANTS
  Slots = {0, 9}
  Funeral = 9
  Procs = {p1}
  Deaths = {c1, c2}
  MaxPending = 2
  None = None
  Faults = {"crash"}
INVARIANTS DeathKept
PROPERTIES SendReturns GoneKitIsFreed
CHECK_DEADLOCK FALSE
