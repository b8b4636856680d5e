SPECIFICATION Spec
CONSTANTS
  Slots = {0}
  Funeral = 0
  Procs = {p1, p2}
  Deaths = {}
  MaxPending = 0
  None = None
  Faults = {"crash", "slow", "no process", "complaint"}
SYMMETRY Symmetry
CHECK_DEADLOCK FALSE
INVARIANTS SlotsSound
PROPERTIES SentIsReceived NoticeSparesTheLiving
