SPECIFICATION FairSpec
CONSTANTS
  Kits = {k1, k2}
  NoKit = NoKit
  MaxRequests = 2
  MaxCreateFailures = 2
  TimerArmed = TRUE
INVARIANTS TypeOK OwnReply NoLostWakeup StopDrains
PROPERTIES NoReplyDiscarded KeepsPromise CallReturns StopReturns
