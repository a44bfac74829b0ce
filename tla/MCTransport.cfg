SPECIFICATION FairSpec
CONSTANTS
  w1 = w1  w2 = w2
  c1 = c1  c2 = c2  c3 = c3  c4 = c4
  Workers = {w1, w2}
  Clients = {c1, c2, c3, c4}
  Silent = {c1}
  Unread = {c2}
  Capacity = 2
  NoClient = NoClient
  NoWorker = NoWorker
INVARIANTS TypeOK OwnedOnce DispatchExclusive DrainedAtExit NoLostWakeup
PROPERTIES ServedDespiteSilent StopReturns
CHECK_DEADLOCK FALSE
