SPECIFICATION FairSpec
CONSTANTS
  c1 = c1  c2 = c2
  Slots = 3
  Clients = {c1, c2}
  Stalling = {c1}
  NoClient = NoClient
INVARIANTS TypeOK NoOrphans ServedByOne
PROPERTIES StopReaps
CHECK_DEADLOCK FALSE
