SPECIFICATION Spec
CONSTANTS
  c1 = c1  c2 = c2
  Slots = 3
  Clients = {c1, c2}
  Stalling = {c1}
  NoClient = NoClient
INVARIANTS FallbackServes
CHECK_DEADLOCK FALSE
