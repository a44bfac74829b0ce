SPECIFICATION Spec
CONSTANTS
  InitialResponse = 4
  MaxResponse = 8
  Lengths = {0, 3, 4, 6, 7, 8}
  Keys = {"top_p", "top_k"}
  Values <- MCValues
  MaxPrompts = 2
  MaxGeneration = 100
  MaxRequests = 2
INVARIANTS TypeOK BufferFits HonestSuccess
PROPERTIES RetryGrows SettingsGuarded
CHECK_DEADLOCK FALSE
