SPECIFICATION Spec
CONSTANTS
  Tokens = {0, 1}
  Argmax <- MCArgmax
  MaxContext = 4
  MaxPrompt = 1
  ConvKernel = 3
  RegimeFrom = 3
  Graphs = TRUE
  Capacities = {3}
  Caches = {"f16", "q8"}
  MaxFaults = 1
INVARIANTS TypeOK SessionExact GreedyNext PendingInStep
