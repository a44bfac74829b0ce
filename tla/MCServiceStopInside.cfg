SPECIFICATION Spec
CONSTANTS
  Tokens <- MCTokens
  Prompts <- MCPrompts
  Argmax <- MCArgmax
  MtpActive = TRUE
  ExternalDraft = FALSE
  BatchCapacity = 1
  Modes = {"greedy"}
  Budgets = {1, 4}
  MaxContext = 6
  MaxPrompt = 3
  TokenCount = 3
  StopTokens = {2}
  Faults = FALSE
  OnDevice = FALSE
INVARIANTS GreedyExact
