SPECIFICATION Spec
CONSTANTS
  Tokens <- MCTokens
  Prompts <- MCPrompts
  Argmax <- MCArgmax
  MtpActive = FALSE
  ExternalDraft = FALSE
  BatchCapacity = 1
  Modes = {"sample"}
  Budgets = {3}
  MaxContext = 5
  MaxPrompt = 2
  TokenCount = 3
  StopTokens = {2}
  Faults = FALSE
  OnDevice = FALSE
INVARIANTS CacheExact
