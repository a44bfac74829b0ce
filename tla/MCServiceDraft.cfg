SPECIFICATION Spec
CONSTANTS
  Tokens <- MCTokens
  Prompts <- MCPrompts
  Argmax <- MCArgmax
  MtpActive = FALSE
  ExternalDraft = TRUE
  BatchCapacity = 1
  Modes = {"greedy"}
  Budgets = {3}
  MaxContext = 5
  MaxPrompt = 2
  TokenCount = 3
  StopTokens = {2}
  Faults = FALSE
  OnDevice = FALSE
INVARIANTS DraftSynchronized
