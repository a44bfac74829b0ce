SPECIFICATION Spec
CONSTANTS
  Tokens <- MCTokens
  Prompts <- MCPrompts
  Argmax <- MCArgmax
  MtpActive = TRUE
  ExternalDraft = FALSE
  BatchCapacity = 1
  Modes = {"greedy", "penalty"}
  Budgets = {1, 3}
  MaxContext = 5
  MaxPrompt = 2
  Faults = TRUE
  OnDevice = TRUE
  TokenCount = 3
  StopTokens = {2}
INVARIANTS CacheExact ModelInStep GreedySuffixExact BudgetRespected
