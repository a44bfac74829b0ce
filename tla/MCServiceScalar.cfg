SPECIFICATION FairSpec
CONSTANTS
  Tokens <- MCTokens
  Prompts <- MCPrompts
  Argmax <- MCArgmax
  MtpActive = FALSE
  ExternalDraft = FALSE
  BatchCapacity = 2
  Modes = {"greedy", "penalty"}
  Budgets = {1, 2}
  MaxContext = 3
  MaxPrompt = 2
  Faults = TRUE
  OnDevice = TRUE
  TokenCount = 3
  StopTokens = {2}
INVARIANTS TypeOK CacheExact NoBrokenReuse
PROPERTIES Stateless RequestEnds
