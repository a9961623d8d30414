\* The shape of the defaults: a cache smaller than the trigger, one prompt at a time.
SPECIFICATION Spec
CONSTANTS
  Prompts = {p1, p2, p3, p4}
  RedisEnabled = TRUE
  PostgresEnabled = TRUE
  MaxSize = 2
  LoadLimit = 100
  CompactionEnabled = TRUE
  TurnTrigger = 20
  KeepRecentTurns = 2
  TurnTokens = 1
  SummaryTokens = 1
  TokenTrigger = 1000
  MaxInFlight = 1
  PromptsOverlapJobs = FALSE
  ExpireWhileActive = FALSE
  MaxFaults = 0
INVARIANT PromptSeesLastExchange
