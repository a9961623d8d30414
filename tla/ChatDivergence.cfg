\* One failure, for instance between the two stores.
SPECIFICATION Spec
CONSTANTS
  Prompts = {p1, p2, p3}
  RedisEnabled = TRUE
  PostgresEnabled = TRUE
  MaxSize = 8
  LoadLimit = 100
  CompactionEnabled = TRUE
  TurnTrigger = 4
  KeepRecentTurns = 2
  TurnTokens = 1
  SummaryTokens = 1
  TokenTrigger = 1000
  MaxInFlight = 1
  PromptsOverlapJobs = FALSE
  ExpireWhileActive = FALSE
  MaxFaults = 1
PROPERTY CompactionHealsDivergence
