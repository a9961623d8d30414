\* The bounds of the setting "concurrent"; the module says what "serial" changes.
SPECIFICATION SettingSpec
CONSTANTS
  Prompts = {1, 2, 3, 4, 5, 6}
  Two = {1, 2}
  RedisEnabled = TRUE
  PostgresEnabled = TRUE
  MaxSize = 4
  LoadLimit = 100
  CompactionEnabled = TRUE
  TurnTrigger = 3
  KeepRecentTurns = 1
  TurnTokens = 1
  SummaryTokens = 1
  TokenTrigger = 100
  MaxInFlight = 2
  PromptsOverlapJobs = TRUE
  ExpireWhileActive = TRUE
  MaxFaults = 2
INVARIANTS DoneIsArchived RowIdsAreStable KeyCarriesTtlUnlessFaulty
INVARIANTS SerialSeesLastExchange SerialBackendsAgree TurnsToldOnce
PROPERTIES TurnsAreNeverLost SerialTrimsOnlyThePrefix
PROPERTIES ConcurrentThreadsEnd ConcurrentIsCompacted
