\* MemoryServes, asked whether a wipe that the agent sends removes its user's memories.
SPECIFICATION FairSpec
CONSTANTS
  c1 = c1
  c2 = c2
  c3 = c3
  u = u
  v = v
  Calls <- MCCalls
  Scenarios <- MCScenarios
  Users <- MCUsers
  DefaultUser = u
  Providers <- MCProviders
  DefaultProvider = "lmstudio"
  Collection <- MCCollection
  WithKey = {"lmstudio", "gemini"}
  Warmup = Warmup
  Probe = Probe
  Nobody = Nobody
  Missing = Missing
  MaxAttempts = 2
  MaxOutages = 1
INVARIANT AgentWipeReachesUser
CHECK_DEADLOCK FALSE
