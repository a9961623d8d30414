\* Two reads of one domain, two polls of a human session, one failing Redis call.
SPECIFICATION FairSpec
CONSTANTS
  r1 = r1
  r2 = r2
  Reads <- MCReads
  Scenarios <- MCScenarios
  Pages <- MCPages
  MaxPolls = 2
  MaxFaults = 1
INVARIANTS HumanIsAskedOnce RecognisedWallsAreKeptBack
PROPERTIES ReadsAndMonitorsEnd
CHECK_DEADLOCK FALSE
