\* WebReads, asked whether no login wall at all is delivered.
SPECIFICATION FairSpec
CONSTANTS
  r1 = r1
  r2 = r2
  Reads <- MCReads
  Scenarios <- MCScenarios
  Pages <- MCPages
  MaxPolls = 2
  MaxFaults = 1
INVARIANT NoLoginWallDelivered
CHECK_DEADLOCK FALSE
