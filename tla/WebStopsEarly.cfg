\* WebReads, asked whether a monitor that stops early has seen its challenge solved; with
\* the other property in its place, whether it then has the solved session.
SPECIFICATION FairSpec
CONSTANTS
  r1 = r1
  r2 = r2
  Reads <- MCReads
  Scenarios <- MCScenarios
  Pages <- MCPages
  MaxPolls = 2
  MaxFaults = 1
PROPERTY StopsEarlyOnlyWhenSolved
\* PROPERTY SolvedSessionIsTaken
CHECK_DEADLOCK FALSE
