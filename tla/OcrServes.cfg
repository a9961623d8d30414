\* Three requests of any kind, two workers or more jobs than workers, a cache of
\* two engines for three languages, one engine or file that cannot be made.
SPECIFICATION FairSpec
CONSTANTS
  r1 = r1
  r2 = r2
  r3 = r3
  Requests <- MCRequests
  Inputs <- MCInputs
  Supported = {"en", "pl", "de"}
  Default = "en"
  Cap = 2
  Workers = 2
  MaxFaults = 1
INVARIANTS FittingLanguagesAreUndisturbed NothingPilesUp
PROPERTIES EveryRequestIsAnswered
CHECK_DEADLOCK FALSE
