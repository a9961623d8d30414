\* Transcribes, asked whether a path given out is never about to be deleted.
SPECIFICATION FairSpec
CONSTANTS
  j1 = j1
  j2 = j2
  Jobs <- MCJobs
  Scenarios <- MCScenarios
  NTracks = 2
  MaxChunks = 2
  QueueSize = 2
  Ttl = 1
INVARIANT PathsAreNotAboutToGo
CHECK_DEADLOCK FALSE
