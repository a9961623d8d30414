\* Two jobs, two tracks to a project, two chunks to a track, a queue of two events.
SPECIFICATION FairSpec
CONSTANTS
  j1 = j1
  j2 = j2
  Jobs <- MCJobs
  Scenarios <- MCScenarios
  NTracks = 2
  MaxChunks = 2
  QueueSize = 2
  Ttl = 1
INVARIANTS TypeOK GpuServesOneTrack CompleteMeansAvailable
PROPERTIES JobsEndAndCleanUp
CHECK_DEADLOCK FALSE
