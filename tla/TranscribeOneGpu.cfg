\* Transcribes, asked whether one thread at a time is in the model.
SPECIFICATION FairSpec
CONSTANTS
  j1 = j1
  j2 = j2
  Jobs <- MCJobs
  Scenarios <- MCScenarios
  NTracks = 2
  MaxChunks = 2
  QueueSize = 2
  Ttl = 1
INVARIANT GpuIsSerialised
CHECK_DEADLOCK FALSE
