\* An upload may bring back an earlier content.
SPECIFICATION Spec
CONSTANTS
  Keys = {1}
  Contents = {v1, v2}
  NoObject = NoObject
  Blank = Blank
  ChunkCount <- MCChunkCount
  Providers = {p}
  Runs = {r1, r2, r3}
  PageSize = 1
  MaxActive = 1
  MaxUploads = 3
  UploadsDuringRuns = FALSE
  UploadsRepeat = TRUE
  MaxFaults = 0
  MaxOutages = 0
PROPERTY RunLeavesLatest
