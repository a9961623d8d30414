\* Two providers, each with its collection.
SPECIFICATION Spec
CONSTANTS
  Keys = {1}
  Contents = {v1}
  NoObject = NoObject
  Blank = Blank
  ChunkCount <- MCChunkCount
  Providers = {p, q}
  Runs = {r1, r2}
  PageSize = 1
  MaxActive = 1
  MaxUploads = 1
  UploadsDuringRuns = FALSE
  UploadsRepeat = FALSE
  MaxFaults = 0
  MaxOutages = 0
PROPERTY RunLeavesLatest
