\* The constants of the setting "overlap"; the module says what the other two change.
SPECIFICATION SettingSpec
CONSTANTS
  Keys = {1, 2}
  Contents = {1, 2, Blank}
  NoObject = NoObject
  Blank = Blank
  ChunkCount <- MCChunkCount
  Providers = {p, q}
  Runs = {1, 2, 3}
  PageSize = 1
  MaxActive = 2
  MaxUploads = 2
  UploadsDuringRuns = TRUE
  UploadsRepeat = FALSE
  MaxFaults = 1
  MaxOutages = 1
INVARIANTS OneRunPerVersion MarkedIsIndexed
PROPERTIES RunsEnd RetryLeavesLatest
