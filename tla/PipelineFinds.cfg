\* Three uploads of three objects, a failure or crash.
SPECIFICATION PipelineFairSpec
CONSTANTS
  Keys <- MCKeys
  Folder <- MCFolder
  Sizes = {0, 2}
  MaxUploads = 3
  MaxFailures = 1
INVARIANT RestingIsIndexed
PROPERTIES FilesAreFound
