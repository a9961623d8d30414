\* Two versions of one object at work at once.
SPECIFICATION PipelineFairSpec
CONSTANTS
  Keys <- MCKeys
  Folder <- MCFolder
  Sizes = {0, 2}
  MaxUploads = 2
  MaxFailures = 0
INVARIANTS AnyRestingIsIndexed
