\* One upload and one failing handler.
SPECIFICATION PipelineFairSpec
CONSTANTS
  Keys <- MCKeys
  Folder <- MCFolder
  Sizes = {0, 2}
  MaxUploads = 1
  MaxFailures = 1
PROPERTIES NewFilesAreIngested
