\* Two tracks of up to two clips and three blocks, in and out of the order of the text, and
\* Craig's imports; files may be missing, and a provider may time by chunks of two seconds.
SPECIFICATION ProjectSpec
CONSTANTS
  hello = hello
  yes = yes
  noise = noise
  ann = ann
  bob = bob
  File <- MCFile
  Name <- MCName
  Projects <- MCProjects
  Duration <- MCDuration
  Silent <- MCSilent
INVARIANT TranscriptIsTheConversation
CHECK_DEADLOCK FALSE
