\* What follows a clip without files is where the project has it: TLC finds that it is not;
\* with the other invariant in its place, nor is what follows a block without a file.
SPECIFICATION ProjectSpec
CONSTANTS
  hello = hello
  yes = yes
  noise = noise
  ann = ann
  bob = bob
  File <- MCFile
  Name <- MCName
  Projects <- MCProjects
  Duration <- MCDuration
  Silent <- MCSilent
INVARIANT SkippedClipLeavesItsGap
\* INVARIANT MissingBlockLeavesItsGap
CHECK_DEADLOCK FALSE
