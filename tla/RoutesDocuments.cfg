\* PDFs of up to four pages on pools of two threads, two failing calls.
SPECIFICATION FairSpec
CONSTANTS
  Files <- MCFiles
  Threshold = 2
  ParallelPages = 2
  MaxFaults = 2
INVARIANTS PdfIsWhole NothingGoesOn
PROPERTIES RequestsEnd
\* A request that was answered takes no step.
CHECK_DEADLOCK FALSE
