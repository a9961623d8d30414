\* The same answers; a stray bracket before the array hides it.
SPECIFICATION ExtractionSpec
CONSTANTS
  Symbol <- MCSymbol
  Responses <- MCResponses
INVARIANT LastArrayIsFound
\* A finished extraction takes no step.
CHECK_DEADLOCK FALSE
