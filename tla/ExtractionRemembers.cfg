\* Answers of up to three pieces out of twelve, or of four out of five.
SPECIFICATION ExtractionSpec
CONSTANTS
  Symbol <- MCSymbol
  Responses <- MCResponses
INVARIANT ScanFindsLastTopLevelArray
INVARIANT AnswerIsRemembered
\* A finished extraction takes no step.
CHECK_DEADLOCK FALSE
