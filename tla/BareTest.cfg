SPECIFICATION Spec
CONSTANTS
  Retries <- MCRetries
  TextModes = {TRUE, FALSE}
CHECK_DEADLOCK FALSE
INVARIANTS
  StatusTruthful
  ResultOfThisRound
PROPERTIES
  TestEnds
