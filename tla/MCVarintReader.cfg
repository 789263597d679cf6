CONSTANTS
  Base = 2
  DigitLimit = 3
  MaxLength = 5
  Streams <- MCStreams
SPECIFICATION ReadSpec
INVARIANTS
  LoopMeetsDefinition
  RoundTrip
  ShortestSpelling
\* A call returns: the reader stops in a terminal state.
CHECK_DEADLOCK FALSE
