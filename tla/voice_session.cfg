\* A call in which every call to the conversation may fail and the caller may
\* stall, read on and hang up at any time.
SPECIFICATION FairSpec
CONSTANTS
  None = None
  Chunks <- SomeChunks
  MaxChunks = 2
  Backlog = 1
INVARIANTS TypeOK OneWriter HeardInOrder FailureExplained
PROPERTIES Listening HangUpEnds
CHECK_DEADLOCK FALSE
