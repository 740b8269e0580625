SPECIFICATION FairDisk
CONSTANTS
  NUMBER_OF_REQUESTS = 2
  MAX_ERRORS = 7
  Buffer <- MCBuffer
  nr_sects = 4
CHECK_DEADLOCK FALSE
INVARIANTS BlocksAreLocked MovedInPlace InterruptsAreExpected ResetBeforeRetry
PROPERTIES QueuedRequestEnds TriedToTheEnd ImplementsDevice
