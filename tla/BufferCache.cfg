SPECIFICATION BSpec
CONSTANTS
  Task = {t1, t2, t3}
  NUMBER_OF_BUFFERS = 2
  Block <- MCBlock
  NR_HASH = 2
  MaxHeld = 2
SYMMETRY Interchangeable
VIEW Live
CHECK_DEADLOCK FALSE
INVARIANTS CopiesAreRight CountsAreExact BusyIsHeld QueuesAreSound SleepersAreReached
PROPERTIES ImplementsCache
