SPECIFICATION WQSpec
CONSTANTS
  NUMBER_OF_TASKS = 4
  NUM_INT_PS = 1
  HalfRange = 1
  Sig <- MCSig
  InitPriority = 1
  MinPriority = 1
  MaxPriority = 1
  Increments <- NoIncrements
  Seconds <- NoSeconds
  MaxOverrun = 1
INVARIANTS MutualExclusion NoLostWakeup AsleepInQueueOnly
PROPERTIES SleeperWakes ImplementsLock
