SPECIFICATION PSpec
CONSTANTS
  NUMBER_OF_TASKS = 4
  NUM_INT_PS = 1
  HalfRange = 1
  Sig <- MCSig
  InitPriority = 1
  MinPriority = 1
  MaxPriority = 1
  Increments <- NoIncrements
  Seconds <- NoSeconds
  MaxPid = 4
  MaxOverrun = 0
  MaxAtKill = 3
  MaxAtMask = 2
  KillSigs <- AlarmSignal
  Masks <- MCMasks
VIEW NoClock
CHECK_DEADLOCK FALSE
INVARIANTS PidUnique FatherAlive
PROPERTIES DeathIsReported SignalEndsPause
