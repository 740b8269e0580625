SPECIFICATION SigSpec
CONSTANTS
  NUMBER_OF_TASKS = 3
  NUM_INT_PS = 1
  HalfRange = 1
  Sig <- MCSig
  InitPriority = 1
  MinPriority = 1
  MaxPriority = 1
  Increments <- NoIncrements
  Seconds <- NoSeconds
  MaxPid = 3
  MaxOverrun = 0
  MaxAtKill = 3
  MaxAtMask = 3
  KillSigs <- MCKillSigs
  Masks <- MCMasks
  Caught <- MCCaught
  Actions <- MCActions
  MaxFrames = 2
VIEW NoClock
CHECK_DEADLOCK FALSE
INVARIANT MaskHoldsInHandler
PROPERTY MaskIsRestored
