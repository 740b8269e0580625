SPECIFICATION Spec
CONSTANTS
  NUMBER_OF_TASKS = 3
  NUM_INT_PS = 1
  HalfRange = 4
  Sig <- MCSig
  InitPriority = 1
  MinPriority <- LowestPriority
  MaxPriority = 1
  Increments <- NiceIncrements
  Seconds <- AlarmSeconds
PROPERTIES NoStarvation SwitchIsSound PausedAlarmWakes
