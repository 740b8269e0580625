SPECIFICATION MSpec
CONSTANTS
  NUMBER_OF_TASKS = 7
  PAGE_SIZE = 32
  LowFrames = 2
  PAGING_PAGES = 12
  LastEntry = 2
  FrameSpace = 128
  buf_mem_end = 96
  ext_mem_k = 12
  KB = 32
CHECK_DEADLOCK FALSE
INVARIANTS OnePurpose MapIsExact OnlyKnownPanics
PROPERTIES ImplementsSpaces
