SPECIFICATION KSpec
CONSTANTS
  display_char_per_line = 3
  display_line_nr = 2
  video_mem_end = 10
  TabStop = 2
CHECK_DEADLOCK FALSE
INVARIANTS ScreenInStep
PROPERTIES ImplementsTerminal
