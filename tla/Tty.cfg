SPECIFICATION TtySpec
CONSTANTS
  TTY_BUF_SIZE = 4
  Typed <- MCTyped
  MaxAhead = 2
  MaxCalls = 3
  Termios <- MCTermios
CHECK_DEADLOCK FALSE
INVARIANT ErasuresMatch
PROPERTY ImplementsEditor
