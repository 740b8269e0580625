SPECIFICATION RSpec
CONSTANTS
  Task = {t0, t1}
  TTY_BUF_SIZE = 8
  Message <- OneLine
INVARIANT QueueIsDrained
PROPERTY WholeMessages
