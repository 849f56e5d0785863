CONSTANTS
  Client = {c1, c2}
  MINTHREAD = 1
  MAXCLIENT = 3
  NUMPORT = 5
  MaxCreated = 3
  Foreign = {}
  Garbage = {1, 2}
  IOErrors = FALSE
  MaxWords = 1
  Typists = {{c1, c2}}
  InputEnds = TRUE
  Interrupts = TRUE
  PoolFirst = FALSE
  InTurn = FALSE
  Lossy = FALSE
SPECIFICATION SysSafeSpec
INVARIANTS StraysAreInterrupted QuietPoolFree
CHECK_DEADLOCK FALSE
