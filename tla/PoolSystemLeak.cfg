CONSTANTS
  Client = {c1, c2}
  MINTHREAD = 1
  MAXCLIENT = 3
  NUMPORT = 5
  MaxCreated = 3
  Foreign = {}
  Garbage = {}
  IOErrors = FALSE
  MaxWords = 1
  Typists = {{c1, c2}}
  InputEnds = TRUE
  Interrupts = TRUE
  PoolFirst = TRUE
  InTurn = FALSE
  Lossy = FALSE
SPECIFICATION SysSafeSpec
INVARIANT DynamicEndsWithClient
CHECK_DEADLOCK FALSE
