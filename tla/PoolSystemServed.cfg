CONSTANTS
  Client = {1, 2, 3, 4}
  MINTHREAD = 1
  MAXCLIENT = 3
  NUMPORT = 5
  MaxCreated = 4
  Foreign = {}
  Garbage = {}
  IOErrors = FALSE
  MaxWords = 1
  Typists = {{1}, {2}, {3}, {4}}
  InputEnds = FALSE
  Interrupts = FALSE
  PoolFirst = TRUE
  InTurn = TRUE
  Lossy = FALSE
SPECIFICATION SysSpec
INVARIANT DynamicPortExclusive
PROPERTY ServedUnlessShared
CHECK_DEADLOCK FALSE
