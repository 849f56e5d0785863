CONSTANTS
  Client = {1, 2, 3}
  MINTHREAD = 1
  MAXCLIENT = 3
  NUMPORT = 4
  MaxCreated = 3
  Foreign = {}
  Garbage = {}
  IOErrors = FALSE
  MaxWords = 2
  Typists = {{2, 3}}
  InputEnds = FALSE
  Interrupts = FALSE
  PoolFirst = TRUE
  InTurn = TRUE
  Lossy = FALSE
SPECIFICATION SysSpec
PROPERTY ServedUnlessShared
CHECK_DEADLOCK FALSE
