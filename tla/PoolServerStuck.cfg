\* One pool thread, two dynamic ones, fair scheduling.
CONSTANTS
  Client = {c1}
  MINTHREAD = 1
  MAXCLIENT = 3
  NUMPORT = 4
  MaxCreated = 3
  Foreign = {}
  Garbage = {}
  IOErrors = FALSE
SPECIFICATION Spec
PROPERTY MainKeepsServing
CHECK_DEADLOCK FALSE
