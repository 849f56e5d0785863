\* One pool thread and three dynamic ones: two of these can share a number
\* after a third has ended, and the limit of three is reached; any call may fail.
CONSTANTS
  Client = {c1}
  MINTHREAD = 1
  MAXCLIENT = 3
  NUMPORT = 5
  MaxCreated = 4
  Foreign = {}
  Garbage = {}
  IOErrors = TRUE
SPECIFICATION SafeSpec
INVARIANTS TypeOK PoolSlotsOwned PoolGotClientAccurate NoEntryLeaked
  FirstGenerationAligned
CHECK_DEADLOCK FALSE
