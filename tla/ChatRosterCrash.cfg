\* As small as the crash needs.
CONSTANTS
  Client = {c1, c2}
  QueueRoom = 5
  ListRoom = 10
  NoPid = NoPid
SPECIFICATION SafeSpec
INVARIANT ServerSurvives
CHECK_DEADLOCK FALSE
