\* Two clients of two texts; the queue fills up.
CONSTANTS
  Client = {c1, c2}
  QueueRoom = 4
  ListRoom = 10
  NoPid = NoPid
  MaxTexts = 2
  TextSize = 2
SPECIFICATION ChatSpec
INVARIANT HistoryFaithful
PROPERTIES IsRoster TextsShown
CHECK_DEADLOCK FALSE
