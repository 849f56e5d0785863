\* Two places; two texts of clients one after the other, one of each of two at once.
CONSTANTS
  Client = {c1, c2}
  QueueRoom = 5
  ListRoom = 10
  NoPid = NoPid
  NoText = NoText
  SLOTS = 2
  MaxTexts = 2
  MaxMixed = 1
  HastyMix = FALSE
SPECIFICATION ChatSpec
INVARIANTS ChatTypeOK TextsKeptAlone
PROPERTY PlacesRead
CHECK_DEADLOCK FALSE
