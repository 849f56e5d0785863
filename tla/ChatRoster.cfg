\* Three clients, a queue smaller than all they have to say.
CONSTANTS
  Client = {c1, c2, c3}
  QueueRoom = 4
  ListRoom = 10
  NoPid = NoPid
SPECIFICATION Spec
INVARIANTS TypeOK CountBalanced EntriesDistinct RosterExact PatientServerSurvives
PROPERTY SigintEndsBoth
CHECK_DEADLOCK FALSE
