\* Two sessions with two words each; port 1 is taken; requests, and the ENDs that
\* are taken for requests, may move tinfo[].
CONSTANTS
  Client = {c1, c2}
  MaxThreads = 3
  Foreign = {1}
  NoPort = NoPort
  MaxWords = 2
  MainPort = MainPort
SPECIFICATION SysSpec
INVARIANTS SessionEndsThread OneClientPerThread
CHECK_DEADLOCK FALSE
