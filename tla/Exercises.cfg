\* Three runs of pipe.c, one without the key; a crowd of ex16/p1; two shops of ex14;
\* two clients of each echo server; two threads of streams.c; what runs alone.
CONSTANTS
  Run = {r1, r2, r3}
  Keyed = {r1, r2}
  Server = {s1, s2}
  Client = {c1, c2, c3}
  NoQueue = NoQueue
  Buyer = {b1, b2}
  MAGNUM = 2
  Stocks = {1, 2}
  Needs = {2}
  LoadSize = 1
  MaxLoads = 2
  Loader = Loader
  Free = Free
  Talker = {t1, t2}
  Watched = {t1}
  Echo = Echo
  MSGLEN = 2
  Room = 2
  NoClient = NoClient
  MaxSent = 2
  Thread = {h1, h2}
  Times = 3
  MaxWords = 4
  Name = {n1, n2}
  Full = {f1, f2}
  Short = {o1}
  Places = 3
  Zeros = Zeros
  NoEntry = NoEntry
  Stem = {q1, q2}
  Ending = {e1, e2}
  MaxTyped = 2
  MaxEntries = 3
  NoEnding = NoEnding
  Sizes = {1, 2, 3, 4, 5, 6, 7, 8, 9}
SPECIFICATION Spec
INVARIANTS ExercisesTyped ExchangeRight OthersHeard WordsBalanced GoodsConserved
  LoaderOutlivesNeed NoSecondEcho AtLeastTwo LineObeyed SpiralFollowed
PROPERTIES RunsEnd ClientAnswered NeitherOutlives EndsOrStandsStill
  ArrayIsList StemsAreList
CHECK_DEADLOCK FALSE
