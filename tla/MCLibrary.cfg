\* session: four frames of the peer and up to five messages of the session.
\* feed: rings of two entries and an event ring of three (the code's 4 * cap
\* and 16 scaled down), so that six events overflow both.
\* rings: capacities 0 and 2 of every ring, two symbols, one configured.
\* pipeline: two engines and a symbol without one, three events, one command
\* of another thread in the channel at a time.
\* Each part stops when its bounds are used up.
SPECIFICATION LibrarySpec
CONSTANTS
  MaxFrames = 4
  MaxOut = 5
  Symbols = {btc, eth}
  Cap = 2
  EventFactor = 1
  EventMin = 3
  MaxPublished = 6
  RingSymbols = {s1, s2}
  RingProducts = {s1}
  RingItems = {a, b}
  Capacities = {0, 2}
  MaxPushed = 4
  EngineCount = 2
  UnknownSymbols = {7}
  Balance = balance
  Session = session
  Market = market
  Outside = outside
  MaxBatch = 2
  MaxEvents = 3
  MaxCommands = 1
INVARIANTS
  ActsOnPrefix
  AnswersOnce
  FollowingIsSeeing
  HolesOnlyWhenLate
  SeenIsAddressed
  NoAnswerWaits
PROPERTIES
  RingsAreFifos
CHECK_DEADLOCK FALSE
