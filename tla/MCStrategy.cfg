\* orders: a three-price book and up to five orders.
\* trend: three trades of two sizes under a clock of four readings that is set
\* back once, and the weights of TrendConfig's default.
\* Both stop when their bounds are used up.
SPECIFICATION StrategySpec
CONSTANTS
  Prices = {10, 11, 12}
  Offset <- ThroughByOne
  RequoteTicks = 1
  MaxOrderId = 5
  MaxSequence = 2
  None = None
  WindowNs = 1
  MinNotional = 2
  TradeWeight = 100
  CountWeight = 50
  ObiWeight = 80
  MicroWeight = 40
  StrongScore = 150
  Notionals = {1, 3}
  Tops <- BookTops
  MaxTime = 3
  MaxSamples = 3
  NoTop = NoTop
INVARIANTS
  PhaseMatchesTracking
  KeptIsRecent
  ScoreMirrors
PROPERTIES
  CrossesAsConfigured
CHECK_DEADLOCK FALSE
