\* With and without --once, whose event count is scaled down to two.
SPECIFICATION ThreadsSpec
CONSTANTS
  OnceEvents = 2
  MaxEvents = 2
CHECK_DEADLOCK FALSE
INVARIANTS
  SuccessIsOrderly
  StrategyReadsAll
PROPERTIES
  MarketEndReturns
  OnceReturns
