\* With and without --once, whose event count is scaled down to two, and an
\* exchange that sends both sides in every update or only those that changed,
\* and names the levels that are gone before or behind the new ones.
SPECIFICATION MarketSpec
CONSTANTS
  s1 = s1
  s2 = s2
  Symbols = {s1, s2}
  Products = {s1}
  Prices = {1, 2}
  OnceEvents = 2
  MaxFrames = 3
  None = None
CHECK_DEADLOCK FALSE
INVARIANTS
  BookIsAPastTop
  BookFollowsFeed
  OneCounterOneSubscription
