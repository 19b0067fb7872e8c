SPECIFICATION LiveSpec
CONSTANTS
  s1 = s1
  Symbols = {s1}
  Products = {s1}
  Symbol = s1
  ExecIds = {1, 2}
  MaxOpen = 2
  MaxClientId = 8
  FirstSeqNum = 2
  None = None
  Prices = {10, 11}
  Offset = 0
  RequoteTicks = 1
  MaxOrderId = 5
  MaxSequence = 3
CHECK_DEADLOCK FALSE
INVARIANTS
  StandingAsideSweeps
  ReplacedIsCancelled
