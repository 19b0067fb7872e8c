\* The same for one symbol; the run ends with the first number out of order.
SPECIFICATION SessionSpec
CONSTANTS
  s1 = s1
  s2 = s2
  e1 = e1
  Symbols = {s1}
  Products = {s1}
  ExecIds = {e1}
  MaxOpen = 1
  MaxClientId = 2
  FirstSeqNum = 2
  None = None
  Reported = {"Filled"}
  MaxCommands = 2
  MaxFrames = 2
CHECK_DEADLOCK FALSE
INVARIANTS
  SeqNumsIncrease
