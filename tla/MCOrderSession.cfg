\* Both ways of starting the thread; two commands and two frames of any kind.
SPECIFICATION SessionSpec
CONSTANTS
  s1 = s1
  s2 = s2
  e1 = e1
  Symbols = {s1, s2}
  Products = {s1}
  ExecIds = {e1}
  MaxOpen = 1
  MaxClientId = 2
  FirstSeqNum = 2
  None = None
  Reported = {"Filled"}
  MaxCommands = 2
  MaxFrames = 2
CHECK_DEADLOCK FALSE
INVARIANTS
  OrdersNumberedOnFromLogon
  AppliedIsForwarded
  OnceNeverWaitsAgain
PROPERTIES
  ShutdownStopsThread
  CommandsAreTaken
