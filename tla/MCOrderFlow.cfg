\* Two symbols with two slots each; four client order ids for orders and
\* cancels together, two reports.
SPECIFICATION FlowSpec
CONSTANTS
  s1 = s1
  s2 = s2
  e1 = e1
  e2 = e2
  Symbols = {s1, s2}
  Products = {s1, s2}
  ExecIds = {e1, e2}
  MaxOpen = 2
  MaxClientId = 4
  FirstSeqNum = 2
  None = None
SYMMETRY Symmetric
CHECK_DEADLOCK FALSE
INVARIANTS
  FreshClientIds
  ExposureLimit
  CountIsExact
  CancelAllReachesLive
PROPERTIES
  SlotsSpec
