\* One symbol with two slots, three client order ids a run, two reports a run,
\* two runs.
SPECIFICATION RestartSpec
CONSTANTS
  s1 = s1
  e1 = e1
  e2 = e2
  Symbols = {s1}
  Products = {s1}
  ExecIds = {e1, e2}
  MaxOpen = 2
  MaxClientId = 3
  FirstSeqNum = 2
  MaxRuns = 2
  None = None
SYMMETRY Symmetric
CHECK_DEADLOCK FALSE
INVARIANTS
  ExposureAcrossRuns
