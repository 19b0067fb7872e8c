\* The same streams and reads.
SPECIFICATION FramerSpec
CONSTANTS
  BeginLen = 4
  LenDigits = {1, 2}
  BodyLens = {1, 2}
  Faults = {"checksum", "length", "type"}
  MaxFrames = 3
CHECK_DEADLOCK FALSE
INVARIANTS
  OnlyFaultsKill
