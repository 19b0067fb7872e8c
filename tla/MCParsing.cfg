\* frames: up to three frames of two lengths, cut by the reads in every way.
\* number: every text of up to five of the bytes - . 0 9 A, for scales that are
\* powers of ten, one that is not and none; i64 and i128 have 8 and 16 bits, so
\* that both overflow.
\* message: every message of the encoder with values of up to two bytes, one or
\* two digits of MsgSeqNum, sound or with one of three faults.
\* Each stops when everything is read.
SPECIFICATION ParsingSpec
CONSTANTS
  BeginLen = 4
  LenDigits = {1, 2}
  BodyLens = {1, 2}
  Faults = {"checksum", "length", "type"}
  MaxFrames = 3
  Bytes = {45, 46, 48, 57, 65}
  MaxTextLen = 5
  Scales = {0, 1, 10, 25, 100}
  Ordered <- OrderedValues
  MaxI64 = 127
  MaxI128 = 32767
  Texts <- FieldTexts
  SeqNums = {1, 10}
INVARIANTS
  SoundPrefix
  NothingLeftBehind
  KilledByFaultOrTornTag
  ParsedIsDenoted
  OrderedIsSent
  EncodedIsRead
CHECK_DEADLOCK FALSE
