CONSTANTS
  k1 = k1
  k2 = k2
  k3 = k3
  NL = 10
  SP = 32
  DOT = 46
  MaxU32 = 8
  MaxI32 = 8
  Digits = {1, 2, 3}
  Lines <- MCLines
  Frames <- MCFrames
  Texts <- MCTexts
  Binaries <- MCBinaries
  MaxLine = 3
  Kept = 3
  PerReport = 2
  LineMod = 2
  MaxSent = 4
  MaxConfigures = 1
SPECIFICATION LSpec
INVARIANTS LinesAreTakenAndCounted LossesAreCounted RepliesAreShownOnce
CHECK_DEADLOCK FALSE
