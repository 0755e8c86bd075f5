CONSTANTS
  SP = 32
  DOT = 46
  Digits <- MCDigits
  MaxU32 = 9
  MaxI32 = 3
  Naming = {66, 67}
  Reserved = {67}
  Boxes <- MCBoxes
  a = a
  b = b
  t = t
  NoCfg = NoCfg
  Configs <- MCConfigs
  FmtOf <- MCFmtOf
  UserCalls <- ListenCalls
  MaxCalls = 5
  MaxChunks = 0
  DiskErrors = {}
  JoinTimesOut = FALSE
SPECIFICATION CSpec
INVARIANTS ListeningIsAnswered
PROPERTY CreatedStreamsReadTheirLines
CHECK_DEADLOCK FALSE
