CONSTANTS
  a = a
  b = b
  t = t
  NoCfg = NoCfg
  Configs <- MCConfigs
  FmtOf <- MCFmtOf
  UserCalls <- FormatCalls
  MaxCalls = 5
  MaxChunks = 2
  DiskErrors = {"create", "write", "flush", "close"}
  JoinTimesOut = FALSE
SPECIFICATION Spec
INVARIANTS StoresHoldARun DecoderFitsStores RecordingsAreComplete NothingOutlivesASession
CHECK_DEADLOCK FALSE
