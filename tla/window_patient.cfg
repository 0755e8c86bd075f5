CONSTANTS
  a = a
  b = b
  t = t
  NoCfg = NoCfg
  Configs <- MCConfigs
  FmtOf <- MCFmtOf
  UserCalls <- NoCalls
  MaxCalls = 5
  MaxChunks = 2
  DiskErrors = {"create"}
  JoinTimesOut = TRUE
  Profiles = {a, t}
  UserOps = {"connect", "disconnect", "profile", "save", "record"}
  Ports = {"serial"}
  ReplayFmts = {}
  RecordOnConnect = FALSE
  Hasty = FALSE
SPECIFICATION WSpec
INVARIANTS WindowAndEngineAgree LateReadersAddOneRead
CHECK_DEADLOCK FALSE
