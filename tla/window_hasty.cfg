CONSTANTS
  a = a
  b = b
  t = t
  NoCfg = NoCfg
  Configs <- OneConfig
  FmtOf <- MCFmtOf
  UserCalls <- NoCalls
  MaxCalls = 3
  MaxChunks = 1
  DiskErrors = {}
  JoinTimesOut = FALSE
  Profiles <- OneConfig
  UserOps = {"connect", "disconnect", "replay", "close"}
  Ports = {"serial"}
  ReplayFmts = {"binary", "unknown"}
  RecordOnConnect = TRUE
  Hasty = TRUE
SPECIFICATION WFairSpec
INVARIANTS AutoRecordCoversSessions NothingRunsAfterClose
PROPERTIES CloseCompletes FailureEndsSession
CHECK_DEADLOCK FALSE
