SPECIFICATION Spec
CONSTANTS
  a = a
  b = b
  kp = kp
  None = None
  Columns = {"L", "R"}
  First = "L"
  Params = {kp}
  MaxValue = 2
  Unfit = {2}
  Buttons = {"L", "R", "both", "stop"}
  Fields <- MCFields
  Fixed <- MCFixed
  LiveButton <- MCLiveButton
  Names = {"p"}
  MaxRows = 2
  Debounce = 3
  MinInterval = 2
  Scopes = {"robot", "board"}
  TextProfiles = {"board"}
  StreamNames = {a, b}
  Documents <- MCDocuments
  FirstFiles <- MCFirstFiles
  SignalOrder <- MCOrder
  ConfigLane <- MCConfigLane
  Rows <- MCRows
  Endings = {"LF", "CRLF"}
  LF = "LF"
  MaxMarkers = 1
  MaxSteps = 12
  MaxSessions = 2
INVARIANTS RestartShowsTheSame WindowFollowsTheEngine MarksAreTrue LiveSendsWhatIsTyped
PROPERTY LiveIsPaced
CHECK_DEADLOCK FALSE
