SPECIFICATION Spec
CONSTANTS
    Types <- MCTypes
    Base = 2
    MaxId = 1
    MaxPayload = 4
    Numbers <- MCNumbers
    Implicit = implicit
    None = none
    Null = null
    Bad = bad
    Files <- MCFiles
    Periods <- MCPeriods
    MinRead = 2
    MaxFrames = 2
    MaxSent = 2
    MaxNow = 4
    MaxCalls = 3
INVARIANTS
    EveryPressHasValues
    DeviceReadsWhatIsSent
PROPERTY FramesKeepTime
CHECK_DEADLOCK FALSE
