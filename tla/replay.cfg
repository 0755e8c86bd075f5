CONSTANTS
  PREAMBLE = 1
  HEAD = 2
  Stamps = {2, 6}
  Lengths = {2}
  Speeds = {0, 1, 2}
  MaxRead = 3
  Timeout = 1
  Far = 5
  MaxChunks = 3
  MaxControls = 3
SPECIFICATION FairSpec
INVARIANTS ReplayIsTheRecording
PROPERTIES PlaysAtItsPace PlaysToTheEnd
CHECK_DEADLOCK FALSE
