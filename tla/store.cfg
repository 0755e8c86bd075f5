CONSTANTS
  Capacities = {3, 8}
  Batches <- MCBatches
  Scales = {4, 8}
  Target = 2
  MaxVersion = 4
  Specs <- MCSpecs
  NaN = 9
SPECIFICATION TSpec
INVARIANTS OverviewIsTheWindow FrameIsCurrent PollsSeeEverySample
  CrossingsAreCaptured PanelShowsTheTrigger
PROPERTY StoreIsALog
CHECK_DEADLOCK FALSE
