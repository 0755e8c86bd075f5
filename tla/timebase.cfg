CONSTANTS
  Modulus = 16
  Step = 2
  WrapWindow = 3
  MaxAdvance = 6
  Advances <- MCAdvances
  MaxFrames = 6
SPECIFICATION Spec
INVARIANTS TimeIsTheDevices
PROPERTY TicksOnlyGrow
CHECK_DEADLOCK FALSE
