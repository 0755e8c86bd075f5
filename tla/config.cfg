CONSTANTS
  lc = lc
  v1 = v1
  v2 = v2
  L = L
  R = R
  k1 = k1
  k2 = k2
  speed = speed
  other = other
  p = p
  q = q
  Names = {lc, v1, v2}
  LoopCntr = lc
  Line = Line
  None = None
  Broken = Broken
  MateOf <- MCMates
  LeftLabels = {L}
  Keys = {k1, k2}
  Labels = {L, R}
  Patterns <- MCPatterns
  Lanes = {speed, other}
  Tops = {speed, other}
  Unusable = Unusable
  Torn = Torn
  Disks <- MCDisks
  MaxEdits = 5
  PasteEffort = 2
  size = size
  bad = bad
  Plain = Plain
  DefaultLane = other
  Sources <- MCSources
SPECIFICATION Spec
INVARIANTS ReferencesAreKept MarkIsTrue SavesAreWhole
PROPERTY PastesFollowTheFirmware
CHECK_DEADLOCK FALSE
