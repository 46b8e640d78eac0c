SPECIFICATION FairPauseSpec
CONSTANTS
  Services = {s1, s2}
  IOS = TRUE
  Overlap = TRUE
  MaxPauses = 2
  MaxWakes = 1
INVARIANTS
  PauseTypeOK
  PauseIsTimed
PROPERTY PauseEnds
CHECK_DEADLOCK FALSE
