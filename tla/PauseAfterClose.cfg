SPECIFICATION PauseSpec
CONSTANTS
  Services = {s1}
  IOS = FALSE
  Overlap = FALSE
  MaxPauses = 2
  MaxWakes = 2
INVARIANT NoPauseAfterClose
CHECK_DEADLOCK FALSE
