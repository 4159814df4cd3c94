SPECIFICATION Spec
CONSTANTS
  Calls = {c1}
  Others = {}
  Interrupts = {}
  Waits = {TRUE}
  Load = 1
  Overlap = FALSE
  NoCall = NoCall
PROPERTY OnlyOwnEndDropsFlag
CHECK_DEADLOCK FALSE
