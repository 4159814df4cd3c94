SPECIFICATION Spec
CONSTANTS
  Handles = {h1}
  Entries = {e1}
  Threads = {t1, t2}
  Reaper = reaper
  UserLimit = 1
  Overlap = TRUE
  None = None
SYMMETRY ThreadSymmetry
PROPERTY SweepSparesStarts
CHECK_DEADLOCK FALSE
