SPECIFICATION Spec
CONSTANTS
  Handles = {h1}
  Entries = {e1, e2}
  Threads = {t1, t2}
  Reaper = reaper
  UserLimit = 2
  Overlap = TRUE
  None = None
INVARIANT OneProcessPerHandle
CHECK_DEADLOCK FALSE
