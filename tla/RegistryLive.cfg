SPECIFICATION FairSpec
CONSTANTS
  Handles = {h1, h2}
  Entries = {e1, e2}
  Threads = {t1}
  Reaper = reaper
  UserLimit = 1
  Overlap = FALSE
  None = None
PROPERTY ReaperRestores
CHECK_DEADLOCK FALSE
