SPECIFICATION Spec
CONSTANTS
  Handles = {h1, h2, h3}
  Entries = {e1, e2, e3}
  Threads = {t1}
  Reaper = reaper
  UserLimit = 2
  Overlap = FALSE
  None = None
SYMMETRY Symmetry
INVARIANT RegistryInv
PROPERTY SweepsSpareUse
PROPERTY LimitIsEnforced
CHECK_DEADLOCK FALSE
