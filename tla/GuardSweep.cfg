SPECIFICATION FairSpec
CONSTANTS
  Jvms = {j1, j2}
  Procs = {p1, p2}
  Handles = {h1, h2}
  Launchers = {t1}
  GuardModes = {TRUE, FALSE}
  Posix = TRUE
  None = None
INVARIANT GuardInv
PROPERTY SweepSparesLive
PROPERTY GuardsStopOrphans
CHECK_DEADLOCK FALSE
