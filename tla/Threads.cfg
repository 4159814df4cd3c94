SPECIFICATION ThreadsSpec
CONSTANTS
  Producers = {p1}
  Budget = 5
  Buffer = 2
  Limit = 2
  ExecRuns = {e1, e2}
  Grace = 1
  Settled = TRUE
  NoRun = NoRun
  Reapers = {r1, r2, r3, r4}
  Callers = {c1, c2}
  Upgrades = 1
  Deaths = 2
  None = None
  Installers = {n1, n2}
  NoHolder = NoHolder
  CacheWriters = {w1, w2}
  Sections = {"checks", "preferences"}
  MaxWrites = 3
  NoWriter = NoWriter
  LoginCallers = {s1, s2}
  LoginProcesses = {l1, l2, l3}
  NoLogin = NoLogin
INVARIANT BufferInv
PROPERTY NewestIsReceived
PROPERTY LogIsImplemented
PROPERTY LinesAreSorted
PROPERTY PrintedEndIsReported
INVARIANT ReaperInv
PROPERTY OneReaperRemains
PROPERTY InstallsAreWhole
INVARIANT NothingIsUndone
PROPERTY LoginsAreSafe
PROPERTY CallsEnd
CHECK_DEADLOCK FALSE
