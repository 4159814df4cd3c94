SPECIFICATION EventsSpec
CONSTANTS
  Producers = {p1, p2}
  Budget = 2
  Buffer = 8
  Limit = 2
INVARIANT IndexStrictlyIncreasing
CHECK_DEADLOCK FALSE
