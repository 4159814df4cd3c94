SPECIFICATION AgentsSpec
CONSTANTS
  Prompts = {c1, c2}
  Breaks = {b1}
  Patient = TRUE
  NoTurn = NoTurn
  Viewers = {w1, w2}
  LeasedViewer = w1
  Bundles = 2
  Threads = 3
  Unset = Unset
  Messages = {q1, q2}
  Halts = {h1}
  Patience = TRUE
  NoMessage = NoMessage
  Models = {o1, o2}
  Ports = {v1, v2}
  LeasedPort = v1
  Changes = 1
  NotGiven = NotGiven
  Missing = Missing
INVARIANT TurnsInv
PROPERTY EveryEndIsReported
PROPERTY ConversationIsKept
PROPERTY RestartsAsAsked
PROPERTY TurnsEnd
PROPERTY CallsAreAnswered
CHECK_DEADLOCK FALSE
