SPECIFICATION EngineSpec
CONSTANTS
  Skills = {k1, k2}
  Releases = 2
  ReadCalls = {rc1, rc2}
  Setups = {u1, u2}
  Visible = {"b1", "b2"}
  Queries = {"q1"}
  Conversations = {c1}
  LegacyHomes = {l1}
  NoConversation = NoConversation
  Leasers = {v1, v2}
  PortCount = 2
  Probers = {p1, p2}
  HomeCalls = {a1, a2}
  CopyCalls = {k1, k2}
  SessionCount = 2
  UsageReaders = {r1, r2}
  SegmentCount = 2
  AgentMessages = {m1}
  Reasonings = {i1}
  Plans = {n1}
  Tools = {x1}
  Pieces = 2
  TextBlocks = {t1, t2, t3}
  Calls = {y1, y2}
  Parts = 2
  Effects = {f1}
  NamedCalls = {g1}
  TitlesKept = 1
  PipeSize = 2
  NoToolCall = NoToolCall
INVARIANT ReadsAreKnown
PROPERTY ConfigIsJudged
PROPERTY StorageIsSafe
PROPERTY QuietCallIsAlone
PROPERTY SignInPrevails
INVARIANT HomeIsReady
PROPERTY CopiesBringSessions
INVARIANT UsageIsCounted
PROPERTY TurnIsShown
PROPERTY TextsAreDelivered
PROPERTY UpdatesAreJudged
CHECK_DEADLOCK FALSE
