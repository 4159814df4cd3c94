SPECIFICATION FairSpec
CONSTANTS
  Calls = {c1, c2}
  Others = {q1}
  Interrupts = {i1}
  Waits = {FALSE, TRUE}
  Load = 2
  Overlap = FALSE
  NoCall = NoCall
INVARIANT TurnFlagInv
INVARIANT InterruptedTurnIsOver
PROPERTY AnswersOwnPrompt
PROPERTY RunningTurnReleasesFlag
CHECK_DEADLOCK FALSE
