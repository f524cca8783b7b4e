CONSTANTS
  MaxCalls = 1
  MaxChunks = 1
  MaxAnswers = 1
  Methods = {"recall"}
  ReplyKinds = {"result", "error"}
  TimerCancels = TRUE
  MaxTasks = 2
  PipeCap = 2
  MaxSignals = 1
  LateSignals = FALSE
  OneShots = {"shutdown"}
  AuthorFaults = {}
SPECIFICATION FairSpec
INVARIANTS
  AckAfterReplies
PROPERTIES
  ShutdownAcked
  StopEnds
  StopsGracefully
CHECK_DEADLOCK FALSE
