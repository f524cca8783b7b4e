CONSTANTS
  MaxTasks = 2
  MaxCalls = 1
  MaxChunks = 1
  PipeCap = 2
  MaxSignals = 1
  MaxBusy = 1
  OneShots = {"shutdown"}
  Faults = {}
SPECIFICATION FairSpec
INVARIANTS
  AckAfterReplies
PROPERTIES
  AckEndsWork
  ShutdownAcked
  StopsGracefully
CHECK_DEADLOCK FALSE
