CONSTANTS
  MaxTasks = 2
  MaxCalls = 1
  MaxChunks = 2
  PipeCap = 2
  MaxSignals = 1
  OneShots = {"shutdown"}
  HostEndings = {"closes"}
  AuthorFaults = {"chunkSuspends", "badParams"}
SPECIFICATION FairSpec
INVARIANTS
  AckAfterReplies
  StreamFaithful
PROPERTIES
  ShutdownAcked
  EofEnds
  StopsGracefully
CHECK_DEADLOCK FALSE
