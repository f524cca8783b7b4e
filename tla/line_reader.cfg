CONSTANTS
  MaxFrameBytes = 2
  Slack = 1
  ChunkBytes = 3
  StreamBytes = 12
SPECIFICATION FairSpec
INVARIANTS
  FitsHandled
  OnlyTails
PROPERTIES
  ReadsOn
CHECK_DEADLOCK FALSE
