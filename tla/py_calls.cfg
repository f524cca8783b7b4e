CONSTANTS
  MaxCalls = 2
  MaxChunks = 2
  MaxAnswers = 2
  Methods = {"recall"}
  ReplyKinds = {"result", "malformed", "error"}
  TimerCancels = FALSE
SPECIFICATION FairCallsSpec
INVARIANTS
  NoOrphan
  IterationEnds
  StreamFaithful
PROPERTIES
  AbandonAnswersAll
  CallEnds
  ImplementsContract
CHECK_DEADLOCK FALSE
