CONSTANTS
  MaxCalls = 1
  MaxChunks = 2
  MaxAnswers = 2
  Methods = {"recall"}
  ReplyKinds = {"result", "malformed", "error"}
  TimerCancels = TRUE
SPECIFICATION FairCallsSpec
PROPERTIES
  ImplementsContract
CHECK_DEADLOCK FALSE
