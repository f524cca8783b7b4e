CONSTANTS
  MaxCalls = 1
  MaxChunks = 1
  MaxAnswers = 1
  Methods = {"recall"}
  ReplyKinds = {"result", "unreadable"}
  TimerCancels = FALSE
  MaxTasks = 1
  PipeCap = 2
  MaxSignals = 1
  LateSignals = TRUE
  OneShots = {"request", "noise", "fatal", "shutdown"}
  AuthorFaults = {"badDetails", "cancelFinal", "lateStream"}
SPECIFICATION LoopSpec
PROPERTIES
  AckIsLast
  ReaderGoesOn
CHECK_DEADLOCK FALSE
