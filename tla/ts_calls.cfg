CONSTANTS
  MaxTasks = 1
  MaxCalls = 2
  MaxChunks = 2
  PipeCap = 1
  MaxSignals = 1
  MaxBusy = 1
  OneShots = {"other"}
  Faults = {"busyStream", "dropStream", "lateStream", "badDetails", "lateSignal"}
SPECIFICATION LoopSpec
INVARIANTS
  RegistryIsOpenCalls
  StreamFaithful
PROPERTIES
  ImplementsContract
CHECK_DEADLOCK FALSE
