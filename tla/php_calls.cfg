CONSTANTS
  MaxTasks = 1
  MaxCalls = 2
  MaxChunks = 2
  PipeCap = 2
  MaxSignals = 0
  OneShots = {"fatal", "other"}
  HostEndings = {}
  AuthorFaults = {}
SPECIFICATION Spec
INVARIANTS
  RegistryIsCalls
PROPERTIES
  ImplementsContract
CHECK_DEADLOCK FALSE
