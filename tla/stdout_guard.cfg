CONSTANTS
  Threads = {t1, t2}
  Adapters = {a1, a2}
  Original = original
  Texts = {"json", "junk", "newline", "tail", "pretty"}
  MaxWrites = 2
  MaxFrames = 1
  Bypass = TRUE
  Faults = {"badStdin"}
SYMMETRY Alike
SPECIFICATION Spec
INVARIANTS
  WireClean
  NoLineStuck
  NothingLost
  GuardReleased
CHECK_DEADLOCK FALSE
