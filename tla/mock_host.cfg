CONSTANTS
  Scenarios <- MCScenarios
  Capabilities = {"stream"}
  Lines <- MCLines
  Match <- MCMatch
  MatchAnyOrder <- MCMatchAnyOrder
  CapturesOf <- MCCapturesOf
  FitsUnder <- MCFitsUnder
  Assignable <- MCAssignable
  Bindings <- MCBindings
  MaxOut = 3
  OutRoom = 6
  InRoom = 1
  Faults = {"dies"}
SPECIFICATION FairSpec
INVARIANTS
  NoLineLost
  MatchSound
  CaughtAtLoad
PROPERTIES
  UnorderedComplete
  RunnerEnds
CHECK_DEADLOCK FALSE
