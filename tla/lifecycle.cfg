SPECIFICATION Spec
CONSTANTS
  Requests = {read, write, stuck}
  Writes = {write}
  Stalled = {stuck}
  AttemptLimit = 2
  DrainLimit = 3
  WaitLimit = 1
CHECK_DEADLOCK FALSE
INVARIANTS
  LifecycleTypeOK
  
  CleanStopDropsNothing
PROPERTY StopsOnSignal
