SPECIFICATION SafeSpec
CONSTANTS
  Requests = {read, write}
  Writes = {write}
  Stalled = {}
  AttemptLimit = 3
  DrainLimit = 2
  WaitLimit = 1
CHECK_DEADLOCK FALSE
INVARIANT NoRequestDropped
