SPECIFICATION ReadersSpec
CONSTANTS
  Endpoints = {e1, e2}
  None = None
  Slots = {0, 1, 3}
  SlotLimit = 9
  Latencies = {1}
  ProbeErrors = {failed}
  NoErr = NoErr
  MaxSlotLag = 1
  FailThreshold = 2
  OKThreshold = 2
  AlphaNum = 1
  AlphaDen = 5
  CounterCap = 2
  Reports = {r1}
INVARIANT ReportsAreCoherent
