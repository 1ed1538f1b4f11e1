SPECIFICATION HistSpec
CONSTANTS
  Endpoints = {e1, e2}
  None = None
  Slots = {0, 1, 2, 4}
  SlotLimit = 9
  Latencies = {4, 5}
  ProbeErrors = {failed}
  NoErr = NoErr
  MaxSlotLag = 1
  FailThreshold = 3
  OKThreshold = 2
  AlphaNum = 1
  AlphaDen = 2
  CounterCap = 3
INVARIANTS
  LiveEndpointServesFresh
  CountersAreStreaks
PROPERTY
  ImplementsMembership
