SPECIFICATION BatchSpec
CONSTANTS
  Endpoints = {e1, e2, e3}
  None = None
  Slots = {1, 3}
  SlotLimit = 9
  Latencies = {4, 5, 8}
  ProbeErrors = {failed}
  NoErr = NoErr
  MaxSlotLag = 1
  FailThreshold = 2
  OKThreshold = 2
  AlphaNum = 1
  AlphaDen = 2
  CounterCap = 2
SYMMETRY Symmetry
INVARIANTS
  TypeOK
  
  AtMostOneStarves
  PrimaryNeverDegraded
