SPECIFICATION MeshSpec
CONSTANTS
  Endpoints = {e1, e2}
  None = None
  Slots = {1, 3}
  SlotLimit = 9
  Latencies = {1}
  ProbeErrors = {failed}
  NoErr = NoErr
  MaxSlotLag = 1
  FailThreshold = 1
  OKThreshold = 1
  AlphaNum = 1
  AlphaDen = 5
  CounterCap = 1
  Requests = {q1}
  Responses <- MCResponses
  Window = 2
  Faults = {"deadline"}
  Tip = 3
  Stuck = 1
PROPERTIES
  SettlesInCycles
  ServedByTheBest
  OutageIsRefused
  ReadsOutliveTheChecker
