SPECIFICATION Spec
CONSTANTS
  Endpoints = {e1, e2}
  None = None
  Slots = {1}
  SlotLimit = 9
  Latencies = {1}
  ProbeErrors = {failed, Cancelled}
  NoErr = NoErr
  Cancelled = Cancelled
  MaxSlotLag = 1
  FailThreshold = 2
  OKThreshold = 2
  AlphaNum = 1
  AlphaDen = 5
  CounterCap = 2
INVARIANTS
  CheckerTypeOK
  NoSpuriousFailure
PROPERTIES
  OnlyWholeCycles
  DownIsEjected
  UpIsReadmitted
  StopsWhenCancelled
