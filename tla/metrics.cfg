SPECIFICATION Spec
CONSTANTS
  Unset = Unset
  Garbage = Garbage
  NaN = NaN
  Bad = Bad
  None = None
  Hosts <- MCHosts
  Environments <- MCEnvironments
  Known = {"getSlot", "unknown"}
  Methods = {"getSlot", "random-1"}
  Statuses = {200, 302, 400, 502}
  KnownCodes = {"-32005"}
  Codes = {"-32005", "1"}
  Reasons = {"timeout", "no_endpoints"}
  CallLimit = 2
INVARIANTS
  MetricsTypeOK
  
  ScrapesFailOnCollision
  EndpointsAreToldApart
  SeriesAreBounded
CHECK_DEADLOCK FALSE
