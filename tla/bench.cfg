SPECIFICATION Spec
CONSTANTS
  Upstreams <- MCUpstreams
  Mesh = "rpc-mesh"
  Requests = 5
  Conc = 2
  Warmups = 1
  NoAnswer = NoAnswer
  Responses <- MCResponses

  
  
PROPERTIES
  ResultsAreFaithful
  BenchEnds
CHECK_DEADLOCK FALSE
