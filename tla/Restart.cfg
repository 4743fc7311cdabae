CONSTANTS
  Inhibits = {i1}
  OpenURIs = {u1}
  AltPaths = {a1}
  ForeignPath = foreign
  None = none
  Answers <- GrantOrRefuse
  MaxUnclaimed = 1
  MaxInstances = 2
  MaxCloses = 1
  MaxForeign = 0
  EarlyResponses = FALSE
  TimeOuts = {}
SPECIFICATION Spec
CHECK_DEADLOCK FALSE
INVARIANTS RoutesMatchRequests HeldCanBeClosed
PROPERTIES ImplementsRequestLife
