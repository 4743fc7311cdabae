CONSTANTS
  Inhibits = {i1}
  OpenURIs = {u1}
  AltPaths = {a1}
  ForeignPath = foreign
  None = none
  Answers <- GrantOrRefuse
  MaxUnclaimed = 1
  MaxInstances = 1
  MaxCloses = 1
  MaxForeign = 0
  EarlyResponses = FALSE
  TimeOuts = {"call", "close"}
SPECIFICATION Spec
CHECK_DEADLOCK FALSE
INVARIANTS TypeOK InFlightExact CompletesAtMostOnce
PROPERTIES NothingNewAfterClose
