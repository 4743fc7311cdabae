CONSTANTS
  Inhibits = {i1}
  OpenURIs = {}
  AltPaths = {a1}
  ForeignPath = foreign
  None = none
  Answers <- GrantOrRefuse
  MaxUnclaimed = 2
  MaxInstances = 2
  MaxCloses = 1
  MaxForeign = 0
  EarlyResponses = TRUE
  TimeOuts = {"call"}
SPECIFICATION FairSpec
CHECK_DEADLOCK FALSE
PROPERTIES EveryRequestEnds
