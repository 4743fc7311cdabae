CONSTANTS
  Inhibits = {i1}
  OpenURIs = {}
  AltPaths = {}
  ForeignPath = foreign
  None = none
  Answers <- GrantOrRefuse
  MaxUnclaimed = 1
  MaxInstances = 1
  MaxCloses = 0
  MaxForeign = 0
  EarlyResponses = FALSE
  TimeOuts = {}
SPECIFICATION Spec
CHECK_DEADLOCK FALSE
INVARIANTS ReplacedNeverAnswered
