CONSTANTS
  Inhibits = {i1}
  OpenURIs = {u1}
  AltPaths = {a1}
  ForeignPath = foreign
  None = none
  Answers <- GrantOrRefuse
  MaxUnclaimed = 3
  MaxInstances = 1
  MaxCloses = 1
  MaxForeign = 1
  EarlyResponses = TRUE
  TimeOuts = {}
SPECIFICATION Spec
CHECK_DEADLOCK FALSE
INVARIANTS UnclaimedOnlyInFlight AnswersAreTheirOwn NotStranded
PROPERTIES AnsweredUntilClosed
