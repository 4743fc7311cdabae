CONSTANTS
  Natives = {n1, n2}
  Mocks = {m1}
  Default = n1
  NoBackend = none
  Pids = {p1}
  Handles = {h1}
  MaxSwaps = 2
  MaxCalls = 2
  MaxFlips = 1
  TimeOuts = {"register", "unregister"}
SPECIFICATION Spec
CHECK_DEADLOCK FALSE
INVARIANTS TypeOK CapabilitiesMatchVersions RegistrationsAreRecorded NothingLeftBehind HandleBeforeCompletion CurrentHandlesInSight
PROPERTIES OnlyCurrentIsHeard
