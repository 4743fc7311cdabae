CONSTANTS
  Interfaces = {f1}
  PowerSaver = powerSaver
  Versions = {1}
  MaxInstances = 2
  MaxChanges = 1
  MaxReads = 1
  CalmStartup = FALSE
  TimeOuts = {"get"}
SPECIFICATION Spec
CHECK_DEADLOCK FALSE
INVARIANTS CacheIsCurrent
