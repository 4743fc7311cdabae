CONSTANTS
  Interfaces = {}
  PowerSaver = powerSaver
  Versions = {1}
  MaxInstances = 1
  MaxChanges = 1
  MaxReads = 0
  CalmStartup = FALSE
  TimeOuts = {}
SPECIFICATION Spec
CHECK_DEADLOCK FALSE
INVARIANTS CurrentWhenQuiet
