CONSTANTS
  Interfaces = {}
  PowerSaver = powerSaver
  Versions = {1}
  MaxInstances = 2
  MaxChanges = 2
  MaxReads = 0
  CalmStartup = TRUE
  TimeOuts = {"await"}
SPECIFICATION FairSpec
CHECK_DEADLOCK FALSE
INVARIANTS TypeOK CurrentWhenQuiet UnknownWithoutPortal ChangesAreHeard
PROPERTIES BecomesCurrent
