CONSTANT MaxPending = 4
SPECIFICATION FairSpec
CHECK_DEADLOCK FALSE
INVARIANTS CurrentWhenQuiet NoBlockOnFreed
PROPERTIES LastingModeIsHeard DestructorReturns
