CONSTANTS
  Calls = {c1, c2, c3}
  NoCall = none
  MaxDrain = 2
SPECIFICATION FairSpec
CHECK_DEADLOCK FALSE
INVARIANTS TypeOK UsableOrExplained NothingLeftBehind
PROPERTIES SubscribedWhenSent MainThreadReturns
