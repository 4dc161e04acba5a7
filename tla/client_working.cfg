SPECIFICATION FairSpec
CONSTANTS
  Stopper = TRUE
  ZmqErrors = TRUE
INVARIANTS
  OneWorker
  CloseMsgIsFresh
PROPERTIES
  CommandReturns
  WorkersEnd
  StopClientReturns
CHECK_DEADLOCK FALSE
