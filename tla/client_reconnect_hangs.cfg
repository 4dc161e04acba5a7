SPECIFICATION FairSpec
CONSTANTS
  Stopper = FALSE
  ZmqErrors = FALSE
PROPERTIES
  ReconnectReturns
CHECK_DEADLOCK FALSE
