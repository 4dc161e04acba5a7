SPECIFICATION Spec
CONSTANTS
  Endpoint = {e1}
  Topic <- OneTopic
  AnyTopic = ""
  MaxInbox = 0
  ZmqErrors = FALSE
INVARIANTS
  WorkingHasWorker
CHECK_DEADLOCK FALSE
