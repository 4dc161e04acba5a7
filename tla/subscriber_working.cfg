SPECIFICATION FairSpec
CONSTANTS
  Endpoint = {e1, e2}
  Topic <- TwoTopics
  AnyTopic = ""
  MaxInbox = 2
  ZmqErrors = TRUE
INVARIANTS
  SocketFollowsSets
  SocketOutlivesWorker
PROPERTIES
  StopReturns
  StartReturnsOrMissed
CHECK_DEADLOCK FALSE
