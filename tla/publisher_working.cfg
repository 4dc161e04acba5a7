SPECIFICATION FairSpec
CONSTANTS
  Priority <- ThreePriorities
  Topic = {t1, t2}
  MaxQueue = 2
  SendErrors = TRUE
INVARIANTS
  SocketOutlivesWorker
PROPERTIES
  ImplementsOutbox
  BacklogIsServed
  StopReturnsOrMissed
CHECK_DEADLOCK FALSE
