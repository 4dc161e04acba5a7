SPECIFICATION FairSpec
CONSTANTS
  Client = {c1, c2}
  Kinds = {"connect", "alive", "badparts", "corruptcommand"}
  MaxChoices = {2}
  Timeouts = {0, 2}
  CheckChoices = {TRUE}
  ZmqErrors = FALSE
  MaxInbox = 1
  AgeCap = 3
PROPERTIES
  AnsweredUnlessStopped
  DeadIsDropped
  StopReturnsOrBlocks
CHECK_DEADLOCK FALSE
