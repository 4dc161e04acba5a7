SPECIFICATION Spec
CONSTANTS
  Client = {c1, c2}
  Kinds = {"connect", "disconnect", "alive", "badtime", "custom", "corruptcommand"}
  MaxChoices = {0, 1, 2}
  Timeouts = {0, 1, 2}
  CheckChoices = {TRUE, FALSE}
  ZmqErrors = TRUE
  MaxInbox = 1
  AgeCap = 5
SYMMETRY ClientSymmetry
INVARIANTS
  StoppedIsClean
  StrictAlternation
  DeadClientBound
PROPERTIES
  LeaveReasons
  RequestKeepsAlive
  ImplementsService
CHECK_DEADLOCK FALSE
