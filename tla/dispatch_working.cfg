SPECIFICATION Spec
CONSTANTS
  User = {u, v}
  Id = {i, j}
  Inputs = {i}
  Object = {o, p}
  NoObject = nil
  Payload = {d, bad}
  Good = {d}
  NoData = none
  MaxOps = 3
INVARIANTS
  RunsAlive
  OkMeansReturned
  GivenIsReceived
PROPERTY Returns
CHECK_DEADLOCK FALSE
