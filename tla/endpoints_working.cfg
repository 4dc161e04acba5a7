SPECIFICATION ESpec
CONSTANTS
  Endpoint = {e1, e2, e3}
  UUID = {u1, u2}
  NoUUID = nil
  Host <- Hosts
  Interface <- Interfaces
SYMMETRY Symmetry
INVARIANTS
  ContextOutlivesUsers
  DistinctIfAlone
CHECK_DEADLOCK FALSE
