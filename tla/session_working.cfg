SPECIFICATION Spec
CONSTANTS
  c1 = c1
  c2 = c2
  Client = {c1, c2}
  MaxClients = 1
  Position = {p, unset}
  Wrong = {unset}
  Unset = unset
  Asks <- Programs
  MaxSockets <- Sockets
INVARIANTS
  TypeOK
  SessionsAgree
  OkMeansDone
