SPECIFICATION Spec
CONSTANTS
  Builds = {"windows", "posix"}
  Programs = {"server", "client", "publisher", "subscriber"}
  MaxPresses = 3
INVARIANTS
  CallbackInTime
  ConsoleRestored
PROPERTY CloseEnds
CHECK_DEADLOCK FALSE
