SPECIFICATION Spec
CONSTANTS
  None = None
  Conns = {c1}
  Manuals = {m1}
  MaxEvents = 1
  MaxAttempts = 2
  DBFaults = FALSE
  Crashes = TRUE
  AppFails = FALSE
  StreamFails = FALSE
CHECK_DEADLOCK FALSE
INVARIANT ReplayingIsAttended
