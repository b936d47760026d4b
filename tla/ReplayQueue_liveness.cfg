SPECIFICATION FairSpec
CONSTANTS
  None = None
  Conns = {c1, c2}
  Manuals = {}
  MaxEvents = 2
  MaxAttempts = 2
  DBFaults = FALSE
  Crashes = FALSE
  AppFails = FALSE
  StreamFails = FALSE
CHECK_DEADLOCK FALSE
PROPERTY ListedIsDelivered
