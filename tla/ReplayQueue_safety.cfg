SPECIFICATION Spec
CONSTANTS
  None = None
  Conns = {c1, c2}
  Manuals = {m1}
  MaxEvents = 2
  MaxAttempts = 2
  DBFaults = TRUE
  Crashes = TRUE
  AppFails = TRUE
  StreamFails = TRUE
CHECK_DEADLOCK FALSE
CONSTRAINT TwoAtATime
SYMMETRY Symmetry
INVARIANTS TypeOK DeliveredWasAcked DeadWasTried HeadOfLine
PROPERTY KeepsPromise
