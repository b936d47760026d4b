SPECIFICATION FairSpec
CONSTANTS
  None = None
  Puts = {t1, t2}
  Pages = {p1, p2, p3}
  Sizes = {1, 2}
  MaxSnapshotBytes = 3
  Faults = TRUE
CHECK_DEADLOCK FALSE
INVARIANTS TypeOK QuietPutFits EvictsOldest
PROPERTY PutEnds
