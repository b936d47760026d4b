SPECIFICATION Spec
CONSTANTS
  Keys = {k1, k2}
  Rate = 2
  Burst = 6
  Cost = 3
  IdleTTL = 3
  MaxTime = 9
CHECK_DEADLOCK FALSE
SYMMETRY Symmetry
INVARIANT TypeOK
PROPERTIES IsTokenBucket IdleIsForgotten
