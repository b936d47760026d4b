SPECIFICATION FairSpec
CONSTANTS
  None = None
  Request = Request
  Ok = Ok
  Bad = Bad
  Switch = Switch
  End = End
  MaxSent = 2
  Window = 2
  Limit = 1
CHECK_DEADLOCK FALSE
INVARIANTS StreamTypeOK StoredIsWhole UpgradeDelivers
PROPERTY RelayEnds
