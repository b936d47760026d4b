SPECIFICATION EdgeSpec
CONSTANTS
  None = None
  Conns = {c1, c2}
  Subs = {s1}
  Users = {u1, u2}
  Requests = {r1}
  Kinds = {"webhook", "page"}
  TTL = 2
  Period = 1
  DBFaults = TRUE
  RedisFaults = TRUE
  StreamFails = TRUE
SYMMETRY Symmetry
INVARIANTS EdgeTypeOK ForwardedToOwner AcceptedIsStored NotBothWays
