SPECIFICATION EdgeFairSpec
CONSTANTS
  None = None
  Conns = {c1, c2}
  Subs = {s1}
  Users = {u1}
  Requests = {r1}
  Kinds = {"webhook"}
  TTL = 2
  Period = 1
  DBFaults = FALSE
  RedisFaults = FALSE
  StreamFails = TRUE
PROPERTIES RequestIsAnswered StoredBeforeDrain
