SPECIFICATION FairSpec
CONSTANTS
  None = None
  Conns = {c1, c2}
  Subs = {s1}
  Users = {u1, u2}
  TTL = 3
  Period = 1
  DBFaults = TRUE
  RedisFaults = FALSE
INVARIANTS TypeOK LiveIsRegistered RegisteredIsServed RegisteredIsOwned OnlyStaleClearHides
PROPERTIES OwnerIsFinal HiddenComesBack UnservedGoesOffline
