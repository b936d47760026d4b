SPECIFICATION FairSpec
CONSTANTS
  None = None
  Emails = {e1}
  Passwords = {w1, w2}
  SignUps = {s1, s2}
  LogIns = {l1}
  Seeds = {d1}
  Resets = {r1}
  Faults = TRUE
CHECK_DEADLOCK FALSE
INVARIANTS TypeOK NoTakeover SignUpIsAtomic LogInHadPassword AnsweredTokenWorks
PROPERTY CallEnds
