SPECIFICATION AgentsFairSpec
CONSTANTS
  None = None
  Procs = {p1,p2}
  Server = p1
  Files = 1
  MaxTroubles = 1
  AgentIds = {a1,a2}
  MaxConns = 2
  MinBackoff = 2
  MaxBackoff = 3
CHECK_DEADLOCK FALSE
INVARIANTS AgentsTypeOK MigratesOnce
PROPERTY AgentsSettle
