CONSTANTS
  r1 = r1
  r2 = r2
  k1 = k1
  k2 = k2
  Rows = {r1, r2}
  Keys = {k1}
  Sessions = {s1, s2}
  Stmts <- SharedStmts
  TimeoutSessions = {s2}
  FrozenSessions = {}
  SavepointSessions = {}
  MaxVersion = 2
  Versions = {1, 2, 3}
SPECIFICATION FairSpec
PROPERTIES
  EveryWaitEnds
