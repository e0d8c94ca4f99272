CONSTANTS
  r1 = r1
  r2 = r2
  k1 = k1
  k2 = k2
  Rows = {r1, r2}
  Keys = {}
  Sessions = {s1, s2, s3}
  Stmts <- RowStmts
  TimeoutSessions = {s1}
  FrozenSessions = {}
  SavepointSessions = {s2}
  MaxVersion = 3
  Versions = {1, 2, 3, 4}
SPECIFICATION LocksSpec
PROPERTIES
  OnlyRealDeadlocks
