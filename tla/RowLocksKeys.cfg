CONSTANTS
  r1 = r1
  r2 = r2
  k1 = k1
  k2 = k2
  Rows = {r1}
  Keys = {k1, k2}
  Sessions = {s1, s2}
  Stmts <- KeyStmts
  TimeoutSessions = {s1}
  FrozenSessions = {s2}
  SavepointSessions = {s1}
  MaxVersion = 2
  Versions = {1, 2, 3}
SPECIFICATION LocksSpec
INVARIANTS
  FirstWriterOwnsKey
PROPERTIES
  OnlyRealDeadlocks
