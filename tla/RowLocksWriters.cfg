CONSTANTS
  r1 = r1
  r2 = r2
  k1 = k1
  k2 = k2
  Rows = {r1, r2}
  Keys = {k1}
  Sessions = {s1, s2, s3}
  Stmts <- WriterStmts
  TimeoutSessions = {}
  FrozenSessions = {}
  SavepointSessions = {}
  MaxVersion = 3
  Versions = {1, 2, 3, 4}
SYMMETRY SessionSymmetry
SPECIFICATION LocksSpec
INVARIANTS
  LocksTypeOK
  NoLeakedLocks
PROPERTIES
  OnlyRealDeadlocks
