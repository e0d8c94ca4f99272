CONSTANTS
  r1 = r1
  r2 = r2
  k1 = k1
  k2 = k2
  Rows = {r1, r2}
  Keys = {}
  Sessions = {s1, s2}
  Stmts <- RowStmts
  TimeoutSessions = {s1, s2}
  FrozenSessions = {}
  SavepointSessions = {}
  MaxVersion = 2
  Versions = {1, 2, 3}
SPECIFICATION LocksSpec
PROPERTIES
  NoVictimWithoutFault
