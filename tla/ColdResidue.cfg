CONSTANTS
  Keys = {k1, k2}
  Vals = {v1, v2}
  NoRow = NoRow
  Batch = 2
  Budget = 0
  MaxStmts = 4
  MaxSegs = 4
  MaxCkpts = 2
  MaxCrashes = 1
  MaxFaults = 1
  Pursued = {}
SYMMETRY DataSymmetry
CONSTRAINT Pursuing
SPECIFICATION ColdSpec
INVARIANT
  ResidueIsNoOp
