CONSTANTS
  t1 = t1
  t2 = t2
  k1 = k1
  k2 = k2
  Tabs = {t1}
  Keys = {k1, k2}
  Names = {sp}
  Sessions = {a, b}
  Ops = {"select", "insert", "update", "delete", "savepoint"}
  Isolations = {"RC", "RR", "SER"}
  RedoCapture = FALSE
  InitRows <- OneRow
  MaxVersion = 2
  MaxRid = 3
SYMMETRY SessionSymmetry
SPECIFICATION TxSpec
INVARIANTS
  CommittedEffects
  ReadCommittedIsCurrent
PROPERTIES
  FrozenView
  SerializableReads
