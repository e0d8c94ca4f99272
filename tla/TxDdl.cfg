CONSTANTS
  t1 = t1
  t2 = t2
  k1 = k1
  k2 = k2
  Tabs = {t1, t2}
  Keys = {k1, k2}
  Names = {sp}
  Sessions = {a, b}
  Ops = {"select", "insert", "upsert", "alter", "utility", "lock", "auto"}
  Isolations = {"RC", "RR"}
  RedoCapture = FALSE
  InitRows <- OneRow
  MaxVersion = 2
  MaxRid = 3
SYMMETRY SessionSymmetry
SPECIFICATION TxSpec
INVARIANTS
  CommittedKeysUnique
PROPERTY
  OtherTablesKept
