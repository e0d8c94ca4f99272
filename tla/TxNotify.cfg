CONSTANTS
  t1 = t1
  t2 = t2
  k1 = k1
  k2 = k2
  Tabs = {t1}
  Keys = {k1, k2}
  Names = {sp}
  Sessions = {a, b}
  Ops = {"select", "insert", "utility"}
  Isolations = {"RC"}
  RedoCapture = FALSE
  InitRows <- OneRow
  MaxVersion = 2
  MaxRid = 4
SPECIFICATION TxSpec
INVARIANTS
  CommittedEffects
