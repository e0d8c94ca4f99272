CONSTANTS
  t1 = t1
  t2 = t2
  k1 = k1
  k2 = k2
  Tabs = {t1}
  Keys = {k1, k2}
  Names = {sp}
  Sessions = {a, b}
  Ops = {"select", "insert", "auto"}
  Isolations = {"SER"}
  RedoCapture = FALSE
  InitRows <- OneRow
  MaxVersion = 2
  MaxRid = 3
SPECIFICATION TxSpec
PROPERTIES
  SerializableReads
