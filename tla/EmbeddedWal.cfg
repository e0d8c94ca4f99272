CONSTANTS
  MaxWrites = 2
  Callers = {t1, t2}
  Names = {"a"}
  MaxTx = 1
  MaxSaves = 1
  MaxFailures = 1
  MaxCkpts = 1
  MaxCrashes = 1
  Pursued = {"overtaken", "torn", "window", "refused", "aborted"}
SPECIFICATION EmbSpec
CONSTRAINT Pursuing
INVARIANTS
  EmbTypeOK
  AckedSurvive
  ReplayIsExact
PROPERTY
  EveryCallReturns
