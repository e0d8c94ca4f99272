CONSTANTS
  MaxWrites = 1
  Callers = {t1}
  Names = {"a"}
  MaxTx = 0
  MaxSaves = 0
  MaxFailures = 0
  MaxCkpts = 1
  MaxCrashes = 1
  Pursued = {}
SPECIFICATION EmbSpec
INVARIANT AppliedOnce
