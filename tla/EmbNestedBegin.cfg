CONSTANTS
  MaxWrites = 2
  Callers = {t1}
  Names = {"a"}
  MaxTx = 1
  MaxSaves = 0
  MaxFailures = 0
  MaxCkpts = 0
  MaxCrashes = 0
  Pursued = {}
SPECIFICATION EmbSpec
INVARIANT NestedBlocksSurvive
