CONSTANTS
  Sessions = {a, b, c}
  GroupMax = 2
  Overlap = FALSE
  MaxWrites = 3
  MaxTx = 1
  MaxErrors = 1
  MaxFaults = 1
  MaxCkpts = 1
  MaxCrashes = 1
SPECIFICATION WalFairSpec
INVARIANTS
  BracketedRecovery
PROPERTY
  EveryTaskAnswered
