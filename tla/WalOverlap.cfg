CONSTANTS
  Sessions = {a, b}
  GroupMax = 2
  Overlap = TRUE
  MaxWrites = 3
  MaxTx = 1
  MaxErrors = 1
  MaxFaults = 1
  MaxCkpts = 1
  MaxCrashes = 0
SPECIFICATION WalSpec
INVARIANTS
  WalTypeOK
  AckedVisible
