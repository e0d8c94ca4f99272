CONSTANTS
  Sessions = {a, b}
  GroupMax = 2
  Overlap = TRUE
  MaxWrites = 2
  MaxTx = 0
  MaxErrors = 0
  MaxFaults = 1
  MaxCkpts = 0
  MaxCrashes = 0
SPECIFICATION WalSpec
INVARIANT
  AckedInMemory
