CONSTANTS
  Sessions = {a, b}
  GroupMax = 2
  Overlap = FALSE
  MaxWrites = 2
  MaxTx = 1
  MaxErrors = 1
  MaxFaults = 0
  MaxCkpts = 0
  MaxCrashes = 0
SPECIFICATION WalSpec
INVARIANT
  UnwantedStayOut
