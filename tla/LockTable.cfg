CONSTANTS
  Rows = {r1}
  Versions = {1, 2, 3}
SPECIFICATION Spec
INVARIANTS
  TypeOK
  NoConflictingHolders
  SearchFindsLeastCycle
  SomeMemberIsItsOwnVictim
