CONSTANTS
  a = a
  b = b
  Sessions = {a, b}
  Values = {u, v}
  Saves = {sp}
  Budgets <- Scripts
SYMMETRY SessSymmetry
SPECIFICATION SessSpec
INVARIANTS
  SessTypeOK
  NothingSlips
  SettingsOverlay
  BlockStateEndsWithBlock
  NotifiesFollowCommits
