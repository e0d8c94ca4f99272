CONSTANTS
  MaxWrites = 1
  Roles = {"follower"}
  FrameMax = 3
  NetMax = 2
  Published = {}
  Volatile = {1}
  MaxTx = 0
  MaxMarks = 0
  MaxCkpts = 0
  MaxCuts = 1
  MaxCrashes = 0
  Pursued = {"volatile"}
CONSTRAINT Pursuing
SPECIFICATION ReplSpec
INVARIANT ReadingsKept
