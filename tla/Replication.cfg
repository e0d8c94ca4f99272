CONSTANTS
  MaxWrites = 2
  Roles = {"follower", "subscriber"}
  FrameMax = 3
  NetMax = 2
  Published = {2}
  Volatile = {2}
  MaxTx = 1
  MaxMarks = 1
  MaxCkpts = 1
  MaxCuts = 2
  MaxCrashes = 1
  Pursued = {}
CONSTRAINT Pursuing
SPECIFICATION ReplSpec
INVARIANTS
  ReplTypeOK
  BarrierHolds
  SameReadings
PROPERTIES
  ReplicaIsAPrefix
  CatchesUp
