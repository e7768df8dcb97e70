CONSTANTS
  Proc = {p1, p2}
  Key = {0, 1}
  Value <- MCValue
  NodeTotal = 2
  BucketSize = 1
  ChunkTotal = 3
  MaxKills = 1
SPECIFICATION Spec
INVARIANT InsertRefusesKnown
CHECK_DEADLOCK FALSE
