CONSTANTS
  Client = {c1, c2}
  MaxErrors = 3
  MaxOut = 2
  Svid = {s1, s2, s3}
  Level = {l1, l2}
  Cmd = {cmd}
  None = None
  MaxListed = 3
  MaxTaken = 2
SPECIFICATION AllSpec
SYMMETRY Symmetry
INVARIANTS OutputIsWatched ChoicesSound SpreadOrDown
PROPERTY FailureIsFinal
CHECK_DEADLOCK FALSE
