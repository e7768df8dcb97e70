CONSTANTS
  Conn = {c1, c2, c3}
  Uid = {u1, u2}
  Game = {g1, g2}
  None = None
SPECIFICATION FairSpec
INVARIANTS TypeOK RegistryConsistent RegisteredIsAnnounced CloseOnlyForGone LinkedIsTimed OffTableIsMoved
PROPERTIES LeaveIsReported FailedIsDeleted
