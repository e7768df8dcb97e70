CONSTANTS
  Conn = {c1, c2}
  Uid = {u1}
  Game = {g1}
  None = None
SPECIFICATION Spec
INVARIANT LogoutKeepsClient
