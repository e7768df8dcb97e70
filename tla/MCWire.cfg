CONSTANTS
  PACKET_BUFFER_SIZE = 67
  MaxPacket = 40
  Script <- MCScript
  Piece = {5, 23}
  Cmd = {257, 279, 285, 293, 300, 785, 1540}
  WhiteCmd = {4100}
  Level = {1, 2}
  Svid = {1}
  FromAlloc <- MCFromAlloc
  FromGame <- MCFromGame
  MaxFrom = 2
  IpStart <- MCIpStart
  IpFile <- MCIpFile
  Rand <- MCRand
  Self = 9
  Ip = 16909060
  Key <- MCKey
SPECIFICATION Spec
INVARIANTS Transparent RepliesTrue SeatAsTold
CHECK_DEADLOCK FALSE
