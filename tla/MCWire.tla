------------------------------- MODULE MCWire -------------------------------
(* A client of user 7 that logs in and sends a packet of any kind and for some *)
(* kinds another, or sends one without a login, while servers send two.        *)
EXTENDS Wire, TLC

Seal(p) == Encrypt(End(p)).buf
Login7(uid) == Seal(WriteShort(WriteInt(Begin(CLIENT_CMD_CLIENT_LOGIN), uid), 3))
Levels(n, a, b) ==
  Seal(WriteShort(WriteShort(WriteShort(Begin(CMD_GET_ROOM_LEVER_NUM), n), a), b))
Plain(cmd) == Seal(Begin(cmd))
WithInt(cmd, n) == Seal(WriteInt(Begin(cmd), n))
Word(cmd, w) == Seal(WriteString(Begin(cmd), w))
MCKey == <<98, 121>>

Once == {
  Plain(CLIENT_COMMAND_BREAK_TIME),
  Word(SERVER_GET_PLAYER_COUNT, MCKey), Word(SERVER_GET_PLAYER_COUNT, <<98>>),
  Levels(2, 1, 5), Levels(20, 1, 2), Levels(-1, 1, 1),
  Seal(WriteShort(Begin(CMD_GET_NEW_ROOM), 1)),
  Seal(WriteShort(Begin(CMD_GET_NEW_ROOM), 5)),
  WithInt(CLIENT_CMD_REQUEST_LIST_ROOM, 1), WithInt(CLIENT_CMD_ENTER_ROOM, 5),
  Seal(WriteShort(Begin(CMD_REQUIRE_IP_PORT), 250)), Seal(WriteShort(Begin(CMD_REQUIRE_IP_PORT), -1)),
  Seal(WriteInt(WriteString(Begin(SYS_OPEN_DEBUG), ADMIN_FLAG), 1)),
  End(WriteInt(WriteString(Begin(SYS_RESET_CONNECT_TIMER), ADMIN_FLAG), -1)).buf,
  Seal(WriteString(WriteShort(WriteString(Begin(SERVER_BROADCAST_INFO), MCKey), 1), <<65>>)),
  Seal(WriteString(Begin(CLINET_REQUEST_BROADCAST_INFO), <<65>>)),
  Plain(4099), Plain(4100), Plain(300),
  Seal(WriteInt(WriteInt(Begin(CLIENT_COMMAND_LOGIN), 65536), 7)),
  <<0, 7, 66, 90, 1, 1, 0, 0, 0>>, PolicyRequest }
Twice == {
  Seal(WriteShort(Begin(CMD_GET_NEW_ROOM), 1)),
  Levels(2, 2, 1), Plain(4100), Login7(8), Plain(300),
  End(WriteString(Begin(SYS_RELOAD_IP_MAP), ADMIN_FLAG)).buf }

First == {
  Seal(WriteShort(Begin(CMD_GET_NEW_ROOM), 1)), Levels(2, 1, 5),
  Seal(WriteInt(WriteInt(Begin(CLIENT_COMMAND_LOGIN), 65536), 7)) }

MCScript ==
  {<<Login7(7), x>> : x \in Once} \cup {<<Login7(7), x, y>> : x \in First, y \in Twice}
    \cup {<<x>> : x \in Once \cup {Login7(0)}}
MCRand == {<<0, 99>>}

\* Server packets: of an alloc server for user 7 or another, of the game server.
Wrap(cmd, uid, bytes) ==
  End(WriteBinary(WriteInt(WriteInt(Begin(cmd), uid), 1), bytes)).buf
A == <<65>>
B == <<66, 66>>
MCFromAlloc == {
  Wrap(CLIENT_PACKET, 7, Seal(WriteInt(WriteString(WriteInt(WriteInt(Begin(SERVER_CMD_LOGIN_SUCCESS), 0), 131073), A), 80))),
  Wrap(CLIENT_PACKET, 7, Seal(WriteInt(WriteInt(WriteString(WriteShort(Begin(SERVER_CMD_ENTER_ROOM), 1), B), 81), 131074))),
  Wrap(CLIENT_PACKET, 7, Seal(WriteShort(Begin(SERVER_CMD_ENTER_ROOM), 0))),
  Wrap(CLIENT_PACKET, 7, Seal(WriteInt(WriteString(WriteInt(Begin(CMD_GET_NEW_ROOM), 131075), B), 82))),
  Wrap(CLIENT_PACKET, 8, Seal(Begin(4))), Wrap(CLIENT_CLOSE_PACKET, 7, Seal(Begin(4))),
  End(WriteInt(WriteInt(WriteInt(Begin(CLIENT_PACKET), 7), 1), 10241)).buf,
  Wrap(CLIENT_PACKET, 7, Seal(WriteShort(WriteShort(WriteShort(Begin(CMD_GET_ROOM_LEVER_NUM), 1), 1), 32700))),
  End(WriteInt(WriteInt(Begin(SERVER_CLOSE_PACKET), 7), 1)).buf }
MCFromGame == {
  Seal(Begin(SERVER_COMMAND_LOGOUT_SUCCESS)),
  Seal(WriteInt(WriteString(WriteInt(Begin(SERVER_COMMAND_CHANGE_GAMESERVER), 7), A), 83)),
  Seal(Begin(4099)) }
\* What the theorems ask of the constants holds here.
ASSUME InstanceAssumption == ClientsSend /\ ServersSend /\ MapsAddresses /\ RandsSmall

MCIpStart == (A :> <<97>>)
MCIpFile == (B :> <<98>>)
=============================================================================
