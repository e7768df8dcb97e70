-------------------------------- MODULE Wire --------------------------------
(***************************************************************************)
(* What a client's bytes become.  They arrive in pieces of any size; the   *)
(* proxy cuts them into packets, answers some of them itself and passes    *)
(* the others on: wrapped to an alloc server, bare to the game server of   *)
(* the client's table.  One connection is modelled, and of the streams to  *)
(* the servers and back to the client all that was ever put on them.       *)
(*                                                                         *)
(* Sending on a stream succeeds here (modules ClientIO and Upstream have   *)
(* its failures), but the alloc server chosen may be out of reach.  Which  *)
(* one is chosen is in module Routing, who is kicked in module Hall.       *)
(***************************************************************************)
EXTENDS Packets, SequencesExt

CONSTANTS
  MaxPacket,  \* 8*1000, the longest packet taken from a client
  Script,     \* what a client may send: sequences of packets
  Piece,      \* bound: how many bytes recv() may return
  Cmd,        \* m_cmdlist
  WhiteCmd,   \* m_whitelist: commands that need a table
  Level,      \* keys of m_levelmap with a server
  Svid,       \* keys of m_helpermap
  FromAlloc,  \* what an alloc server may send: wrapped packets
  FromGame,   \* what a game server may send: bare packets
  MaxFrom,    \* bound: packets of servers
  IpStart,    \* m_ipmap as it was loaded at the start
  IpFile,     \* and what the file says of it now
  Rand,       \* pairs of what GetRand() may return, used in turn for the levels of a request
  Self,       \* TGlobal::_svid
  Ip,         \* the client's address, get_ip() as an int
  Key         \* the word a query for the number of users must give

Int32 == {n \in Int : (-128) * (256 * 256 * 256) <= n /\ n <= 127 * (256 * 256 * 256) + 256 * 256 * 256 - 1}

\* 8*1000 and 8192; a wrapping takes 27 bytes, and lengths are read as signed 16 bits.
ASSUME LimitsAssumption ==
  /\ MaxPacket \in Nat /\ MaxPacket + 27 <= PACKET_BUFFER_SIZE /\ PACKET_BUFFER_SIZE <= 32768
  /\ Ip \in Int32 /\ Self \in Int32
  /\ Piece \subseteq Nat

CLIENT_PACKET == 1
CLIENT_CLOSE_PACKET == 2
SERVER_CLOSE_PACKET == 3
CLIENT_PACKET2 == 4
SYS_OPEN_DEBUG == 13
SYS_RELOAD_IP_MAP == 17
SYS_RESET_CONNECT_TIMER == 18
CLIENT_CMD_CLIENT_LOGIN == 257
CMD_GET_NEW_ROOM == 279
CLIENT_CMD_REQUEST_LIST_ROOM == 285
CLIENT_CMD_ENTER_ROOM == 293
SERVER_CMD_LOGIN_SUCCESS == 513
SERVER_CMD_ENTER_ROOM == 530
SERVER_CMD_SET_IP == 769
CMD_GET_ROOM_LEVER_NUM == 785
CMD_REQUIRE_IP_PORT == 1540
CMD_SEPARATE == 2048
CLIENT_COMMAND_LOGIN == 4097
CLIENT_COMMAND_BREAK_TIME == 4118
SERVER_COMMAND_LOGOUT_SUCCESS == 8211
SERVER_COMMAND_BREAK_TIME == 8215
SERVER_GET_PLAYER_COUNT == 12312
SERVER_BROADCAST_INFO == 28752
SERVER_BROADCAST_INFO_NEW == 28756
CLINET_REQUEST_BROADCAST_INFO == 28757
SERVER_COMMAND_CHANGE_GAMESERVER == 29203
ADMIN_FLAG == <<33, 64>>  \* "!@#$%^&*()", abbreviated
NoAddr == <<48>>          \* "0.0.0.0", abbreviated

VARIABLES
  sent,      \* the packets the client sends, as they are on the wire
  coming,    \* their bytes not yet received
  session,   \* what the proxy keeps for and of the connection
  served,    \* how many packets servers have sent
  reachable  \* whether the alloc server can be connected to

vars == <<sent, coming, session, served, reachable>>

\* The parts of CClientUnit, its game unit and the globals that requests touch.
Session0 ==
  [r |-> <<>>, skipped |-> 0,                \* _r, and how many bytes were taken from it
   uid |-> 0, api |-> 0,
   tid |-> 0, addr |-> NoAddr, port |-> 0,   \* of its game unit
   count |-> <<>>, ipmap |-> IpStart,        \* m_LevelCountMap, m_ipmap
   users |-> {},                             \* keys of m_objmap
   timer |-> 500, debug |-> 0,               \* _timerConnect, _debugLogSwitch
   toAlloc |-> <<>>, toGame |-> <<>>, toClient |-> <<>>,  \* the packets sent
   policy |-> FALSE,                         \* whether the client was sent the policy
   stage |-> "open"]

Init ==
  /\ sent \in Script
  /\ coming = FlattenSeq(sent)
  /\ session = Session0
  /\ served = 0
  /\ reachable \in BOOLEAN

-----------------------------------------------------------------------------
(* The handlers, from session to session.  One that returns less than 0      *)
(* leaves the stage "fatal".                                                 *)

Fatal(s) == [s EXCEPT !.stage = "fatal"]
Reply(s, p) == [s EXCEPT !.toClient = Append(@, p.buf)]

\* append_pkg and send_to_logic on an alloc link; without a connection the link is
\* reset and what was appended is gone.
ToAlloc(s, cmd, bytes) ==
  LET head == WriteInt(WriteInt(WriteInt(Begin(CLIENT_PACKET2), s.uid), Self), Ip)
      p == End(WriteBinary(WriteShort(head, s.api), bytes))
  IN IF reachable THEN [s EXCEPT !.toAlloc = Append(@, p.buf)]
     ELSE IF cmd = CLIENT_CMD_REQUEST_LIST_ROOM THEN s
     ELSE Fatal(s)

\* CLIENT_COMMAND_BREAK_TIME: the one reply that is not encrypted.
BreakTime(s) == Reply(s, End(Begin(SERVER_COMMAND_BREAK_TIME)))

ProcGetUserCount(s, req) ==
  IF ReadString(Decrypt(req)).val # Key THEN Fatal(s)
  ELSE LET p == WriteInt(Begin(SERVER_GET_PLAYER_COUNT), Cardinality(s.users))
       IN Reply(s, Encrypt(End(WriteInt(p, Self))))

\* A slip: the number shown for a level without a cap.
ShownUncapped(s, level, rnd) == rnd + IF level \in DOMAIN s.count THEN s.count[level] ELSE 0

\* The number shown for a level: what alloc servers reported, capped, and a random
\* number of users more.
Shown(s, level, rnd) ==
  rnd + IF level \notin DOMAIN s.count THEN 0
        ELSE IF s.count[level] > 32000 THEN 32000 ELSE s.count[level]

\* SERVER_BROADCAST_INFO and CLINET_REQUEST_BROADCAST_INFO, as far as this
\* connection is among those that hear it; the others are in module ClientIO.
Broadcast(s, req, cmd) ==
  LET key == ReadString(Decrypt(req))
      type == ReadShort(key.p)
      p == IF cmd = SERVER_BROADCAST_INFO
           THEN WriteString(WriteShort(Begin(SERVER_BROADCAST_INFO_NEW), type.val), ReadString(type.p).val)
           ELSE WriteString(Begin(CLINET_REQUEST_BROADCAST_INFO), key.val)
  IN IF cmd = SERVER_BROADCAST_INFO /\ key.val # Key THEN Fatal(s)
     ELSE IF s.users = {} THEN s
     ELSE Reply(s, Encrypt(End(p)))

ProcessGetLevelCount(s, req, rnd) ==
  LET n == ReadShort(Decrypt(req))
      Answer[i \in 0..IF n.val > 0 THEN n.val ELSE 0] ==
        IF i = 0 THEN [in |-> n.p, out |-> WriteShort(Begin(CMD_GET_ROOM_LEVER_NUM), n.val), asked |-> {}]
        ELSE LET a == Answer[i-1]
                 level == ReadShort(a.in)
             IN [in |-> level.p, asked |-> a.asked \cup {level.val},
                 out |-> WriteShort(WriteShort(a.out, level.val), Shown(s, level.val, rnd[1 + (i % 2)]))]
      all == Answer[IF n.val > 0 THEN n.val ELSE 0]
      capped == [l \in DOMAIN s.count |->
                   IF l \in all.asked /\ s.count[l] > 32000 THEN 32000 ELSE s.count[l]]
  IN Reply([s EXCEPT !.count = capped], Encrypt(End(all.out)))

\* A slip: the request goes on as it was decrypted.
ProcUserGetNewRoomPlain(s, req) ==
  IF s.uid <= 0 \/ s.tid > 0 THEN Fatal(s)
  ELSE ToAlloc(s, CMD_GET_NEW_ROOM, Decrypt(req).buf)

\* ProcUserGetNewRoom: a seated client is told its table again, for another the
\* request goes on, decrypted for its level and encrypted again.
ProcUserGetNewRoom(s, req) ==
  LET p == Decrypt(req)
      level == ReadShort(p).val
      again == WriteInt(WriteString(WriteInt(Begin(CMD_GET_NEW_ROOM), s.tid), s.addr), s.port)
  IN IF s.uid <= 0 THEN Fatal(s)
     ELSE IF s.tid > 0 THEN Reply(s, Encrypt(End(again)))
     ELSE IF s.tid < 0 THEN s
     ELSE IF level \notin Level THEN Fatal(s)
     ELSE ToAlloc(s, CMD_GET_NEW_ROOM, Encrypt(Copy(p.buf)).buf)

\* The map f with the entries of g written into it.
Updated(f, g) == [x \in (DOMAIN f) \cup DOMAIN g |-> IF x \in DOMAIN g THEN g[x] ELSE f[x]]

\* SYS_RELOAD_IP_MAP: what the file does not have any more stays.
ResetIpMap(s) == [s EXCEPT !.ipmap = Updated(@, IpFile)]

\* The operator's commands; the reload of the server tables is in module Routing.
Admin(s, req, cmd) ==
  LET p == IF cmd = SYS_OPEN_DEBUG THEN Decrypt(req) ELSE req
      flag == ReadString(p)
      value == ReadInt(flag.p).val
  IN IF flag.val # ADMIN_FLAG THEN Fatal(s)
     ELSE IF cmd = SYS_OPEN_DEBUG THEN [s EXCEPT !.debug = value]
     ELSE IF cmd = SYS_RESET_CONNECT_TIMER THEN [s EXCEPT !.timer = value]
     ELSE ResetIpMap(s)

\* ntohl() of an int, on a little-endian host.
Ntohl(n) == LET b == Bytes(n, 4) IN Number(<<b[4], b[3], b[2], b[1]>>)

\* CMD_SEPARATE and up: to the game server, a LOGIN with the client's address, which
\* alloc servers get as get_ip() has it and the game server in the order of the host.
SendIPSetPacket(s, req) ==
  LET tid == ReadInt(Decrypt(req))
      uid == ReadInt(tid.p).val
      p == WriteInt(WriteInt(WriteInt(Begin(SERVER_CMD_SET_IP), tid.val), uid), Ntohl(Ip))
  IN [s EXCEPT !.toGame = Append(@, Encrypt(End(p)).buf)]

GameCommand(s, req, cmd) ==
  IF s.uid <= 0 THEN Fatal(s)
  ELSE IF s.tid = 0 /\ cmd \in WhiteCmd THEN s
  ELSE LET t == [s EXCEPT !.toGame = Append(@, req.buf)]
       IN IF cmd = CLIENT_COMMAND_LOGIN THEN SendIPSetPacket(t, req) ELSE t

\* CLIENT_CMD_CLIENT_LOGIN, forwarded like the others.
Login(s, req) ==
  LET uid == ReadInt(Decrypt(req))
      t == [s EXCEPT !.uid = uid.val, !.api = ReadShort(uid.p).val, !.users = @ \cup {uid.val}]
  IN IF uid.val <= 0 \/ (s.uid > 0 /\ s.uid # uid.val) THEN Fatal(s)
     ELSE ToAlloc(t, CLIENT_CMD_CLIENT_LOGIN, req.buf)

\* The division of C: towards 0.
GetAllocFromSid(sid) == IF sid < 0 THEN -((-sid) \div 200) ELSE sid \div 200

\* The other commands of the list, from clients that have logged in; those for a
\* room name a level, CMD_REQUIRE_IP_PORT the number of a game server.
Pass(s, req, cmd) ==
  LET p == Decrypt(req) IN
  IF s.uid <= 0 THEN Fatal(s)
  ELSE IF cmd \in {CLIENT_CMD_REQUEST_LIST_ROOM, CLIENT_CMD_ENTER_ROOM} /\ ReadInt(p).val \notin Level
  THEN Fatal(s)
  ELSE IF cmd = CMD_REQUIRE_IP_PORT /\ GetAllocFromSid(ReadShort(p).val) \notin Svid
  THEN Fatal(s)
  ELSE ToAlloc(s, cmd, req.buf)

HallCommand(s, req, cmd, rnd) ==
  CASE cmd = CMD_GET_NEW_ROOM -> ProcUserGetNewRoom(s, req)
    [] cmd = CMD_GET_ROOM_LEVER_NUM -> ProcessGetLevelCount(s, req, rnd)
    [] cmd = CLIENT_CMD_CLIENT_LOGIN -> Login(s, req)
    [] OTHER -> Pass(s, req, cmd)

HandleInputBuf(s, pkg, rnd) ==
  LET req == Copy(pkg)
      cmd == GetCmdType(req)
  IN IF cmd = CLIENT_COMMAND_BREAK_TIME THEN BreakTime(s)
     ELSE IF cmd = SERVER_GET_PLAYER_COUNT THEN ProcGetUserCount(s, req)
     ELSE IF cmd \in {SERVER_BROADCAST_INFO, CLINET_REQUEST_BROADCAST_INFO} THEN Broadcast(s, req, cmd)
     ELSE IF cmd > CMD_SEPARATE THEN GameCommand(s, req, cmd)
     ELSE IF cmd \in {SYS_OPEN_DEBUG, SYS_RELOAD_IP_MAP, SYS_RESET_CONNECT_TIMER} THEN Admin(s, req, cmd)
     ELSE IF cmd \in Cmd THEN HallCommand(s, req, cmd, rnd)
     ELSE s

-----------------------------------------------------------------------------
(* Cutting the bytes into packets. *)

\* HandleInput: 0 to wait for more, -1 for no packet, or the length of the packet.
Pkglen(r) == 2 + Number(<<0, 0>> \o Slice(r, 0, 2))
BeginsBY(r) == Slice(r, 2, 2) = <<66, 89>>
HandleInput(r) ==
  IF Len(r) < PACKET_HEADER_SIZE THEN 0
  ELSE IF ~ BeginsBY(r) \/ Pkglen(r) > MaxPacket THEN -1
  ELSE IF Len(r) < Pkglen(r) THEN 0
  ELSE Pkglen(r)

\* A round of the loop of proc_pkg, which ends it without a whole packet or when a
\* handler fails.  A packet is skipped only after it was handled.
Round(s, rnd) ==
  LET n == HandleInput(s.r)
      t == HandleInputBuf(s, Slice(s.r, 0, n), rnd)
  IN IF s.stage = "fatal" \/ s.r = <<>> \/ n = 0 THEN s
     ELSE IF n < 0 THEN Fatal(s)
     ELSE IF t.stage = "fatal" THEN t
     ELSE [t EXCEPT !.r = Slice(@, n, Len(@) - n), !.skipped = @ + n]

\* The loop: there are not more rounds than bytes.
Drained(s, rnd) ==
  LET After[k \in 0..Len(s.r)] == IF k = 0 THEN s ELSE Round(After[k-1], rnd)
  IN After[Len(s.r)]

\* The request of a Flash player for its policy file is no packet; it is known by
\* its length and first bytes, so only if it arrives in one piece.
PolicyRequest == <<60, 112>> \o [i \in 1..21 |-> 120]
IsPolicy(piece) == Len(piece) = 23 /\ SubSeq(piece, 1, 2) = <<60, 112>>
Policy(s, piece) == Fatal([s EXCEPT !.policy = @ \/ piece = PolicyRequest])

\* proc_pkg after recv() returned n bytes.
Receive(n, rnd) ==
  LET piece == SubSeq(coming, 1, n) IN
  /\ session.stage = "open"
  /\ n <= Len(coming)
  /\ session' = IF IsPolicy(piece) THEN Policy(session, piece)
                ELSE Drained([session EXCEPT !.r = @ \o piece], rnd)
  /\ coming' = SubSeq(coming, n + 1, Len(coming))
  /\ UNCHANGED <<sent, served, reachable>>

-----------------------------------------------------------------------------
(* What servers send, a whole packet at a time; module Upstream has the pieces. *)

\* CHelperUnit::IpMap: "" for an address that is not in the map.
IpMap(s, ip) == IF ip \in DOMAIN s.ipmap THEN s.ipmap[ip] ELSE <<>>

\* CHelperUnit::ProcessGetLevelCount
LevelReport(s, p) ==
  LET n == ReadShort(Decrypt(p))
      Read[i \in 0..IF n.val > 0 THEN n.val ELSE 0] ==
        IF i = 0 THEN [in |-> n.p, count |-> s.count]
        ELSE LET level == ReadShort(Read[i-1].in)
                 users == ReadShort(level.p)
             IN [in |-> users.p, count |-> Updated(Read[i-1].count, [l \in {level.val} |-> users.val])]
  IN [s EXCEPT !.count = Read[IF n.val > 0 THEN n.val ELSE 0].count]

Seated(s, tid, ip, port) == [s EXCEPT !.tid = tid, !.addr = IpMap(s, ip), !.port = port]

\* ProcessUserLoginSuccess: behind a list of levels the table of a user who was at
\* one when the connection broke, or 0.
BehindLevels(p) ==
  LET n == ReadInt(p)
      Read[i \in 0..IF n.val > 0 THEN n.val ELSE 0] == IF i = 0 THEN n.p ELSE ReadInt(Read[i-1]).p
  IN Read[IF n.val > 0 THEN n.val ELSE 0]
LoginSuccess(s, p) ==
  LET tid == ReadInt(BehindLevels(Decrypt(p)))
      ip == ReadString(tid.p)
  IN IF tid.val > 0 THEN Seated(s, tid.val, ip.val, ReadInt(ip.p).val) ELSE s

\* A slip: the table is taken from a reply that gives none.
EnterRoomAnyhow(s, p) ==
  LET res == ReadShort(Decrypt(p))
      ip == ReadString(res.p)
      port == ReadInt(ip.p)
  IN Seated(s, ReadInt(port.p).val, ip.val, port.val)

\* ProcessEnterRoom and ProcessGetNewRoom; that they drop the link to another game
\* server first is in module Hall.
EnterRoom(s, p) ==
  LET res == ReadShort(Decrypt(p))
      ip == ReadString(res.p)
      port == ReadInt(ip.p)
  IN IF res.val # 0 THEN Seated(s, ReadInt(port.p).val, ip.val, port.val) ELSE s

NewRoom(s, p) ==
  LET tid == ReadInt(Decrypt(p))
      ip == ReadString(tid.p)
  IN Seated(s, tid.val, ip.val, ReadInt(ip.p).val)

\* CHelperUnit::SendClientClose for a user the proxy does not have.
SendClientClose(s, uid) ==
  IF reachable
  THEN [s EXCEPT !.toAlloc = Append(@, End(WriteInt(WriteInt(Begin(CLIENT_CLOSE_PACKET), uid), Self)).buf)]
  ELSE s

\* The packet an alloc server wraps, behind the user and its svid; ok is whether its
\* length can be right.  It is read into szTemp, of 10240 bytes.
Enclosed(w) == ReadBinary(ReadInt(ReadInt(Copy(w)).p).p, 10240)

\* CLIENT_PACKET: the client gets the packet inside as it is.
ClientPacket(s, uid, inner) ==
  LET p == Copy(inner)
      cmd == GetCmdType(p)
      t == CASE cmd = SERVER_CMD_LOGIN_SUCCESS -> LoginSuccess(s, p)
             [] cmd = SERVER_CMD_ENTER_ROOM -> EnterRoom(s, p)
             [] cmd = CMD_GET_NEW_ROOM -> NewRoom(s, p)
             [] OTHER -> s
  IN IF cmd = CMD_GET_ROOM_LEVER_NUM THEN LevelReport(s, p)
     ELSE IF uid \notin s.users THEN SendClientClose(s, uid)
     ELSE [t EXCEPT !.toClient = Append(@, inner)]

\* CHelperUnit::process_pkg: other commands are skipped; without a packet inside the
\* link is reset, which the session does not notice.
AllocPacket(s, w) ==
  LET cmd == GetCmdType(Copy(w))
      uid == ReadInt(Copy(w)).val
      inner == Enclosed(w)
  IN IF cmd = CLIENT_PACKET /\ inner.ok THEN ClientPacket(s, uid, inner.val)
     ELSE IF cmd = SERVER_CLOSE_PACKET /\ uid \in s.users THEN Fatal(s)
     ELSE s

\* CGameUnit::process_pkg: after the client has it, the end of a seat or a new
\* game server is noted, the latter's address not looked up in the map.
GamePacket(s, w) ==
  LET p == Decrypt(Copy(w))
      uid == ReadInt(p)
      ip == ReadString(uid.p)
      t == [s EXCEPT !.toClient = Append(@, w)]
      left == [t EXCEPT !.tid = 0, !.addr = NoAddr, !.port = 0]
  IN CASE GetCmdType(p) = SERVER_COMMAND_LOGOUT_SUCCESS -> left
       [] GetCmdType(p) = SERVER_COMMAND_CHANGE_GAMESERVER ->
            [left EXCEPT !.addr = ip.val, !.port = ReadInt(ip.p).val]
       [] OTHER -> t

ServerSends(s) ==
  /\ session.stage = "open"
  /\ served < MaxFrom
  /\ served' = served + 1
  /\ session' = s
  /\ UNCHANGED <<sent, coming, reachable>>

AllocSends(w) == reachable /\ ServerSends(AllocPacket(session, w))

\* Game servers send to a client that is seated, or was when they were connected.
GameSends(w) == session.uid > 0 /\ session.addr # NoAddr /\ ServerSends(GamePacket(session, w))

Next ==
  \/ \E n \in Piece \cup {Len(coming)}, rnd \in Rand : n > 0 /\ Receive(n, rnd)
  \/ \E w \in FromAlloc : AllocSends(w)
  \/ \E w \in FromGame : GameSends(w)

Spec == Init /\ [][Next]_vars

-----------------------------------------------------------------------------
(* Properties. *)

\* What an alloc server finds in a wrapped packet.
Unwrapped(bytes) ==
  LET uid == ReadInt(Copy(bytes))
      svid == ReadInt(uid.p)
      ip == ReadInt(svid.p)
      api == ReadShort(ip.p)
  IN [uid |-> uid.val, ip |-> ip.val, api |-> api.val, pkg |-> ReadBinary(api.p, MaxPacket).val]

Command(pkg) == GetCmdType(Copy(pkg))

\* The packets the client sent that have been handled.
Handled ==
  LET whole == {k \in 0..Len(sent) : Len(FlattenSeq(SubSeq(sent, 1, k))) <= session.skipped}
  IN SubSeq(sent, 1, Max(whole))

\* The packets for an alloc server and for the game server, and those of them that the
\* proxy keeps for itself or drops, depending on the client's table.
ForAlloc(pkg) ==
  /\ Command(pkg) \in Cmd \ {CMD_GET_ROOM_LEVER_NUM, SYS_OPEN_DEBUG, SYS_RELOAD_IP_MAP, SYS_RESET_CONNECT_TIMER}
  /\ Command(pkg) <= CMD_SEPARATE
ForGame(pkg) ==
  /\ Command(pkg) > CMD_SEPARATE
  /\ Command(pkg) \notin {CLIENT_COMMAND_BREAK_TIME, SERVER_GET_PLAYER_COUNT,
                          SERVER_BROADCAST_INFO, CLINET_REQUEST_BROADCAST_INFO}
DueToAlloc(handled) == {k \in DOMAIN handled : ForAlloc(handled[k])}
DueToGame(handled) == {k \in DOMAIN handled : ForGame(handled[k])}
ByTable(pkg) == Command(pkg) \in WhiteCmd \cup {CMD_GET_NEW_ROOM}

\* What a server got, some packets of its stream: each is one of the packets due, they
\* are in the client's order, and no packet is missing that no table decides about.
Conveys(got, due, handled) ==
  \E of \in [DOMAIN got -> due] :
    /\ \A i, j \in DOMAIN got : i < j => of[i] < of[j]
    /\ \A i \in DOMAIN got : got[i] = handled[of[i]]
    /\ \A k \in due : ByTable(handled[k]) \/ \E i \in DOMAIN got : of[i] = k

\* What the alloc server finds in the packets that are wrapped, and what the game
\* server gets from the client.
Inner(stream) ==
  [i \in {j \in DOMAIN stream : Command(stream[j]) = CLIENT_PACKET2} |-> Unwrapped(stream[i]).pkg]
Bare(stream) ==
  [i \in {j \in DOMAIN stream : Command(stream[j]) # SERVER_CMD_SET_IP} |-> stream[i]]

\* The user and the api of a LOGIN.
Named(pkg) == LET uid == ReadInt(Decrypt(Copy(pkg))) IN <<uid.val, ReadShort(uid.p).val>>

\* The LOGINs a server has got when it gets packet i.
LoginsTo(got, i) == {j \in DOMAIN got : j <= i /\ Command(got[j]) = CLIENT_CMD_CLIENT_LOGIN}

\* The servers get what the client sent, byte for byte and in its order, whatever
\* the pieces it arrived in and whatever was decrypted on the way; the alloc
\* server under the name of the last LOGIN; and of what arrived nothing is lost and no
\* whole packet left waiting for more (client_unit.cpp:296, :1145).
Transparent ==
  LET got == Inner(session.toAlloc)
  IN /\ IF reachable THEN Conveys(got, DueToAlloc(Handled), Handled) ELSE DOMAIN got = {}
     /\ \A i \in DOMAIN got :
          LET u == Unwrapped(session.toAlloc[i])
          IN LoginsTo(got, i) # {} /\ <<u.uid, u.api>> = Named(got[Max(LoginsTo(got, i))]) /\ u.ip = Ip
     /\ Conveys(Bare(session.toGame), DueToGame(Handled), Handled)
     /\ session.stage = "open" =>
          HandleInput(session.r) = 0 /\ FlattenSeq(Handled) \o session.r \o coming = FlattenSeq(sent)

\* A whole packet that can be decrypted; one reply is not encrypted.
Proper(pkg) ==
  /\ Len(pkg) = 2 + GetBodyLength(Copy(pkg))
  /\ Command(pkg) # SERVER_COMMAND_BREAK_TIME => Verifies(Copy(pkg))

\* The numbers of users in a packet about levels are all there and have not run over.
LevelsIn(pkg) == ReadShort(Decrypt(Copy(pkg))).val
CountsTrue(pkg) ==
  LevelsIn(pkg) >= 0 =>
    /\ Len(pkg) = 11 + 4 * LevelsIn(pkg)
    /\ \A k \in 1..LevelsIn(pkg) : Number(Slice(Decrypt(Copy(pkg)).buf, 9 + 4 * k, 2)) >= 0

\* What the client is sent are whole packets it can decrypt, and the users of a
\* level stay within the 16 bits they are sent in (client_unit.cpp:1019-1023), also
\* after the report of a server that has more; asked for more levels than a packet
\* holds, the proxy sends what fits.
RepliesTrue ==
  \A pkg \in Range(session.toClient) :
    /\ Proper(pkg)
    /\ Command(pkg) = CMD_GET_ROOM_LEVER_NUM /\ 11 + 4 * LevelsIn(pkg) <= PACKET_BUFFER_SIZE => CountsTrue(pkg)

\* What a packet says of the client's table: its number and the game server's
\* address; <<>> if it says nothing of it.
Told(pkg) ==
  LET p == Decrypt(Copy(pkg))
      cmd == GetCmdType(p)
      first == ReadInt(p)
      flag == ReadShort(p)
      ip == ReadString(flag.p)
      behind == ReadInt(BehindLevels(p))
  IN CASE cmd = SERVER_COMMAND_LOGOUT_SUCCESS -> <<0, NoAddr>>
       [] cmd = SERVER_COMMAND_CHANGE_GAMESERVER -> <<0, ReadString(first.p).val>>
       [] cmd = CMD_GET_NEW_ROOM -> <<first.val, ReadString(first.p).val>>
       [] cmd = SERVER_CMD_ENTER_ROOM /\ flag.val # 0 -> <<ReadInt(ReadInt(ip.p).p).val, ip.val>>
       [] cmd = SERVER_CMD_LOGIN_SUCCESS /\ behind.val > 0 -> <<behind.val, ReadString(behind.p).val>>
       [] OTHER -> <<>>

\* The client and the proxy agree about the client's table: it is the one of the
\* last packet about tables that the client was sent, and the address that later
\* game commands go to is the one in that packet or what the map makes of it
\* (helper_unit.cpp:307, :340; game_unit.cpp:355).
SeatAsTold ==
  LET about == {i \in DOMAIN session.toClient : Told(session.toClient[i]) # <<>>}
      last == IF about = {} THEN <<0, NoAddr>> ELSE Told(session.toClient[Max(about)])
      mapped == {m[last[2]] : m \in {f \in {IpStart, Updated(IpStart, IpFile)} : last[2] \in DOMAIN f}}
  IN /\ session.tid = last[1]
     /\ session.addr \in {last[2], <<>>} \cup mapped

-----------------------------------------------------------------------------
(* What the properties ask of the others. *)

\* The text a packet has for the proxy to read: a broadcast's key, a game server's address.
\* What is read behind a text of negative length is memory before the packet.
ReadsText(pkg) ==
  LET p == Decrypt(Copy(pkg))
  IN CASE Command(pkg) = SERVER_BROADCAST_INFO -> p
       [] Command(pkg) \in {CMD_GET_NEW_ROOM, SERVER_COMMAND_CHANGE_GAMESERVER} -> ReadInt(p).p
       [] Command(pkg) = SERVER_CMD_ENTER_ROOM -> ReadShort(p).p
       [] Command(pkg) = SERVER_CMD_LOGIN_SUCCESS -> ReadInt(BehindLevels(p)).p
       [] OTHER -> Blank
TextsForward(pkg) == ReadInt(ReadsText(pkg)).val >= -1

\* What a client sends begins like a packet only if its header tells its length, which
\* HandleInput does not ask: a header with less than its own seven bytes is none of
\* these; and a request for a table is encrypted.
ClientsSend ==
  \A script \in Script :
    /\ script \in Seq(Seq(0..255))
    /\ \A i \in DOMAIN script :
         /\ Len(script[i]) >= PACKET_HEADER_SIZE
         /\ BeginsBY(script[i]) =>
              /\ Len(script[i]) = Pkglen(script[i])
              /\ Command(script[i]) = CMD_GET_NEW_ROOM => Verifies(Copy(script[i]))
              /\ Command(script[i]) = SERVER_BROADCAST_INFO => TextsForward(script[i])

\* Servers send proper packets, reports of levels with the numbers they announce, and
\* leave what the other kind of server says of tables to it.
IsPacket(pkg) ==
  /\ pkg \in Seq(0..255) /\ Len(pkg) \in PACKET_HEADER_SIZE..PACKET_BUFFER_SIZE
  /\ Proper(pkg) /\ TextsForward(pkg)
  /\ Command(pkg) = CMD_GET_ROOM_LEVER_NUM => CountsTrue(pkg)
ServersSend ==
  /\ \A w \in FromGame :
       IsPacket(w) /\ Command(w) \notin {CMD_GET_NEW_ROOM, SERVER_CMD_ENTER_ROOM, SERVER_CMD_LOGIN_SUCCESS}
  /\ \A w \in FromAlloc :
       /\ w \in Seq(0..255) /\ Len(w) \in PACKET_HEADER_SIZE..PACKET_BUFFER_SIZE
       /\ Command(w) = CLIENT_PACKET /\ Enclosed(w).ok =>
            /\ IsPacket(Enclosed(w).val)
            /\ Command(Enclosed(w).val) \notin {SERVER_COMMAND_LOGOUT_SUCCESS, SERVER_COMMAND_CHANGE_GAMESERVER}

\* The map has addresses, text of some length.
MapsAddresses ==
  \A f \in {IpStart, IpFile} : \A ip \in DOMAIN f :
    f[ip] \in Seq(1..255) /\ Len(f[ip]) + 22 <= PACKET_BUFFER_SIZE

\* GetRand() % RANDOM_COUNT
RandsSmall == Rand \subseteq [1..2 -> 0..99]
=============================================================================
