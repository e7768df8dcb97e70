-------------------------------- MODULE Hall --------------------------------
(***************************************************************************)
(* The session core of the hall proxy: client connections, the registry    *)
(* that maps a user to the connection the user is logged in on, and each   *)
(* connection's private link to a game server.                             *)
(*                                                                         *)
(* The proxy is one thread around epoll, so every handler runs to the end  *)
(* before the next one starts: an action below is one whole handler, with  *)
(* the calls it makes.  What interleaves is the ORDER of handlers: clients,*)
(* game servers, allocation servers and timers each drive their own, and   *)
(* all of them read and change the same registry.                          *)
(*                                                                         *)
(* A connection is a CDecoderUnit together with the CClientUnit and the    *)
(* CGameUnit it owns; the three are created and deleted together.  A read  *)
(* carries one packet here.  Which allocation server a packet goes to is   *)
(* left out (module Routing), and with it two cases: with an empty list of *)
(* servers a LOGIN is registered and announced to none, and a leave notice *)
(* whose server (the one of the table, svid) is not in m_helpermap is only *)
(* logged (decode_unit.cpp:244-247).  The latter counts here as a notice   *)
(* that is made and that no link takes (ok = FALSE in Complete).           *)
(***************************************************************************)
EXTENDS Naturals, Sequences

CONSTANTS
  Conn,        \* client connections (CDecoderUnit objects)
  Uid,         \* user identifiers, all > 0 in the code
  Game,        \* game servers: the upper half of a table id, and an address
  None         \* no user, no connection, no table, no address (0 / NULL / -1)

ASSUME NoneAssumption == None \notin Conn \cup Uid \cup Game

VARIABLES
  live,      \* connections whose objects exist
  flag,      \* _flag of the decoder (and _uid of its client unit)
  conn_type, \* _conn_type
  objmap,    \* m_objmap: user -> connection
  failed,    \* connections whose client unit is in stage CONN_FATAL_ERROR
  deaf,      \* connections whose client socket has EPOLLIN switched off
  tid,       \* game server of the table the user sits at (CGameUnit::tid >> 16)
  addr,      \* address the game unit will connect to
  link,      \* server its socket is connected to; None: no socket
  gtimer,    \* connections whose game unit sits in a timer list
  moved,     \* history: connected sessions that the answer to a later LOGIN
             \* put at a table of another server
  lastMsg,   \* last presence packet about a user an allocation link accepted
  sent,      \* presence packets about users the last handler made for an
             \* allocation link, taken by it or not
  othered    \* connections the last handler made CONN_OTHER and then completed

session == <<live, flag, conn_type, objmap>>
client  == <<failed, deaf>>
game    == <<tid, addr, link, gtimer, moved>>
vars    == <<live, flag, conn_type, objmap, failed, deaf, tid, addr, link,
             gtimer, moved, lastMsg, sent, othered>>

Packets == [kind : {"login", "close"}, uid : Uid]

Init ==
  /\ live = {}
  /\ flag = [c \in Conn |-> None]
  /\ conn_type = [c \in Conn |-> "OTHER"]
  /\ objmap = [u \in Uid |-> None]
  /\ failed = {}
  /\ deaf = {}
  /\ tid = [c \in Conn |-> None]
  /\ addr = [c \in Conn |-> None]
  /\ link = [c \in Conn |-> None]
  /\ gtimer = {}
  /\ moved = {}
  /\ lastMsg = [u \in Uid |-> "none"]
  /\ sent = <<>>
  /\ othered = {}

-----------------------------------------------------------------------------
(* What a handler is built from. *)

\* f with every connection of D back at v.
Cleared(f, D, v) == [c \in Conn |-> IF c \in D THEN v ELSE f[c]]

\* The destructor of a decoder erases the registry entry of ITS user.
ErasedNothing(D) == objmap
Erased(D) ==
  [u \in Uid |-> IF \E d \in D : flag[d] = u THEN None ELSE objmap[u]]

\* As Deleted below, with a timer node that outlives its game unit.
DeletedTimerLeft(D) ==
  /\ live' = live \ D
  /\ failed' = failed \ D
  /\ deaf' = deaf \ D
  /\ tid' = Cleared(tid, D, None)
  /\ addr' = Cleared(addr, D, None)
  /\ link' = Cleared(link, D, None)
  /\ moved' = moved \ D
  /\ UNCHANGED gtimer

\* Deleting the connections D deletes their client and game units.
Deleted(D) ==
  /\ live' = live \ D
  /\ failed' = failed \ D
  /\ deaf' = deaf \ D
  /\ tid' = Cleared(tid, D, None)
  /\ addr' = Cleared(addr, D, None)
  /\ link' = Cleared(link, D, None)
  /\ gtimer' = gtimer \ D
  /\ moved' = moved \ D

\* complete() reports the user of a CONN_CLINET connection and of no other.
NoticeFor(type, u) ==
  IF type = "CLINET" THEN <<[kind |-> "close", uid |-> u]>> ELSE <<>>

\* The packet p is appended to an allocation link; ok: the link took it.
Offered(p, ok) ==
  lastMsg' = IF ok THEN [lastMsg EXCEPT ![p.uid] = p.kind] ELSE lastMsg

Quiet == sent' = <<>> /\ othered' = {} /\ UNCHANGED lastMsg

\* CListener::complete: report the user if there is one, delete the connection.
CompleteUnreported(c, ok) ==
  /\ c \in live
  /\ Deleted({c})
  /\ objmap' = Erased({c})
  /\ flag' = Cleared(flag, {c}, None)
  /\ conn_type' = Cleared(conn_type, {c}, "OTHER")
  /\ Quiet

Complete(c, ok) ==
  /\ c \in live
  /\ Deleted({c})
  /\ objmap' = Erased({c})
  /\ flag' = Cleared(flag, {c}, None)
  /\ conn_type' = Cleared(conn_type, {c}, "OTHER")
  /\ sent' = NoticeFor(conn_type[c], flag[c])
  /\ IF sent' = <<>> THEN UNCHANGED lastMsg ELSE Offered(sent'[1], ok)
  /\ othered' = {}

\* The same after set_conn_type(CONN_OTHER): nobody is told.
CompleteSilently(c) ==
  /\ c \in live
  /\ Deleted({c})
  /\ objmap' = Erased({c})
  /\ flag' = Cleared(flag, {c}, None)
  /\ conn_type' = Cleared(conn_type, {c}, "OTHER")
  /\ sent' = <<>>
  /\ othered' = {c}
  /\ UNCHANGED lastMsg

\* InputNotify needs EPOLLIN: a client whose input is off is not read.
Reads(c) == c \in live \ deaf

\* HandleInputBuf returned >= 0: recv() overwrites _stage.
Handled(c) == failed' = failed \ {c} /\ UNCHANGED deaf

-----------------------------------------------------------------------------
(* Connections come and go. *)

Accept(c) ==
  /\ c \notin live
  /\ live' = live \cup {c}
  /\ UNCHANGED <<flag, conn_type, objmap, client, game>>
  /\ Quiet

\* recv() fails, returns 0, or the packet is refused: web_input completes.
ClientGone(c, ok) == Reads(c) /\ Complete(c, ok)

ClientHangup(c, ok) == Complete(c, ok)

ClientTimerIgnored(c, ok) == c \in live /\ UNCHANGED vars
ClientTimer(c, ok) == Complete(c, ok)

\* send() from OutputNotify fails, or had nothing to send.
ClientSendFails(c, ok) == c \notin failed /\ Complete(c, ok)

\* A policy request is answered and the connection closed as CONN_OTHER.
PolicyRequest(c) == Reads(c) /\ CompleteSilently(c)

-----------------------------------------------------------------------------
(* Packets from a client. *)

KickedTypeForgotten == "CLINET"
KickedType == "OTHER"

\* The connection that LOGIN of u on c throws out.
Kicked(c, u) == {objmap[u]} \ {None, c}

\* What throwing it out reports.
KickNotice(c, u) == IF Kicked(c, u) = {} THEN <<>> ELSE NoticeFor(KickedType, u)

\* LOGIN of u accepted and handed to an allocation server.
LoginAccepted(c, u) ==
  /\ Reads(c)
  /\ flag[c] \in {None, u}
  /\ LET K == Kicked(c, u) IN
       /\ Deleted(K)
       /\ objmap' = [Erased(K) EXCEPT ![u] = c]
       /\ flag' = [Cleared(flag, K, None) EXCEPT ![c] = u]
       /\ conn_type' = [Cleared(conn_type, K, "OTHER") EXCEPT ![c] = "CLINET"]
  /\ sent' = KickNotice(c, u) \o <<[kind |-> "login", uid |-> u]>>
  /\ lastMsg' = [lastMsg EXCEPT ![u] = "login"]
  /\ othered' = Kicked(c, u)

\* LOGIN of u on a connection that is logged in as somebody else is refused -
\* after the other connection of u has been thrown out - and c is completed.
LoginRefused(c, u, ok) ==
  /\ Reads(c)
  /\ flag[c] \notin {None, u}
  /\ LET D == Kicked(c, u) \cup {c} IN
       /\ Deleted(D)
       /\ objmap' = Erased(D)
       /\ flag' = Cleared(flag, D, None)
       /\ conn_type' = Cleared(conn_type, D, "OTHER")
  /\ sent' = KickNotice(c, u) \o NoticeFor(conn_type[c], flag[c])
  /\ Offered([kind |-> "close", uid |-> flag[c]], ok)
  /\ othered' = Kicked(c, u)

\* LOGIN of u registered, but no allocation server takes it: c is completed
\* and u, now registered on c, is reported.
LoginNotForwarded(c, u, ok) ==
  /\ Reads(c)
  /\ flag[c] \in {None, u}
  /\ LET D == Kicked(c, u) \cup {c} IN
       /\ Deleted(D)
       /\ objmap' = [Erased(D) EXCEPT ![u] = None]
       /\ flag' = Cleared(flag, D, None)
       /\ conn_type' = Cleared(conn_type, D, "OTHER")
  /\ sent' = KickNotice(c, u) \o NoticeFor("CLINET", u)
  /\ Offered([kind |-> "close", uid |-> u], ok)
  /\ othered' = Kicked(c, u)

\* A packet that only answers the client or is forwarded to an allocation
\* server, and succeeds.
ClientServed(c) ==
  /\ Reads(c)
  /\ Handled(c)
  /\ UNCHANGED <<session, game>>
  /\ Quiet

\* A broadcast is sent to every registered client that is not failed; F are
\* those whose send() fails.  The sender itself may be one of them: then its
\* input is off, but recv() overwrites the failed stage.
Broadcast(c, F) ==
  /\ Reads(c)
  /\ F \subseteq {objmap[u] : u \in Uid} \ (failed \cup {None})
  /\ failed' = (failed \cup F) \ {c}
  /\ deaf' = deaf \cup F
  /\ UNCHANGED <<session, game>>
  /\ Quiet

\* The game unit sends without arming its timer.
GameCommandUntimed(c) ==
  /\ Reads(c)
  /\ flag[c] # None
  /\ link[c] = None => addr[c] # None
  /\ link' = [link EXCEPT ![c] = IF @ = None THEN addr[c] ELSE @]
  /\ Handled(c)
  /\ UNCHANGED <<session, tid, addr, gtimer, moved>>
  /\ Quiet

\* A game command of a logged-in user: connect to addr if there is no socket,
\* arm the timer, send.  (A white-listed command without a table is dropped:
\* ClientServed.  Connect or send fails: ClientGone.)
GameCommand(c) ==
  /\ Reads(c)
  /\ flag[c] # None
  /\ link[c] = None => addr[c] # None
  /\ link' = [link EXCEPT ![c] = IF @ = None THEN addr[c] ELSE @]
  /\ gtimer' = gtimer \cup {c}
  /\ Handled(c)
  /\ UNCHANGED <<session, tid, addr, moved>>
  /\ Quiet

-----------------------------------------------------------------------------
(* Packets and events from a game server. *)

\* CGameUnit::reset_helper leaves the timer armed; a then becomes the address.
GameReset(c, a) ==
  /\ tid' = [tid EXCEPT ![c] = None]
  /\ addr' = [addr EXCEPT ![c] = a]
  /\ link' = [link EXCEPT ![c] = None]
  /\ moved' = moved \ {c}

\* The server's LOGOUT_SUCCESS (a = None) or CHANGE_GAMESERVER (a = its new
\* address) reaches the client; the game unit is reset.
GameLeft(c, a) ==
  /\ c \in live \ failed
  /\ link[c] # None
  /\ GameReset(c, a)
  /\ gtimer' = gtimer \cup {c}
  /\ UNCHANGED <<session, client>>
  /\ Quiet

\* Any other packet is forwarded to the client: only the timer is renewed.
GameForward(c) ==
  /\ c \in live \ failed
  /\ link[c] # None
  /\ gtimer' = gtimer \cup {c}
  /\ UNCHANGED <<session, client, tid, addr, link, moved>>
  /\ Quiet

\* The server closes, recv or send fails, the packet cannot be forwarded: the
\* game unit completes the whole connection.
GameGone(c, ok) == link[c] # None /\ Complete(c, ok)

\* The timer of the game unit fires - whether or not it has a socket.
GameTimer(c, ok) == c \in gtimer /\ Complete(c, ok)

-----------------------------------------------------------------------------
(* Packets from an allocation server. *)

\* LOGIN_SUCCESS with a table on g, which need not be the server connected to.
LoginSuccess(c, g) ==
  /\ tid' = [tid EXCEPT ![c] = g]
  /\ addr' = [addr EXCEPT ![c] = g]
  /\ moved' = IF link[c] \in {None, g} THEN moved \ {c} ELSE moved \cup {c}
  /\ UNCHANGED link

\* ENTER_ROOM or GET_NEW_ROOM with a table on g (None: no table).
NewTableNoReset(c, g) ==
  /\ UNCHANGED <<link, moved>>
  /\ tid' = [tid EXCEPT ![c] = g]
  /\ addr' = [addr EXCEPT ![c] = g]

NewTable(c, g) ==
  /\ link' = [link EXCEPT ![c] = IF tid[c] # g THEN None ELSE @]
  /\ moved' = IF tid[c] # g THEN moved \ {c} ELSE moved
  /\ tid' = [tid EXCEPT ![c] = g]
  /\ addr' = [addr EXCEPT ![c] = g]

\* The session update an allocation server's answer makes.
Seated(c) ==
  \/ \E g \in Game : LoginSuccess(c, g)
  \/ \E g \in Game \cup {None} : NewTable(c, g)
  \/ UNCHANGED <<tid, addr, link, moved>>

\* An answer for u is passed on to u's client; sent: send() did not fail.
AllocReply(u, delivered) ==
  /\ objmap[u] # None
  /\ LET c == objmap[u] IN
       /\ c \notin failed
       /\ Seated(c)
       /\ failed' = IF delivered THEN failed ELSE failed \cup {c}
       /\ deaf' = IF delivered THEN deaf ELSE deaf \cup {c}
  /\ UNCHANGED <<session, gtimer>>
  /\ Quiet

\* An answer for a user whose client has failed completes the connection.
AllocReplyToFailed(u, ok) ==
  /\ objmap[u] \in failed
  /\ Complete(objmap[u], ok)

\* An answer for a user who is not registered is answered with CLIENT_CLOSE.
UnknownUserUnchecked(u, ok) ==
  /\ sent' = <<[kind |-> "close", uid |-> u]>>
  /\ Offered([kind |-> "close", uid |-> u], ok)
  /\ othered' = {}
  /\ UNCHANGED <<session, client, game>>

UnknownUser(u, ok) ==
  /\ objmap[u] = None
  /\ sent' = <<[kind |-> "close", uid |-> u]>>
  /\ Offered([kind |-> "close", uid |-> u], ok)
  /\ othered' = {}
  /\ UNCHANGED <<session, client, game>>

\* SERVER_CLOSE_PACKET: the allocation server throws the user out.
ServerClose(u) == objmap[u] # None /\ CompleteSilently(objmap[u])

-----------------------------------------------------------------------------
ClientStep(c) ==
  \/ Accept(c)
  \/ PolicyRequest(c)
  \/ ClientServed(c)
  \/ GameCommand(c)
  \/ \E F \in SUBSET Conn : Broadcast(c, F)
  \/ \E u \in Uid : LoginAccepted(c, u)
  \/ \E ok \in BOOLEAN :
       \/ ClientGone(c, ok)
       \/ ClientHangup(c, ok)
       \/ ClientTimer(c, ok)
       \/ ClientSendFails(c, ok)
       \/ \E u \in Uid : LoginRefused(c, u, ok) \/ LoginNotForwarded(c, u, ok)

GameStep(c) ==
  \/ \E a \in Game \cup {None} : GameLeft(c, a)
  \/ GameForward(c)
  \/ \E ok \in BOOLEAN : GameGone(c, ok) \/ GameTimer(c, ok)

AllocStep(u) ==
  \/ ServerClose(u)
  \/ \E ok \in BOOLEAN :
       AllocReply(u, ok) \/ AllocReplyToFailed(u, ok) \/ UnknownUser(u, ok)

Next ==
  \/ \E c \in Conn : ClientStep(c) \/ GameStep(c)
  \/ \E u \in Uid : AllocStep(u)

Spec == Init /\ [][Next]_vars

\* A failed client gets no event that renews its timer (input and output are
\* off), so the timer expires: only for such a client is it assumed to.
FailedTimer(c) == c \in failed /\ \E ok \in BOOLEAN : ClientTimer(c, ok)
FairSpec == Spec /\ \A c \in Conn : WF_vars(FailedTimer(c))

-----------------------------------------------------------------------------
(* Properties. *)

\* The types of the variables; connections that do not exist have no state.
TypeOK ==
  /\ live \subseteq Conn
  /\ flag \in [Conn -> Uid \cup {None}]
  /\ conn_type \in [Conn -> {"CLINET", "OTHER"}]
  /\ objmap \in [Uid -> Conn \cup {None}]
  /\ failed \subseteq live
  /\ deaf \subseteq live
  /\ tid \in [Conn -> Game \cup {None}]
  /\ addr \in [Conn -> Game \cup {None}]
  /\ link \in [Conn -> Game \cup {None}]
  /\ gtimer \subseteq live
  /\ moved \subseteq live
  /\ lastMsg \in [Uid -> {"none", "login", "close"}]
  /\ sent \in Seq(Packets)
  /\ othered \subseteq Conn

\* The registry and the connections agree: a user's entry points at a live
\* connection that is logged in as that user, and a connection logged in as a
\* user is that user's entry.  Kicks, refused logins and destructors that erase
\* by user id could each leave a dangling or a lost entry.
RegistryConsistent ==
  /\ \A u \in Uid : objmap[u] # None => objmap[u] \in live /\ flag[objmap[u]] = u
  /\ \A c \in Conn : flag[c] # None => objmap[flag[c]] = c

\* A registered user is online for the allocation servers: the last presence
\* packet about the user that a link took is the LOGIN, whatever sessions of
\* the same user were closed, kicked or answered late before.
RegisteredIsAnnounced ==
  \A u \in Uid : objmap[u] # None => lastMsg[u] = "login"

\* A handler never tells an allocation server that a user left when, once the
\* handler is done, a session of that user is registered: a kick makes room for
\* the new session and must not report the old one.
CloseOnlyForGone ==
  \A i \in 1..Len(sent) :
    sent[i].kind = "close" => objmap[sent[i].uid] = None

\* For a registered user whose entry disappears a leave notice is made and handed
\* to the link of an allocation server (a notice whose server has no link is only
\* logged, decode_unit.cpp:246), unless the very connection that disappears was first made CONN_OTHER: it asked
\* for the policy file, an allocation server closed it, or another login of the
\* same user kicked it.  No other connection's fate excuses the silence.
LeaveIsReported ==
  [][ \A u \in Uid : objmap[u] # None /\ objmap'[u] = None =>
        \/ \E i \in 1..Len(sent') : sent'[i] = [kind |-> "close", uid |-> u]
        \/ objmap[u] \in othered'
    ]_vars

\* While a game unit is connected its timer is armed: a silent game server can
\* never hold a session for ever.
LinkedIsTimed == \A c \in Conn : link[c] # None => c \in gtimer

\* A connected game unit is connected to the server of the user's table: a
\* command can only reach another table's server if a table moved without the
\* socket being dropped (the comments at helper_unit.cpp:339 and :365).  The
\* answer to a second LOGIN does move it (run hall_retarget).
LinkMatchesTable ==
  \A c \in Conn : link[c] # None /\ tid[c] # None => link[c] = tid[c]

\* A game unit is connected to another server than the one of the user's table
\* exactly when the answer to a later LOGIN moved the table under the connection
\* (helper_unit.cpp:301-314).  No other answer, no reset, reconnection or game
\* command leaves a socket on the wrong server, and each of them that drops or
\* makes a socket puts a moved session right.
OffTableIsMoved ==
  moved = {c \in Conn : link[c] # None /\ tid[c] # None /\ link[c] # tid[c]}

\* A user who left the game room in the normal way keeps the client connection
\* (the comment at game_unit.cpp:345): the game unit's timer, which completes
\* the client connection when it expires, is armed only while there is a game
\* server connection it can be about.
LogoutKeepsClient == \A c \in gtimer : link[c] # None

\* A client whose socket failed is deleted in the end: its timer is not renewed.
FailedIsDeleted == \A c \in Conn : c \in failed ~> c \notin live
=============================================================================
