------------------------------ MODULE Upstream ------------------------------
(***************************************************************************)
(* One link to a server: CHelperUnit, the link to an alloc server, shared  *)
(* by all sessions, or CGameUnit, the link of one session to its game      *)
(* server.  The two classes send, receive, connect and reset alike; they   *)
(* differ in what a packet may do to the link that carries it and in what  *)
(* happens when the link fails (CGameUnit completes its session).          *)
(*                                                                         *)
(* Packets go over the link as bytes, two of them here, enough to be torn  *)
(* apart.  A link object outlives its sockets: queues, counters and timer  *)
(* must not carry anything of one socket over to the next.  process_pkg    *)
(* handles a packet per step, because a packet may make it send on, and so *)
(* reset, the link whose input it is walking through.                      *)
(***************************************************************************)
EXTENDS Integers, Sequences, SequencesExt, FiniteSets

CONSTANTS
  Game,       \* TRUE: CGameUnit, FALSE: CHelperUnit
  MaxErrors,  \* sends that would block before the link is given up, 50
  MaxSend,    \* bound: packets queued on the link
  MaxServed,  \* bound: packets the server sends
  MaxConn     \* bound: sockets made

VARIABLES
  link,      \* the object, see Fresh
  queued,    \* packets given to append_pkg so far
  served,    \* packets sent by the server so far
  inbound,   \* bytes on their way from the server on the current socket
  notified,  \* idle, or the notification that runs process_pkg
  unread,    \* totalLen of process_pkg
  handled    \* history: the byte pairs process_pkg took for packets

linkVars == <<link, queued, served, inbound, notified, unread, handled>>

\* What a packet asks for; the first set is what servers of this kind send.
Kind == {"plain", "bad"} \cup IF Game THEN {"leave"} ELSE {"notice"}
AnyKind == {"plain", "bad", "leave", "notice"}
Byte == [packet : Nat, half : 1..2, kind : AnyKind, socket : Nat]
Bytes(n, k, c) ==
  <<[packet |-> n, half |-> 1, kind |-> k, socket |-> c],
    [packet |-> n, half |-> 2, kind |-> k, socket |-> c]>>

\* fd is 0 when there is no socket, else the number of the socket; open and
\* wire are history: the sockets not closed and the bytes written to each.
Fresh(made, open, wire) ==
  [fd |-> 0, stage |-> "IDLE", interest |-> {}, armed |-> FALSE, errors |-> 0,
   w |-> <<>>, r |-> <<>>, made |-> made, open |-> open, wire |-> wire]

LinkInit ==
  /\ link = Fresh(0, {}, [c \in 1..MaxConn |-> <<>>])
  /\ queued = 0
  /\ served = 0
  /\ inbound = <<>>
  /\ notified = "idle"
  /\ unread = 0
  /\ handled = <<>>

-----------------------------------------------------------------------------
(* The functions of the object. *)

ResetKeepsInput(l) ==
  [l EXCEPT !.w = <<>>, !.interest = {}, !.open = @ \ {l.fd}, !.fd = 0,
            !.stage = "IDLE"]

\* The queues are emptied, the socket is taken off the poller and closed; timer
\* and error counter stay.
reset_helper(l) ==
  [l EXCEPT !.w = <<>>, !.r = <<>>, !.interest = {}, !.open = @ \ {l.fd}, !.fd = 0,
            !.stage = "IDLE"]

\* tcp_connect makes a socket, whether or not the connection comes about.
tcp_connect(l) ==
  [l EXCEPT !.made = @ + 1, !.fd = l.made + 1, !.open = @ \cup {l.made + 1}]

DialsUnlessSent(l) == l.stage # "SEND_DONE" \/ l.fd = 0

\* There is no socket to go on with.
Dials(l) == l.stage = "IDLE" \/ l.fd = 0

connect(l) == [(IF Dials(l) THEN tcp_connect(l) ELSE l) EXCEPT !.stage = "CONNECTED"]

SendBlockedUnwatched(l) ==
  IF l.errors + 1 >= MaxErrors
  THEN [reset_helper(l) EXCEPT !.stage = "FATAL_ERROR", !.errors = MaxErrors]
  ELSE [l EXCEPT !.errors = @ + 1]


SendBlockedForgives(l) ==
  [l EXCEPT !.errors = IF @ + 1 >= MaxErrors THEN 0 ELSE @ + 1,
            !.interest = @ \cup {"OUT"}]

\* send would block: wait for EPOLLOUT, unless that happened too often in a row.
\* (The counter is a short and goes on counting; here it stops at the limit.)
SendBlocked(l) ==
  IF l.errors + 1 >= MaxErrors
  THEN [reset_helper(l) EXCEPT !.stage = "FATAL_ERROR", !.errors = MaxErrors]
  ELSE [l EXCEPT !.errors = @ + 1, !.interest = @ \cup {"OUT"}]

SendFailed(l) == [reset_helper(l) EXCEPT !.stage = "FATAL_ERROR"]

SendTookAll(l, n) ==
  [l EXCEPT !.w = <<>>, !.wire[l.fd] = @ \o SubSeq(l.w, 1, n), !.errors = 0,
            !.interest = @ \ {"OUT"}, !.stage = "SEND_DONE"]

\* send takes n bytes.
SendTook(l, n) ==
  [l EXCEPT !.w = SubSeq(@, n + 1, Len(@)),
            !.wire[l.fd] = @ \o SubSeq(l.w, 1, n),
            !.errors = 0,
            !.interest = IF n = Len(l.w) THEN @ \ {"OUT"} ELSE @ \cup {"OUT"},
            !.stage = IF n = Len(l.w) THEN "SEND_DONE" ELSE "DATA_SENDING"]

\* What send_to_cgi may make of the link.
send_to_cgi(l) ==
  IF l.w = <<>> THEN {l}
  ELSE {SendBlocked(l), SendFailed(l)} \cup {SendTook(l, n) : n \in 1..Len(l.w)}

append_pkg(l, n) == [l EXCEPT !.w = @ \o Bytes(n, "plain", 0)]


\* What send_to_logic may make of it: no connection, or what the send does.
send_to_logic(l) ==
  LET a == [l EXCEPT !.interest = @ \cup {"IN"}]
  IN (IF Dials(l) THEN {reset_helper(tcp_connect(a))} ELSE {})
     \cup send_to_cgi([connect(a) EXCEPT !.armed = TRUE])

\* CGameUnit: the session is completed and the object goes with it; the next
\* session brings a new one.
complete(l) ==
  LET d == reset_helper(l) IN IF Game THEN Fresh(d.made, d.open, d.wire) ELSE d

\* A failed call, one that left no socket, completes the session of a game link.
Settled(l) == IF Game /\ l.fd = 0 THEN complete(l) ELSE l

update_timer(l) == [l EXCEPT !.armed = TRUE]

-----------------------------------------------------------------------------
(* Calls and notifications. *)

\* The link becomes l; bytes on their way to a closed socket are lost.
Become(l) ==
  /\ link' = l
  /\ inbound' = IF l.fd = link.fd THEN inbound ELSE <<>>

\* A handler of another object queues a packet on the link and sends.
Send ==
  /\ notified = "idle" /\ queued < MaxSend /\ link.made < MaxConn
  /\ queued' = queued + 1
  /\ \E l \in send_to_logic(append_pkg(link, queued')) : Become(Settled(l))
  /\ UNCHANGED <<served, notified, unread, handled>>

\* The server sends a packet.
ServerSends ==
  /\ link.fd # 0 /\ served < MaxServed
  /\ served' = served + 1
  /\ \E k \in Kind : inbound' = inbound \o Bytes(served', k, link.fd)
  /\ UNCHANGED <<link, queued, notified, unread, handled>>

\* InputNotify with n bytes: process_pkg follows.
Recv(n) ==
  /\ notified = "idle" /\ link.fd # 0
  /\ n \in 1..Len(inbound)
  /\ link' = [update_timer(link) EXCEPT !.r = @ \o SubSeq(inbound, 1, n)]
  /\ inbound' = SubSeq(inbound, n + 1, Len(inbound))
  /\ notified' = "InputNotify"
  /\ unread' = Len(link'.r)
  /\ UNCHANGED <<queued, served, handled>>

\* InputNotify without any.
RecvNothing ==
  /\ notified = "idle" /\ link.fd # 0
  /\ Become([update_timer(link) EXCEPT !.stage = "DATA_RECVING"])
  /\ UNCHANGED <<queued, served, notified, unread, handled>>

\* InputNotify at the end of the stream or on an error.
RecvFails ==
  /\ notified = "idle" /\ link.fd # 0
  /\ Become(complete(update_timer(link)))
  /\ UNCHANGED <<queued, served, notified, unread, handled>>

OutputNotify ==
  /\ notified = "idle" /\ "OUT" \in link.interest
  /\ \E l \in send_to_cgi(update_timer(link)) : Become(Settled(l))
  /\ UNCHANGED <<queued, served, notified, unread, handled>>

\* HangupNotify runs process_pkg once more on what is there.
HangupNotify ==
  /\ notified = "idle" /\ link.fd # 0
  /\ link' = update_timer(link)
  /\ notified' = "HangupNotify"
  /\ unread' = Len(link.r)
  /\ UNCHANGED <<queued, served, inbound, handled>>

TimerNotify ==
  /\ notified = "idle" /\ link.armed
  /\ Become(complete([link EXCEPT !.armed = FALSE]))
  /\ UNCHANGED <<queued, served, notified, unread, handled>>

-----------------------------------------------------------------------------
(* process_pkg. *)

\* There is a whole packet, by the count of bytes made when the loop began.
More == notified # "idle" /\ unread >= 2

\* process_pkg returns: after input the link goes on, in whatever state it is;
\* after a hang-up it is reset.
Processed ==
  /\ notified # "idle" /\ unread < 2
  /\ Become(IF notified = "InputNotify" THEN [link EXCEPT !.stage = "RECV_DONE"]
                                  ELSE complete(link))
  /\ notified' = "idle" /\ unread' = 0
  /\ UNCHANGED <<queued, served, handled>>

\* It gives up: a packet with an impossible length, or none where the count says
\* there is one, because handling the one before reset the link.
GivesUp ==
  /\ More
  /\ \/ link.r = <<>>
     \/ link.r # <<>> /\ Head(link.r).kind = "bad"
     \/ Game /\ link.r # <<>>  \* the packet could not be passed to the client
  /\ Become(complete(link))
  /\ notified' = "idle" /\ unread' = 0
  /\ UNCHANGED <<queued, served, handled>>

Skipped(l) == [l EXCEPT !.r = SubSeq(@, 3, Len(@))]

\* A packet is handled: the link becomes l, lf bytes are left to look at.
Handles(k, l, lf) ==
  /\ More /\ link.r # <<>> /\ Head(link.r).kind = k
  /\ handled' = Append(handled, SubSeq(link.r, 1, 2))
  /\ Become(l)
  /\ unread' = lf
  /\ UNCHANGED <<served, notified>>

\* One passed on, or handled without touching the link.
Plain ==
  /\ Handles("plain", Skipped(link), unread - 2)
  /\ UNCHANGED queued

\* One for a user who is gone: a close notice goes to the server next in turn.
NoticeElsewhere ==
  /\ Handles("notice", Skipped(link), unread - 2)
  /\ UNCHANGED queued

\* That server is this one: the link sends while it is processing its input.
Notice ==
  /\ queued < MaxSend
  /\ queued' = queued + 1
  /\ \E l \in send_to_logic(append_pkg(link, queued')) :
       Handles("notice", Skipped(l), unread - 2)

\* The user leaves the room or changes the server: the link is reset, the loop left.
Leave ==
  /\ Handles("leave", reset_helper(Skipped(link)), 0)
  /\ UNCHANGED queued

-----------------------------------------------------------------------------
LinkNext ==
  \/ Send
  \/ ServerSends
  \/ \E n \in 1..Len(inbound) : Recv(n)
  \/ RecvNothing
  \/ RecvFails
  \/ OutputNotify
  \/ HangupNotify
  \/ TimerNotify
  \/ Processed
  \/ GivesUp
  \/ Plain
  \/ NoticeElsewhere
  \/ Notice
  \/ Leave

LinkSpec == LinkInit /\ [][LinkNext]_linkVars

\* process_pkg returns, and a link that waits for EPOLLOUT hears of it or of its
\* timer - the timer is renewed by input, of which there is an end here.
Processing == Processed \/ GivesUp \/ Plain \/ NoticeElsewhere \/ Notice \/ Leave
Notifying == OutputNotify \/ TimerNotify
LinkFairSpec == LinkSpec /\ WF_linkVars(Processing) /\ WF_linkVars(Notifying)

-----------------------------------------------------------------------------
(* Properties. *)

\* No socket is lost: what was opened and is not the link's socket is closed.
\* connect() relies on reset_helper for it, a stage IDLE with a socket would open
\* a second one over the first (helper_unit.cpp:113).
NoSocketLost == link.open = {link.fd} \ {0}

\* No lost wake-up and no busy loop: the link listens for EPOLLOUT exactly as long
\* as bytes wait to be written, and always for input (helper_unit.cpp:142-204).
PendingIsWatched ==
  link.fd # 0 => /\ "IN" \in link.interest
                 /\ "OUT" \in link.interest <=> link.w # <<>>

\* Nothing of one socket waits for the next: a link that is down has no bytes in
\* either queue, half packets least of all, and asks for no events.
DownHoldsNothing ==
  link.fd = 0 => link.w = <<>> /\ link.r = <<>> /\ link.interest = {}

WholeSeq(s) ==
  /\ Len(s) % 2 = 0
  /\ \A i \in 1..Len(s) : s[i].half = IF i % 2 = 1 THEN 1 ELSE 2
  /\ \A i \in 1..Len(s)-1 : s[i].packet + (IF i % 2 = 1 THEN 0 ELSE 1) = s[i+1].packet

\* What the server reads on a socket, with what waits to follow, is a run of whole
\* packets in the order they were queued: none is torn, repeated or passed by a
\* later one, and after a reconnection none is finished on the new socket.
StreamsWhole ==
  /\ link.fd # 0 => WholeSeq(link.wire[link.fd] \o link.w)
  /\ \A c, d \in 1..MaxConn : c < d /\ link.wire[c] # <<>> /\ link.wire[d] # <<>>
       => Last(link.wire[c]).packet < Head(link.wire[d]).packet

\* What process_pkg takes for a packet is one the server sent, on one socket, even
\* when handling the one before has reset or reconnected the link.
HandledWhole ==
  \A i \in 1..Len(handled) :
    \E n \in 1..served, k \in AnyKind, c \in 1..MaxConn : handled[i] = Bytes(n, k, c)

\* No link keeps bytes, interest in events or the descriptor of a socket it has given
\* up (helper_unit.cpp:54-76, :113).  The count of blocked sends and the armed timer
\* are the link's own: reset_helper leaves them, and the next socket inherits them.
NothingKept == NoSocketLost /\ DownHoldsNothing

\* Packets are whole in both directions (helper_unit.cpp:54-76, game_unit.cpp:237-262).
PacketsWhole == StreamsWhole /\ HandledWhole

\* Packets leave the queue by being written, all bytes of them that went before
\* and in order, or with the socket.
LostOnlyWithSocket ==
  [][link'.fd = link.fd /\ link.fd # 0 =>
       LET before == link.wire[link.fd] \o link.w
           after == link'.wire[link.fd] \o link'.w
       IN IsPrefix(before, after)]_linkVars

\* Bytes that wait are written or dropped: no link waits for ever.
PendingSettles == (link.w # <<>>) ~> (link.w = <<>>)
=============================================================================
