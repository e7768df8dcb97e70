------------------------------ MODULE ClientIO ------------------------------
(***************************************************************************)
(* The socket side of CClientUnit: what is sent, what epoll is asked for,  *)
(* and what a batch of epoll events does when the handlers of the batch    *)
(* act on each other's clients.  A client is written to by its own         *)
(* handlers, by its servers' handlers and by every client that broadcasts. *)
(*                                                                         *)
(* Every change of a socket's events gives it a new number (EPOLL_CTL_MOD, *)
(* module Poller), and an event with an old number is dropped; here a      *)
(* report is marked stale by such a change.  Queued output is a number of  *)
(* bytes (module RawCache has the queue).                                  *)
(***************************************************************************)
EXTENDS Integers, Sequences, FiniteSets

CONSTANTS
  Client,     \* client sockets
  MaxErrors,  \* sends that would block before a client is given up, 50
  MaxOut      \* bound: bytes queued for a client

ASSUME BoundAssumption == MaxErrors \in Nat \ {0} /\ MaxOut \in Nat

VARIABLES
  conn,   \* the clients, see Fresh
  batch,  \* ep_events: reports not dispatched yet
  stale,  \* clients whose registration changed since epoll_wait returned
  now     \* the report being dispatched: its client, what is left of it and
          \* whether InputNotify was part of it

vars == <<conn, batch, stale, now>>

Gone == [alive |-> FALSE, stage |-> "IDLE", in |-> FALSE, out |-> FALSE,
         w |-> 0, errors |-> 0, broadcast |-> FALSE]

\* A client just accepted; broadcast is history: it has sent a broadcast.
Fresh == [Gone EXCEPT !.alive = TRUE, !.in = TRUE]

Nothing == [c |-> CHOOSE c \in Client : TRUE, ev |-> {}, input |-> FALSE]

Init ==
  /\ conn = [c \in Client |-> Gone]
  /\ batch = <<>>
  /\ stale = {}
  /\ now = Nothing

-----------------------------------------------------------------------------
(* send(): from a client to the clients it may become. *)

Muted(x) == [x EXCEPT !.in = FALSE, !.out = FALSE, !.w = 0, !.stage = "FATAL_ERROR"]

SendBlockedUnwatched(x) ==
  IF x.errors + 1 >= MaxErrors
  THEN [Muted(x) EXCEPT !.errors = MaxErrors]
  ELSE [x EXCEPT !.errors = @ + 1, !.stage = "DATA_SENDING"]


\* send would block: wait for EPOLLOUT, unless that happened too often in a row.
SendBlocked(x) ==
  IF x.errors + 1 >= MaxErrors
  THEN [Muted(x) EXCEPT !.errors = MaxErrors]
  ELSE [x EXCEPT !.errors = @ + 1, !.out = TRUE, !.stage = "DATA_SENDING"]


SendFailed(x) == Muted(x)

\* The socket takes n bytes.
SendTook(x, n) ==
  [x EXCEPT !.w = @ - n, !.errors = 0, !.out = (n < x.w),
            !.stage = IF n < x.w THEN "DATA_SENDING" ELSE "SEND_DONE"]

\* There is nothing to send: that is a failure too, but input stays on.
SendEmpty(x) == [x EXCEPT !.out = FALSE, !.stage = "FATAL_ERROR"]

Sends(x) ==
  IF x.w = 0 THEN {SendEmpty(x)}
  ELSE {SendBlocked(x), SendFailed(x)} \cup {SendTook(x, n) : n \in 1..x.w}

\* add_rsp_buf, then send.
Answers(x) == UNION {Sends([x EXCEPT !.w = @ + k]) : k \in 1..(MaxOut - x.w)}

\* send() < 0
Failed(x) == x.stage = "FATAL_ERROR"

Completed(x) == IF Failed(x) THEN Gone ELSE x

-----------------------------------------------------------------------------
(* The clients become f; who is asked for other events, or gone, is stale. *)

Bumped(f) == {c \in Client : \/ f[c].alive # conn[c].alive
                             \/ f[c].in # conn[c].in \/ f[c].out # conn[c].out}

Become(f) == conn' = f /\ stale' = stale \cup Bumped(f)

Become1(c, x) == Become([conn EXCEPT ![c] = x])

Idle == now.ev = {}

-----------------------------------------------------------------------------
(* Handlers of other objects. *)

\* The listener accepts a connection.
Accept(c) ==
  /\ Idle /\ ~ conn[c].alive
  /\ Become1(c, Fresh)
  /\ UNCHANGED <<batch, now>>

\* A packet of the game server is passed on to the client; if that fails the client
\* is deleted.
Forward(c) ==
  /\ Idle /\ conn[c].alive
  /\ IF Failed(conn[c]) THEN Become1(c, Gone)
     ELSE \E x \in Answers(conn[c]) : Become1(c, Completed(x))
  /\ UNCHANGED <<batch, now>>

\* An alloc server's packet is passed on: a client that failed before is deleted, one
\* that fails now is not.
ForwardAnswer(c) ==
  /\ Idle /\ conn[c].alive
  /\ IF Failed(conn[c]) THEN Become1(c, Gone)
     ELSE \E x \in Answers(conn[c]) : Become1(c, x)
  /\ UNCHANGED <<batch, now>>

\* The client is deleted: its timer expires, the user logs in elsewhere, the alloc
\* server closes it.
Delete(c) ==
  /\ Idle /\ conn[c].alive
  /\ Become1(c, Gone)
  /\ UNCHANGED <<batch, now>>

-----------------------------------------------------------------------------
(* The event loop. *)

\* What epoll may report of c: what it asked for, and hang-ups.
Reportable(c) ==
  {ev \in SUBSET {"IN", "OUT", "HUP"} :
     ev # {} /\ ("IN" \in ev => conn[c].in) /\ ("OUT" \in ev => conn[c].out)}

\* epoll_wait returns; a pass may report all clients, in any order.
Wait ==
  /\ Idle /\ batch = <<>>
  /\ \E k \in 0..Cardinality(Client) : \E s \in [1..k -> Client] :
       /\ \A i, j \in 1..k : s[i] = s[j] => i = j
       /\ \A i \in 1..k : conn[s[i]].alive
       /\ \E e \in [1..k -> SUBSET {"IN", "OUT", "HUP"}] :
            /\ \A i \in 1..k : e[i] \in Reportable(s[i])
            /\ batch' = [i \in 1..k |-> [c |-> s[i], ev |-> e[i]]]
  /\ batch' # <<>>
  /\ stale' = {}
  /\ UNCHANGED <<conn, now>>

VerifiedIfAlive(c) == conn[c].alive

\* VerifyEvents: the slot is in use and the event has its number.
Verified(c) == conn[c].alive /\ c \notin stale

\* The next report is taken up, or dropped.
Dispatch ==
  /\ Idle /\ batch # <<>>
  /\ batch' = Tail(batch)
  /\ now' = IF Verified(Head(batch).c)
            THEN [c |-> Head(batch).c, ev |-> Head(batch).ev, input |-> FALSE]
            ELSE Nothing
  /\ UNCHANGED <<conn, stale>>

HangupNotify ==
  /\ "HUP" \in now.ev
  /\ Become1(now.c, Gone)
  /\ now' = Nothing
  /\ UNCHANGED batch

\* InputNotify ended with the client at x: OutputNotify follows if it was reported
\* and the client still exists.
AfterInput(x) ==
  now' = IF x.alive /\ "OUT" \in now.ev
         THEN [now EXCEPT !.ev = {"OUT"}, !.input = TRUE] ELSE Nothing

Reading == "IN" \in now.ev /\ "HUP" \notin now.ev

\* recv() overwrites the stage of a client that goes on.
Received(x) == [x EXCEPT !.stage = "DATA_RECVING"]

\* A read that is answered on the spot, or not at all.
InputAnswered ==
  /\ Reading
  /\ \E x \in {conn[now.c]} \cup Answers(conn[now.c]) :
       LET y == IF Failed(x) THEN Gone ELSE Received(x)
       IN Become1(now.c, y) /\ AfterInput(y)
  /\ UNCHANGED batch

\* End of stream, an error, a packet that is refused, a policy request.
InputFails ==
  /\ Reading
  /\ Become1(now.c, Gone)
  /\ now' = Nothing
  /\ UNCHANGED batch

\* A broadcast goes to every client that has not failed, the sender too; whether a
\* send fails is not looked at, and the sender's stage is overwritten.  (A client
\* whose queue is at the bound is left out.)
InputBroadcast ==
  /\ Reading
  /\ \E f \in [Client -> UNION {{conn[c]} \cup Answers(conn[c]) : c \in Client}] :
       /\ \A c \in Client :
            IF conn[c].alive /\ ~ Failed(conn[c]) /\ conn[c].w < MaxOut
            THEN f[c] \in Answers(conn[c]) ELSE f[c] = conn[c]
       /\ LET me == [Received(f[now.c]) EXCEPT !.broadcast = TRUE]
          IN Become([f EXCEPT ![now.c] = me]) /\ AfterInput(me)
  /\ UNCHANGED batch

\* OutputNotify, and web_output, which sends once more what send() left.
OutputNotify ==
  /\ now.ev = {"OUT"}
  /\ \E x \in Sends(conn[now.c]) :
       IF x.stage = "DATA_SENDING"
       THEN \E y \in Sends(x) : Become1(now.c, Completed(y))
       ELSE Become1(now.c, Completed(x))
  /\ now' = Nothing
  /\ UNCHANGED batch

-----------------------------------------------------------------------------
Next ==
  \/ \E c \in Client : Accept(c) \/ Forward(c) \/ ForwardAnswer(c) \/ Delete(c)
  \/ Wait
  \/ Dispatch
  \/ HangupNotify
  \/ InputAnswered
  \/ InputFails
  \/ InputBroadcast
  \/ OutputNotify

Spec == Init /\ [][Next]_vars

-----------------------------------------------------------------------------
(* Properties. *)

\* No lost wake-up and no busy loop, whoever wrote to the client: it listens for
\* EPOLLOUT exactly as long as bytes wait (client_unit.cpp:139-208).
PendingIsWatched == \A c \in Client : conn[c].out <=> conn[c].w > 0

\* OutputNotify has bytes to send, so that send() does not take an empty queue for
\* a failure and disconnect the client (client_unit.cpp:203) - even if a broadcast
\* earlier in the batch sent all of them.  What is left is a report of input and
\* output together, where the client's own InputNotify may send them.
OutputHasData == now.ev = {"OUT"} /\ ~ now.input => conn[now.c].w > 0

\* Output is watched for exactly while there is some, from the queue to the report
\* (client_unit.cpp:139-208).
OutputIsWatched == PendingIsWatched /\ OutputHasData

\* A client that is not failed and yet not listened to any more is one whose own
\* broadcast failed on its own socket.
DeafByBroadcast ==
  \A c \in Client : conn[c].alive /\ ~ conn[c].in /\ ~ Failed(conn[c])
    => conn[c].broadcast

\* A client whose socket failed is left alone until it is deleted: no later handler
\* takes it for sound, none sends to it or listens to it again; and nobody but a failed
\* client or one that hurt itself becomes deaf (client_unit.cpp:139-208).
FailureIsFinal ==
  [][/\ \A c \in Client : conn[c].alive /\ Failed(conn[c]) => ~ conn'[c].alive \/ conn'[c] = conn[c]
     /\ DeafByBroadcast']_vars
=============================================================================
