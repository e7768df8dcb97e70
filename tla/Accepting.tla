------------------------------ MODULE Accepting ------------------------------
(***************************************************************************)
(* How CListener takes new connections: it fills an array with the          *)
(* descriptors that accept() returns, then makes a connection of each, and  *)
(* begins again until nothing is waiting.  accept() may be interrupted, may *)
(* fail for the connection at hand, and fails for as long as the process    *)
(* has no descriptor left.  What becomes of a connection is in module Hall. *)
(***************************************************************************)
EXTENDS Integers, FiniteSets

CONSTANTS
  Fd,          \* descriptors, integers from 0 on
  AcceptCnt,   \* _accept_cnt, MAX_ACCEPT_COUNT
  Room,        \* connections the poller has room for
  MaxArrivals  \* bound: clients that connect

NoFd == -1
Slots == 0..AcceptCnt-1

VARIABLES
  backlog,   \* connections waiting to be accepted
  arrived,   \* how many clients have connected
  open,      \* descriptors in use
  conns,     \* those of connections
  fdArray,   \* _fd_array
  newfdCnt,  \* _newfd_cnt
  slot,      \* the slot proc_accept or proc_request is at
  drained,   \* whether proc_accept returned -1
  gaps,      \* slots passed over by interruptions
  stage      \* "idle", in "accept", in "request", or "down"

listenerVars == <<backlog, arrived, open, conns, fdArray, newfdCnt, slot, drained, gaps, stage>>

Empty == [s \in Slots |-> NoFd]

ListenerInit ==
  /\ backlog = 0 /\ arrived = 0
  /\ open = {} /\ conns = {}
  /\ fdArray = Empty /\ newfdCnt = 0 /\ slot = 0 /\ drained = FALSE
  /\ gaps = 0 /\ stage = "idle"

Lowest(S) == CHOOSE f \in S : \A g \in S : f <= g

Arrive ==
  /\ arrived < MaxArrivals
  /\ arrived' = arrived + 1 /\ backlog' = backlog + 1
  /\ UNCHANGED <<open, conns, fdArray, newfdCnt, slot, drained, gaps, stage>>

\* A connection ends while the thread is not in the listener.
Complete(c) ==
  /\ stage = "idle" /\ c \in conns
  /\ conns' = conns \ {c} /\ open' = open \ {c}
  /\ UNCHANGED <<backlog, arrived, fdArray, newfdCnt, slot, drained, gaps, stage>>

\* The beginning of proc_accept.
Begin ==
  /\ fdArray' = Empty /\ newfdCnt' = 0 /\ slot' = 0 /\ drained' = FALSE /\ stage' = "accept"

InputNotify ==
  /\ stage = "idle" /\ backlog > 0
  /\ Begin
  /\ UNCHANGED <<backlog, arrived, open, conns, gaps>>

\* The round of proc_accept goes on, i.e. a slot is free and it was not told to stop.
InAccept == stage = "accept" /\ slot < AcceptCnt /\ ~ drained

Accept ==
  /\ InAccept /\ backlog > 0 /\ open # Fd
  /\ LET fd == Lowest(Fd \ open) IN open' = open \cup {fd} /\ fdArray' = [fdArray EXCEPT ![slot] = fd]
  /\ newfdCnt' = newfdCnt + 1 /\ slot' = slot + 1 /\ backlog' = backlog - 1
  /\ UNCHANGED <<arrived, conns, drained, gaps, stage>>

\* EINTR: the slot is passed over and not counted.
Interrupted ==
  /\ InAccept /\ gaps < MaxArrivals
  /\ slot' = slot + 1 /\ gaps' = gaps + 1
  /\ UNCHANGED <<backlog, arrived, open, conns, fdArray, newfdCnt, drained, stage>>

\* A slip: a failure is not counted either.
FailureUncounted == newfdCnt
\* Any other failure is counted as if it were a connection.
FailureCounted == newfdCnt + 1

\* The connection is gone (ECONNABORTED), or there is no descriptor for it (EMFILE).
AcceptFails ==
  /\ InAccept /\ backlog > 0
  /\ \/ backlog' = backlog - 1
     \/ open = Fd /\ UNCHANGED backlog
  /\ fdArray' = [fdArray EXCEPT ![slot] = NoFd]
  /\ newfdCnt' = FailureCounted /\ slot' = slot + 1
  /\ UNCHANGED <<arrived, open, conns, drained, gaps, stage>>

\* EAGAIN
WouldBlock ==
  /\ InAccept /\ backlog = 0
  /\ drained' = TRUE
  /\ UNCHANGED <<backlog, arrived, open, conns, fdArray, newfdCnt, slot, gaps, stage>>

\* The end of a round: InputNotify returns when nothing was counted.
Accepted ==
  /\ stage = "accept" /\ ~ InAccept
  /\ stage' = IF newfdCnt <= 0 THEN "idle" ELSE "request"
  /\ slot' = 0
  /\ UNCHANGED <<backlog, arrived, open, conns, fdArray, newfdCnt, drained, gaps>>

InRequest == stage = "request" /\ slot < newfdCnt

\* A slip: the slot is looked at for ever.
NoConnectionStuck == InRequest /\ fdArray[slot] = NoFd /\ UNCHANGED listenerVars

NoConnection ==
  /\ InRequest /\ fdArray[slot] = NoFd
  /\ slot' = slot + 1
  /\ UNCHANGED <<backlog, arrived, open, conns, fdArray, newfdCnt, drained, gaps, stage>>

\* listener_input succeeds while the poller has room.
Serve ==
  /\ InRequest /\ fdArray[slot] # NoFd /\ Cardinality(conns) < Room
  /\ conns' = conns \cup {fdArray[slot]} /\ slot' = slot + 1
  /\ UNCHANGED <<backlog, arrived, open, fdArray, newfdCnt, drained, gaps, stage>>

\* When it fails the decoder is deleted and then asked for its client.
ServeFails ==
  /\ InRequest /\ fdArray[slot] # NoFd /\ Cardinality(conns) = Room
  /\ open' = open \ {fdArray[slot]} /\ stage' = "down"
  /\ UNCHANGED <<backlog, arrived, conns, fdArray, newfdCnt, slot, drained, gaps>>

\* InputNotify returns, or proc_accept begins again.
Requested ==
  /\ stage = "request" /\ ~ InRequest
  /\ \/ drained /\ stage' = "idle" /\ UNCHANGED <<fdArray, newfdCnt, slot, drained>>
     \/ ~ drained /\ Begin
  /\ UNCHANGED <<backlog, arrived, open, conns, gaps>>

Step ==
  \/ InputNotify \/ Accept \/ AcceptFails \/ WouldBlock \/ Accepted
  \/ NoConnection \/ Serve \/ ServeFails \/ Requested

ListenerNext == Step \/ Arrive \/ Interrupted \/ \E c \in Fd : Complete(c)

\* The thread goes on with what it does; nothing is assumed of clients or signals.
ListenerSpec == ListenerInit /\ [][ListenerNext]_listenerVars /\ WF_listenerVars(Step)

-----------------------------------------------------------------------------
\* Descriptors of this round that still wait for their connection.
Pending ==
  LET from == IF stage = "request" THEN slot ELSE 0
  IN IF stage \in {"accept", "request"}
     THEN {fdArray[s] : s \in {t \in Slots : from <= t}} \ {NoFd} ELSE {}

\* A descriptor is forgotten, open and served by nobody, only where accept() was
\* interrupted before it in its round; one for every interruption at most
\* (listener.cpp:134-138).  A failed accept() costs none, and a descriptor is never
\* served twice.
LostToInterruptions ==
  /\ stage # "down" => Cardinality(open \ (conns \cup Pending)) <= gaps
  /\ conns \cup Pending \subseteq open
  /\ stage = "accept" => conns \cap Pending = {}
  /\ stage = "down" => Cardinality(conns) = Room

\* The listener lets go of the thread again, unless the descriptors run out
\* (listener.cpp:160-178) or the poller does.
ListenerReturns == (stage # "idle") ~> (stage \in {"idle", "down"} \/ open = Fd)
=============================================================================
