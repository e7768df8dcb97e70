---------------------------- MODULE ClientsProofs ----------------------------
(***************************************************************************)
(* Proofs about the two ends a packet of a client passes.                   *)
(*                                                                         *)
(* ClientIO, for any clients and bounds: a client is watched for output     *)
(* exactly while it has some, and one whose socket failed is left alone     *)
(* until it is deleted.  Neither follows from a client alone.  That the     *)
(* handler of a report does not take up a failed client rests on what the   *)
(* batch keeps: a report whose client is not stale is of something the      *)
(* client still listens for, and a failed client listens for nothing.       *)
(*                                                                         *)
(* Routing, for any servers, levels and list lengths: the tables agree      *)
(* after every reload, and what a caller that looks for an empty list       *)
(* chooses has a link; round robin is even from wherever an earlier list    *)
(* left its number.  For the last, the invariant says where a round stands: *)
(* since the number passed position b, each position up to loopNum, in the  *)
(* circle, has been chosen once more than the rest.                         *)
(***************************************************************************)
EXTENDS ClientIO, Routing, SequenceTheorems, TLAPS

-----------------------------------------------------------------------------
(* ClientIO. *)

Stage == {"IDLE", "DATA_SENDING", "SEND_DONE", "DATA_RECVING", "FATAL_ERROR"}

Conn ==
  [alive : BOOLEAN, stage : Stage, in : BOOLEAN, out : BOOLEAN, w : Nat, errors : Nat,
   broadcast : BOOLEAN]

Event == {"IN", "OUT", "HUP"}
Report == [c : Client, ev : SUBSET Event]

\* Between two handlers.
Sound(x) ==
  /\ x \in Conn
  /\ x.out <=> x.w > 0
  /\ x.alive /\ Failed(x) => ~ x.in /\ ~ x.out
  /\ x.alive /\ ~ x.in /\ ~ Failed(x) => x.broadcast

\* A report that VerifyEvents will accept.
Heard(e) ==
  conn[e.c].alive /\ e.c \notin stale =>
    ("IN" \in e.ev => conn[e.c].in) /\ ("OUT" \in e.ev => conn[e.c].out)

\* The client of the report that is being dispatched.
Addressed ==
  now.ev # {} =>
    /\ now.c \in Client /\ conn[now.c].alive
    /\ "HUP" \notin now.ev => ~ Failed(conn[now.c])

IInv ==
  /\ conn \in [Client -> Conn]
  /\ \A c \in Client : Sound(conn[c])
  /\ batch \in Seq(Report) /\ \A i \in 1..Len(batch) : Heard(batch[i])
  /\ now.ev \in SUBSET Event /\ Addressed
  /\ OutputHasData

-----------------------------------------------------------------------------
(* What send() makes of a client. *)

\* What y has in common with x, and how it stands when x was sent to.
Sent(x, y) ==
  /\ y \in Conn /\ y.alive = x.alive /\ y.broadcast = x.broadcast
  /\ y.out <=> y.w > 0
  /\ Failed(y) => ~ y.out /\ (x.w > 0 => ~ y.in)
  /\ ~ Failed(y) => y.in = x.in
  /\ y.stage = "DATA_SENDING" => y.w > 0

\* Whatever the socket takes of the bytes queued.
LEMMA SendsSound ==
  ASSUME NEW x \in Conn, NEW y \in Sends(x)
  PROVE  Sent(x, y)
<1>0. x.w \in Nat /\ x.errors \in Nat /\ x.stage \in Stage
  BY DEF Conn
<1>1. CASE x.w = 0
  <2>1. y = [x EXCEPT !.out = FALSE, !.stage = "FATAL_ERROR"]
    BY <1>1 DEF Sends, SendEmpty
  <2>2. y \in Conn
    BY <2>1 DEF Conn, Stage
  <2>3. /\ y.out = FALSE /\ y.w = 0 /\ y.stage = "FATAL_ERROR"
        /\ y.alive = x.alive /\ y.broadcast = x.broadcast
    BY <1>1, <2>1 DEF Conn
  <2> QED
    BY <1>1, <2>2, <2>3 DEF Sent, Failed
<1>2. CASE x.w # 0
  <2>0. ASSUME NEW n \in Nat
        PROVE  LET z == [Muted(x) EXCEPT !.errors = n]
               IN Sent(x, z) /\ Sent(x, Muted(x))
    <3> DEFINE z == [Muted(x) EXCEPT !.errors = n]
    <3>1. Muted(x) \in Conn /\ z \in Conn
      BY DEF Muted, Conn, Stage
    <3>2. /\ ~ Muted(x).in /\ ~ Muted(x).out /\ Muted(x).w = 0 /\ Muted(x).stage = "FATAL_ERROR"
          /\ Muted(x).alive = x.alive /\ Muted(x).broadcast = x.broadcast
      BY DEF Muted, Conn
    <3>3. /\ ~ z.in /\ ~ z.out /\ z.w = 0 /\ z.stage = "FATAL_ERROR"
          /\ z.alive = x.alive /\ z.broadcast = x.broadcast
      BY DEF Muted, Conn
    <3> HIDE DEF z
    <3>4. Sent(x, z) /\ Sent(x, Muted(x))
      BY <3>1, <3>2, <3>3 DEF Sent, Failed
    <3> QED
      BY <3>4 DEF z
  <2>1. CASE y = SendBlocked(x)
    <3>1. CASE x.errors + 1 >= MaxErrors
      BY <2>0, <2>1, <3>1, BoundAssumption DEF SendBlocked
    <3>2. CASE ~ (x.errors + 1 >= MaxErrors)
      <4>0. x.errors + 1 \in Nat
        BY <1>0
      <4>1. y = [x EXCEPT !.errors = x.errors + 1, !.out = TRUE, !.stage = "DATA_SENDING"]
        BY <2>1, <3>2 DEF SendBlocked
      <4>2. y \in Conn
        BY <4>0, <4>1 DEF Conn, Stage
      <4>3. /\ y.out = TRUE /\ y.w = x.w /\ y.stage = "DATA_SENDING" /\ y.in = x.in
            /\ y.alive = x.alive /\ y.broadcast = x.broadcast
        BY <4>1 DEF Conn
      <4> QED
        BY <1>0, <1>2, <4>2, <4>3 DEF Sent, Failed
    <3> QED
      BY <3>1, <3>2
  <2>2. CASE y = SendFailed(x)
    BY <2>0, <2>2 DEF SendFailed
  <2>3. ASSUME NEW n \in 1..x.w, y = SendTook(x, n) PROVE Sent(x, y)
    <3>0. x.w - n \in Nat /\ (x.w - n > 0 <=> n < x.w)
      BY <1>0
    <3>1. y = [x EXCEPT !.w = x.w - n, !.errors = 0, !.out = (n < x.w),
                        !.stage = IF n < x.w THEN "DATA_SENDING" ELSE "SEND_DONE"]
      BY <2>3 DEF SendTook
    <3>2. (n < x.w) \in BOOLEAN
      OBVIOUS
    <3>3. y \in Conn
      BY <3>0, <3>1, <3>2 DEF Conn, Stage
    <3>4. /\ y.out = (n < x.w) /\ y.w = x.w - n /\ y.in = x.in
          /\ y.stage = IF n < x.w THEN "DATA_SENDING" ELSE "SEND_DONE"
          /\ y.alive = x.alive /\ y.broadcast = x.broadcast
      BY <3>1 DEF Conn
    <3> QED
      BY <3>0, <3>3, <3>4 DEF Sent, Failed
  <2> QED
    BY <1>2, <2>1, <2>2, <2>3 DEF Sends
<1> QED
  BY <1>1, <1>2

\* A client that is written to and sent to has bytes, so that a failure mutes it.
LEMMA AnswersSound ==
  ASSUME NEW x \in Conn, NEW y \in Answers(x)
  PROVE  Sent(x, y) /\ (Failed(y) => ~ y.in)
<1>1. PICK k \in 1..(MaxOut - x.w) : y \in Sends([x EXCEPT !.w = @ + k])
  BY DEF Answers
<1>2. x.w \in Nat /\ k \in Nat \ {0}
  BY <1>1, BoundAssumption DEF Conn
<1> DEFINE q == [x EXCEPT !.w = @ + k]
<1>3. q \in Conn /\ q.w > 0
  BY <1>2 DEF Conn
<1>4. q.alive = x.alive /\ q.broadcast = x.broadcast /\ q.in = x.in
  BY DEF Conn
<1> HIDE DEF q
<1>5. Sent(q, y)
  BY <1>1, <1>3, SendsSound DEF q
<1> QED
  BY <1>3, <1>4, <1>5 DEF Sent

\* One who was sent to is sound again.
LEMMA SentSound ==
  ASSUME NEW x, NEW y, Sound(x), ~ Failed(x), Sent(x, y), Failed(y) => ~ y.in
  PROVE  Sound(y)
BY DEF Sound, Sent

\* A client that is gone, new, or deleted because its socket failed.
LEMMA GoneSound == Sound(Gone) /\ Sound(Fresh) /\ ~ Gone.alive /\ ~ Failed(Fresh) /\ ~ Failed(Gone)
<1>1. Gone \in Conn /\ Fresh \in Conn
  BY DEF Gone, Fresh, Conn, Stage
<1> QED
  BY <1>1 DEF Gone, Fresh, Sound, Failed

-----------------------------------------------------------------------------
(* What the clients become. *)

\* A report that was not stale is not, or is of the same events, afterwards.
LEMMA HeardStill ==
  ASSUME IInv, NEW f, Become(f), f \in [Client -> Conn], NEW e \in Report, Heard(e)
  PROVE  Heard(e)'
<1>1. e.c \in Client
  BY DEF Report
<1>2. CASE e.c \in stale'
  BY <1>2 DEF Heard
<1>3. CASE e.c \notin stale'
  <2>1. /\ e.c \notin stale /\ f[e.c].alive = conn[e.c].alive
        /\ f[e.c].in = conn[e.c].in /\ f[e.c].out = conn[e.c].out
    BY <1>1, <1>3 DEF Become, Bumped
  <2> QED
    BY <1>1, <2>1 DEF Heard, Become
<1> QED
  BY <1>2, <1>3

\* The clients became sound ones, and the batch is what it was.
LEMMA BecomeSound ==
  ASSUME IInv, NEW f, Become(f), f \in [Client -> Conn], \A c \in Client : Sound(f[c]),
         batch' = batch
  PROVE  /\ conn' = f /\ conn' \in [Client -> Conn]
         /\ \A c \in Client : Sound(conn'[c])
         /\ batch' \in Seq(Report) /\ \A i \in 1..Len(batch') : Heard(batch[i])'
<1>1. conn' = f
  BY DEF Become
<1>2. \A i \in 1..Len(batch) : batch[i] \in Report /\ Heard(batch[i])
  BY ElementOfSeq DEF IInv
<1>3. \A i \in 1..Len(batch) : Heard(batch[i])'
  BY <1>2, HeardStill
<1> QED
  BY <1>1, <1>3 DEF IInv

\* The same for one client.
LEMMA Become1Sound ==
  ASSUME IInv, NEW c \in Client, NEW x, Become1(c, x), Sound(x), batch' = batch
  PROVE  /\ conn' = [conn EXCEPT ![c] = x] /\ conn' \in [Client -> Conn]
         /\ \A d \in Client : Sound(conn'[d])
         /\ batch' \in Seq(Report) /\ \A i \in 1..Len(batch') : Heard(batch[i])'
<1> DEFINE f == [conn EXCEPT ![c] = x]
<1>1. f \in [Client -> Conn] /\ \A d \in Client : Sound(f[d])
  BY DEF IInv, Sound
<1>2. Become(f)
  BY DEF Become1
<1> HIDE DEF f
<1>3. /\ conn' = f /\ conn' \in [Client -> Conn]
      /\ \A d \in Client : Sound(conn'[d])
      /\ batch' \in Seq(Report) /\ \A i \in 1..Len(batch') : Heard(batch[i])'
  BY <1>1, <1>2, BecomeSound
<1> QED
  BY <1>3 DEF f

\* And if no report is being dispatched.
LEMMA HandlerSound ==
  ASSUME IInv, NEW c \in Client, NEW x, Become1(c, x), Sound(x), batch' = batch,
         Idle, now' = now
  PROVE  IInv'
<1>1. /\ conn' \in [Client -> Conn] /\ \A d \in Client : Sound(conn'[d])
      /\ batch' \in Seq(Report) /\ \A i \in 1..Len(batch') : Heard(batch[i])'
  BY Become1Sound
<1>2. now'.ev = {}
  BY DEF Nothing, Idle
<1> QED
  BY <1>1, <1>2 DEF IInv, Addressed, OutputHasData

\* After InputNotify the same report may ask for OutputNotify.
LEMMA AfterInputSound ==
  ASSUME IInv, "HUP" \notin now.ev, now.ev # {}, batch' = batch,
         conn' \in [Client -> Conn] /\ \A d \in Client : Sound(conn'[d]),
         batch' \in Seq(Report) /\ \A i \in 1..Len(batch') : Heard(batch[i])',
         NEW x, AfterInput(x), conn'[now.c] = x, ~ Failed(x)
  PROVE  IInv'
<1>1. CASE x.alive /\ "OUT" \in now.ev
  <2>1. now' = [now EXCEPT !.ev = {"OUT"}, !.input = TRUE]
    BY <1>1 DEF AfterInput
  <2> QED
    BY <1>1, <2>1 DEF IInv, Addressed, OutputHasData, Event
<1>2. CASE ~ (x.alive /\ "OUT" \in now.ev)
  <2>1. now'.ev = {}
    BY <1>2 DEF AfterInput, Nothing
  <2> QED
    BY <2>1 DEF IInv, Addressed, OutputHasData
<1> QED
  BY <1>1, <1>2

-----------------------------------------------------------------------------
(* The steps: what each keeps, and that no failed client was touched. *)

FailedUntouched ==
  \A c \in Client : conn[c].alive /\ Failed(conn[c]) => ~ conn'[c].alive \/ conn'[c] = conn[c]

\* A handler's client, if it changed into one that is gone or was not failed before.
LEMMA OneTouched ==
  ASSUME IInv, NEW c \in Client, NEW x, Become1(c, x),
         ~ x.alive \/ ~ conn[c].alive \/ ~ Failed(conn[c])
  PROVE  FailedUntouched
BY DEF IInv, Become1, Become, FailedUntouched

\* Nobody is connected at first.
LEMMA IInvInit ==
  ASSUME Init
  PROVE  IInv
<1>1. \A c \in Client : Sound(conn[c]) /\ conn[c] \in Conn
  BY GoneSound DEF Init, Sound
<1>2. conn \in [Client -> Conn]
  BY <1>1 DEF Init
<1> QED
  BY <1>1, <1>2, EmptySeq DEF Init, IInv, Nothing, Addressed, OutputHasData

\* Clients the handlers of other objects act on.
LEMMA OthersStep ==
  ASSUME IInv, NEW c \in Client, Accept(c) \/ Forward(c) \/ ForwardAnswer(c) \/ Delete(c)
  PROVE  IInv' /\ FailedUntouched
<1>0. Sound(conn[c]) /\ conn[c] \in Conn /\ Idle
  BY DEF IInv, Accept, Forward, ForwardAnswer, Delete
<1>1. CASE Accept(c)
  BY <1>1, <1>0, GoneSound, HandlerSound, OneTouched DEF Accept
<1>2. CASE Delete(c)
  BY <1>2, <1>0, GoneSound, HandlerSound, OneTouched DEF Delete
<1>3. CASE Forward(c)
  <2>1. CASE Failed(conn[c])
    BY <1>3, <2>1, <1>0, GoneSound, HandlerSound, OneTouched DEF Forward
  <2>2. CASE ~ Failed(conn[c])
    <3>1. PICK x \in Answers(conn[c]) : Become1(c, Completed(x))
      BY <1>3, <2>2 DEF Forward
    <3>2. Sound(x)
      BY <1>0, <2>2, AnswersSound, SentSound
    <3>3. Sound(Completed(x))
      BY <3>2, GoneSound DEF Completed
    <3> QED
      BY <1>0, <1>3, <2>2, <3>1, <3>3, HandlerSound, OneTouched DEF Forward
  <2> QED
    BY <2>1, <2>2
<1>4. CASE ForwardAnswer(c)
  <2>1. CASE Failed(conn[c])
    BY <1>4, <2>1, <1>0, GoneSound, HandlerSound, OneTouched DEF ForwardAnswer
  <2>2. CASE ~ Failed(conn[c])
    <3>1. PICK x \in Answers(conn[c]) : Become1(c, x)
      BY <1>4, <2>2 DEF ForwardAnswer
    <3>2. Sound(x)
      BY <1>0, <2>2, AnswersSound, SentSound
    <3> QED
      BY <1>0, <1>4, <2>2, <3>1, <3>2, HandlerSound, OneTouched DEF ForwardAnswer
  <2> QED
    BY <2>1, <2>2
<1> QED
  BY <1>1, <1>2, <1>3, <1>4

\* What epoll reports is listened for.
LEMMA WaitStep ==
  ASSUME IInv, Wait
  PROVE  IInv' /\ FailedUntouched
<1>1. UNCHANGED <<conn, now>> /\ Idle
  BY DEF Wait
<1>2. PICK k \in 0..Cardinality(Client) : \E s \in [1..k -> Client] :
        \E e \in [1..k -> SUBSET Event] :
           /\ \A i \in 1..k : e[i] \in Reportable(s[i])
           /\ batch' = [i \in 1..k |-> [c |-> s[i], ev |-> e[i]]]
  BY Zenon DEF Wait, Event
<1>3. PICK s \in [1..k -> Client], e \in [1..k -> SUBSET Event] :
        /\ \A i \in 1..k : e[i] \in Reportable(s[i])
        /\ batch' = [i \in 1..k |-> [c |-> s[i], ev |-> e[i]]]
  BY <1>2, Zenon
<1>4. k \in Nat
  BY <1>2, <1>3
<1>5. \A i \in 1..k : batch'[i] \in Report /\ Heard(batch[i])'
  BY <1>1, <1>3 DEF Report, Heard, Reportable
<1>6. batch' \in Seq(Report) /\ Len(batch') = k
  BY <1>3, <1>4, <1>5
<1> QED
  BY <1>1, <1>5, <1>6 DEF IInv, FailedUntouched, Addressed, OutputHasData, Idle

\* The next report, taken up only if it is not stale: its client has not failed.
LEMMA DispatchStep ==
  ASSUME IInv, Dispatch
  PROVE  IInv' /\ FailedUntouched
<1> DEFINE e == Head(batch)
<1>1. e \in Report /\ Heard(e) /\ batch' \in Seq(Report)
      /\ Len(batch') = Len(batch) - 1 /\ Len(batch) \in Nat
      /\ \A i \in 1..Len(batch') : batch'[i] = batch[i + 1]
  <2>1. batch \in Seq(Report) /\ batch # <<>> /\ batch' = Tail(batch)
    BY DEF IInv, Dispatch
  <2>2. Len(batch) \in Nat /\ Len(batch) # 0
    BY <2>1, LenProperties, EmptySeq
  <2>3. e = batch[1] /\ 1 \in 1..Len(batch)
    BY <2>2, HeadTailProperties
  <2> QED
    BY <2>1, <2>2, <2>3, HeadTailProperties, ElementOfSeq DEF IInv
<1>2. UNCHANGED <<conn, stale>>
  BY DEF Dispatch
<1>3. \A i \in 1..Len(batch') : Heard(batch[i])'
  <2> SUFFICES ASSUME NEW i \in 1..Len(batch') PROVE Heard(batch[i])'
    OBVIOUS
  <2>1. i + 1 \in 1..Len(batch) /\ batch'[i] = batch[i + 1]
    BY <1>1
  <2>2. Heard(batch[i + 1])
    BY <2>1 DEF IInv
  <2> QED
    BY <1>2, <2>1, <2>2 DEF Heard
<1>4. now'.ev \in SUBSET Event /\ Addressed' /\ OutputHasData'
  <2>1. CASE Verified(e.c)
    <3>1. now' = [c |-> e.c, ev |-> e.ev, input |-> FALSE]
      BY <2>1 DEF Dispatch
    <3>2. e.c \in Client /\ e.ev \in SUBSET Event
      BY <1>1 DEF Report
    <3> HIDE DEF e
    <3>3. Sound(conn[e.c]) /\ conn[e.c] \in Conn
      BY <3>2 DEF IInv
    <3>4. /\ conn[e.c].alive
          /\ "IN" \in e.ev => conn[e.c].in
          /\ "OUT" \in e.ev => conn[e.c].out
      BY <1>1, <2>1 DEF Heard, Verified
    <3>5. Addressed'
      BY <1>2, <3>1, <3>2, <3>3, <3>4 DEF Addressed, Sound, Event
    <3>6. OutputHasData'
      BY <1>2, <3>1, <3>3, <3>4 DEF OutputHasData, Sound
    <3> QED
      BY <3>1, <3>2, <3>5, <3>6
  <2>2. CASE ~ Verified(e.c)
    BY <2>2 DEF Dispatch, Nothing, Addressed, OutputHasData
  <2> QED
    BY <2>1, <2>2
<1> QED
  BY <1>1, <1>2, <1>3, <1>4 DEF IInv, FailedUntouched

\* The report's client is gone after it.
LEMMA GoneStep ==
  ASSUME IInv, HangupNotify \/ InputFails
  PROVE  IInv' /\ FailedUntouched
<1>1. now.ev # {} /\ now.c \in Client
  BY DEF HangupNotify, InputFails, Reading, IInv, Addressed
<1>2. Become1(now.c, Gone) /\ now' = Nothing /\ batch' = batch
  BY DEF HangupNotify, InputFails
<1>3. IInv'
  <2>1. /\ conn' \in [Client -> Conn] /\ \A d \in Client : Sound(conn'[d])
        /\ batch' \in Seq(Report) /\ \A i \in 1..Len(batch') : Heard(batch[i])'
    BY <1>1, <1>2, GoneSound, Become1Sound
  <2> QED
    BY <1>2, <2>1 DEF IInv, Nothing, Addressed, OutputHasData
<1>4. FailedUntouched
  BY <1>1, <1>2, GoneSound, OneTouched
<1> QED
  BY <1>3, <1>4

\* Input answered on the spot.
LEMMA InputStep ==
  ASSUME IInv, InputAnswered
  PROVE  IInv' /\ FailedUntouched
<1>0. /\ now.ev # {} /\ now.c \in Client /\ conn[now.c].alive /\ "HUP" \notin now.ev
      /\ ~ Failed(conn[now.c]) /\ batch' = batch
  BY DEF InputAnswered, Reading, IInv, Addressed
<1>1. Sound(conn[now.c]) /\ conn[now.c] \in Conn
  BY <1>0 DEF IInv
<1>2. PICK x \in {conn[now.c]} \cup Answers(conn[now.c]) :
        LET y == IF Failed(x) THEN Gone ELSE Received(x)
        IN Become1(now.c, y) /\ AfterInput(y)
  BY DEF InputAnswered
<1>3. Sound(x)
  BY <1>0, <1>1, AnswersSound, SentSound
<1> DEFINE y == IF Failed(x) THEN Gone ELSE Received(x)
<1>4. Sound(y) /\ ~ Failed(y)
  <2>1. CASE Failed(x)
    BY <2>1, GoneSound
  <2>2. CASE ~ Failed(x)
    <3>1. x \in Conn
      BY <1>3 DEF Sound
    <3>2. /\ Received(x) \in Conn /\ Received(x).stage = "DATA_RECVING"
          /\ Received(x).in = x.in /\ Received(x).out = x.out /\ Received(x).w = x.w
          /\ Received(x).alive = x.alive /\ Received(x).broadcast = x.broadcast
      BY <3>1 DEF Received, Conn, Stage
    <3> QED
      BY <1>3, <2>2, <3>2 DEF Sound, Failed
  <2> QED
    BY <2>1, <2>2
<1> HIDE DEF y
<1>5. Become1(now.c, y) /\ AfterInput(y)
  BY <1>2 DEF y
<1>6. /\ conn' = [conn EXCEPT ![now.c] = y] /\ conn' \in [Client -> Conn]
      /\ \A d \in Client : Sound(conn'[d])
      /\ batch' \in Seq(Report) /\ \A i \in 1..Len(batch') : Heard(batch[i])'
  BY <1>0, <1>4, <1>5, Become1Sound
<1>7. conn'[now.c] = y
  BY <1>0, <1>6 DEF IInv
<1>8. IInv'
  BY <1>0, <1>4, <1>5, <1>6, <1>7, AfterInputSound
<1> QED
  BY <1>0, <1>5, <1>8, OneTouched

\* A broadcast leaves the failed clients out, and only its sender's failure is hidden.
LEMMA BroadcastStep ==
  ASSUME IInv, InputBroadcast
  PROVE  IInv' /\ FailedUntouched
<1>0. /\ now.ev # {} /\ now.c \in Client /\ conn[now.c].alive /\ "HUP" \notin now.ev
      /\ ~ Failed(conn[now.c]) /\ batch' = batch
  BY DEF InputBroadcast, Reading, IInv, Addressed
<1>1. PICK f \in [Client -> UNION {{conn[c]} \cup Answers(conn[c]) : c \in Client}] :
       /\ \A c \in Client :
            IF conn[c].alive /\ ~ Failed(conn[c]) /\ conn[c].w < MaxOut
            THEN f[c] \in Answers(conn[c]) ELSE f[c] = conn[c]
       /\ LET me == [Received(f[now.c]) EXCEPT !.broadcast = TRUE]
          IN Become([f EXCEPT ![now.c] = me]) /\ AfterInput(me)
  BY DEF InputBroadcast
<1>2. \A c \in Client : Sound(f[c]) /\ f[c].alive = conn[c].alive
  <2> SUFFICES ASSUME NEW c \in Client PROVE Sound(f[c]) /\ f[c].alive = conn[c].alive
    OBVIOUS
  <2>0. Sound(conn[c]) /\ conn[c] \in Conn
    BY DEF IInv
  <2>1. CASE conn[c].alive /\ ~ Failed(conn[c]) /\ conn[c].w < MaxOut
    <3>1. f[c] \in Answers(conn[c])
      BY <1>1, <2>1
    <3>2. Sent(conn[c], f[c]) /\ (Failed(f[c]) => ~ f[c].in)
      BY <2>0, <3>1, AnswersSound
    <3> QED
      BY <2>0, <2>1, <3>2, SentSound DEF Sent
  <2>2. CASE ~ (conn[c].alive /\ ~ Failed(conn[c]) /\ conn[c].w < MaxOut)
    BY <1>1, <2>0, <2>2
  <2> QED
    BY <2>1, <2>2
<1> DEFINE me == [Received(f[now.c]) EXCEPT !.broadcast = TRUE]
           g == [f EXCEPT ![now.c] = me]
<1>3. Sound(me) /\ ~ Failed(me) /\ me.alive
  <2>1. Sound(f[now.c]) /\ f[now.c].alive
    BY <1>0, <1>2
  <2>2. f[now.c] \in Conn
    BY <2>1 DEF Sound
  <2>3. /\ me \in Conn /\ me.stage = "DATA_RECVING" /\ me.broadcast
        /\ me.out = f[now.c].out /\ me.w = f[now.c].w /\ me.alive = f[now.c].alive
    BY <2>2 DEF Received, Conn, Stage
  <2> HIDE DEF me
  <2> QED
    BY <2>1, <2>3 DEF Sound, Failed
<1>4. Become(g) /\ AfterInput(me)
  BY <1>1
<1> HIDE DEF me
<1>5. g \in [Client -> Conn] /\ \A c \in Client : Sound(g[c])
  <2>1. \A c \in Client : g[c] = IF c = now.c THEN me ELSE f[c]
    BY <1>0, <1>1
  <2>2. \A c \in Client : Sound(g[c])
    BY <1>2, <1>3, <2>1
  <2>3. DOMAIN g = Client
    BY <1>1
  <2>4. \A c \in Client : g[c] \in Conn
    BY <2>2 DEF Sound
  <2>5. g = [c \in Client |-> g[c]]
    BY <1>1
  <2> QED
    BY <2>2, <2>4, <2>5
<1>6. g[now.c] = me /\ \A c \in Client : c # now.c => g[c] = f[c]
  BY <1>0, <1>1
<1> HIDE DEF g
<1>7. /\ conn' = g /\ conn' \in [Client -> Conn]
      /\ \A c \in Client : Sound(conn'[c])
      /\ batch' \in Seq(Report) /\ \A i \in 1..Len(batch') : Heard(batch[i])'
  BY <1>0, <1>4, <1>5, BecomeSound
<1>8. IInv'
  BY <1>0, <1>3, <1>4, <1>6, <1>7, AfterInputSound
<1>9. FailedUntouched
  <2> SUFFICES ASSUME NEW c \in Client, conn[c].alive, Failed(conn[c]) PROVE conn'[c] = conn[c]
    BY DEF FailedUntouched
  <2>1. c # now.c
    BY <1>0
  <2>2. f[c] = conn[c]
    BY <1>1
  <2> QED
    BY <1>6, <1>7, <2>1, <2>2
<1> QED
  BY <1>8, <1>9

\* Output that may send twice; a failure deletes the client.
LEMMA OutputStep ==
  ASSUME IInv, OutputNotify
  PROVE  IInv' /\ FailedUntouched
<1>0. /\ now.c \in Client /\ ~ Failed(conn[now.c])
      /\ batch' = batch /\ now' = Nothing
  BY DEF OutputNotify, IInv, Addressed
<1>1. Sound(conn[now.c]) /\ conn[now.c] \in Conn
  BY <1>0 DEF IInv
<1>2. PICK x \in Sends(conn[now.c]) :
       IF x.stage = "DATA_SENDING"
       THEN \E y \in Sends(x) : Become1(now.c, Completed(y))
       ELSE Become1(now.c, Completed(x))
  BY DEF OutputNotify
<1>3. Sent(conn[now.c], x)
  BY <1>1, SendsSound
<1>4. ASSUME NEW y, Sent(conn[now.c], y), Become1(now.c, Completed(y)) PROVE IInv' /\ FailedUntouched
  <2>1. Sound(Completed(y))
    BY <1>0, <1>1, <1>4, GoneSound, SentSound DEF Completed
  <2>2. IInv'
    <3>1. /\ conn' \in [Client -> Conn] /\ \A d \in Client : Sound(conn'[d])
          /\ batch' \in Seq(Report) /\ \A i \in 1..Len(batch') : Heard(batch[i])'
      BY <1>0, <1>4, <2>1, Become1Sound
    <3> QED
      BY <1>0, <3>1 DEF IInv, Nothing, Addressed, OutputHasData
  <2>3. FailedUntouched
    BY <1>0, <1>4, OneTouched
  <2> QED
    BY <2>2, <2>3
<1>5. ASSUME x.stage = "DATA_SENDING", NEW y \in Sends(x) PROVE Sent(conn[now.c], y)
  <2>1. x \in Conn /\ ~ Failed(x)
    BY <1>3, <1>5 DEF Sent, Failed
  <2>2. Sent(x, y)
    BY <2>1, <1>5, SendsSound
  <2>3. x.w > 0
    BY <1>3, <1>5 DEF Sent
  <2> QED
    BY <1>3, <2>1, <2>2, <2>3 DEF Sent
<1> QED
  BY <1>2, <1>3, <1>4, <1>5

\* Every step keeps the invariant and leaves failed clients alone.
LEMMA IInvStep ==
  ASSUME IInv, [Next]_vars
  PROVE  IInv' /\ FailedUntouched
<1>1. CASE UNCHANGED vars
  BY <1>1 DEF vars, IInv, Heard, Addressed, OutputHasData, FailedUntouched
<1> QED
  BY <1>1, OthersStep, WaitStep, DispatchStep, GoneStep, InputStep, BroadcastStep, OutputStep
  DEF Next

-----------------------------------------------------------------------------
\* Whoever writes to a client, and in whatever order the handlers of a batch do: it is
\* watched for output exactly while bytes wait, and a report of output finds some
\* (client_unit.cpp:139-208).
THEOREM OutputIsWatchedTheorem == Spec => []OutputIsWatched
<1>1. IInv => OutputIsWatched
  BY DEF IInv, Sound, OutputIsWatched, PendingIsWatched
<1>2. Init => IInv
  BY IInvInit
<1>3. IInv /\ [Next]_vars => IInv'
  BY IInvStep
<1> QED
  BY <1>1, <1>2, <1>3, PTL DEF Spec

\* A client whose socket failed is left as it is until it is deleted, and nobody but
\* the sender of a broadcast is deaf without having failed (client_unit.cpp:139-208).
THEOREM FailureIsFinalTheorem == Spec => FailureIsFinal
<1>1. IInv => DeafByBroadcast
  BY DEF IInv, Sound, DeafByBroadcast
<1>2. Init => IInv
  BY IInvInit
<1>3. IInv /\ [Next]_vars => IInv' /\ FailedUntouched
  BY IInvStep
<1> DEFINE A == /\ \A c \in Client : conn[c].alive /\ Failed(conn[c]) => ~ conn'[c].alive \/ conn'[c] = conn[c]
                /\ DeafByBroadcast'
<1>4. IInv' => DeafByBroadcast'
  BY <1>1, PTL
<1>5. IInv /\ [Next]_vars => A
  BY <1>3, <1>4 DEF FailedUntouched
<1> QED
  BY <1>2, <1>3, <1>5, PTL DEF Spec, FailureIsFinal

-----------------------------------------------------------------------------
(* Routing. *)

\* What is asked of the constants.
ListBounds == MaxListed \in Nat

Size == Len(svidlist)

\* i is among the positions from b to k, in the circle.
Arc(b, k, i) == IF b <= k THEN b <= i /\ i <= k ELSE b <= i \/ i <= k

\* All positions were chosen t times, and b is next.
Level0(b, t) ==
  /\ b = NextNum(loopNum, Size)
  /\ \A i \in 1..Size : taken[i] = t

\* Those from b on to loopNum were chosen once more, and b is not next.
Under(b, t) ==
  /\ loopNum \in 0..Size-1 /\ b # NextNum(loopNum, Size)
  /\ \A i \in 1..Size : taken[i] = IF Arc(b, loopNum, i - 1) THEN t + 1 ELSE t

Round == \E b \in 0..Size-1, t \in Nat : Level0(b, t) \/ Under(b, t)

RoutingIInv ==
  /\ svidlist \in Seq(Svid) /\ helpermap = Range(svidlist)
  /\ TablesAgree /\ PickedHasLink /\ DownOnlyWithoutServers
  /\ loopNum \in Nat
  /\ DOMAIN taken = 1..Size
  /\ Size # 0 => Round

-----------------------------------------------------------------------------
\* The lists of a file: each server with a level is on its list.
LEMMA FileListed ==
  ASSUME NEW s \in Files, ListBounds
  PROVE  /\ Listed(s) \in Seq(Svid) /\ Len(s) \in Nat /\ Len(Listed(s)) = Len(s)
         /\ UNION {OfLevel(s, v) : v \in Level} = Range(Listed(s))
<1>1. PICK n \in 0..MaxListed : s \in [1..n -> Server]
  BY DEF Files
<1>2. s \in Seq(Server) /\ n \in Nat
  BY <1>1, SeqDef DEF ListBounds
<1>3. Len(s) = n /\ DOMAIN s = 1..n
  BY <1>1, <1>2, LenProperties
<1>4. \A i \in 1..n : s[i].svid \in Svid /\ s[i].level \in Level
  BY <1>1 DEF Server
<1>5. Listed(s) \in [1..n -> Svid]
  BY <1>3, <1>4 DEF Listed
<1>6. Listed(s) \in Seq(Svid)
  BY <1>2, <1>5, SeqDef
<1>7. Len(Listed(s)) = n
  BY <1>2, <1>5, <1>6, LenProperties
<1>8. UNION {OfLevel(s, v) : v \in Level} = {s[i].svid : i \in 1..n}
  BY <1>3, <1>4 DEF OfLevel
<1>9. Range(Listed(s)) = {s[i].svid : i \in 1..n}
  BY <1>3 DEF Listed, Range
<1> QED
  BY <1>2, <1>3, <1>6, <1>7, <1>8, <1>9

\* What a reload, or the start, leaves; wherever loopNum stands, it is in order.
New ==
  /\ ListBounds /\ loopNum \in Nat /\ picked = {}
  /\ \E s \in Files : /\ svidlist = Listed(s) /\ helpermap = Range(svidlist)
                      /\ levelmap = [v \in Level |-> OfLevel(s, v)]
                      /\ taken = [i \in 1..Len(s) |-> 0]

Ordered ==
  /\ svidlist \in Seq(Svid) /\ TablesAgree /\ PickedHasLink
  /\ DOMAIN taken = 1..Size
  /\ Size # 0 => Round

\* The tables of a new object are in order.
LEMMA NewTables == New => Ordered
<1> SUFFICES ASSUME New PROVE Ordered
  OBVIOUS
<1>0. PICK s \in Files : /\ svidlist = Listed(s) /\ helpermap = Range(svidlist)
                         /\ levelmap = [v \in Level |-> OfLevel(s, v)]
                         /\ taken = [i \in 1..Len(s) |-> 0]
  BY DEF New
<1>1. svidlist \in Seq(Svid) /\ Size = Len(s) /\ Size \in Nat
  BY <1>0, FileListed DEF Size, New
<1>2. UNION {levelmap[v] : v \in Level} = UNION {OfLevel(s, v) : v \in Level}
  BY <1>0
<1>3. TablesAgree
  BY <1>0, <1>2, FileListed DEF TablesAgree, New
<1>4. ASSUME Size # 0 PROVE Round
  <2> DEFINE b == NextNum(loopNum, Size)
  <2>1. b \in 0..Size-1
    BY <1>1, <1>4 DEF NextNum, New
  <2>2. Level0(b, 0)
    BY <1>0, <1>1 DEF Level0
  <2> QED
    BY <2>1, <2>2 DEF Round
<1> QED
  BY <1>0, <1>1, <1>3, <1>4 DEF New, PickedHasLink, Ordered

\* The positions, counted from 0 and from 1.
LEMMA OneUp ==
  ASSUME NEW n \in Nat, NEW x \in 0..n-1
  PROVE  /\ x + 1 \in 1..n
         /\ \A i \in 1..n : i = x + 1 => i - 1 = x
         /\ \A i \in 1..n : Arc(x + 1, x, i - 1)
  BY DEF Arc

\* A round goes on.
LEMMA RoundStep ==
  ASSUME RoutingIInv, LoopSvid
  PROVE  /\ loopNum' \in 0..Size-1 /\ Size \in Nat \ {0} /\ Size' = Size
         /\ DOMAIN taken' = 1..Size
         /\ Round'
<1>1. Size \in Nat /\ Size # 0
  BY LenProperties, EmptySeq DEF RoutingIInv, LoopSvid, Size
<1>2. svidlist' = svidlist /\ Size' = Size
  BY DEF LoopSvid, Pick, tables, Size
<1>3. loopNum \in Nat /\ loopNum' = NextNum(loopNum, Size)
  BY DEF RoutingIInv, LoopSvid, Size
<1>4. loopNum' \in 0..Size-1
  BY <1>1, <1>3 DEF NextNum
<1>5. /\ DOMAIN taken' = 1..Size
      /\ \A i \in 1..Size : taken'[i] = IF i = loopNum' + 1 THEN taken[i] + 1 ELSE taken[i]
  BY DEF LoopSvid, RoutingIInv
<1>6. PICK b \in 0..Size-1, t \in Nat : Level0(b, t) \/ Under(b, t)
  BY <1>1 DEF RoutingIInv, Round
<1> DEFINE k == loopNum
           j == loopNum'
<1>7. \A i \in 1..Size : taken'[i] = IF Arc(b, j, i - 1) THEN t + 1 ELSE t
  <2>1. CASE Level0(b, t)
    <3>1. j = b
      BY <1>3, <2>1 DEF Level0
    <3>2. \A i \in 1..Size : Arc(b, j, i - 1) <=> i = j + 1
      BY <1>1, <1>4, <3>1 DEF Arc
    <3> QED
      BY <1>5, <2>1, <3>2 DEF Level0
  <2>2. CASE Under(b, t)
    <3>1. j # b /\ k \in 0..Size-1
      BY <1>3, <2>2 DEF Under
    <3>2. \A i \in 1..Size : Arc(b, j, i - 1) <=> Arc(b, k, i - 1) \/ i = j + 1
      BY <1>1, <1>3, <1>4, <3>1 DEF Arc, NextNum
    <3>3. ~ Arc(b, k, j)
      BY <1>1, <1>3, <1>4, <3>1 DEF Arc, NextNum
    <3> QED
      <4>1. \A i \in 1..Size : taken[i] = IF Arc(b, k, i - 1) THEN t + 1 ELSE t
        BY <2>2 DEF Under
      <4> SUFFICES ASSUME NEW i \in 1..Size
                   PROVE  taken'[i] = IF Arc(b, j, i - 1) THEN t + 1 ELSE t
        OBVIOUS
      <4>2. CASE i = j + 1
        <5>1. i - 1 = j
          BY <1>1, <1>4, <4>2, OneUp
        <5>2. Arc(b, j, i - 1)
          BY <3>2, <4>2
        <5>3. ~ Arc(b, k, i - 1)
          BY <3>3, <5>1
        <5>4. taken[i] = t
          BY <4>1, <5>3
        <5> QED
          BY <1>5, <4>2, <5>2, <5>4
      <4>3. CASE i # j + 1
        BY <1>5, <3>2, <4>1, <4>3
      <4> QED
        BY <4>2, <4>3
  <2> QED
    BY <1>6, <2>1, <2>2
<1>8. Round'
  <2>1. CASE b = NextNum(j, Size)
    <3>1. ASSUME NEW i \in 1..Size PROVE Arc(b, j, i - 1)
      <4>1. CASE j < Size - 1
        <5>1. b = j + 1
          BY <1>1, <1>4, <2>1, <4>1 DEF NextNum
        <5> QED
          BY <1>1, <1>4, <5>1, OneUp DEF Arc
      <4>2. CASE j = Size - 1
        BY <1>1, <1>4, <2>1, <4>2 DEF Arc, NextNum
      <4> QED
        BY <1>1, <1>4, <4>1, <4>2
    <3>2. \A i \in 1..Size : taken'[i] = t + 1
      BY <1>7, <3>1
    <3>3. Level0(b, t + 1)'
      BY <1>2, <2>1, <3>2 DEF Level0
    <3> QED
      BY <1>2, <3>3 DEF Round
  <2>2. CASE b # NextNum(j, Size)
    <3>1. Under(b, t)'
      BY <1>2, <1>4, <1>7, <2>2 DEF Under
    <3> QED
      BY <1>2, <3>1 DEF Round
  <2> QED
    BY <2>1, <2>2
<1> QED
  BY <1>1, <1>2, <1>4, <1>5, <1>8

-----------------------------------------------------------------------------
\* A configuration that was read gives tables that are in order.
LEMMA RoutingIInvInit ==
  ASSUME ListBounds, RoutingInit
  PROVE  RoutingIInv
<1>1. PICK s \in Files : /\ svidlist = Listed(s) /\ helpermap = Range(svidlist)
                         /\ levelmap = [v \in Level |-> OfLevel(s, v)]
                         /\ taken = [i \in 1..Len(s) |-> 0]
  BY DEF RoutingInit
<1>2. loopNum \in Nat /\ picked = {} /\ up = TRUE
  BY DEF RoutingInit
<1> QED
  BY <1>1, <1>2, NewTables DEF New, Ordered, RoutingIInv, DownOnlyWithoutServers

\* Reloads and choices keep them so.
LEMMA RoutingIInvStep ==
  ASSUME ListBounds, RoutingIInv, [RoutingNext]_routingVars
  PROVE  RoutingIInv'
<1>a. ASSUME NEW s \in Files, Loaded(s), up PROVE RoutingIInv'
  <2>1. /\ svidlist' = Listed(s) /\ helpermap' = Range(svidlist')
        /\ levelmap' = [v \in Level |-> OfLevel(s, v)]
        /\ taken' = [i \in 1..Len(s) |-> 0] /\ picked' = {}
        /\ loopNum' = loopNum /\ up' = up
    BY <1>a DEF Loaded
  <2>2. /\ svidlist' \in Seq(Svid) /\ TablesAgree' /\ PickedHasLink'
        /\ DOMAIN taken' = 1..Size'
        /\ Size' # 0 => Round'
    <3>1. New'
      BY <2>1 DEF RoutingIInv, New
    <3>2. Ordered'
      BY <3>1, NewTables, PTL
    <3> QED
      BY <3>2 DEF Ordered
  <2> QED
    BY <1>a, <2>1, <2>2 DEF RoutingIInv, DownOnlyWithoutServers
<1>b. <<>> \in Files
  <2>1. <<>> \in [1..0 -> Server]
    OBVIOUS
  <2> QED
    BY <2>1 DEF Files, ListBounds
<1>c. ASSUME LoopSvid PROVE RoutingIInv'
  <2>1. /\ loopNum' \in 0..Size-1 /\ Size \in Nat \ {0} /\ Size' = Size
        /\ DOMAIN taken' = 1..Size /\ Round'
    BY <1>c, RoundStep
  <2>b. loopNum' + 1 \in 1..Size
    BY <2>1, OneUp
  <2>a. DOMAIN svidlist = 1..Size
    BY LenProperties DEF RoutingIInv, Size
  <2>2. UNCHANGED tables /\ up' = up /\ picked' = picked \cup {svidlist[loopNum' + 1]}
    <3>1. loopNum' + 1 \in DOMAIN svidlist
      BY <2>a, <2>b
    <3> QED
      BY <1>c, <3>1 DEF LoopSvid, Pick
  <2>3. svidlist[loopNum' + 1] \in helpermap
    <3>1. loopNum' + 1 \in DOMAIN svidlist
      BY <2>a, <2>b
    <3> QED
      BY <3>1 DEF RoutingIInv, Range
  <2>4. loopNum' \in Nat
    BY <2>1
  <2> QED
    BY <1>c, <2>1, <2>2, <2>3, <2>4
    DEF RoutingIInv, tables, TablesAgree, PickedHasLink, DownOnlyWithoutServers, LoopSvid
\* A choice that leaves the number alone.
<1>d. ASSUME NEW s \in helpermap, Pick(s), UNCHANGED <<loopNum, taken>> PROVE RoutingIInv'
  <2>1. UNCHANGED tables /\ up' = up /\ picked' = picked \cup {s}
    BY <1>d DEF Pick
  <2>2. Size' = Size /\ Round' = Round
    BY <1>d, <2>1 DEF tables, Size, Round, Level0, Under
  <2> QED
    BY <1>d, <2>1, <2>2 DEF RoutingIInv, tables, TablesAgree, PickedHasLink, DownOnlyWithoutServers
<1>e. ASSUME UNCHANGED routingVars PROVE RoutingIInv'
  <2>1. Size' = Size /\ Round' = Round
    BY <1>e DEF routingVars, Size, Round, Level0, Under
  <2> QED
    BY <1>e, <2>1 DEF routingVars, RoutingIInv, TablesAgree, PickedHasLink, DownOnlyWithoutServers
<1>1. ASSUME NEW r \in Readable, NEW s \in Files, NEW C \in SUBSET Cmd, Reload(r, s, C) PROVE RoutingIInv'
  BY <1>1, <1>a, <1>b, <1>e DEF Reload, Readable
<1>2. CASE CloseNotice \/ \E c \in Cmd : Command(c)
  BY <1>2, <1>c DEF CloseNotice, Command
<1>3. CASE CloseNoticeNoServers
  <2>1. svidlist = <<>> /\ UNCHANGED tables /\ picked' = picked /\ taken' = taken
        /\ loopNum' = NextNum(loopNum, 0)
    BY <1>3 DEF CloseNoticeNoServers
  <2>2. loopNum' \in Nat
    BY <2>1 DEF NextNum, RoutingIInv
  <2>3. Size' = 0 /\ Size = 0
    BY <2>1, EmptySeq DEF tables, Size
  <2> QED
    BY <2>1, <2>2, <2>3 DEF RoutingIInv, tables, TablesAgree, PickedHasLink, DownOnlyWithoutServers
<1>4. ASSUME NEW v \in Level, RandomOfLevel(v) PROVE RoutingIInv'
  <2>1. PICK s \in levelmap[v] : Pick(s)
    BY <1>4 DEF RandomOfLevel
  <2>2. s \in helpermap
    BY DEF RoutingIInv, TablesAgree
  <2> QED
    BY <1>4, <1>d, <2>1, <2>2 DEF RandomOfLevel
<1>5. CASE LevelCountTimer
  <2>1. CASE svidlist = <<>>
    <3>1. UNCHANGED tables /\ picked' = picked /\ loopNum' = loopNum /\ taken' = taken
      BY <1>5, <2>1 DEF LevelCountTimer
    <3>2. Size' = Size /\ Round' = Round
      BY <3>1 DEF tables, Size, Round, Level0, Under
    <3> QED
      BY <2>1, <3>1, <3>2 DEF RoutingIInv, tables, TablesAgree, PickedHasLink, DownOnlyWithoutServers
  <2>2. CASE svidlist # <<>>
    BY <1>5, <1>d, <2>2 DEF LevelCountTimer, RoutingIInv
  <2> QED
    BY <2>1, <2>2
<1>6. ASSUME NEW s \in Svid, Named(s) PROVE RoutingIInv'
  BY <1>6, <1>d DEF Named
<1> QED
  BY <1>1, <1>2, <1>3, <1>4, <1>5, <1>6, <1>e DEF RoutingNext

-----------------------------------------------------------------------------
\* The three tables name the same servers after whatever reloads, and what a caller
\* chooses from a list that is not empty is one of them (CHelper_pool.h:23-27).
THEOREM ChoicesSoundTheorem ==
  ASSUME ListBounds
  PROVE  RoutingSpec => []ChoicesSound
<1>1. RoutingIInv => ChoicesSound
  BY DEF RoutingIInv, ChoicesSound
<1>2. RoutingInit => RoutingIInv
  BY RoutingIInvInit
<1>3. RoutingIInv /\ [RoutingNext]_routingVars => RoutingIInv'
  BY RoutingIInvStep
<1> QED
  BY <1>1, <1>2, <1>3, PTL DEF RoutingSpec

\* Round robin is even from the first choice after a reload on, and only a caller that
\* does not look ends the process, for want of servers (global.cpp:212-224).
THEOREM SpreadOrDownTheorem ==
  ASSUME ListBounds
  PROVE  RoutingSpec => []SpreadOrDown
<1>1. RoutingIInv => SpreadOrDown
  <2> SUFFICES ASSUME RoutingIInv PROVE EvenSpread
    BY DEF RoutingIInv, SpreadOrDown
  <2> SUFFICES ASSUME NEW i \in 1..Size, NEW j \in 1..Size PROVE taken[i] <= taken[j] + 1
    BY DEF EvenSpread, RoutingIInv
  <2>1. Size # 0
    OBVIOUS
  <2>2. PICK b \in 0..Size-1, t \in Nat : Level0(b, t) \/ Under(b, t)
    BY <2>1 DEF RoutingIInv, Round
  <2>3. taken[i] \in {t, t + 1} /\ taken[j] \in {t, t + 1}
    BY <2>2 DEF Level0, Under
  <2> QED
    BY <2>3
<1>2. RoutingInit => RoutingIInv
  BY RoutingIInvInit
<1>3. RoutingIInv /\ [RoutingNext]_routingVars => RoutingIInv'
  BY RoutingIInvStep
<1> QED
  BY <1>1, <1>2, <1>3, PTL DEF RoutingSpec
=============================================================================
