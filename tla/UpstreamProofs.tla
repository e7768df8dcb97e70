---------------------------- MODULE UpstreamProofs ----------------------------
(***************************************************************************)
(* Proofs about Upstream, for both kinds of link and any bounds: a link    *)
(* keeps nothing of a socket it has given up, waits for EPOLLOUT exactly    *)
(* while it has bytes to send, and on one socket only ever goes on with    *)
(* what it was writing.                                                    *)
(*                                                                         *)
(* The invariant Sound adds to these the type of the object and what the   *)
(* code goes by without saying so: a stage other than IDLE goes with a     *)
(* socket, so that connect(), which looks at both, never opens a second    *)
(* one over the first (helper_unit.cpp:113).                               *)
(***************************************************************************)
EXTENDS Upstream, SequenceTheorems, TLAPS

\* What is asked of the constants.
Bounds == MaxErrors \in Nat /\ MaxConn \in Nat

Stage ==
  {"IDLE", "CONNECTED", "DATA_SENDING", "SEND_DONE", "DATA_RECVING", "RECV_DONE", "FATAL_ERROR"}

Link ==
  [fd : Nat, stage : Stage, interest : SUBSET {"IN", "OUT"}, armed : BOOLEAN, errors : Nat,
   w : Seq(Byte), r : Seq(Byte), made : Nat, open : SUBSET Nat, wire : [1..MaxConn -> Seq(Byte)]]

\* PendingIsWatched of a link with a socket.
Watched(l) == "IN" \in l.interest /\ ("OUT" \in l.interest <=> l.w # <<>>)

Sound(l) ==
  /\ l \in Link
  /\ l.open = {l.fd} \ {0}
  /\ l.fd = 0 => l.w = <<>> /\ l.r = <<>> /\ l.interest = {}
  /\ l.fd # 0 => Watched(l) /\ l.stage # "IDLE" /\ l.fd \in 1..MaxConn
  /\ l.fd <= l.made /\ l.made <= MaxConn

\* A link with bytes to send.
Ready(l) ==
  /\ l \in Link /\ l.open = {l.fd} /\ l.fd \in 1..MaxConn /\ l.fd <= l.made /\ l.made <= MaxConn
  /\ "IN" \in l.interest /\ l.w # <<>> /\ l.stage # "IDLE"

-----------------------------------------------------------------------------
(* The functions of the object keep it sound. *)

\* A packet is two bytes.
LEMMA BytesTyped ==
  ASSUME NEW n \in Nat, NEW k \in AnyKind, NEW c \in Nat
  PROVE  Bytes(n, k, c) \in Seq(Byte) /\ Len(Bytes(n, k, c)) = 2 /\ Bytes(n, k, c) # <<>>
<1> DEFINE a == [packet |-> n, half |-> 1, kind |-> k, socket |-> c]
           b == [packet |-> n, half |-> 2, kind |-> k, socket |-> c]
<1>1. a \in Byte /\ b \in Byte
  BY DEF Byte
<1> HIDE DEF a, b
<1>2. <<a, b>> \in Seq(Byte) /\ Len(<<a, b>>) = 2 /\ <<a, b>> # <<>>
  BY <1>1
<1> QED
  BY <1>2 DEF Bytes, a, b

\* After a reset no queue, event or socket is left.
LEMMA ResetSound ==
  ASSUME NEW l \in Link, l.open \subseteq {l.fd}, l.made <= MaxConn, MaxConn \in Nat
  PROVE  Sound(reset_helper(l)) /\ reset_helper(l).fd = 0
<1> DEFINE x == reset_helper(l)
<1>1. l.open \ {l.fd} = {}
  OBVIOUS
<1>2. x \in Link
  BY <1>1, EmptySeq DEF reset_helper, Link, Stage
<1>3. x.fd = 0 /\ x.w = <<>> /\ x.r = <<>> /\ x.interest = {} /\ x.open = {} /\ x.made = l.made
  BY <1>1 DEF reset_helper, Link
<1>4. l.made \in Nat
  BY DEF Link
<1> HIDE DEF x
<1>5. Sound(x) /\ x.fd = 0
  BY <1>2, <1>3, <1>4 DEF Sound
<1> QED
  BY <1>5 DEF x

\* Nor after the session of a game link is completed.
LEMMA CompleteSound ==
  ASSUME NEW l \in Link, l.open \subseteq {l.fd}, l.made <= MaxConn, MaxConn \in Nat
  PROVE  Sound(complete(l)) /\ complete(l).fd = 0
<1> DEFINE d == reset_helper(l)
           f == Fresh(d.made, d.open, d.wire)
<1>1. Sound(d) /\ d.fd = 0
  BY ResetSound
<1> HIDE DEF d
<1>2. f \in Link
  BY <1>1, EmptySeq DEF Fresh, Sound, Link, Stage
<1>3. f.fd = 0 /\ f.w = <<>> /\ f.r = <<>> /\ f.interest = {} /\ f.open = d.open /\ f.made = d.made
  BY DEF Fresh
<1>4. Sound(f)
  BY <1>1, <1>2, <1>3 DEF Sound
<1> QED
  BY <1>1, <1>3, <1>4 DEF complete, d

\* A sequence cut after its n-th element.
LEMMA SubSeqTyped ==
  ASSUME NEW S, NEW s \in Seq(S), NEW n \in 1..Len(s)
  PROVE  /\ SubSeq(s, 1, n) \in Seq(S) /\ SubSeq(s, n + 1, Len(s)) \in Seq(S)
         /\ Len(SubSeq(s, 1, n)) = n
         /\ Len(SubSeq(s, n + 1, Len(s))) = Len(s) - n
         /\ SubSeq(s, n + 1, Len(s)) = <<>> <=> n = Len(s)
         /\ s = SubSeq(s, 1, n) \o SubSeq(s, n + 1, Len(s))
<1> DEFINE a == SubSeq(s, 1, n)
           b == SubSeq(s, n + 1, Len(s))
<1>0. Len(s) \in Nat /\ \A i \in 1..Len(s) : s[i] \in S
  BY LenProperties, ElementOfSeq
<1>1. a \in Seq(S) /\ Len(a) = n /\ \A i \in 1..n : a[i] = s[i]
  BY <1>0, SubSeqProperties
<1>2. b \in Seq(S) /\ Len(b) = Len(s) - n /\ \A i \in 1..Len(s)-n : b[i] = s[n + i]
  <2>1. \A i \in n+1..Len(s) : s[i] \in S
    BY <1>0
  <2>2. b \in Seq(S) /\ Len(b) = (IF n + 1 <= Len(s) THEN Len(s) - (n + 1) + 1 ELSE 0)
        /\ \A i \in 1..Len(s)-(n+1)+1 : b[i] = s[n+1+i-1]
    BY <1>0, <2>1, SubSeqProperties
  <2> QED
    BY <1>0, <2>2
<1> HIDE DEF a, b
<1>3. b = <<>> <=> n = Len(s)
  BY <1>0, <1>2, EmptySeq
<1>4. s = a \o b
  <2>1. a \o b \in Seq(S) /\ Len(a \o b) = Len(s)
    BY <1>0, <1>1, <1>2, ConcatProperties
  <2>2. ASSUME NEW i \in 1..Len(s) PROVE (a \o b)[i] = s[i]
    <3>1. (a \o b)[i] = IF i <= n THEN a[i] ELSE b[i - n]
      BY <1>0, <1>1, <1>2, ConcatProperties
    <3>2. CASE i <= n
      BY <3>1, <3>2, <1>0, <1>1
    <3>3. CASE ~ i <= n
      <4>1. i - n \in 1..Len(s) - n /\ n + (i - n) = i
        BY <3>3, <1>0
      <4> QED
        BY <3>1, <3>3, <4>1, <1>2
    <3> QED
      BY <3>2, <3>3
  <2> QED
    BY <2>1, <2>2, SeqEqual
<1> QED
  BY <1>1, <1>2, <1>3, <1>4 DEF a, b

\* The socket took n bytes: EPOLLOUT is asked for if some are left.
LEMMA TookSound ==
  ASSUME NEW l, Ready(l), MaxConn \in Nat, NEW n \in 1..Len(l.w)
  PROVE  Sound(SendTook(l, n)) /\ SendTook(l, n).fd = l.fd
<1> DEFINE x == SendTook(l, n)
<1>1. /\ SubSeq(l.w, 1, n) \in Seq(Byte) /\ SubSeq(l.w, n + 1, Len(l.w)) \in Seq(Byte)
      /\ SubSeq(l.w, n + 1, Len(l.w)) = <<>> <=> n = Len(l.w)
  BY SubSeqTyped DEF Ready, Link
<1>2. l.wire[l.fd] \o SubSeq(l.w, 1, n) \in Seq(Byte)
  BY <1>1 DEF Ready, Link
<1> DEFINE st == IF n = Len(l.w) THEN "SEND_DONE" ELSE "DATA_SENDING"
           ev == IF n = Len(l.w) THEN l.interest \ {"OUT"} ELSE l.interest \cup {"OUT"}
           rest == SubSeq(l.w, n + 1, Len(l.w))
           wr == [l.wire EXCEPT ![l.fd] = @ \o SubSeq(l.w, 1, n)]
<1>a. l \in Link /\ st \in Stage /\ ev \in SUBSET {"IN", "OUT"} /\ rest \in Seq(Byte)
  BY <1>1 DEF Ready, Link, Stage
<1>b. wr \in [1..MaxConn -> Seq(Byte)]
  BY <1>2 DEF Ready, Link
<1>4. x \in Link
  <2>1. x = [l EXCEPT !.w = rest, !.wire = wr, !.errors = 0, !.interest = ev, !.stage = st]
    BY <1>a DEF SendTook, Link
  <2> HIDE DEF rest, wr, ev, st, x
  <2>2. [l EXCEPT !.w = rest, !.wire = wr, !.errors = 0, !.interest = ev, !.stage = st] \in Link
    BY <1>a, <1>b DEF Link
  <2> QED
    BY <2>1, <2>2
<1>5. /\ x.fd = l.fd /\ x.open = l.open /\ x.made = l.made
      /\ x.w = SubSeq(l.w, n + 1, Len(l.w)) /\ x.stage # "IDLE"
      /\ x.interest = IF n = Len(l.w) THEN l.interest \ {"OUT"} ELSE l.interest \cup {"OUT"}
  BY DEF Ready, Link, SendTook
<1> HIDE DEF x
<1>6. Sound(x) /\ x.fd = l.fd
  BY <1>1, <1>4, <1>5 DEF Sound, Ready, Watched
<1> QED
  BY <1>6 DEF x

\* Whatever a send comes to.
LEMMA SendSound ==
  ASSUME NEW l, Ready(l), Bounds, NEW x \in send_to_cgi(l)
  PROVE  Sound(x) /\ x.fd \in {0, l.fd}
<1>1. x = SendBlocked(l) \/ x = SendFailed(l) \/ \E n \in 1..Len(l.w) : x = SendTook(l, n)
  BY DEF send_to_cgi, Ready
<1> DEFINE d == reset_helper(l)
<1>2. Sound(d) /\ d.fd = 0
  BY ResetSound DEF Ready, Bounds
<1> HIDE DEF d
<1>3. ASSUME NEW e \in Nat
      PROVE  Sound([d EXCEPT !.stage = "FATAL_ERROR", !.errors = e])
             /\ [d EXCEPT !.stage = "FATAL_ERROR", !.errors = e].fd = 0
  BY <1>2, <1>3 DEF Sound, Link, Stage
<1>4. CASE x = SendBlocked(l)
  <2>1. CASE l.errors + 1 >= MaxErrors
    <3>1. x = [d EXCEPT !.stage = "FATAL_ERROR", !.errors = MaxErrors]
      BY <1>4, <2>1 DEF SendBlocked, d
    <3> QED
      BY <3>1, <1>3 DEF Bounds
  <2>2. CASE ~ (l.errors + 1 >= MaxErrors)
    <3>1. x = [l EXCEPT !.errors = @ + 1, !.interest = @ \cup {"OUT"}]
      BY <1>4, <2>2 DEF SendBlocked
    <3>a. l.errors + 1 \in Nat /\ l.interest \cup {"OUT"} \in SUBSET {"IN", "OUT"}
      BY DEF Ready, Link
    <3>2. x \in Link
      BY <3>1, <3>a DEF Ready, Link
    <3>3. /\ x.fd = l.fd /\ x.open = l.open /\ x.made = l.made /\ x.w = l.w
          /\ x.stage = l.stage /\ x.interest = l.interest \cup {"OUT"}
      BY <3>1 DEF Ready, Link
    <3> QED
      BY <3>2, <3>3 DEF Sound, Ready, Watched
  <2> QED
    BY <2>1, <2>2
<1>5. CASE x = SendFailed(l)
  <2>1. x = [d EXCEPT !.stage = "FATAL_ERROR"]
    BY <1>5 DEF SendFailed, d
  <2> QED
    BY <2>1, <1>2 DEF Sound, Link, Stage
<1>6. CASE \E n \in 1..Len(l.w) : x = SendTook(l, n)
  BY <1>6, TookSound DEF Bounds
<1> QED
  BY <1>1, <1>4, <1>5, <1>6

\* A packet given to a link, and the connection it may need.
LEMMA LogicSound ==
  ASSUME NEW l, Sound(l), Bounds, NEW n \in Nat, l.fd # 0 \/ l.made < MaxConn,
         NEW x \in send_to_logic(append_pkg(l, n))
  PROVE  Sound(x)
<1> DEFINE p == append_pkg(l, n)
           a == [p EXCEPT !.interest = @ \cup {"IN"}]
           c == [connect(a) EXCEPT !.armed = TRUE]
<1>1. Bytes(n, "plain", 0) \in Seq(Byte) /\ Bytes(n, "plain", 0) # <<>>
  BY BytesTyped DEF AnyKind
<1>2. l.w \o Bytes(n, "plain", 0) \in Seq(Byte) /\ l.w \o Bytes(n, "plain", 0) # <<>>
  BY <1>1, ConcatProperties, ConcatEqualIffEmpty DEF Sound, Link
<1>3. p \in Link /\ p.w # <<>> /\ p.fd = l.fd /\ p.open = l.open /\ p.made = l.made
      /\ p.stage = l.stage /\ p.interest = l.interest
  BY <1>2 DEF append_pkg, Sound, Link
<1> HIDE DEF p
<1>4. p.interest \cup {"IN"} \in SUBSET {"IN", "OUT"}
  BY <1>3 DEF Link
<1>5. a \in Link /\ a.w # <<>> /\ a.fd = l.fd /\ a.open = l.open /\ a.made = l.made
      /\ a.stage = l.stage /\ "IN" \in a.interest
  BY <1>3, <1>4 DEF Link
<1>6. x \in send_to_cgi(c) \/ (l.fd = 0 /\ x = reset_helper(tcp_connect(a)))
  BY <1>3 DEF send_to_logic, p, Sound, Dials
<1> HIDE DEF a
<1> DEFINE t == tcp_connect(a)
<1>7. ASSUME l.fd = 0
      PROVE  /\ t \in Link /\ t.w # <<>> /\ t.fd = l.made + 1 /\ t.made = l.made + 1
             /\ t.open = {l.made + 1} /\ "IN" \in t.interest /\ t.fd \in 1..MaxConn
             /\ Dials(a)
  <2>1. l.made + 1 \in Nat /\ a.open \cup {l.made + 1} \in SUBSET Nat /\ l.open = {}
    BY <1>5, <1>7 DEF Sound, Link
  <2>2. t = [a EXCEPT !.made = l.made + 1, !.fd = l.made + 1, !.open = @ \cup {l.made + 1}]
    BY <1>5 DEF tcp_connect, Link
  <2>3. t \in Link
    BY <1>5, <2>1, <2>2 DEF Link
  <2>4. t.w = a.w /\ t.fd = l.made + 1 /\ t.made = l.made + 1 /\ t.open = {l.made + 1}
        /\ t.interest = a.interest
    BY <1>5, <2>1, <2>2 DEF Link
  <2>5. l.made + 1 \in 1..MaxConn
    BY <1>7 DEF Sound, Link, Bounds
  <2> QED
    BY <1>5, <1>7, <2>3, <2>4, <2>5 DEF Dials
<1>8. ASSUME l.fd # 0 PROVE ~ Dials(a)
  BY <1>5, <1>8 DEF Sound, Dials
<1>9. Ready(c)
  <2> DEFINE b == IF Dials(a) THEN t ELSE a
  <2>1. /\ b \in Link /\ b.w # <<>> /\ b.open = {b.fd} /\ b.fd \in 1..MaxConn
        /\ b.fd <= b.made /\ b.made <= MaxConn /\ "IN" \in b.interest
    <3>1. CASE l.fd = 0
      <4>1. l.made + 1 \in Nat
        BY DEF Sound, Link
      <4>2. t.fd <= t.made /\ t.made <= MaxConn /\ t.open = {t.fd}
        BY <1>7, <3>1, <4>1 DEF Bounds
      <4> QED
        BY <1>7, <3>1, <4>2
    <3>2. CASE l.fd # 0
      BY <1>5, <1>8, <3>2 DEF Sound, Link
    <3> QED
      BY <3>1, <3>2
  <2>2. c = [b EXCEPT !.stage = "CONNECTED", !.armed = TRUE]
    BY <2>1 DEF connect, Link
  <2> HIDE DEF b, c
  <2>3. c \in Link
    BY <2>1, <2>2 DEF Link, Stage
  <2>4. c.w = b.w /\ c.open = b.open /\ c.fd = b.fd /\ c.made = b.made
        /\ c.interest = b.interest /\ c.stage = "CONNECTED"
    BY <2>1, <2>2 DEF Link
  <2> QED
    BY <2>1, <2>3, <2>4 DEF Ready
<1>10. CASE x \in send_to_cgi(c)
  BY <1>9, <1>10, SendSound
<1>11. CASE l.fd = 0 /\ x = reset_helper(tcp_connect(a))
  BY <1>7, <1>11, ResetSound DEF Bounds
<1> QED
  BY <1>6, <1>10, <1>11

\* A packet is taken off the input queue.
LEMMA SkippedSound ==
  ASSUME NEW l, Sound(l)
  PROVE  Sound(Skipped(l)) /\ Skipped(l).fd = l.fd
<1> DEFINE q == SubSeq(l.r, 3, Len(l.r))
           x == Skipped(l)
<1>1. l \in Link /\ l.r \in Seq(Byte) /\ Len(l.r) \in Nat /\ \A i \in 1..Len(l.r) : l.r[i] \in Byte
  BY ElementOfSeq, LenProperties DEF Sound, Link
<1>2. q \in Seq(Byte)
  BY <1>1, SubSeqProperties
<1>3. l.r = <<>> => q = <<>>
  BY <1>1, EmptySeq, SubSeqEmpty
<1>4. x = [l EXCEPT !.r = q]
  BY DEF Skipped
<1> HIDE DEF q, x
<1>5. x \in Link
  BY <1>1, <1>2, <1>4 DEF Link
<1>6. x.fd = l.fd /\ x.open = l.open /\ x.made = l.made /\ x.w = l.w /\ x.r = q
      /\ x.interest = l.interest /\ x.stage = l.stage
  BY <1>1, <1>4 DEF Link
<1>7. Sound(x) /\ x.fd = l.fd
  BY <1>3, <1>5, <1>6 DEF Sound, Watched
<1> QED
  BY <1>7 DEF x

\* Timer, input queue and a stage that is not IDLE are of no account, while there is a socket.
LEMMA TouchedSound ==
  ASSUME NEW l, Sound(l), NEW b \in BOOLEAN, NEW st \in Stage \ {"IDLE"}, NEW q \in Seq(Byte)
  PROVE  /\ Sound([l EXCEPT !.armed = b])
         /\ Sound([l EXCEPT !.stage = st])
         /\ l.fd # 0 => Sound([l EXCEPT !.armed = b, !.stage = st])
         /\ l.fd # 0 => Sound([l EXCEPT !.armed = b, !.r = q])
<1>1. l \in Link
  BY DEF Sound
<1>2. /\ [l EXCEPT !.armed = b] \in Link
      /\ [l EXCEPT !.stage = st] \in Link
      /\ [l EXCEPT !.armed = b, !.stage = st] \in Link
      /\ [l EXCEPT !.armed = b, !.r = q] \in Link
  BY <1>1 DEF Link
<1> QED
  BY <1>1, <1>2 DEF Sound, Watched, Link

-----------------------------------------------------------------------------
IInv ==
  /\ Sound(link)
  /\ inbound \in Seq(Byte)
  /\ queued \in Nat /\ served \in Nat

\* A new link is sound.
LEMMA IInvInit == Bounds /\ LinkInit => IInv
<1> SUFFICES ASSUME Bounds, LinkInit PROVE IInv
  OBVIOUS
<1> DEFINE W == [c \in 1..MaxConn |-> <<>>]
<1>1. W \in [1..MaxConn -> Seq(Byte)] /\ {} \in SUBSET Nat /\ <<>> \in Seq(Byte)
  BY EmptySeq
<1> HIDE DEF W
<1>2. Fresh(0, {}, W) \in Link
  BY <1>1 DEF Fresh, Link, Stage
<1>3. Sound(Fresh(0, {}, W))
  BY <1>2 DEF Sound, Fresh, Bounds
<1> QED
  BY <1>1, <1>3 DEF LinkInit, IInv, W

\* Every call and notification keeps the link sound.
LEMMA IInvStep == Bounds /\ IInv /\ [LinkNext]_linkVars => IInv'
<1> SUFFICES ASSUME Bounds, IInv, [LinkNext]_linkVars PROVE IInv'
  OBVIOUS
<1>0. Sound(link) /\ link \in Link /\ link.fd \in Nat /\ link.open \subseteq {link.fd} /\ link.made <= MaxConn
  BY DEF IInv, Sound, Link
<1>s. "RECV_DONE" \in Stage \ {"IDLE"} /\ "DATA_RECVING" \in Stage \ {"IDLE"} /\ <<>> \in Seq(Byte)
  BY EmptySeq DEF Stage
<1>a. ASSUME NEW l, Sound(l), Become(l) PROVE Sound(link') /\ inbound' \in Seq(Byte)
  BY <1>a, EmptySeq DEF Become, IInv
<1>b. Sound(complete(link))
  BY <1>0, CompleteSound DEF Bounds
<1>c. ASSUME NEW l, Sound(l) PROVE Sound(Settled(l))
  BY <1>c, CompleteSound DEF Settled, Sound, Bounds
<1>1. CASE Send
  BY <1>0, <1>1, <1>a, <1>c, LogicSound DEF Send, IInv
<1>2. CASE ServerSends
  <2>1. served' \in Nat
    BY <1>2 DEF ServerSends, IInv
  <2>2. PICK k \in Kind : inbound' = inbound \o Bytes(served', k, link.fd)
    BY <1>2 DEF ServerSends
  <2>3. inbound' \in Seq(Byte)
    <3>1. k \in AnyKind /\ link.fd \in Nat
      BY <2>2, <1>0 DEF Kind, AnyKind
    <3> QED
      BY <2>1, <2>2, <3>1, BytesTyped, ConcatProperties DEF IInv
  <2> QED
    BY <1>2, <2>1, <2>3 DEF ServerSends, IInv
<1>3. CASE \E n \in 1..Len(inbound) : Recv(n)
  <2>1. PICK n \in 1..Len(inbound) : Recv(n)
    BY <1>3
  <2>2. SubSeq(inbound, 1, n) \in Seq(Byte) /\ SubSeq(inbound, n + 1, Len(inbound)) \in Seq(Byte)
    BY SubSeqTyped DEF IInv
  <2>3. link.r \o SubSeq(inbound, 1, n) \in Seq(Byte)
    BY <2>2, <1>0, ConcatProperties DEF Link
  <2>4. link' = [link EXCEPT !.armed = TRUE, !.r = link.r \o SubSeq(inbound, 1, n)]
    BY <2>1, <1>0 DEF Recv, update_timer, Link
  <2>5. Sound(link')
    <3>1. link.fd # 0 => Sound([link EXCEPT !.armed = TRUE, !.r = link.r \o SubSeq(inbound, 1, n)])
      BY <1>0, <1>s, <2>3, TouchedSound
    <3> QED
      BY <2>1, <2>4, <3>1 DEF Recv
  <2> QED
    BY <2>1, <2>2, <2>5 DEF Recv, IInv
<1>4. CASE RecvNothing
  <2>1. [update_timer(link) EXCEPT !.stage = "DATA_RECVING"] = [link EXCEPT !.armed = TRUE, !.stage = "DATA_RECVING"]
    BY <1>0 DEF update_timer, Link
  <2>2. Sound([link EXCEPT !.armed = TRUE, !.stage = "DATA_RECVING"])
    BY <1>0, <1>4, TouchedSound, EmptySeq DEF RecvNothing, Stage
  <2> QED
    BY <1>4, <2>1, <2>2, <1>a DEF RecvNothing, IInv
<1>d. Sound(update_timer(link)) /\ Sound([link EXCEPT !.armed = FALSE])
  <2>1. \A b \in BOOLEAN : Sound([link EXCEPT !.armed = b])
    BY <1>0, <1>s, TouchedSound
  <2> QED
    BY <2>1 DEF update_timer
<1>e. ASSUME NEW l, Sound(l) PROVE Sound(complete(l)) /\ Sound(reset_helper(l))
  BY <1>e, CompleteSound, ResetSound DEF Sound, Bounds
<1>5. CASE RecvFails
  BY <1>5, <1>a, <1>d, <1>e DEF RecvFails, IInv
<1>6. CASE OutputNotify
  <2>1. PICK l \in send_to_cgi(update_timer(link)) : Become(Settled(l))
    BY <1>6 DEF OutputNotify
  <2>2. Ready(update_timer(link))
    <3>1. link.fd # 0 /\ "OUT" \in link.interest
      BY <1>6, <1>0 DEF OutputNotify, Sound
    <3>2. update_timer(link).w = link.w /\ update_timer(link).interest = link.interest
          /\ update_timer(link).fd = link.fd /\ update_timer(link) \in Link
      BY <1>0, <1>d DEF update_timer, Link, Sound
    <3> QED
      BY <3>1, <3>2, <1>0, <1>d DEF Ready, Sound, Watched
  <2>3. Sound(l)
    BY <2>1, <2>2, SendSound
  <2> QED
    BY <1>6, <2>1, <2>3, <1>a, <1>c DEF OutputNotify, IInv
<1>7. CASE HangupNotify
  BY <1>7, <1>d DEF HangupNotify, IInv
<1>8. CASE TimerNotify
  BY <1>8, <1>a, <1>d, <1>e DEF TimerNotify, IInv
<1>9. CASE Processed
  <2>1. Sound([link EXCEPT !.stage = "RECV_DONE"])
    BY <1>0, TouchedSound, EmptySeq DEF Stage
  <2> QED
    BY <1>9, <2>1, <1>a, <1>b DEF Processed, IInv
<1>10. CASE GivesUp
  BY <1>10, <1>a, <1>b DEF GivesUp, IInv
<1>11. CASE Plain
  BY <1>11, <1>0, <1>a, SkippedSound DEF Plain, Handles, IInv
<1>12. CASE NoticeElsewhere
  BY <1>12, <1>0, <1>a, SkippedSound DEF NoticeElsewhere, Handles, IInv
<1>13. CASE Notice
  <2>1. PICK l \in send_to_logic(append_pkg(link, queued')) : Handles("notice", Skipped(l), unread - 2)
    BY <1>13 DEF Notice
  <2>2. link.fd # 0
    BY <2>1, <1>0 DEF Handles, Sound
  <2>3. queued' \in Nat
    BY <1>13 DEF Notice, IInv
  <2>4. Sound(l)
    BY <2>1, <2>2, <2>3, <1>0, LogicSound
  <2> QED
    BY <2>1, <2>3, <2>4, <1>a, SkippedSound DEF Handles, IInv
<1>14. CASE Leave
  BY <1>14, <1>0, <1>a, <1>e, SkippedSound DEF Leave, Handles, IInv
<1>15. CASE UNCHANGED linkVars
  BY <1>15 DEF linkVars, IInv
<1> QED
  BY <1>1, <1>2, <1>3, <1>4, <1>5, <1>6, <1>7, <1>8, <1>9, <1>10, <1>11, <1>12, <1>13, <1>14, <1>15 DEF LinkNext

\* No link keeps bytes, interest in events or the descriptor of a socket it has given
\* up, in whatever order calls, packets, hang-ups and timers reach it
\* (helper_unit.cpp:54-76); the count of blocked sends and the timer stay.
THEOREM NothingKeptTheorem ==
  ASSUME Bounds
  PROVE  LinkSpec => []NothingKept
<1>1. IInv => NothingKept
  BY DEF IInv, Sound, NothingKept, NoSocketLost, DownHoldsNothing
<1>2. LinkInit => IInv
  BY IInvInit
<1>3. IInv /\ [LinkNext]_linkVars => IInv'
  BY IInvStep
<1> QED
  BY <1>1, <1>2, <1>3, PTL DEF LinkSpec

\* A link with a socket listens for input always and for EPOLLOUT exactly while bytes
\* wait (helper_unit.cpp:142-204).
THEOREM PendingIsWatchedTheorem ==
  ASSUME Bounds
  PROVE  LinkSpec => []PendingIsWatched
<1>1. IInv => PendingIsWatched
  BY DEF IInv, Sound, Watched, PendingIsWatched
<1>2. LinkInit => IInv
  BY IInvInit
<1>3. IInv /\ [LinkNext]_linkVars => IInv'
  BY IInvStep
<1> QED
  BY <1>1, <1>2, <1>3, PTL DEF LinkSpec

-----------------------------------------------------------------------------
(* What the link has still to write follows what it wrote. *)

\* All bytes that were given to the socket of l.
Out(l) == l.wire[l.fd] \o l.w

\* x has the socket of l, and what it was given begins with what l was.
Grown(l, x) == \E z \in Seq(Byte) : Out(x) = Out(l) \o z

\* A sequence goes on with whatever is appended.
LEMMA PrefixOfConcat ==
  ASSUME NEW s \in Seq(Byte), NEW z \in Seq(Byte)
  PROVE  IsPrefix(s, s \o z)
<1> DEFINE t == s \o z
<1>1. /\ t \in Seq(Byte) /\ Len(t) = Len(s) + Len(z) /\ Len(s) \in Nat /\ Len(z) \in Nat
      /\ \A i \in 1..Len(s) : t[i] = s[i] /\ i \in 1..Len(t)
  BY ConcatProperties, LenProperties
<1> HIDE DEF t
<1>2. \A i \in 1..Len(s) : s[i] \in Byte /\ t[i] \in Byte
  BY <1>1, ElementOfSeq
<1>3. /\ SubSeq(s, 1, Len(s)) \in Seq(Byte) /\ Len(SubSeq(s, 1, Len(s))) = Len(s)
      /\ \A i \in 1..Len(s) : SubSeq(s, 1, Len(s))[i] = s[i]
  BY <1>1, <1>2, SubSeqProperties
<1>4. /\ SubSeq(t, 1, Len(s)) \in Seq(Byte) /\ Len(SubSeq(t, 1, Len(s))) = Len(s)
      /\ \A i \in 1..Len(s) : SubSeq(t, 1, Len(s))[i] = t[i]
  BY <1>1, <1>2, SubSeqProperties
<1>5. SubSeq(s, 1, Len(s)) = SubSeq(t, 1, Len(s))
  BY <1>1, <1>3, <1>4, SeqEqual
<1> QED
  BY <1>1, <1>5 DEF IsPrefix, t

\* A send on the socket moves bytes from the queue to the wire.
LEMMA SendKeeps ==
  ASSUME NEW l, Ready(l), Bounds, NEW x \in send_to_cgi(l), x.fd = l.fd
  PROVE  Out(x) = Out(l)
<1>1. x = SendBlocked(l) \/ x = SendFailed(l) \/ \E n \in 1..Len(l.w) : x = SendTook(l, n)
  BY DEF send_to_cgi, Ready
<1>2. l \in Link /\ l.fd # 0
  BY DEF Ready
<1> DEFINE d == reset_helper(l)
<1>3. d.fd = 0 /\ d \in Link
  BY <1>2, ResetSound DEF Ready, Bounds, Sound
<1> HIDE DEF d
<1>4. \A e : [d EXCEPT !.stage = "FATAL_ERROR", !.errors = e].fd = 0 /\ [d EXCEPT !.stage = "FATAL_ERROR"].fd = 0
  BY <1>3 DEF Link
<1>5. x # SendFailed(l)
  BY <1>2, <1>4 DEF SendFailed, d
<1>6. CASE x = SendBlocked(l)
  <2>1. x = [l EXCEPT !.errors = @ + 1, !.interest = @ \cup {"OUT"}]
    BY <1>2, <1>4, <1>6 DEF SendBlocked, d
  <2> QED
    BY <1>2, <2>1 DEF Link, Out
<1>7. ASSUME NEW n \in 1..Len(l.w), x = SendTook(l, n) PROVE Out(x) = Out(l)
  <2> DEFINE a == SubSeq(l.w, 1, n)
             b == SubSeq(l.w, n + 1, Len(l.w))
             v == l.wire[l.fd]
  <2>1. a \in Seq(Byte) /\ b \in Seq(Byte) /\ l.w = a \o b
    BY <1>2, SubSeqTyped DEF Link
  <2>2. v \in Seq(Byte) /\ l.fd \in 1..MaxConn /\ l.wire \in [1..MaxConn -> Seq(Byte)]
    BY DEF Ready, Link
  <2>3. x.fd = l.fd /\ x.w = b /\ x.wire = [l.wire EXCEPT ![l.fd] = v \o a]
    BY <1>2, <1>7 DEF SendTook, Link
  <2> HIDE DEF a, b, v
  <2>4. x.wire[x.fd] = v \o a
    BY <2>2, <2>3
  <2>5. (v \o a) \o b = v \o (a \o b)
    BY <2>1, <2>2, ConcatAssociative
  <2> QED
    BY <2>1, <2>3, <2>4, <2>5 DEF Out, v
<1> QED
  BY <1>1, <1>5, <1>6, <1>7

\* A packet given to a link with a socket is queued behind all others.
LEMMA LogicKeeps ==
  ASSUME NEW l, Sound(l), l.fd # 0, Bounds, NEW n \in Nat,
         NEW x \in send_to_logic(append_pkg(l, n)), x.fd = l.fd
  PROVE  Grown(l, x)
<1> DEFINE z == Bytes(n, "plain", 0)
           p == append_pkg(l, n)
           a == [p EXCEPT !.interest = @ \cup {"IN"}]
           c == [connect(a) EXCEPT !.armed = TRUE]
<1>1. z \in Seq(Byte) /\ z # <<>>
  BY BytesTyped DEF AnyKind
<1>2. l \in Link /\ l.w \in Seq(Byte) /\ l.fd \in 1..MaxConn /\ l.wire[l.fd] \in Seq(Byte)
  BY DEF Sound, Link
<1> HIDE DEF z
<1>3. l.w \o z \in Seq(Byte) /\ l.w \o z # <<>>
  BY <1>1, <1>2, ConcatProperties, ConcatEqualIffEmpty
<1>4. p = [l EXCEPT !.w = l.w \o z]
  BY <1>2 DEF append_pkg, Link, z
<1>5. /\ p \in Link /\ p.w = l.w \o z /\ p.fd = l.fd /\ p.stage = l.stage /\ p.wire = l.wire
      /\ p.open = l.open /\ p.made = l.made /\ p.interest = l.interest
  BY <1>2, <1>3, <1>4 DEF Link
<1> HIDE DEF p
<1>6. /\ a \in Link /\ a.w = p.w /\ a.fd = l.fd /\ a.stage = l.stage /\ a.wire = l.wire
      /\ a.open = l.open /\ a.made = l.made /\ "IN" \in a.interest
  BY <1>2, <1>5 DEF Link
<1>7. ~ Dials(p) /\ ~ Dials(a)
  BY <1>5, <1>6 DEF Dials, Sound
<1>8. x \in send_to_cgi(c)
  BY <1>7 DEF send_to_logic, p
<1> HIDE DEF a
<1>9. c = [a EXCEPT !.stage = "CONNECTED", !.armed = TRUE]
  BY <1>6, <1>7 DEF connect, Link
<1> HIDE DEF c
<1>10. /\ c \in Link /\ c.w = p.w /\ c.fd = l.fd /\ c.stage = "CONNECTED" /\ c.wire = l.wire
       /\ c.open = l.open /\ c.made = l.made /\ "IN" \in c.interest
  BY <1>6, <1>9 DEF Link, Stage
<1>11. Ready(c)
  BY <1>2, <1>3, <1>5, <1>10 DEF Ready, Sound
<1>12. Out(x) = Out(c)
  BY <1>8, <1>10, <1>11, SendKeeps
<1>13. Out(c) = Out(l) \o z
  <2> DEFINE u == l.wire[l.fd]
             v == l.w
  <2>1. u \in Seq(Byte) /\ v \in Seq(Byte)
    BY <1>2
  <2> HIDE DEF u, v
  <2>2. (u \o v) \o z = u \o (v \o z)
    BY <1>1, <2>1, ConcatAssociative
  <2> QED
    BY <1>5, <1>10, <2>2 DEF Out, u, v
<1> QED
  BY <1>1, <1>12, <1>13 DEF Grown

\* Steps that touch neither queue, wire nor socket.
LEMMA SameKeeps ==
  ASSUME NEW l, NEW x, Sound(l), l.fd # 0, x.w = l.w, x.wire = l.wire, x.fd = l.fd
  PROVE  Grown(l, x)
<1>1. Out(x) = Out(l) /\ Out(l) \in Seq(Byte) /\ <<>> \in Seq(Byte)
  BY ConcatProperties, EmptySeq DEF Out, Sound, Link
<1> QED
  BY <1>1, ConcatEmptySeq DEF Grown

\* No step that leaves the link its socket takes back a byte.
LEMMA StepKeeps ==
  ASSUME Bounds, IInv, [LinkNext]_linkVars, link'.fd = link.fd, link.fd # 0
  PROVE  Grown(link, link')
<1>0. Sound(link) /\ link \in Link /\ link.open \subseteq {link.fd} /\ link.made <= MaxConn
  BY DEF IInv, Sound
<1>a. ASSUME NEW l \in Link, l.open \subseteq {l.fd}, l.made <= MaxConn
      PROVE  complete(l).fd = 0 /\ reset_helper(l).fd = 0
  BY <1>a, CompleteSound, ResetSound DEF Bounds
<1>b. ASSUME NEW l, Become(Settled(l)) PROVE link' = l
  <2>1. CASE Game /\ l.fd = 0
    <3>1. link' = Fresh(reset_helper(l).made, reset_helper(l).open, reset_helper(l).wire)
      BY <1>b, <2>1 DEF Become, Settled, complete
    <3>2. link'.fd = 0
      BY <3>1 DEF Fresh
    <3> QED
      BY <3>2
  <2>2. CASE ~ (Game /\ l.fd = 0)
    BY <1>b, <2>2 DEF Become, Settled
  <2> QED
    BY <2>1, <2>2
<1>c. ASSUME NEW b \in BOOLEAN, NEW st, NEW q
      PROVE  /\ Grown(link, [link EXCEPT !.armed = b])
             /\ Grown(link, [link EXCEPT !.stage = st])
             /\ Grown(link, [[link EXCEPT !.armed = b] EXCEPT !.stage = st])
             /\ Grown(link, [[link EXCEPT !.armed = b] EXCEPT !.r = q])
             /\ Grown(link, [link EXCEPT !.r = q])
             /\ Grown(link, link)
  <2> DEFINE Same(x) == x.w = link.w /\ x.wire = link.wire /\ x.fd = link.fd
  <2>1. \A x : Same(x) => Grown(link, x)
    BY <1>0, SameKeeps
  <2>2. Same([link EXCEPT !.armed = b]) /\ Same([link EXCEPT !.stage = st])
    BY <1>0 DEF Link
  <2>3. Same([[link EXCEPT !.armed = b] EXCEPT !.stage = st])
    BY <1>0 DEF Link
  <2>4. Same([[link EXCEPT !.armed = b] EXCEPT !.r = q]) /\ Same([link EXCEPT !.r = q])
    BY <1>0 DEF Link
  <2>5. Same(link)
    OBVIOUS
  <2> HIDE DEF Same
  <2> QED
    BY <2>1, <2>2, <2>3, <2>4, <2>5
<1>s. "RECV_DONE" \in Stage \ {"IDLE"} /\ <<>> \in Seq(Byte)
  BY EmptySeq DEF Stage
<1>d. update_timer(link) = [link EXCEPT !.armed = TRUE]
  BY DEF update_timer
<1>e. /\ Sound(update_timer(link)) /\ Sound([link EXCEPT !.armed = FALSE])
      /\ Sound(Skipped(link))
  <2>1. \A b \in BOOLEAN : Sound([link EXCEPT !.armed = b])
    BY <1>0, <1>s, TouchedSound
  <2> QED
    BY <1>0, <2>1, SkippedSound DEF update_timer
<1>f. ASSUME NEW l, Sound(l) PROVE complete(l).fd = 0 /\ reset_helper(l).fd = 0
  BY <1>a, <1>f DEF Sound
<1>1. CASE Send
  <2>1. PICK l \in send_to_logic(append_pkg(link, queued')) : Become(Settled(l))
    BY <1>1 DEF Send
  <2>2. queued' \in Nat
    BY <1>1 DEF Send, IInv
  <2> QED
    BY <1>0, <1>b, <2>1, <2>2, LogicKeeps
<1>2. CASE ServerSends \/ UNCHANGED linkVars
  BY <1>2, <1>0, SameKeeps DEF ServerSends, linkVars
<1>3. CASE \E n \in 1..Len(inbound) : Recv(n)
  <2>1. PICK n \in 1..Len(inbound) : Recv(n)
    BY <1>3
  <2>2. link' = [[link EXCEPT !.armed = TRUE] EXCEPT !.r = @ \o SubSeq(inbound, 1, n)]
    BY <2>1, <1>d DEF Recv
  <2> QED
    BY <2>2, <1>c
<1>4. CASE RecvNothing
  BY <1>4, <1>c, <1>d DEF RecvNothing, Become
<1>5. CASE RecvFails
  BY <1>5, <1>e, <1>f DEF RecvFails, Become
<1>6. CASE OutputNotify
  <2>1. PICK l \in send_to_cgi(update_timer(link)) : Become(Settled(l))
    BY <1>6 DEF OutputNotify
  <2> DEFINE u == update_timer(link)
  <2>2. u \in Link /\ u.w = link.w /\ u.wire = link.wire /\ u.fd = link.fd /\ u.interest = link.interest
        /\ u.open = link.open /\ u.made = link.made /\ u.stage = link.stage
    BY <1>0, <1>d, <1>e DEF Link, Sound
  <2> HIDE DEF u
  <2>3. "OUT" \in link.interest
    BY <1>6 DEF OutputNotify
  <2>4. Ready(u)
    BY <1>0, <2>2, <2>3 DEF Ready, Sound, Watched
  <2>5. Out(l) = Out(u)
    BY <1>b, <2>1, <2>2, <2>4, SendKeeps DEF u
  <2>6. Out(u) = Out(link)
    BY <2>2 DEF Out
  <2>7. Out(link) \in Seq(Byte) /\ <<>> \in Seq(Byte)
    BY <1>0, ConcatProperties, EmptySeq DEF Out, Sound, Link
  <2> QED
    BY <1>b, <2>1, <2>5, <2>6, <2>7, ConcatEmptySeq DEF Grown
<1>7. CASE HangupNotify
  BY <1>7, <1>c, <1>d DEF HangupNotify
<1>8. CASE TimerNotify
  BY <1>8, <1>e, <1>f DEF TimerNotify, Become
<1>9. CASE Processed
  BY <1>9, <1>0, <1>c, <1>f DEF Processed, Become
<1>10. CASE GivesUp
  BY <1>10, <1>0, <1>f DEF GivesUp, Become
<1>11. CASE Plain \/ NoticeElsewhere
  BY <1>11, <1>c DEF Plain, NoticeElsewhere, Handles, Become, Skipped
<1>12. CASE Notice
  <2>1. PICK l \in send_to_logic(append_pkg(link, queued')) : Handles("notice", Skipped(l), unread - 2)
    BY <1>12 DEF Notice
  <2>2. queued' \in Nat
    BY <1>12 DEF Notice, IInv
  <2>3. Sound(l)
    BY <1>0, <2>1, <2>2, LogicSound
  <2>4. link' = [l EXCEPT !.r = SubSeq(l.r, 3, Len(l.r))]
    BY <2>1, <2>3 DEF Handles, Become, Skipped, Sound, Link
  <2>5. link'.w = l.w /\ link'.wire = l.wire /\ link'.fd = l.fd
    BY <2>3, <2>4 DEF Sound, Link
  <2>6. Grown(link, l)
    BY <1>0, <2>1, <2>2, <2>5, LogicKeeps
  <2> QED
    BY <2>5, <2>6 DEF Grown, Out
<1>13. CASE Leave
  BY <1>13, <1>e, <1>f DEF Leave, Handles, Become
<1> QED
  BY <1>1, <1>2, <1>3, <1>4, <1>5, <1>6, <1>7, <1>8, <1>9, <1>10, <1>11, <1>12, <1>13 DEF LinkNext

\* While a link keeps its socket, packets leave the queue by being written, all bytes
\* that went before and in order (helper_unit.cpp:54-76, :142-204).
THEOREM LostOnlyWithSocketTheorem ==
  ASSUME Bounds
  PROVE  LinkSpec => LostOnlyWithSocket
<1>1. ASSUME IInv, [LinkNext]_linkVars, link'.fd = link.fd, link.fd # 0
      PROVE  LET before == link.wire[link.fd] \o link.w
                 after == link'.wire[link.fd] \o link'.w
             IN IsPrefix(before, after)
  <2>1. PICK z \in Seq(Byte) : Out(link') = Out(link) \o z
    BY <1>1, StepKeeps DEF Grown
  <2>2. Out(link) \in Seq(Byte)
    BY <1>1, ConcatProperties DEF Out, IInv, Sound, Link
  <2>3. IsPrefix(Out(link), Out(link'))
    BY <2>1, <2>2, PrefixOfConcat
  <2> QED
    BY <1>1, <2>3 DEF Out
<1>2. LinkInit => IInv
  BY IInvInit
<1>3. IInv /\ [LinkNext]_linkVars => IInv'
  BY IInvStep
<1> QED
  BY <1>1, <1>2, <1>3, PTL DEF LinkSpec, LostOnlyWithSocket

-----------------------------------------------------------------------------
(***************************************************************************)
(* The proof that the packets of a link are whole in both directions, for  *)
(* both kinds of link and any bounds.                                      *)
(*                                                                         *)
(* Outwards the invariant counts: what was given to the socket of now is a *)
(* run of packets up to the last that was queued, and what went over the   *)
(* sockets before ends ahead of that run.  Inwards it joins the input      *)
(* queue with what is still on its way: together they are whole packets    *)
(* from the first byte on, and while process_pkg walks through them, its   *)
(* count is the length of the queue, unless the queue is empty because a   *)
(* packet made the link send, and so reset it.                             *)
(***************************************************************************)

\* Whole packets, the last of them number q, each one more than the one before.
Upto(s, q, m) ==
  /\ Len(s) = 2 * m
  /\ \A j \in 1..m : /\ s[2*j-1].half = 1 /\ s[2*j-1].packet = q - m + j
                     /\ s[2*j].half = 2 /\ s[2*j].packet = q - m + j

Run(s, q) == s \in Seq(Byte) /\ \E m \in Nat : Upto(s, q, m)

\* How long the run is.
Given(l) == IF l.fd = 0 THEN 0 ELSE Len(Out(l))

\* The numbers of the packets that bytes on a socket belong to.
Nums(l, c) == {l.wire[c][i].packet : i \in 1..Len(l.wire[c])}

Ordered(l, q) ==
  /\ l.wire \in [1..MaxConn -> Seq(Byte)]
  /\ l.fd # 0 => l.fd = l.made /\ Run(Out(l), q)
  /\ \A c \in 1..MaxConn : c # l.fd => \A p \in Nums(l, c) : 2 * p + Given(l) <= 2 * q
  /\ \A c, d \in 1..MaxConn : c < d => \A p \in Nums(l, c), r \in Nums(l, d) : p < r
  /\ \A c \in 1..MaxConn : c > l.made => l.wire[c] = <<>>

\* A whole packet, one of the first v that the server sent.
Whole(b, v) == \E n \in 1..v, k \in AnyKind, c \in 1..MaxConn : b = Bytes(n, k, c)

AllWhole(s, v, m) == Len(s) = 2 * m /\ \A j \in 1..m : Whole(<<s[2*j-1], s[2*j]>>, v)

Pairs(s, v) == s \in Seq(Byte) /\ \E m \in Nat : AllWhole(s, v, m)

Inward ==
  /\ Pairs(link.r \o inbound, served)
  /\ link.fd = 0 => inbound = <<>>
  /\ notified # "idle" => link.r = <<>> \/ unread = Len(link.r)
  /\ \A i \in 1..Len(handled) : Whole(handled[i], served)
  /\ handled \in Seq(Seq(Byte))

IInv2 == IInv /\ Ordered(link, queued) /\ Inward

-----------------------------------------------------------------------------
(* Bytes. *)

\* The parts of a byte.
LEMMA ByteParts ==
  ASSUME NEW s \in Seq(Byte), NEW i \in 1..Len(s)
  PROVE  s[i] \in Byte /\ s[i].packet \in Nat /\ s[i].half \in 1..2
<1>1. s[i] \in Byte
  BY ElementOfSeq
<1> QED
  BY <1>1 DEF Byte

\* The two of a packet.
LEMMA TwoBytes ==
  ASSUME NEW n \in Nat, NEW k \in AnyKind, NEW c \in Nat
  PROVE  /\ Bytes(n, k, c) \in Seq(Byte) /\ Len(Bytes(n, k, c)) = 2
         /\ Bytes(n, k, c)[1].half = 1 /\ Bytes(n, k, c)[1].packet = n
         /\ Bytes(n, k, c)[2].half = 2 /\ Bytes(n, k, c)[2].packet = n
         /\ Bytes(n, k, c) = <<Bytes(n, k, c)[1], Bytes(n, k, c)[2]>>
<1>1. Bytes(n, k, c) \in Seq(Byte) /\ Len(Bytes(n, k, c)) = 2
  BY BytesTyped
<1> DEFINE a == [packet |-> n, half |-> 1, kind |-> k, socket |-> c]
           b == [packet |-> n, half |-> 2, kind |-> k, socket |-> c]
<1>2. a.half = 1 /\ a.packet = n /\ b.half = 2 /\ b.packet = n
  OBVIOUS
<1> HIDE DEF a, b
<1>3. <<a, b>>[1] = a /\ <<a, b>>[2] = b
  OBVIOUS
<1>4. Bytes(n, k, c) = <<a, b>>
  BY DEF Bytes, a, b
<1> QED
  BY <1>1, <1>2, <1>3, <1>4

\* An index is that of a first or of a second byte.
LEMMA Halves ==
  ASSUME NEW m \in Nat, NEW i \in 1..2*m
  PROVE  \E j \in 1..m : i = 2*j-1 \/ i = 2*j
<1>1. CASE i % 2 = 0
  <2>1. i = 2 * (i \div 2) /\ i \div 2 \in 1..m
    BY <1>1
  <2> QED
    BY <2>1
<1>2. CASE i % 2 = 1
  <2>1. i = 2 * (i \div 2 + 1) - 1 /\ i \div 2 + 1 \in 1..m
    BY <1>2
  <2> QED
    BY <2>1
<1> QED
  BY <1>1, <1>2

\* A run is a sequence of whole packets.
LEMMA RunIsWhole ==
  ASSUME NEW s, NEW q \in Nat, Run(s, q)
  PROVE  WholeSeq(s)
<1>1. PICK m \in Nat : Upto(s, q, m)
  BY DEF Run
<1>0. /\ Len(s) = 2 * m
      /\ \A j \in 1..m : /\ s[2*j-1].half = 1 /\ s[2*j-1].packet = q - m + j
                         /\ s[2*j].half = 2 /\ s[2*j].packet = q - m + j
  BY <1>1 DEF Upto
<1>2. ASSUME NEW i \in 1..Len(s) PROVE s[i].half = IF i % 2 = 1 THEN 1 ELSE 2
  <2>1. PICK j \in 1..m : i = 2*j-1 \/ i = 2*j
    BY <1>0, <1>2, Halves
  <2>2. (2*j-1) % 2 = 1 /\ (2*j) % 2 = 0
    OBVIOUS
  <2> QED
    BY <1>0, <2>1, <2>2
<1>3. ASSUME NEW i \in 1..Len(s)-1
      PROVE  s[i].packet + (IF i % 2 = 1 THEN 0 ELSE 1) = s[i+1].packet
  <2>0. i \in 1..2*m
    BY <1>0
  <2>1. PICK j \in 1..m : i = 2*j-1 \/ i = 2*j
    BY <2>0, Halves
  <2>2. (2*j-1) % 2 = 1 /\ (2*j) % 2 = 0
    OBVIOUS
  <2>3. CASE i = 2*j-1
    <3>1. i + 1 = 2*j
      BY <2>3
    <3> QED
      BY <1>0, <2>2, <2>3, <3>1
  <2>4. CASE i = 2*j
    <3>1. j + 1 \in 1..m /\ i + 1 = 2*(j+1)-1
      BY <1>0, <2>4
    <3>2. s[i+1].packet = q - m + (j + 1) /\ s[i].packet = q - m + j
      BY <1>0, <2>4, <3>1
    <3> QED
      BY <2>2, <2>4, <3>2
  <2> QED
    BY <2>1, <2>3, <2>4
<1>4. Len(s) % 2 = 0
  <2>1. (2 * m) % 2 = 0
    OBVIOUS
  <2> QED
    BY <1>0, <2>1
<1> QED
  BY <1>2, <1>3, <1>4 DEF WholeSeq

\* The numbers in a run.
LEMMA RunBounds ==
  ASSUME NEW s, NEW q \in Nat, Run(s, q), NEW i \in 1..Len(s)
  PROVE  s[i].packet <= q /\ 2 * q - Len(s) < 2 * s[i].packet
<1>1. PICK m \in Nat : Upto(s, q, m)
  BY DEF Run
<1>0. /\ Len(s) = 2 * m
      /\ \A j \in 1..m : /\ s[2*j-1].half = 1 /\ s[2*j-1].packet = q - m + j
                         /\ s[2*j].half = 2 /\ s[2*j].packet = q - m + j
  BY <1>1 DEF Upto
<1>2. PICK j \in 1..m : i = 2*j-1 \/ i = 2*j
  BY <1>0, Halves
<1>3. s[i].packet = q - m + j
  BY <1>0, <1>2
<1> QED
  BY <1>0, <1>3

\* The next packet goes on with a run.
LEMMA RunGrows ==
  ASSUME NEW s, NEW q \in Nat, Run(s, q), NEW k \in AnyKind, NEW c \in Nat
  PROVE  Run(s \o Bytes(q + 1, k, c), q + 1) /\ Len(s \o Bytes(q + 1, k, c)) = Len(s) + 2
<1>1. PICK m \in Nat : Upto(s, q, m)
  BY DEF Run
<1>0. /\ Len(s) = 2 * m
      /\ \A j \in 1..m : /\ s[2*j-1].half = 1 /\ s[2*j-1].packet = q - m + j
                         /\ s[2*j].half = 2 /\ s[2*j].packet = q - m + j
  BY <1>1 DEF Upto
<1> DEFINE b == Bytes(q + 1, k, c)
           t == s \o b
<1>2. /\ b \in Seq(Byte) /\ Len(b) = 2
      /\ b[1].half = 1 /\ b[1].packet = q + 1 /\ b[2].half = 2 /\ b[2].packet = q + 1
  <2>1. q + 1 \in Nat
    OBVIOUS
  <2> QED
    BY <2>1, TwoBytes
<1> HIDE DEF b
<1>3. s \in Seq(Byte)
  BY DEF Run
<1>4. /\ t \in Seq(Byte) /\ Len(t) = 2 * m + 2
      /\ \A i \in 1..2*m+2 : t[i] = IF i <= 2 * m THEN s[i] ELSE b[i - 2 * m]
  <2>1. /\ t \in Seq(Byte) /\ Len(t) = Len(s) + Len(b)
        /\ \A i \in 1..Len(s)+Len(b) : t[i] = IF i <= Len(s) THEN s[i] ELSE b[i - Len(s)]
    BY <1>2, <1>3, ConcatProperties
  <2> QED
    BY <1>0, <1>2, <2>1
<1> HIDE DEF t
<1>5. ASSUME NEW j \in 1..m+1
      PROVE  /\ t[2*j-1].half = 1 /\ t[2*j-1].packet = q + 1 - (m + 1) + j
             /\ t[2*j].half = 2 /\ t[2*j].packet = q + 1 - (m + 1) + j
  <2>1. CASE j \in 1..m
    <3>1. /\ 2*j-1 \in 1..2*m+2 /\ 2*j-1 <= 2 * m /\ 2*j \in 1..2*m+2 /\ 2*j <= 2 * m
          /\ q + 1 - (m + 1) + j = q - m + j
      BY <2>1
    <3>2. t[2*j-1] = s[2*j-1] /\ t[2*j] = s[2*j]
      BY <1>4, <3>1
    <3> QED
      BY <1>0, <2>1, <3>1, <3>2
  <2>2. CASE j = m + 1
    <3>1. /\ 2*j-1 \in 1..2*m+2 /\ ~ 2*j-1 <= 2 * m /\ 2*j \in 1..2*m+2 /\ ~ 2*j <= 2 * m
          /\ 2*j-1 - 2 * m = 1 /\ 2*j - 2 * m = 2 /\ q + 1 - (m + 1) + j = q + 1
      BY <2>2
    <3>2. t[2*j-1] = b[1] /\ t[2*j] = b[2]
      BY <1>4, <3>1
    <3> QED
      BY <1>2, <3>1, <3>2
  <2> QED
    BY <2>1, <2>2
<1>6. m + 1 \in Nat /\ Len(t) = 2 * (m + 1)
  BY <1>4
<1>7. Upto(t, q + 1, m + 1)
  BY <1>5, <1>6 DEF Upto
<1>8. Run(t, q + 1)
  BY <1>4, <1>6, <1>7 DEF Run
<1> QED
  <2>1. Len(t) = Len(s) + 2
    BY <1>0, <1>4
  <2> QED
    BY <1>8, <2>1 DEF t, b

-----------------------------------------------------------------------------
(* What a call makes of the link. *)

\* x has no socket; l may have lost one, x may have tried to make one.
Lost(l, x) == x.fd = 0 /\ x.wire = l.wire /\ l.made \in 0..x.made /\ x.made \in Nat

\* x was given z on the socket of l.
Goes(l, x, z) ==
  /\ l.fd # 0 /\ x.fd = l.fd /\ x.made = l.made /\ Out(x) = Out(l) \o z
  /\ \A c \in 1..MaxConn : c # l.fd => x.wire[c] = l.wire[c]

\* x was given z on a new socket.
Dialled(l, x, z) ==
  /\ l.fd = 0 /\ x.fd = l.made + 1 /\ x.made = l.made + 1 /\ x.fd \in 1..MaxConn /\ Out(x) = z
  /\ \A c \in 1..MaxConn : c # x.fd => x.wire[c] = l.wire[c]

\* What one packet more, or none, leads to.
Onward(l, q, x, p) ==
  /\ p \in {q, q + 1} /\ p \in Nat /\ x.wire \in [1..MaxConn -> Seq(Byte)] /\ x.w \in Seq(Byte)
  /\ \/ Lost(l, x)
     \/ p = q /\ Goes(l, x, <<>>)
     \/ p = q + 1 /\ Goes(l, x, Bytes(p, "plain", 0))
     \/ p = q + 1 /\ Dialled(l, x, Bytes(p, "plain", 0))

\* The numbers on a wire are numbers, and the same on the same wire.
LEMMA NumsTyped ==
  ASSUME NEW l, NEW x, NEW c \in 1..MaxConn, l.wire[c] \in Seq(Byte)
  PROVE  /\ Nums(l, c) \subseteq Nat
         /\ x.wire[c] = l.wire[c] => Nums(x, c) = Nums(l, c)
         /\ l.wire[c] = <<>> <=> Nums(l, c) = {}
<1>1. \A i \in 1..Len(l.wire[c]) : l.wire[c][i].packet \in Nat
  BY ByteParts
<1>2. Nums(l, c) \subseteq Nat
  BY <1>1 DEF Nums
<1>3. x.wire[c] = l.wire[c] => Nums(x, c) = Nums(l, c)
  BY DEF Nums
<1>4. l.wire[c] = <<>> <=> Nums(l, c) = {}
  <2>1. CASE l.wire[c] = <<>>
    BY <2>1 DEF Nums
  <2>2. CASE l.wire[c] # <<>>
    <3>1. 1 \in 1..Len(l.wire[c])
      BY <2>2, EmptySeq, LenProperties
    <3>2. l.wire[c][1].packet \in Nums(l, c)
      BY <3>1 DEF Nums
    <3> QED
      BY <2>2, <3>2
  <2> QED
    BY <2>1, <2>2
<1> QED
  BY <1>2, <1>3, <1>4

\* The numbers on the wire of now.
LEMMA OwnNums ==
  ASSUME NEW l, NEW q \in Nat, l.fd \in 1..MaxConn, l.wire[l.fd] \in Seq(Byte), l.w \in Seq(Byte),
         Run(Out(l), q), NEW p \in Nums(l, l.fd)
  PROVE  p \in Nat /\ p <= q /\ 2 * q - Len(Out(l)) < 2 * p /\ Len(Out(l)) \in Nat
<1> DEFINE v == l.wire[l.fd]
           u == l.w
           s == Out(l)
<1>1. PICK i \in 1..Len(v) : p = v[i].packet
  BY DEF Nums
<1>2. v \in Seq(Byte) /\ u \in Seq(Byte) /\ s = v \o u
  BY DEF Out
<1> HIDE DEF v, u, s
<1>3. /\ s \in Seq(Byte) /\ Len(s) = Len(v) + Len(u) /\ Len(v) \in Nat /\ Len(u) \in Nat
      /\ \A k \in 1..Len(v) : s[k] = v[k]
  BY <1>2, ConcatProperties, LenProperties
<1>4. s[i] = v[i] /\ i \in 1..Len(s)
  BY <1>3
<1>5. Run(s, q)
  BY DEF s
<1>6. s[i].packet <= q /\ 2 * q - Len(s) < 2 * s[i].packet
  BY <1>4, <1>5, RunBounds
<1>7. p \in Nat
  BY <1>1, <1>2, ByteParts
<1>8. p \in Nat /\ p <= q /\ 2 * q - Len(s) < 2 * p /\ Len(s) \in Nat
  BY <1>1, <1>3, <1>6, <1>7
<1> QED
  BY <1>8 DEF s

\* A link in order stays in order.
LEMMA OnwardKeeps ==
  ASSUME NEW l, Sound(l), NEW q \in Nat, Ordered(l, q), NEW x, NEW p, Onward(l, q, x, p), Bounds
  PROVE  Ordered(x, p)
<1>1. /\ l.wire \in [1..MaxConn -> Seq(Byte)] /\ l.w \in Seq(Byte) /\ l.made \in Nat /\ l.fd \in Nat
      /\ MaxConn \in Nat /\ p \in Nat /\ p \in {q, q + 1} /\ x.wire \in [1..MaxConn -> Seq(Byte)]
      /\ l.fd # 0 => l.fd \in 1..MaxConn
  BY DEF Onward, Sound, Link, Bounds
<1>2. ASSUME NEW c \in 1..MaxConn
      PROVE  /\ Nums(l, c) \subseteq Nat /\ Nums(x, c) \subseteq Nat
             /\ x.wire[c] = l.wire[c] => Nums(x, c) = Nums(l, c)
             /\ l.wire[c] = <<>> <=> Nums(l, c) = {}
  BY <1>1, NumsTyped
<1>3. /\ l.fd # 0 => l.fd = l.made /\ Run(Out(l), q)
      /\ \A c \in 1..MaxConn : c # l.fd => \A n \in Nums(l, c) : 2 * n + Given(l) <= 2 * q
      /\ \A c, d \in 1..MaxConn : c < d => \A n \in Nums(l, c), r \in Nums(l, d) : n < r
      /\ \A c \in 1..MaxConn : c > l.made => l.wire[c] = <<>>
  BY DEF Ordered
<1>4. l.fd # 0 => /\ Len(Out(l)) \in Nat
                  /\ \A n \in Nums(l, l.fd) : n <= q /\ 2 * q - Len(Out(l)) < 2 * n
  <2> HAVE l.fd # 0
  <2>1. Run(Out(l), q) /\ l.fd \in 1..MaxConn /\ l.wire[l.fd] \in Seq(Byte)
    BY <1>1, <1>3
  <2>2. Len(Out(l)) \in Nat
    BY <2>1, LenProperties DEF Run
  <2> QED
    BY <2>1, <2>2, <1>1, OwnNums
<1>5. CASE Lost(l, x)
  <2>1. \A c \in 1..MaxConn : Nums(x, c) = Nums(l, c) /\ x.wire[c] = l.wire[c]
    BY <1>2, <1>5 DEF Lost
  <2>2. x.fd = 0 /\ Given(x) = 0 /\ x.made >= l.made /\ x.made \in Nat
    BY <1>5 DEF Lost, Given
  <2>3. ASSUME NEW c \in 1..MaxConn, NEW n \in Nums(x, c) PROVE 2 * n + Given(x) <= 2 * p
    <3>1. n \in Nat /\ n \in Nums(l, c)
      BY <1>2, <2>1
    <3>2. CASE c = l.fd
      BY <1>1, <1>4, <2>2, <3>1, <3>2
    <3>3. CASE c # l.fd
      <4>1. 2 * n + Given(l) <= 2 * q /\ Given(l) \in Nat
        BY <1>3, <1>4, <3>1, <3>3 DEF Given
      <4> QED
        BY <1>1, <2>2, <3>1, <4>1
    <3> QED
      BY <3>2, <3>3
  <2>4. ASSUME NEW c \in 1..MaxConn, c > x.made PROVE x.wire[c] = <<>>
    <3>1. c > l.made
      BY <1>1, <2>2, <2>4
    <3> QED
      BY <1>3, <2>1, <3>1
  <2>5. \A c, d \in 1..MaxConn : c < d => \A n \in Nums(x, c), r \in Nums(x, d) : n < r
    BY <1>3, <2>1
  <2> QED
    BY <1>1, <2>2, <2>3, <2>4, <2>5 DEF Ordered
<1>6. ASSUME NEW z, Goes(l, x, z), Run(Out(x), p), Len(Out(x)) <= Len(Out(l)) + 2 * (p - q)
      PROVE  Ordered(x, p)
  <2>1. \A c \in 1..MaxConn : c # l.fd => Nums(x, c) = Nums(l, c) /\ x.wire[c] = l.wire[c]
    BY <1>2, <1>6 DEF Goes
  <2>2. /\ l.fd # 0 /\ x.fd = l.fd /\ x.made = l.made /\ x.fd \in 1..MaxConn /\ x.fd = x.made
        /\ Given(x) = Len(Out(x)) /\ Given(l) = Len(Out(l))
    BY <1>1, <1>3, <1>6 DEF Goes, Given
  <2>3. Len(Out(l)) \in Nat /\ Len(Out(x)) \in Nat
    BY <1>4, <1>6, <2>2, LenProperties DEF Run
  <2>4. ASSUME NEW n \in Nums(x, x.fd) PROVE n \in Nat /\ 2 * p - Len(Out(x)) < 2 * n
    <3>1. x.wire[x.fd] \in Seq(Byte) /\ x.w \in Seq(Byte)
      BY <1>1, <2>2 DEF Onward
    <3> QED
      BY <1>1, <1>6, <2>2, <3>1, OwnNums
  <2>5. ASSUME NEW c \in 1..MaxConn, c # x.fd, NEW n \in Nums(x, c)
        PROVE  n \in Nat /\ 2 * n + Given(x) <= 2 * p
    <3>1. n \in Nums(l, c) /\ c # l.fd /\ n \in Nat
      BY <1>2, <2>1, <2>2, <2>5
    <3>2. 2 * n + Len(Out(l)) <= 2 * q
      BY <1>3, <2>2, <3>1
    <3> QED
      BY <1>1, <1>6, <2>2, <2>3, <3>1, <3>2
  <2>6. ASSUME NEW c \in 1..MaxConn, c > x.made PROVE x.wire[c] = <<>> /\ Nums(x, c) = {}
    BY <1>2, <1>3, <2>1, <2>2, <2>6
  <2>7. ASSUME NEW c \in 1..MaxConn, NEW d \in 1..MaxConn, c < d, NEW n \in Nums(x, c), NEW r \in Nums(x, d)
        PROVE  n < r
    <3>1. CASE c = x.fd
      BY <2>2, <2>6, <2>7, <3>1
    <3>2. CASE d = x.fd
      <4>1. n \in Nat /\ 2 * n + Len(Out(x)) <= 2 * p /\ r \in Nat /\ 2 * p - Len(Out(x)) < 2 * r
        BY <2>2, <2>4, <2>5, <2>7, <3>2
      <4> QED
        BY <1>1, <2>3, <4>1
    <3>3. CASE c # x.fd /\ d # x.fd
      BY <1>3, <2>1, <2>2, <2>7, <3>3
    <3> QED
      BY <3>1, <3>2, <3>3
  <2> QED
    BY <1>1, <1>6, <2>2, <2>5, <2>6, <2>7 DEF Ordered
<1>7. CASE p = q /\ Goes(l, x, <<>>)
  <2>1. Out(x) = Out(l) /\ l.fd # 0
    <3>1. Out(l) \in Seq(Byte) /\ Out(x) = Out(l) \o <<>> /\ l.fd # 0
      BY <1>3, <1>7 DEF Goes, Run
    <3> QED
      BY <3>1, ConcatEmptySeq
  <2> QED
    BY <1>3, <1>4, <1>6, <1>7, <2>1
<1>8. CASE p = q + 1 /\ Goes(l, x, Bytes(p, "plain", 0))
  <2>1. l.fd # 0 /\ Run(Out(l), q) /\ Out(x) = Out(l) \o Bytes(q + 1, "plain", 0)
    BY <1>3, <1>8 DEF Goes
  <2>2. Run(Out(x), p) /\ Len(Out(x)) = Len(Out(l)) + 2
    BY <1>8, <2>1, RunGrows DEF AnyKind
  <2>3. Len(Out(x)) <= Len(Out(l)) + 2 * (p - q)
    BY <1>4, <1>8, <2>1, <2>2
  <2> QED
    BY <1>6, <1>8, <2>2, <2>3
<1>9. CASE p = q + 1 /\ Dialled(l, x, Bytes(p, "plain", 0))
  <2>1. /\ l.fd = 0 /\ x.fd = l.made + 1 /\ x.made = l.made + 1 /\ x.fd \in 1..MaxConn
        /\ Out(x) = Bytes(q + 1, "plain", 0)
    BY <1>9 DEF Dialled
  <2>2. Run(Out(x), p) /\ Len(Out(x)) = 2
    <3>1. Run(<<>>, q)
      BY EmptySeq DEF Run, Upto
    <3> DEFINE b == Bytes(q + 1, "plain", 0)
    <3>2. Run(<<>> \o b, q + 1) /\ Len(<<>> \o b) = Len(<<>>) + 2
      BY <3>1, RunGrows DEF AnyKind
    <3>3. b \in Seq(Byte)
      <4>1. q + 1 \in Nat
        OBVIOUS
      <4> QED
        BY <4>1, BytesTyped DEF AnyKind
    <3> HIDE DEF b
    <3>4. <<>> \o b = b
      BY <3>3, ConcatEmptySeq
    <3>5. Run(b, q + 1) /\ Len(b) = 2
      BY <3>2, <3>4, EmptySeq
    <3> QED
      BY <1>9, <2>1, <3>5 DEF b
  <2>3. \A c \in 1..MaxConn : c # x.fd => Nums(x, c) = Nums(l, c) /\ x.wire[c] = l.wire[c]
    BY <1>2, <1>9 DEF Dialled
  <2>4. Given(l) = 0 /\ Given(x) = 2
    BY <2>1, <2>2 DEF Given
  <2>5. ASSUME NEW c \in 1..MaxConn, c # x.fd, NEW n \in Nums(x, c)
        PROVE  n \in Nat /\ n <= q /\ 2 * n + Given(x) <= 2 * p
    <3>1. n \in Nums(l, c) /\ n \in Nat /\ c # l.fd
      BY <1>2, <2>1, <2>3, <2>5
    <3>2. 2 * n + 0 <= 2 * q
      BY <1>3, <2>4, <3>1
    <3> QED
      BY <1>9, <2>4, <3>1, <3>2
  <2>6. ASSUME NEW n \in Nums(x, x.fd) PROVE n \in Nat /\ 2 * p - 2 < 2 * n
    <3>1. x.wire[x.fd] \in Seq(Byte) /\ x.w \in Seq(Byte)
      BY <1>1, <2>1 DEF Onward
    <3>2. n \in Nat /\ 2 * p - Len(Out(x)) < 2 * n
      BY <1>1, <2>1, <2>2, <3>1, OwnNums
    <3> QED
      BY <2>2, <3>2
  <2>7. ASSUME NEW c \in 1..MaxConn, c > x.made PROVE x.wire[c] = <<>> /\ Nums(x, c) = {}
    <3>1. c > l.made /\ c # x.fd
      BY <1>1, <2>1, <2>7
    <3> QED
      BY <1>2, <1>3, <2>3, <3>1
  <2>8. ASSUME NEW c \in 1..MaxConn, NEW d \in 1..MaxConn, c < d, NEW n \in Nums(x, c), NEW r \in Nums(x, d)
        PROVE  n < r
    <3>1. CASE c = x.fd
      BY <2>1, <2>7, <2>8, <3>1
    <3>2. CASE d = x.fd
      <4>1. n \in Nat /\ n <= q /\ r \in Nat /\ 2 * p - 2 < 2 * r
        BY <2>5, <2>6, <2>8, <3>2
      <4> QED
        BY <1>9, <4>1
    <3>3. CASE c # x.fd /\ d # x.fd
      BY <1>3, <2>3, <2>8, <3>3
    <3> QED
      BY <3>1, <3>2, <3>3
  <2> QED
    BY <1>1, <2>1, <2>2, <2>5, <2>7, <2>8 DEF Ordered
<1> QED
  BY <1>5, <1>7, <1>8, <1>9 DEF Onward

\* A reset, or a completed session, leaves the wires.
LEMMA GoneLost ==
  ASSUME NEW l \in Link, l.open \subseteq {l.fd}
  PROVE  /\ Lost(l, reset_helper(l)) /\ reset_helper(l).r = <<>>
         /\ Lost(l, complete(l)) /\ complete(l).r = <<>>
<1> DEFINE d == reset_helper(l)
<1>1. d.fd = 0 /\ d.wire = l.wire /\ d.made = l.made /\ d.r = <<>> /\ l.made \in Nat
  BY DEF reset_helper, Link
<1> HIDE DEF d
<1>2. complete(l) = IF Game THEN Fresh(d.made, d.open, d.wire) ELSE d
  BY DEF complete, d
<1>3. /\ complete(l).fd = 0 /\ complete(l).wire = l.wire
      /\ complete(l).made = l.made /\ complete(l).r = <<>>
  BY <1>1, <1>2 DEF Fresh
<1> QED
  BY <1>1, <1>3 DEF Lost, d

\* A send.
LEMMA SendOnward ==
  ASSUME NEW l, Ready(l), Bounds, NEW x \in send_to_cgi(l)
  PROVE  /\ Sound(x)
         /\ x.fd = 0 => Lost(l, x)
         /\ x.fd # 0 => Goes(l, x, <<>>) /\ x.r = l.r
<1>1. x = SendBlocked(l) \/ x = SendFailed(l) \/ \E n \in 1..Len(l.w) : x = SendTook(l, n)
  BY DEF send_to_cgi, Ready
<1>2. l \in Link /\ l.fd # 0 /\ l.fd \in 1..MaxConn /\ l.open \subseteq {l.fd} /\ l.made \in Nat
  BY DEF Ready, Link
<1>3. Sound(x) /\ x.fd \in {0, l.fd}
  BY SendSound
<1> DEFINE d == reset_helper(l)
<1>4. d.fd = 0 /\ d.wire = l.wire /\ d.made = l.made /\ d \in Link
  BY <1>2, ResetSound, GoneLost DEF Ready, Bounds, Sound, reset_helper, Link
<1> HIDE DEF d
<1>5. ASSUME NEW e
      PROVE  /\ Lost(l, [d EXCEPT !.stage = "FATAL_ERROR", !.errors = e])
             /\ Lost(l, [d EXCEPT !.stage = "FATAL_ERROR"])
  BY <1>2, <1>4 DEF Lost, Link
<1> DEFINE Same == /\ x.fd = l.fd /\ x.made = l.made /\ x.r = l.r
                   /\ \A c \in 1..MaxConn : c # l.fd => x.wire[c] = l.wire[c]
<1>8. ASSUME Same PROVE Goes(l, x, <<>>) /\ x.r = l.r
  <2>1. Out(x) = Out(l)
    BY <1>8, SendKeeps
  <2>2. Out(l) \in Seq(Byte)
    BY <1>2, ConcatProperties DEF Out, Link
  <2> QED
    BY <1>2, <1>8, <2>1, <2>2, ConcatEmptySeq DEF Goes
<1>6. CASE x = SendFailed(l)
  <2>1. Lost(l, x)
    BY <1>5, <1>6 DEF SendFailed, d
  <2> QED
    BY <1>3, <2>1 DEF Lost
<1>7. CASE x = SendBlocked(l)
  <2>1. CASE l.errors + 1 >= MaxErrors
    <3>1. Lost(l, x)
      BY <1>5, <1>7, <2>1 DEF SendBlocked, d
    <3> QED
      BY <1>3, <3>1 DEF Lost
  <2>2. CASE ~ (l.errors + 1 >= MaxErrors)
    <3>1. x = [l EXCEPT !.errors = @ + 1, !.interest = @ \cup {"OUT"}]
      BY <1>7, <2>2 DEF SendBlocked
    <3>2. Same
      BY <1>2, <3>1 DEF Link
    <3> QED
      BY <1>2, <1>3, <1>8, <3>2
  <2> QED
    BY <2>1, <2>2
<1>9. CASE \E n \in 1..Len(l.w) : x = SendTook(l, n)
  <2>1. PICK n \in 1..Len(l.w) : x = SendTook(l, n)
    BY <1>9
  <2> DEFINE v == [l.wire EXCEPT ![l.fd] = @ \o SubSeq(l.w, 1, n)]
  <2>2. x.fd = l.fd /\ x.made = l.made /\ x.r = l.r /\ x.wire = v
    BY <1>2, <2>1 DEF SendTook, Link
  <2>3. \A c \in 1..MaxConn : c # l.fd => v[c] = l.wire[c]
    BY <1>2 DEF Link
  <2> HIDE DEF v
  <2>4. Same
    BY <2>2, <2>3
  <2> QED
    BY <1>2, <1>3, <1>8, <2>4
<1> QED
  BY <1>1, <1>6, <1>7, <1>9

\* A packet given to a link, and the connection it may need.
LEMMA LogicOnward ==
  ASSUME NEW l, Sound(l), Bounds, NEW n \in Nat, l.fd # 0 \/ l.made < MaxConn,
         l.fd = 0 => l.wire[l.made + 1] = <<>>,
         NEW x \in send_to_logic(append_pkg(l, n))
  PROVE  /\ Sound(x)
         /\ x.fd = 0 => Lost(l, x)
         /\ x.fd # 0 => /\ x.r = l.r
                        /\ Goes(l, x, Bytes(n, "plain", 0)) \/ Dialled(l, x, Bytes(n, "plain", 0))
<1> DEFINE z == Bytes(n, "plain", 0)
           p == append_pkg(l, n)
           a == [p EXCEPT !.interest = @ \cup {"IN"}]
           t == tcp_connect(a)
           b == IF Dials(a) THEN t ELSE a
           c == [b EXCEPT !.stage = "CONNECTED", !.armed = TRUE]
<1>1. z \in Seq(Byte) /\ z # <<>>
  BY BytesTyped DEF AnyKind
<1>2. /\ l \in Link /\ l.w \in Seq(Byte) /\ l.made \in Nat /\ l.made <= MaxConn /\ MaxConn \in Nat
      /\ l.wire \in [1..MaxConn -> Seq(Byte)] /\ l.open = {l.fd} \ {0} /\ l.fd <= l.made
      /\ l.fd = 0 => l.w = <<>>
      /\ l.fd # 0 => l.fd \in 1..MaxConn /\ l.stage # "IDLE"
  BY DEF Sound, Link, Bounds
<1> HIDE DEF z
<1>3. l.w \o z \in Seq(Byte) /\ l.w \o z # <<>>
  BY <1>1, <1>2, ConcatProperties, ConcatEqualIffEmpty
<1>4. p = [l EXCEPT !.w = l.w \o z]
  BY <1>2 DEF append_pkg, Link, z
<1>5. /\ p \in Link /\ p.w = l.w \o z /\ p.fd = l.fd /\ p.stage = l.stage /\ p.wire = l.wire
      /\ p.open = l.open /\ p.made = l.made /\ p.interest = l.interest /\ p.r = l.r
  BY <1>2, <1>3, <1>4 DEF Link
<1> HIDE DEF p
<1>6. /\ a \in Link /\ a.w = l.w \o z /\ a.fd = l.fd /\ a.stage = l.stage /\ a.wire = l.wire
      /\ a.open = l.open /\ a.made = l.made /\ "IN" \in a.interest /\ a.r = l.r
  BY <1>2, <1>5 DEF Link
<1>7. (Dials(p) <=> l.fd = 0) /\ (Dials(a) <=> l.fd = 0)
  BY <1>2, <1>5, <1>6 DEF Dials
<1>8. \/ l.fd = 0 /\ x = reset_helper(t)
      \/ x \in send_to_cgi([connect(a) EXCEPT !.armed = TRUE])
  BY <1>7 DEF send_to_logic, p
<1> HIDE DEF a
<1>9. l.fd = 0 => /\ t \in Link /\ t.w = a.w /\ t.fd = l.made + 1 /\ t.made = l.made + 1
                  /\ t.open = {l.made + 1} /\ t.interest = a.interest /\ t.wire = l.wire
                  /\ t.r = l.r /\ t.fd \in 1..MaxConn
  <2> HAVE l.fd = 0
  <2>1. l.made + 1 \in Nat /\ a.open \cup {l.made + 1} = {l.made + 1} /\ l.made + 1 \in 1..MaxConn
    BY <1>2, <1>6
  <2>2. t = [a EXCEPT !.made = l.made + 1, !.fd = l.made + 1, !.open = {l.made + 1}]
    BY <1>6, <2>1 DEF tcp_connect, Link
  <2> HIDE DEF t
  <2>3. t \in Link
    BY <1>6, <2>1, <2>2 DEF Link
  <2> QED
    BY <1>6, <2>1, <2>2, <2>3 DEF Link
<1> HIDE DEF t
<1>10. /\ b \in Link /\ b.w = a.w /\ b.open = {b.fd} /\ b.fd \in 1..MaxConn /\ b.fd <= b.made
       /\ b.made <= MaxConn /\ "IN" \in b.interest /\ b.wire = l.wire /\ b.r = l.r
       /\ b.fd = (IF l.fd = 0 THEN l.made + 1 ELSE l.fd)
       /\ b.made = (IF l.fd = 0 THEN l.made + 1 ELSE l.made)
  <2>1. CASE l.fd = 0
    BY <1>2, <1>6, <1>7, <1>9, <2>1
  <2>2. CASE l.fd # 0
    BY <1>2, <1>6, <1>7, <2>2
  <2> QED
    BY <2>1, <2>2
<1>11. [connect(a) EXCEPT !.armed = TRUE] = c
  BY <1>10 DEF connect, Link, t
<1> HIDE DEF b
<1>12. /\ c \in Link /\ c.w = b.w /\ c.open = b.open /\ c.fd = b.fd /\ c.made = b.made
       /\ c.interest = b.interest /\ c.stage = "CONNECTED" /\ c.wire = b.wire /\ c.r = b.r
  BY <1>10 DEF Link, Stage
<1> HIDE DEF c
<1>13. Ready(c)
  BY <1>3, <1>6, <1>10, <1>12 DEF Ready
<1>14. CASE l.fd = 0 /\ x = reset_helper(t)
  <2>1. t.open \subseteq {t.fd} /\ t.made <= MaxConn
    BY <1>2, <1>9, <1>14
  <2>2. Sound(x) /\ Lost(t, x)
    BY <1>2, <1>9, <1>14, <2>1, ResetSound, GoneLost
  <2> QED
    BY <1>2, <1>9, <1>14, <2>2 DEF Lost
<1>15. CASE x \in send_to_cgi(c)
  <2>1. /\ Sound(x)
        /\ x.fd = 0 => Lost(c, x)
        /\ x.fd # 0 => Goes(c, x, <<>>) /\ x.r = c.r
    BY <1>13, <1>15, SendOnward
  <2>2. x.fd = 0 => Lost(l, x)
    BY <1>2, <1>10, <1>12, <2>1 DEF Lost
  <2>3. ASSUME x.fd # 0
        PROVE  x.r = l.r /\ (Goes(l, x, z) \/ Dialled(l, x, z))
    <3>1. /\ x.fd = b.fd /\ x.made = b.made /\ Out(x) = Out(c) \o <<>> /\ x.r = l.r
          /\ \A d \in 1..MaxConn : d # b.fd => x.wire[d] = l.wire[d]
      BY <1>10, <1>12, <2>1, <2>3 DEF Goes
    <3> DEFINE u == l.wire[b.fd]
               w == l.w
    <3>2. u \in Seq(Byte) /\ w \in Seq(Byte)
      BY <1>2, <1>10
    <3>3. Out(c) = u \o (w \o z)
      BY <1>6, <1>10, <1>12 DEF Out
    <3> HIDE DEF u, w
    <3>4. Out(x) = (u \o w) \o z
      <4>1. (u \o w) \o z = u \o (w \o z)
        BY <1>1, <3>2, ConcatAssociative
      <4>2. u \o (w \o z) \in Seq(Byte)
        BY <1>1, <3>2, ConcatProperties
      <4> QED
        BY <3>1, <3>3, <4>1, <4>2, ConcatEmptySeq
    <3>5. CASE l.fd # 0
      <4>1. Out(l) = u \o w
        BY <1>10, <3>5 DEF Out, u, w
      <4> QED
        BY <1>10, <3>1, <3>4, <3>5, <4>1 DEF Goes
    <3>6. CASE l.fd = 0
      <4>1. u = <<>> /\ w = <<>>
        BY <1>2, <1>10, <3>6 DEF u, w
      <4>2. Out(x) = z
        BY <1>1, <3>4, <4>1, ConcatEmptySeq
      <4> QED
        BY <1>10, <3>1, <3>6, <4>2 DEF Dialled
    <3> QED
      BY <3>5, <3>6
  <2> QED
    BY <2>1, <2>2, <2>3 DEF z
<1> QED
  BY <1>8, <1>11, <1>14, <1>15

-----------------------------------------------------------------------------
(* What the server sends. *)

\* Concatenation of bytes is associative.
LEMMA Reassociated ==
  \A x, y, z \in Seq(Byte) : (x \o y) \o z = x \o (y \o z)
<1> TAKE x, y, z \in Seq(Byte)
<1> QED
  BY ConcatAssociative

\* No bytes are whole packets.
LEMMA PairsOfNone ==
  ASSUME NEW v \in Nat
  PROVE  Pairs(<<>>, v)
<1>1. AllWhole(<<>>, v, 0)
  BY EmptySeq DEF AllWhole
<1> QED
  BY <1>1, EmptySeq DEF Pairs

\* The server sends another packet.
LEMMA PairsGrow ==
  ASSUME NEW s, NEW v \in Nat, Pairs(s, v), NEW k \in AnyKind, NEW c \in 1..MaxConn, MaxConn \in Nat
  PROVE  Pairs(s \o Bytes(v + 1, k, c), v + 1)
<1>1. PICK m \in Nat : AllWhole(s, v, m)
  BY DEF Pairs
<1>2. /\ s \in Seq(Byte) /\ Len(s) = 2 * m
      /\ \A j \in 1..m : Whole(<<s[2*j-1], s[2*j]>>, v)
  BY <1>1 DEF Pairs, AllWhole
<1> DEFINE b == Bytes(v + 1, k, c)
           t == s \o b
<1>3. b \in Seq(Byte) /\ Len(b) = 2 /\ b = <<b[1], b[2]>>
  <2>1. v + 1 \in Nat /\ c \in Nat
    OBVIOUS
  <2> QED
    BY <2>1, TwoBytes
<1>4. Whole(b, v + 1)
  <2>1. v + 1 \in 1..v+1
    OBVIOUS
  <2> QED
    BY <2>1 DEF Whole
<1> HIDE DEF b
<1>5. /\ t \in Seq(Byte) /\ Len(t) = 2 * m + 2
      /\ \A i \in 1..2*m+2 : t[i] = IF i <= 2 * m THEN s[i] ELSE b[i - 2 * m]
  <2>1. /\ t \in Seq(Byte) /\ Len(t) = Len(s) + Len(b)
        /\ \A i \in 1..Len(s)+Len(b) : t[i] = IF i <= Len(s) THEN s[i] ELSE b[i - Len(s)]
    BY <1>2, <1>3, ConcatProperties
  <2> QED
    BY <1>2, <1>3, <2>1
<1> HIDE DEF t
<1>6. ASSUME NEW j \in 1..m+1 PROVE Whole(<<t[2*j-1], t[2*j]>>, v + 1)
  <2>1. CASE j \in 1..m
    <3>1. 2*j-1 \in 1..2*m+2 /\ 2*j-1 <= 2 * m /\ 2*j \in 1..2*m+2 /\ 2*j <= 2 * m
      BY <2>1
    <3>2. t[2*j-1] = s[2*j-1] /\ t[2*j] = s[2*j]
      BY <1>5, <3>1
    <3>3. Whole(<<s[2*j-1], s[2*j]>>, v)
      BY <1>2, <2>1
    <3>4. \A n \in 1..v : n \in 1..v+1
      OBVIOUS
    <3> QED
      BY <3>2, <3>3, <3>4 DEF Whole
  <2>2. CASE j = m + 1
    <3>1. /\ 2*j-1 \in 1..2*m+2 /\ ~ 2*j-1 <= 2 * m /\ 2*j \in 1..2*m+2 /\ ~ 2*j <= 2 * m
          /\ 2*j-1 - 2 * m = 1 /\ 2*j - 2 * m = 2
      BY <2>2
    <3>2. t[2*j-1] = b[1] /\ t[2*j] = b[2]
      BY <1>5, <3>1
    <3> QED
      BY <1>3, <1>4, <3>2
  <2> QED
    BY <2>1, <2>2
<1>7. m + 1 \in Nat /\ Len(t) = 2 * (m + 1)
  BY <1>5
<1>8. AllWhole(t, v + 1, m + 1)
  BY <1>6, <1>7 DEF AllWhole
<1>9. Pairs(t, v + 1)
  BY <1>5, <1>7, <1>8 DEF Pairs
<1> QED
  BY <1>9 DEF t, b

\* A packet is taken off the front.
LEMMA PairsDrop ==
  ASSUME NEW r \in Seq(Byte), NEW i \in Seq(Byte), NEW v \in Nat, Pairs(r \o i, v), Len(r) >= 2
  PROVE  /\ Pairs(SubSeq(r, 3, Len(r)) \o i, v)
         /\ Whole(SubSeq(r, 1, 2), v)
<1> DEFINE s == r \o i
           h == SubSeq(r, 1, 2)
           t == SubSeq(r, 3, Len(r))
           y == t \o i
<1>1. PICK m \in Nat : AllWhole(s, v, m)
  BY DEF Pairs
<1>2. Len(s) = 2 * m /\ \A j \in 1..m : Whole(<<s[2*j-1], s[2*j]>>, v)
  BY <1>1 DEF AllWhole
<1>a. PICK a \in Nat : a = Len(r) /\ a >= 2
  BY LenProperties
<1>e. PICK e \in Nat : e = Len(i)
  BY LenProperties
<1>3. \A j \in 1..a : r[j] \in Byte
  BY <1>a, ElementOfSeq
<1>4. /\ s \in Seq(Byte) /\ Len(s) = a + e
      /\ \A j \in 1..a+e : s[j] = IF j <= a THEN r[j] ELSE i[j - a]
  BY <1>a, <1>e, ConcatProperties
<1>5. h \in Seq(Byte) /\ Len(h) = 2 /\ \A j \in 1..2 : h[j] = r[j]
  <2>1. \A j \in 1..2 : r[j] \in Byte
    BY <1>a, <1>3
  <2>2. h \in Seq(Byte) /\ Len(h) = (IF 1 <= 2 THEN 2 - 1 + 1 ELSE 0) /\ \A j \in 1..2-1+1 : h[j] = r[1+j-1]
    BY <2>1, SubSeqProperties
  <2> HIDE DEF h
  <2> QED
    BY <2>2
<1>6. t \in Seq(Byte) /\ Len(t) = a - 2 /\ \A j \in 1..a-2 : t[j] = r[j + 2]
  <2>1. \A j \in 3..a : r[j] \in Byte
    BY <1>3
  <2>2. /\ t \in Seq(Byte) /\ Len(t) = IF 3 <= a THEN a - 3 + 1 ELSE 0
        /\ \A j \in 1..a-3+1 : t[j] = r[3+j-1]
    BY <1>a, <2>1, SubSeqProperties
  <2> HIDE DEF t
  <2>3. Len(t) = a - 2
    BY <1>a, <2>2
  <2>4. ASSUME NEW j \in 1..a-2 PROVE t[j] = r[j + 2]
    <3>1. 3 + j - 1 = j + 2 /\ a - 3 + 1 = a - 2
      OBVIOUS
    <3> QED
      BY <2>2, <3>1
  <2> QED
    BY <2>2, <2>3, <2>4
<1> HIDE DEF s, h, t
<1>7. /\ y \in Seq(Byte) /\ Len(y) = a - 2 + e
      /\ \A j \in 1..a-2+e : y[j] = IF j <= a - 2 THEN t[j] ELSE i[j - (a - 2)]
  <2>1. /\ y \in Seq(Byte) /\ Len(y) = Len(t) + Len(i)
        /\ \A j \in 1..Len(t)+Len(i) : y[j] = IF j <= Len(t) THEN t[j] ELSE i[j - Len(t)]
    BY <1>6, ConcatProperties
  <2> QED
    BY <1>6, <1>e, <2>1
<1> HIDE DEF y
<1>8. ASSUME NEW j \in 1..a-2+e PROVE y[j] = s[j + 2]
  <2>1. j + 2 \in 1..a+e
    BY <1>a
  <2>2. CASE j <= a - 2
    <3>1. j \in 1..a-2 /\ j + 2 <= a
      BY <2>2
    <3>2. y[j] = t[j] /\ t[j] = r[j + 2] /\ s[j + 2] = r[j + 2]
      BY <1>4, <1>6, <1>7, <2>1, <2>2, <3>1
    <3> QED
      BY <3>2
  <2>3. CASE ~ j <= a - 2
    <3>1. ~ j + 2 <= a /\ j - (a - 2) = j + 2 - a
      BY <2>3
    <3>2. y[j] = i[j - (a - 2)] /\ s[j + 2] = i[j + 2 - a]
      BY <1>4, <1>7, <2>1, <2>3, <3>1
    <3> QED
      BY <3>1, <3>2
  <2> QED
    BY <2>2, <2>3
<1>9. m - 1 \in Nat /\ Len(y) = 2 * (m - 1) /\ 1 \in 1..m
  <2>1. 2 * m = a + e /\ Len(y) = a - 2 + e
    BY <1>2, <1>4, <1>7
  <2> QED
    BY <1>a, <2>1
<1>10. ASSUME NEW j \in 1..m-1 PROVE Whole(<<y[2*j-1], y[2*j]>>, v)
  <2>1. /\ j + 1 \in 1..m /\ 2*j-1 \in 1..a-2+e /\ 2*j \in 1..a-2+e
        /\ 2*j-1 + 2 = 2*(j+1)-1 /\ 2*j + 2 = 2*(j+1)
    BY <1>7, <1>9
  <2>2. y[2*j-1] = s[2*(j+1)-1] /\ y[2*j] = s[2*(j+1)]
    BY <1>8, <2>1
  <2> QED
    BY <1>2, <2>1, <2>2
<1>11. Pairs(y, v)
  BY <1>7, <1>9, <1>10 DEF Pairs, AllWhole
<1>12. Whole(h, v)
  <2>1. 1 \in 1..a+e /\ 2 \in 1..a+e /\ 1 <= a /\ 2 <= a
    BY <1>a
  <2>2. s[1] = r[1] /\ s[2] = r[2] /\ h[1] = r[1] /\ h[2] = r[2]
    BY <1>4, <1>5, <2>1
  <2>3. h = <<s[1], s[2]>>
    BY <1>5, <2>2
  <2>4. Whole(<<s[2*1-1], s[2*1]>>, v) /\ 2*1-1 = 1 /\ 2*1 = 2
    BY <1>2, <1>9
  <2> QED
    BY <2>3, <2>4
<1> QED
  BY <1>11, <1>12 DEF y, t, h

-----------------------------------------------------------------------------
(* Steps. *)

\* x is l but for the stage, the timer, the counter, the events and the input queue.
Alike(l, x) == x.fd = l.fd /\ x.made = l.made /\ x.w = l.w /\ x.wire = l.wire

\* A step that gives the link no packet.
LEMMA AlikeOnward ==
  ASSUME NEW l, Sound(l), NEW q \in Nat, NEW x, Alike(l, x)
  PROVE  Onward(l, q, x, q)
<1>1. /\ l.w \in Seq(Byte) /\ l.wire \in [1..MaxConn -> Seq(Byte)] /\ l.made \in Nat
      /\ l.fd # 0 => l.fd \in 1..MaxConn
  BY DEF Sound, Link
<1>2. CASE l.fd = 0
  BY <1>1, <1>2 DEF Alike, Onward, Lost
<1>3. CASE l.fd # 0
  <2>1. Out(l) \in Seq(Byte) /\ Out(x) = Out(l)
    BY <1>1, <1>3, ConcatProperties DEF Out, Alike
  <2>2. Goes(l, x, <<>>)
    BY <1>3, <2>1, ConcatEmptySeq DEF Goes, Alike
  <2> QED
    BY <1>1, <2>2 DEF Onward, Alike
<1> QED
  BY <1>2, <1>3

\* A step that ends in a reset.
LEMMA LostOnward ==
  ASSUME NEW l, NEW q \in Nat, NEW x, NEW p, Sound(x), Lost(l, x), p \in {q, q + 1}
  PROVE  Onward(l, q, x, p)
BY DEF Onward, Sound, Link

\* The settled outcome of a call.
LEMMA SettledOnward ==
  ASSUME NEW l, NEW x, Sound(x), x.fd = 0 => Lost(l, x), Bounds
  PROVE  /\ x.fd = 0 => Lost(l, Settled(x)) /\ Settled(x).fd = 0
         /\ x.fd # 0 => Settled(x) = x
<1>1. x.fd # 0 => Settled(x) = x
  BY DEF Settled
<1>2. ASSUME x.fd = 0 PROVE Lost(l, Settled(x)) /\ Settled(x).fd = 0
  <2>1. Lost(x, complete(x)) /\ Lost(l, x)
    BY <1>2, GoneLost DEF Sound
  <2>2. Lost(l, complete(x))
    <3>1. l.made \in 0..complete(x).made
      BY <2>1 DEF Lost
    <3> QED
      BY <2>1, <3>1 DEF Lost
  <2>3. Settled(x) = x \/ Settled(x) = complete(x)
    BY DEF Settled
  <2> QED
    BY <2>1, <2>2, <2>3 DEF Lost
<1> QED
  BY <1>1, <1>2

\* The link keeps its order, whatever happens.
LEMMA OrderedStep ==
  ASSUME Bounds, IInv2, [LinkNext]_linkVars
  PROVE  Ordered(link', queued')
<1>0. /\ Sound(link) /\ link \in Link /\ link.open \subseteq {link.fd} /\ queued \in Nat
      /\ Ordered(link, queued) /\ link.made \in Nat
  BY DEF IInv2, IInv, Sound, Link
<1>1. IInv' /\ Sound(link') /\ queued' \in Nat
  BY IInvStep DEF IInv2, IInv
<1> SUFFICES Onward(link, queued, link', queued')
  BY <1>0, <1>1, OnwardKeeps
<1>a. ASSUME Alike(link, link'), queued' = queued PROVE Onward(link, queued, link', queued')
  BY <1>0, <1>a, AlikeOnward
<1>b. ASSUME Lost(link, link'), queued' \in {queued, queued + 1}
      PROVE  Onward(link, queued, link', queued')
  BY <1>0, <1>1, <1>b, LostOnward DEF Onward, Sound, Link
<1>c. ASSUME NEW x, Alike(link, x), x \in Link, x.open \subseteq {x.fd}
      PROVE  Lost(link, complete(x)) /\ Lost(link, reset_helper(x))
  <2>1. Lost(x, complete(x)) /\ Lost(x, reset_helper(x))
    BY <1>c, GoneLost
  <2> QED
    BY <1>c, <2>1 DEF Lost, Alike
<1>d. ASSUME NEW b, NEW e, NEW r
      PROVE  /\ Alike(link, [link EXCEPT !.armed = b])
             /\ Alike(link, [link EXCEPT !.stage = e])
             /\ Alike(link, [[link EXCEPT !.armed = b] EXCEPT !.stage = e])
             /\ Alike(link, [[link EXCEPT !.armed = b] EXCEPT !.r = r])
             /\ Alike(link, [link EXCEPT !.r = r])
             /\ Alike(link, link)
  BY <1>0 DEF Alike, Link
<1>e. update_timer(link) = [link EXCEPT !.armed = TRUE]
  BY DEF update_timer
<1>f. ASSUME NEW b \in BOOLEAN
      PROVE  [link EXCEPT !.armed = b] \in Link /\ [link EXCEPT !.armed = b].open = link.open
             /\ [link EXCEPT !.armed = b].fd = link.fd
  BY <1>0 DEF Link
<1>g. ASSUME NEW b \in BOOLEAN PROVE Lost(link, complete([link EXCEPT !.armed = b]))
  BY <1>0, <1>c, <1>d, <1>f
<1>h. ASSUME NEW l \in send_to_logic(append_pkg(link, queued')), queued' = queued + 1,
             link.fd # 0 \/ link.made < MaxConn
      PROVE  /\ Sound(l)
             /\ l.fd = 0 => Lost(link, l)
             /\ l.fd # 0 => Onward(link, queued, l, queued')
  <2>1. link.fd = 0 => link.wire[link.made + 1] = <<>>
    <3> HAVE link.fd = 0
    <3>1. link.made + 1 \in 1..MaxConn /\ link.made + 1 > link.made
      BY <1>0, <1>h DEF Bounds
    <3> QED
      BY <1>0, <3>1 DEF Ordered
  <2>2. /\ Sound(l)
        /\ l.fd = 0 => Lost(link, l)
        /\ l.fd # 0 => \/ Goes(link, l, Bytes(queued', "plain", 0))
                       \/ Dialled(link, l, Bytes(queued', "plain", 0))
    BY <1>0, <1>1, <1>h, <2>1, LogicOnward
  <2>3. l.wire \in [1..MaxConn -> Seq(Byte)] /\ l.w \in Seq(Byte)
    BY <2>2 DEF Sound, Link
  <2> QED
    BY <1>1, <1>h, <2>2, <2>3 DEF Onward
<1>2. CASE Send
  <2>1. PICK l \in send_to_logic(append_pkg(link, queued')) : link' = Settled(l)
    BY <1>2 DEF Send, Become
  <2>2. queued' = queued + 1 /\ link.made < MaxConn
    BY <1>2 DEF Send
  <2>3. /\ Sound(l)
        /\ l.fd = 0 => Lost(link, l)
        /\ l.fd # 0 => Onward(link, queued, l, queued')
    BY <1>h, <2>1, <2>2
  <2>4. l.fd = 0 => Lost(link, link')
    BY <2>1, <2>3, SettledOnward
  <2>5. l.fd # 0 => link' = l
    BY <2>1, <2>3, SettledOnward
  <2> QED
    BY <1>b, <2>2, <2>3, <2>4, <2>5
<1>3. CASE ServerSends \/ UNCHANGED linkVars
  BY <1>3, <1>a, <1>d DEF ServerSends, linkVars
<1>4. CASE \E n \in 1..Len(inbound) : Recv(n)
  <2>1. PICK n \in 1..Len(inbound) : Recv(n)
    BY <1>4
  <2>2. link' = [[link EXCEPT !.armed = TRUE] EXCEPT !.r = @ \o SubSeq(inbound, 1, n)]
        /\ queued' = queued
    BY <2>1, <1>e DEF Recv
  <2> QED
    BY <2>2, <1>a, <1>d
<1>5. CASE RecvNothing
  BY <1>5, <1>a, <1>d, <1>e DEF RecvNothing, Become
<1>6. CASE RecvFails
  BY <1>6, <1>b, <1>e, <1>g DEF RecvFails, Become
<1>7. CASE OutputNotify
  <2> DEFINE u == update_timer(link)
  <2>1. PICK l \in send_to_cgi(u) : link' = Settled(l)
    BY <1>7 DEF OutputNotify, Become
  <2>2. "OUT" \in link.interest /\ queued' = queued
    BY <1>7 DEF OutputNotify
  <2>3. u \in Link /\ u.w = link.w /\ u.wire = link.wire /\ u.fd = link.fd /\ u.interest = link.interest
        /\ u.open = link.open /\ u.made = link.made /\ u.stage = link.stage
    BY <1>0, <1>e DEF Link
  <2> HIDE DEF u
  <2>4. Ready(u)
    BY <1>0, <2>2, <2>3 DEF Ready, Sound, Watched
  <2>5. /\ Sound(l)
        /\ l.fd = 0 => Lost(u, l)
        /\ l.fd # 0 => Goes(u, l, <<>>)
    BY <2>1, <2>4, SendOnward
  <2>6. l.fd = 0 => Lost(link, l)
    BY <2>3, <2>5 DEF Lost
  <2>7. l.fd # 0 => Goes(link, l, <<>>)
    BY <2>3, <2>5 DEF Goes, Out
  <2>8. l.fd = 0 => Lost(link, link')
    BY <2>1, <2>5, <2>6, SettledOnward
  <2>9. l.fd # 0 => link' = l
    BY <2>1, <2>5, <2>6, SettledOnward
  <2>10. l.fd # 0 => Onward(link, queued, l, queued)
    BY <1>0, <2>5, <2>7 DEF Onward, Sound, Link
  <2> QED
    BY <1>b, <2>2, <2>8, <2>9, <2>10
<1>8. CASE HangupNotify
  BY <1>8, <1>a, <1>d, <1>e DEF HangupNotify
<1>9. CASE TimerNotify
  BY <1>9, <1>b, <1>g DEF TimerNotify, Become
<1>10. CASE Processed
  BY <1>10, <1>0, <1>a, <1>b, <1>c, <1>d DEF Processed, Become
<1>11. CASE GivesUp
  BY <1>11, <1>0, <1>b, <1>c, <1>d DEF GivesUp, Become
<1>12. CASE Plain \/ NoticeElsewhere
  BY <1>12, <1>a, <1>d DEF Plain, NoticeElsewhere, Handles, Become, Skipped
<1>13. CASE Notice
  <2>1. PICK l \in send_to_logic(append_pkg(link, queued')) : Handles("notice", Skipped(l), unread - 2)
    BY <1>13 DEF Notice
  <2>2. link.fd # 0 /\ queued' = queued + 1
    BY <1>0, <1>13, <2>1 DEF Notice, Handles, Sound
  <2>3. /\ Sound(l)
        /\ l.fd = 0 => Lost(link, l)
        /\ l.fd # 0 => Onward(link, queued, l, queued')
    BY <1>h, <2>1, <2>2
  <2>4. link' = [l EXCEPT !.r = SubSeq(l.r, 3, Len(l.r))] /\ l \in Link
    BY <2>1, <2>3 DEF Handles, Become, Skipped, Sound, Link
  <2>5. link'.w = l.w /\ link'.wire = l.wire /\ link'.fd = l.fd /\ link'.made = l.made
    BY <2>4 DEF Link
  <2>6. l.fd = 0 => Lost(link, link')
    BY <2>3, <2>5 DEF Lost
  <2>7. l.fd # 0 => Onward(link, queued, link', queued')
    BY <2>3, <2>5 DEF Onward, Lost, Goes, Dialled, Out
  <2> QED
    BY <1>b, <2>2, <2>6, <2>7
<1>14. CASE Leave
  <2>1. link' = reset_helper(Skipped(link)) /\ queued' = queued
    BY <1>14 DEF Leave, Handles, Become
  <2>2. Alike(link, Skipped(link))
    BY <1>d DEF Skipped
  <2>3. Skipped(link) \in Link /\ Skipped(link).open \subseteq {Skipped(link).fd}
    BY <1>0, SkippedSound DEF Sound
  <2> QED
    BY <1>b, <1>c, <2>1, <2>2, <2>3
<1> QED
  BY <1>2, <1>3, <1>4, <1>5, <1>6, <1>7, <1>8, <1>9, <1>10, <1>11, <1>12, <1>13, <1>14 DEF LinkNext

\* When the link takes a new form and keeps its input, if it keeps the socket, what is
\* still to be handled is whole packets.
LEMMA BecomeInward ==
  ASSUME IInv2, IInv', Become(link'), link'.fd # 0 => link'.r = link.r,
         link'.fd \in {0, link.fd} \/ link.fd = 0
  PROVE  Pairs(link'.r \o inbound', served) /\ (link'.fd = 0 => inbound' = <<>>)
<1>1. /\ Sound(link) /\ Sound(link') /\ served \in Nat /\ inbound \in Seq(Byte)
      /\ Pairs(link.r \o inbound, served) /\ (link.fd = 0 => inbound = <<>>)
      /\ link.r \in Seq(Byte)
  BY DEF IInv2, IInv, Inward, Sound, Link
<1>2. <<>> \o <<>> = <<>> /\ <<>> \in Seq(Byte)
  BY EmptySeq, ConcatEmptySeq
<1>3. CASE link'.fd = 0
  <2>1. link'.r = <<>> /\ inbound' = <<>>
    BY <1>1, <1>3 DEF Become, Sound
  <2> QED
    BY <1>1, <1>2, <2>1, PairsOfNone
<1>4. CASE link'.fd # 0 /\ link'.fd = link.fd
  <2>1. link'.r = link.r /\ inbound' = inbound
    BY <1>4 DEF Become
  <2> QED
    BY <1>1, <1>4, <2>1
<1>5. CASE link'.fd # 0 /\ link'.fd # link.fd
  <2>1. inbound' = <<>> /\ link'.r = link.r
    BY <1>5 DEF Become
  <2>2. link.fd = 0
    BY <1>5
  <2> QED
    BY <1>1, <1>2, <1>5, <2>1, <2>2, PairsOfNone DEF Sound
<1> QED
  BY <1>3, <1>4, <1>5

\* process_pkg takes a packet off a link that keeps its socket: it is a whole one, and
\* so are those behind it.
LEMMA HandlesInward ==
  ASSUME IInv2, NEW k, NEW x, NEW lf, Handles(k, x, lf)
  PROVE  /\ Whole(SubSeq(link.r, 1, 2), served) /\ SubSeq(link.r, 1, 2) \in Seq(Byte)
         /\ Pairs(SubSeq(link.r, 3, Len(link.r)) \o inbound, served)
         /\ unread = Len(link.r) /\ Len(SubSeq(link.r, 3, Len(link.r))) = unread - 2
         /\ link.fd # 0
<1>1. /\ link.r \in Seq(Byte) /\ inbound \in Seq(Byte) /\ served \in Nat
      /\ Pairs(link.r \o inbound, served) /\ link.r # <<>> /\ unread >= 2 /\ link.fd # 0
      /\ unread = Len(link.r)
  BY DEF IInv2, IInv, Inward, Sound, Link, Handles, More
<1>2. Len(link.r) >= 2 /\ Len(link.r) \in Nat
  BY <1>1, LenProperties
<1>3. /\ Pairs(SubSeq(link.r, 3, Len(link.r)) \o inbound, served)
      /\ Whole(SubSeq(link.r, 1, 2), served)
  BY <1>1, <1>2, PairsDrop
<1> DEFINE r == link.r
<1>4. \A i \in 1..Len(r) : r[i] \in Byte
  BY <1>1, ElementOfSeq
<1>5. r \in Seq(Byte) /\ Len(r) >= 2 /\ Len(r) \in Nat
  BY <1>1, <1>2
<1> HIDE DEF r
<1>6. SubSeq(r, 1, 2) \in Seq(Byte) /\ Len(SubSeq(r, 3, Len(r))) = Len(r) - 2
  <2>1. (\A i \in 1..2 : r[i] \in Byte) /\ (\A i \in 3..Len(r) : r[i] \in Byte)
    BY <1>4, <1>5
  <2>2. SubSeq(r, 1, 2) \in Seq(Byte)
    BY <2>1, SubSeqProperties
  <2> DEFINE t == SubSeq(r, 3, Len(r))
  <2>3. PICK a \in Nat : a = Len(r) /\ a >= 2
    BY <1>5
  <2>4. Len(t) = IF 3 <= a THEN a - 3 + 1 ELSE 0
    BY <2>1, <2>3, SubSeqProperties
  <2> HIDE DEF t
  <2>5. Len(t) = a - 2
    BY <2>3, <2>4
  <2> QED
    BY <2>2, <2>3, <2>5 DEF t
<1> QED
  BY <1>1, <1>3, <1>6 DEF r

\* The input stays whole packets, and so does what was handled.
LEMMA InwardStep ==
  ASSUME Bounds, IInv2, [LinkNext]_linkVars
  PROVE  Inward'
<1>0. /\ Sound(link) /\ link \in Link /\ served \in Nat /\ inbound \in Seq(Byte) /\ link.r \in Seq(Byte)
      /\ Inward /\ link.fd \in Nat /\ queued \in Nat /\ link.made \in Nat
  BY DEF IInv2, IInv, Sound, Link
<1>1. IInv' /\ Sound(link')
  BY IInvStep DEF IInv2, IInv
<1> DEFINE Past(h, v) == h \in Seq(Seq(Byte)) /\ \A i \in 1..Len(h) : Whole(h[i], v)
           Count(n, r, u) == n # "idle" => r = <<>> \/ u = Len(r)
<1>2. Past(handled, served) /\ Count(notified, link.r, unread)
      /\ Pairs(link.r \o inbound, served) /\ (link.fd = 0 => inbound = <<>>)
  BY <1>0 DEF Inward
<1>3. ASSUME Past(handled', served'), Count(notified', link'.r, unread'),
             Pairs(link'.r \o inbound', served'), link'.fd = 0 => inbound' = <<>>
      PROVE  Inward'
  BY <1>3 DEF Inward
<1> HIDE DEF Past, Count
<1>4. ASSUME notified' = "idle" PROVE Count(notified', link'.r, unread')
  BY <1>4 DEF Count
<1>5. ASSUME Become(link'), link'.fd # 0 => link'.r = link.r, link'.fd \in {0, link.fd} \/ link.fd = 0,
             notified' = "idle", UNCHANGED <<served, handled>>
      PROVE  Inward'
  BY <1>1, <1>2, <1>3, <1>4, <1>5, BecomeInward
<1>6. ASSUME link'.fd = link.fd, link'.r = link.r, inbound' = inbound,
             UNCHANGED <<served, handled>>, Count(notified', link.r, unread')
      PROVE  Inward'
  BY <1>2, <1>3, <1>6
<1>7. ASSUME NEW b, NEW e
      PROVE  /\ [link EXCEPT !.armed = b].fd = link.fd /\ [link EXCEPT !.armed = b].r = link.r
             /\ [link EXCEPT !.stage = e].fd = link.fd /\ [link EXCEPT !.stage = e].r = link.r
             /\ [[link EXCEPT !.armed = b] EXCEPT !.stage = e].fd = link.fd
             /\ [[link EXCEPT !.armed = b] EXCEPT !.stage = e].r = link.r
  BY <1>0 DEF Link
<1>8. update_timer(link) = [link EXCEPT !.armed = TRUE]
  BY DEF update_timer
<1>9. ASSUME NEW x, Sound(x) PROVE complete(x).fd = 0 /\ reset_helper(x).fd = 0
  BY <1>9, GoneLost DEF Sound, Lost
<1>10. ASSUME NEW b \in BOOLEAN PROVE Sound([link EXCEPT !.armed = b])
  <2>1. "RECV_DONE" \in Stage \ {"IDLE"} /\ <<>> \in Seq(Byte)
    BY EmptySeq DEF Stage
  <2> QED
    BY <1>0, <1>10, <2>1, TouchedSound
<1>11. ASSUME Become(link'), link'.fd = 0, notified' = "idle", UNCHANGED <<served, handled>>
       PROVE  Inward'
  BY <1>5, <1>11
<1>h. ASSUME NEW l \in send_to_logic(append_pkg(link, queued')), queued' = queued + 1,
             link.fd # 0 \/ link.made < MaxConn
      PROVE  Sound(l) /\ (l.fd # 0 => l.r = link.r /\ (l.fd = link.fd \/ link.fd = 0))
  <2>1. link.fd = 0 => link.wire[link.made + 1] = <<>>
    <3> HAVE link.fd = 0
    <3>1. link.made + 1 \in 1..MaxConn /\ link.made + 1 > link.made
      BY <1>0, <1>h DEF Bounds
    <3> QED
      BY <3>1 DEF IInv2, Ordered
  <2>2. queued' \in Nat
    BY <1>0, <1>h
  <2>3. /\ Sound(l)
        /\ l.fd # 0 => /\ l.r = link.r
                       /\ \/ Goes(link, l, Bytes(queued', "plain", 0))
                          \/ Dialled(link, l, Bytes(queued', "plain", 0))
    BY <1>0, <1>h, <2>1, <2>2, LogicOnward
  <2> QED
    BY <2>3 DEF Goes, Dialled
<1>12. CASE Send
  <2>1. PICK l \in send_to_logic(append_pkg(link, queued')) : Become(Settled(l))
    BY <1>12 DEF Send
  <2>2. queued' = queued + 1 /\ link.made < MaxConn /\ notified' = "idle" /\ UNCHANGED <<served, handled>>
    BY <1>12 DEF Send
  <2>3. Sound(l) /\ (l.fd # 0 => l.r = link.r /\ (l.fd = link.fd \/ link.fd = 0))
    BY <1>h, <2>1, <2>2
  <2>4. link' = Settled(l) /\ Become(link')
    BY <2>1 DEF Become
  <2>5. CASE l.fd = 0
    <3>1. link'.fd = 0
      BY <1>9, <2>3, <2>4, <2>5 DEF Settled
    <3> QED
      BY <1>11, <2>2, <2>4, <3>1
  <2>6. CASE l.fd # 0
    <3>1. link' = l
      BY <2>4, <2>6 DEF Settled
    <3> QED
      BY <1>5, <2>2, <2>3, <2>4, <2>6, <3>1
  <2> QED
    BY <2>5, <2>6
<1>13. CASE ServerSends
  <2>1. PICK k \in Kind : inbound' = inbound \o Bytes(served + 1, k, link.fd)
    BY <1>13 DEF ServerSends
  <2>2. /\ link.fd # 0 /\ served' = served + 1 /\ link' = link
        /\ UNCHANGED <<notified, unread, handled>>
    BY <1>13 DEF ServerSends
  <2>3. k \in AnyKind /\ link.fd \in 1..MaxConn /\ MaxConn \in Nat /\ served + 1 \in Nat
    BY <1>0, <2>2 DEF Kind, AnyKind, Sound, Bounds
  <2> DEFINE b == Bytes(served + 1, k, link.fd)
  <2>4. b \in Seq(Byte)
    BY <2>3, BytesTyped
  <2>5. Pairs((link.r \o inbound) \o b, served + 1)
    BY <1>0, <1>2, <2>3, PairsGrow
  <2> HIDE DEF b
  <2>6. (link.r \o inbound) \o b = link.r \o (inbound \o b)
    BY <1>0, <2>4, Reassociated
  <2>7. Pairs(link'.r \o inbound', served')
    BY <2>1, <2>2, <2>5, <2>6 DEF b
  <2>8. Past(handled', served')
    <3>1. \A n \in 1..served : n \in 1..served+1
      BY <1>0
    <3>2. \A x : Whole(x, served) => Whole(x, served + 1)
      BY <3>1 DEF Whole
    <3> QED
      BY <1>2, <2>2, <3>2 DEF Past
  <2> QED
    BY <1>2, <1>3, <2>2, <2>7, <2>8
<1>14. CASE \E n \in 1..Len(inbound) : Recv(n)
  <2>1. PICK n \in 1..Len(inbound) : Recv(n)
    BY <1>14
  <2> DEFINE a == SubSeq(inbound, 1, n)
             b == SubSeq(inbound, n + 1, Len(inbound))
  <2>2. a \in Seq(Byte) /\ b \in Seq(Byte) /\ inbound = a \o b
    BY <1>0, SubSeqTyped
  <2>3. link'.r = link.r \o a /\ link'.fd = link.fd
    BY <1>0, <1>8, <2>1 DEF Recv, Link
  <2>4. /\ inbound' = b /\ unread' = Len(link'.r) /\ link.fd # 0
        /\ UNCHANGED <<served, handled>>
    BY <2>1 DEF Recv
  <2> HIDE DEF a, b
  <2>5. (link.r \o a) \o b = link.r \o (a \o b)
    BY <1>0, <2>2, Reassociated
  <2>6. Pairs(link'.r \o inbound', served')
    BY <1>2, <2>2, <2>3, <2>4, <2>5
  <2>7. Count(notified', link'.r, unread')
    BY <2>4 DEF Count
  <2> QED
    BY <1>2, <1>3, <2>3, <2>4, <2>6, <2>7
<1>15. CASE RecvNothing
  <2>1. /\ link' = [[link EXCEPT !.armed = TRUE] EXCEPT !.stage = "DATA_RECVING"]
        /\ notified' = "idle" /\ UNCHANGED <<served, handled>> /\ Become(link')
    BY <1>8, <1>15 DEF RecvNothing, Become
  <2> QED
    BY <1>5, <1>7, <2>1
<1>16. CASE RecvFails
  <2>1. /\ link' = complete([link EXCEPT !.armed = TRUE]) /\ Become(link')
        /\ notified' = "idle" /\ UNCHANGED <<served, handled>>
    BY <1>8, <1>16 DEF RecvFails, Become
  <2> QED
    BY <1>9, <1>10, <1>11, <2>1
<1>17. CASE OutputNotify
  <2> DEFINE u == update_timer(link)
  <2>1. PICK l \in send_to_cgi(u) : Become(Settled(l))
    BY <1>17 DEF OutputNotify
  <2>2. "OUT" \in link.interest /\ notified' = "idle" /\ UNCHANGED <<served, handled>>
    BY <1>17 DEF OutputNotify
  <2>3. u \in Link /\ u.w = link.w /\ u.wire = link.wire /\ u.fd = link.fd /\ u.interest = link.interest
        /\ u.open = link.open /\ u.made = link.made /\ u.stage = link.stage /\ u.r = link.r
    BY <1>0, <1>8 DEF Link
  <2> HIDE DEF u
  <2>4. Ready(u)
    BY <1>0, <2>2, <2>3 DEF Ready, Sound, Watched
  <2>5. Sound(l) /\ (l.fd # 0 => l.fd = link.fd /\ l.r = link.r)
    BY <2>1, <2>3, <2>4, SendOnward DEF Goes
  <2>6. link' = Settled(l) /\ Become(link')
    BY <2>1 DEF Become
  <2>7. CASE l.fd = 0
    <3>1. link'.fd = 0
      BY <1>9, <2>5, <2>6, <2>7 DEF Settled
    <3> QED
      BY <1>11, <2>2, <2>6, <3>1
  <2>8. CASE l.fd # 0
    <3>1. link' = l
      BY <2>6, <2>8 DEF Settled
    <3> QED
      BY <1>5, <2>2, <2>5, <2>6, <2>8, <3>1
  <2> QED
    BY <2>7, <2>8
<1>18. CASE HangupNotify
  <2>1. /\ link' = [link EXCEPT !.armed = TRUE] /\ inbound' = inbound /\ unread' = Len(link.r)
        /\ UNCHANGED <<served, handled>>
    BY <1>8, <1>18 DEF HangupNotify
  <2>2. Count(notified', link.r, unread')
    BY <2>1 DEF Count
  <2> QED
    BY <1>6, <1>7, <2>1, <2>2
<1>19. CASE TimerNotify
  <2>1. /\ link' = complete([link EXCEPT !.armed = FALSE]) /\ Become(link')
        /\ notified' = "idle" /\ UNCHANGED <<served, handled>>
    BY <1>19 DEF TimerNotify, Become
  <2> QED
    BY <1>9, <1>10, <1>11, <2>1
<1>20. CASE Processed
  <2>1. Become(link') /\ notified' = "idle" /\ UNCHANGED <<served, handled>>
    BY <1>20 DEF Processed, Become
  <2>2. link' = complete(link) \/ link' = [link EXCEPT !.stage = "RECV_DONE"]
    BY <1>20 DEF Processed, Become
  <2> QED
    BY <1>0, <1>5, <1>7, <1>9, <2>1, <2>2
<1>21. CASE GivesUp
  <2>1. link' = complete(link) /\ Become(link') /\ notified' = "idle" /\ UNCHANGED <<served, handled>>
    BY <1>21 DEF GivesUp, Become
  <2> QED
    BY <1>0, <1>9, <1>11, <2>1
<1>i. ASSUME NEW k, NEW x, NEW lf, Handles(k, x, lf) PROVE Past(handled', served')
  <2>1. /\ Whole(SubSeq(link.r, 1, 2), served) /\ SubSeq(link.r, 1, 2) \in Seq(Byte)
        /\ handled' = Append(handled, SubSeq(link.r, 1, 2)) /\ served' = served
    BY <1>i, HandlesInward DEF Handles
  <2> DEFINE h == SubSeq(link.r, 1, 2)
  <2> HIDE DEF h
  <2>2. handled \in Seq(Seq(Byte)) /\ \A i \in 1..Len(handled) : Whole(handled[i], served)
    BY <1>2 DEF Past
  <2>3. handled' = Append(handled, h) /\ h \in Seq(Byte) /\ Whole(h, served)
    BY <2>1 DEF h
  <2>4. /\ handled' \in Seq(Seq(Byte)) /\ Len(handled') = Len(handled) + 1
        /\ \A i \in 1..Len(handled) : handled'[i] = handled[i]
        /\ handled'[Len(handled) + 1] = h
    BY <2>2, <2>3, AppendProperties
  <2>5. ASSUME NEW i \in 1..Len(handled') PROVE Whole(handled'[i], served')
    <3>1. i \in 1..Len(handled) \/ i = Len(handled) + 1
      BY <2>2, <2>4, LenProperties
    <3> QED
      BY <2>1, <2>2, <2>3, <2>4, <3>1
  <2> QED
    BY <2>4, <2>5 DEF Past
<1>j. ASSUME NEW k, NEW x, Handles(k, Skipped(x), unread - 2), x.r = link.r, x.fd = link.fd, x \in Link
      PROVE  Inward'
  <2> DEFINE t == SubSeq(link.r, 3, Len(link.r))
  <2>1. link' = Skipped(x) /\ Become(link') /\ served' = served /\ unread' = unread - 2
    BY <1>j DEF Handles, Become
  <2>2. link'.r = t /\ link'.fd = link.fd
    BY <1>j, <2>1 DEF Skipped, Link
  <2>3. Pairs(t \o inbound, served) /\ Len(t) = unread - 2 /\ link.fd # 0
    BY <1>j, HandlesInward
  <2> HIDE DEF t
  <2>4. inbound' = inbound
    BY <2>1, <2>2 DEF Become
  <2>5. Count(notified', link'.r, unread')
    BY <2>1, <2>2, <2>3 DEF Count
  <2> QED
    BY <1>3, <1>i, <1>j, <2>1, <2>2, <2>3, <2>4, <2>5
<1>k. ASSUME NEW k, NEW x, NEW lf, Handles(k, x, lf), x.fd = 0
      PROVE  Inward'
  <2>1. link' = x /\ Become(link') /\ served' = served
    BY <1>k DEF Handles, Become
  <2>2. Pairs(link'.r \o inbound', served) /\ inbound' = <<>>
    BY <1>1, <1>k, <2>1, BecomeInward
  <2>3. link'.r = <<>>
    BY <1>1, <1>k, <2>1 DEF Sound
  <2>4. Count(notified', link'.r, unread')
    BY <2>3 DEF Count
  <2> QED
    BY <1>3, <1>i, <1>k, <2>1, <2>2, <2>4
<1>22. CASE Plain \/ NoticeElsewhere
  BY <1>0, <1>22, <1>j DEF Plain, NoticeElsewhere
<1>23. CASE Notice
  <2>1. PICK l \in send_to_logic(append_pkg(link, queued')) : Handles("notice", Skipped(l), unread - 2)
    BY <1>23 DEF Notice
  <2>2. link.fd # 0 /\ queued' = queued + 1
    BY <1>0, <1>23, <2>1 DEF Notice, Handles, Sound
  <2>3. Sound(l) /\ (l.fd # 0 => l.r = link.r /\ l.fd = link.fd)
    BY <1>h, <2>1, <2>2
  <2>4. l \in Link /\ Skipped(l).fd = l.fd
    BY <2>3, SkippedSound DEF Sound
  <2> QED
    BY <1>j, <1>k, <2>1, <2>3, <2>4
<1>24. CASE Leave
  <2>1. reset_helper(Skipped(link)).fd = 0
    BY <1>0, <1>9, SkippedSound
  <2> QED
    BY <1>24, <1>k, <2>1 DEF Leave
<1>25. CASE UNCHANGED linkVars
  <2>1. link' = link /\ inbound' = inbound /\ Count(notified', link.r, unread') /\ UNCHANGED <<served, handled>>
    BY <1>2, <1>25 DEF linkVars
  <2> QED
    BY <1>6, <2>1
<1> QED
  BY <1>12, <1>13, <1>14, <1>15, <1>16, <1>17, <1>18, <1>19, <1>20, <1>21, <1>22, <1>23, <1>24, <1>25
     DEF LinkNext

-----------------------------------------------------------------------------
(* The theorem. *)

\* A new link has nothing to keep in order.
LEMMA IInv2Init == Bounds /\ LinkInit => IInv2
<1> SUFFICES ASSUME Bounds, LinkInit PROVE IInv2
  OBVIOUS
<1>1. IInv /\ MaxConn \in Nat
  BY IInvInit DEF Bounds
<1> DEFINE W == [c \in 1..MaxConn |-> <<>>]
<1>2. /\ link.fd = 0 /\ link.made = 0 /\ link.r = <<>> /\ link.wire = W
      /\ queued = 0 /\ served = 0 /\ inbound = <<>> /\ notified = "idle" /\ handled = <<>>
  BY DEF LinkInit, Fresh
<1>3. \A c \in 1..MaxConn : W[c] = <<>>
  OBVIOUS
<1>4. W \in [1..MaxConn -> Seq(Byte)]
  BY EmptySeq
<1> HIDE DEF W
<1>5. \A c \in 1..MaxConn : Nums(link, c) = {}
  BY <1>2, <1>3, <1>4, NumsTyped
<1>6. Ordered(link, queued)
  BY <1>2, <1>3, <1>4, <1>5 DEF Ordered
<1>7. Pairs(link.r \o inbound, served)
  BY <1>2, EmptySeq, ConcatEmptySeq, PairsOfNone
<1>8. Inward
  BY <1>2, <1>7, EmptySeq DEF Inward
<1> QED
  BY <1>1, <1>6, <1>8 DEF IInv2

\* In order and whole is what PacketsWhole asks.
LEMMA PacketsOrdered == Bounds /\ IInv2 => PacketsWhole
<1> SUFFICES ASSUME Bounds, IInv2 PROVE PacketsWhole
  OBVIOUS
<1>1. /\ Ordered(link, queued) /\ queued \in Nat /\ Inward
      /\ link.wire \in [1..MaxConn -> Seq(Byte)]
  BY DEF IInv2, IInv, Ordered
<1>2. link.fd # 0 => WholeSeq(link.wire[link.fd] \o link.w)
  BY <1>1, RunIsWhole DEF Ordered, Out
<1>3. ASSUME NEW c \in 1..MaxConn, link.wire[c] # <<>>
      PROVE  Last(link.wire[c]).packet \in Nums(link, c) /\ Head(link.wire[c]).packet \in Nums(link, c)
  <2> DEFINE s == link.wire[c]
  <2>1. s \in Seq(Byte) /\ s # <<>>
    BY <1>1, <1>3
  <2>2. Nums(link, c) = {s[i].packet : i \in 1..Len(s)}
    BY DEF Nums
  <2> HIDE DEF s
  <2>3. 1 \in 1..Len(s) /\ Len(s) \in 1..Len(s)
    BY <2>1, EmptySeq, LenProperties
  <2>4. Head(s) = s[1] /\ Last(s) = s[Len(s)]
    BY <2>1 DEF Last
  <2>5. Last(s).packet \in Nums(link, c) /\ Head(s).packet \in Nums(link, c)
    BY <2>2, <2>3, <2>4
  <2> QED
    BY <2>5 DEF s
<1>4. StreamsWhole
  BY <1>1, <1>2, <1>3 DEF StreamsWhole, Ordered
<1>5. HandledWhole
  BY <1>1 DEF Inward, HandledWhole, Whole
<1> QED
  BY <1>4, <1>5 DEF PacketsWhole

\* A server reads whole packets in the order they were queued, on whatever sockets, and
\* what process_pkg takes for a packet is one that the server sent (helper_unit.cpp:54-76,
\* game_unit.cpp:237-262).
THEOREM PacketsWholeTheorem ==
  ASSUME Bounds
  PROVE  LinkSpec => []PacketsWhole
<1>1. LinkInit => IInv2
  BY IInv2Init
<1>2. IInv2 /\ [LinkNext]_linkVars => IInv2'
  BY IInvStep, OrderedStep, InwardStep DEF IInv2
<1>3. IInv2 => PacketsWhole
  BY PacketsOrdered
<1> QED
  BY <1>1, <1>2, <1>3, PTL DEF LinkSpec
=============================================================================
