----------------------------- MODULE HallProofs -----------------------------
(* Proofs, for any sets of connections, users and game servers, that the     *)
(* session core of module Hall keeps its registry consistent, announces      *)
(* registered users and never reports a registered user as gone.             *)
EXTENDS Hall, TLAPS

\* Only live connections are logged in, exactly the logged-in ones are
\* CONN_CLINET, and a failed client's input is off: what complete() relies on
\* when it decides from _conn_type whether there is a user to report.
FlagsAgree ==
  /\ \A c \in Conn : flag[c] # None => c \in live
  /\ \A c \in Conn : conn_type[c] = "CLINET" <=> flag[c] # None
  /\ failed \subseteq deaf

\* The inductive invariant behind the theorems.
IInv ==
  /\ TypeOK
  /\ RegistryConsistent
  /\ FlagsAgree
  /\ RegisteredIsAnnounced
  /\ CloseOnlyForGone
  /\ LinkedIsTimed

\* No packet is a sequence of packets.
LEMMA EmptySeq == <<>> \in Seq(Packets)
OBVIOUS

-----------------------------------------------------------------------------
(* The initial state. *)

\* With nobody connected the invariant holds.
LEMMA InitIInv == Init => IInv
BY NoneAssumption
   DEF Init, IInv, TypeOK, RegistryConsistent, FlagsAgree,
       RegisteredIsAnnounced, CloseOnlyForGone, LinkedIsTimed

-----------------------------------------------------------------------------
(* What deleting connections leaves behind. *)

\* Deleting a set of live connections keeps the types of what Deleted changes.
LEMMA DeletedTypes ==
  ASSUME TypeOK, NEW D \in SUBSET Conn, Deleted(D)
  PROVE  /\ live' \subseteq Conn
         /\ failed' \subseteq live'
         /\ deaf' \subseteq live'
         /\ gtimer' \subseteq live'
         /\ moved' \subseteq live'
         /\ tid' \in [Conn -> Game \cup {None}]
         /\ addr' \in [Conn -> Game \cup {None}]
         /\ link' \in [Conn -> Game \cup {None}]
BY DEF TypeOK, Deleted, Cleared

\* Deleting connections keeps the timers of the connected ones armed.
LEMMA DeletedTimers ==
  ASSUME TypeOK, LinkedIsTimed, NEW D \in SUBSET Conn, Deleted(D)
  PROVE  LinkedIsTimed'
BY DEF TypeOK, Deleted, Cleared, LinkedIsTimed

\* Erasing the users of D and logging D out keeps registry and flags agreeing.
LEMMA ErasedRegistry ==
  ASSUME IInv, NEW D \in SUBSET Conn, Deleted(D),
         objmap' = Erased(D),
         flag' = Cleared(flag, D, None),
         conn_type' = Cleared(conn_type, D, "OTHER")
  PROVE  /\ flag' \in [Conn -> Uid \cup {None}]
         /\ conn_type' \in [Conn -> {"CLINET", "OTHER"}]
         /\ objmap' \in [Uid -> Conn \cup {None}]
         /\ RegistryConsistent'
         /\ FlagsAgree'
<1>1. /\ flag' \in [Conn -> Uid \cup {None}]
      /\ conn_type' \in [Conn -> {"CLINET", "OTHER"}]
      /\ objmap' \in [Uid -> Conn \cup {None}]
  BY DEF IInv, TypeOK, Cleared, Erased
<1>2. RegistryConsistent'
  BY NoneAssumption DEF IInv, TypeOK, Cleared, Erased, Deleted, RegistryConsistent
<1>3. FlagsAgree'
  BY DEF IInv, TypeOK, Cleared, Deleted, FlagsAgree
<1> QED
  BY <1>1, <1>2, <1>3

-----------------------------------------------------------------------------
(* One lemma per way a handler ends. *)

\* CListener::complete keeps the invariant.
LEMMA CompleteIInv ==
  ASSUME IInv, NEW c \in Conn, NEW ok \in BOOLEAN, Complete(c, ok)
  PROVE  IInv'
<1>1. /\ Deleted({c})
      /\ objmap' = Erased({c})
      /\ flag' = Cleared(flag, {c}, None)
      /\ conn_type' = Cleared(conn_type, {c}, "OTHER")
      /\ {c} \in SUBSET Conn
      /\ TypeOK
      /\ LinkedIsTimed
  BY DEF Complete, IInv
<1>4. /\ live' \subseteq Conn
      /\ failed' \subseteq live'
      /\ deaf' \subseteq live'
      /\ gtimer' \subseteq live'
      /\ moved' \subseteq live'
      /\ tid' \in [Conn -> Game \cup {None}]
      /\ addr' \in [Conn -> Game \cup {None}]
      /\ link' \in [Conn -> Game \cup {None}]
  BY <1>1, DeletedTypes
<1>5. /\ flag' \in [Conn -> Uid \cup {None}]
      /\ conn_type' \in [Conn -> {"CLINET", "OTHER"}]
      /\ objmap' \in [Uid -> Conn \cup {None}]
      /\ RegistryConsistent'
      /\ FlagsAgree'
  BY <1>1, ErasedRegistry
<1>6. LinkedIsTimed'
  BY <1>1, DeletedTimers
<1>2. CASE flag[c] = None
  <2>1. sent' = <<>> /\ lastMsg' = lastMsg
    BY <1>2 DEF Complete, NoticeFor, IInv, FlagsAgree
  <2>2. RegisteredIsAnnounced'
    BY <2>1, <1>1 DEF IInv, TypeOK, RegisteredIsAnnounced, Erased
  <2>3. CloseOnlyForGone'
    BY <2>1 DEF CloseOnlyForGone
  <2>4. TypeOK'
    BY <1>1, <1>4, <1>5, <2>1, EmptySeq DEF TypeOK, Complete
  <2> QED
    BY <1>5, <1>6, <2>2, <2>3, <2>4 DEF IInv
<1>3. CASE flag[c] # None
  <2> DEFINE p == [kind |-> "close", uid |-> flag[c]]
  <2>0. conn_type[c] = "CLINET" /\ flag[c] \in Uid
    BY <1>3 DEF IInv, FlagsAgree, TypeOK
  <2>1. sent' = <<p>>
    BY <2>0 DEF Complete, NoticeFor
  <2>2. p \in Packets /\ p.uid = flag[c] /\ p.kind = "close"
    BY <2>0 DEF Packets
  <2>3. lastMsg' \in {lastMsg, [lastMsg EXCEPT ![flag[c]] = "close"]}
    BY <2>1, <2>2 DEF Complete, Offered
  <2>4. objmap'[flag[c]] = None
    BY <2>0, <1>1 DEF Erased
  <2>5. RegisteredIsAnnounced'
    BY <1>1, <2>0, <2>3, <2>4 DEF IInv, TypeOK, RegisteredIsAnnounced, Erased
  <2>6. CloseOnlyForGone'
    BY <2>1, <2>2, <2>4 DEF CloseOnlyForGone
  <2>7. TypeOK'
    <3>1. sent' \in Seq(Packets)
      BY <2>1, <2>2
    <3>2. lastMsg' \in [Uid -> {"none", "login", "close"}]
      BY <2>0, <2>3 DEF IInv, TypeOK
    <3> QED
      BY <1>4, <1>5, <3>1, <3>2 DEF TypeOK, Complete
  <2> QED
    BY <1>5, <1>6, <2>5, <2>6, <2>7 DEF IInv
<1> QED
  BY <1>2, <1>3

\* complete() of a connection that was made CONN_OTHER keeps the invariant.
LEMMA SilentIInv ==
  ASSUME IInv, NEW c \in Conn, CompleteSilently(c)
  PROVE  IInv'
<1>1. /\ Deleted({c})
      /\ objmap' = Erased({c})
      /\ flag' = Cleared(flag, {c}, None)
      /\ conn_type' = Cleared(conn_type, {c}, "OTHER")
      /\ {c} \in SUBSET Conn
      /\ sent' = <<>>
      /\ othered' = {c}
      /\ lastMsg' = lastMsg
      /\ TypeOK
      /\ LinkedIsTimed
  BY DEF CompleteSilently, Quiet, IInv
<1>4. /\ live' \subseteq Conn
      /\ failed' \subseteq live'
      /\ deaf' \subseteq live'
      /\ gtimer' \subseteq live'
      /\ moved' \subseteq live'
      /\ tid' \in [Conn -> Game \cup {None}]
      /\ addr' \in [Conn -> Game \cup {None}]
      /\ link' \in [Conn -> Game \cup {None}]
  BY <1>1, DeletedTypes
<1>5. /\ flag' \in [Conn -> Uid \cup {None}]
      /\ conn_type' \in [Conn -> {"CLINET", "OTHER"}]
      /\ objmap' \in [Uid -> Conn \cup {None}]
      /\ RegistryConsistent'
      /\ FlagsAgree'
  BY <1>1, ErasedRegistry
<1>6. LinkedIsTimed'
  BY <1>1, DeletedTimers
<1>2. RegisteredIsAnnounced'
  BY <1>1 DEF IInv, TypeOK, RegisteredIsAnnounced, Erased
<1>3. CloseOnlyForGone'
  BY <1>1 DEF CloseOnlyForGone
<1>7. TypeOK'
  BY <1>1, <1>4, <1>5, EmptySeq DEF TypeOK
<1> QED
  BY <1>2, <1>3, <1>5, <1>6, <1>7 DEF IInv

-----------------------------------------------------------------------------
(* The three ways LOGIN ends. *)

\* The connection a LOGIN kicks is live and logged in as the same user, and
\* kicking it reports nothing.
LEMMA KickedFacts ==
  ASSUME IInv, NEW c \in Conn, NEW u \in Uid
  PROVE  /\ Kicked(c, u) \in SUBSET Conn
         /\ c \notin Kicked(c, u)
         /\ \A d \in Kicked(c, u) : flag[d] = u
         /\ objmap[u] \in Kicked(c, u) \cup {None, c}
         /\ KickNotice(c, u) = <<>>
BY DEF IInv, TypeOK, RegistryConsistent, Kicked, KickNotice, KickedType, NoticeFor

\* An accepted LOGIN keeps the invariant.
LEMMA LoginAcceptedIInv ==
  ASSUME IInv, NEW c \in Conn, NEW u \in Uid, LoginAccepted(c, u)
  PROVE  IInv'
<1> DEFINE K == Kicked(c, u)
           p == [kind |-> "login", uid |-> u]
<1>1. /\ K \in SUBSET Conn
      /\ c \notin K
      /\ \A d \in K : flag[d] = u
      /\ objmap[u] \in K \cup {None, c}
      /\ KickNotice(c, u) = <<>>
  BY KickedFacts
<1>2. /\ Deleted(K)
      /\ TypeOK
      /\ LinkedIsTimed
      /\ c \in live
      /\ flag[c] \in {None, u}
      /\ objmap' = [Erased(K) EXCEPT ![u] = c]
      /\ flag' = [Cleared(flag, K, None) EXCEPT ![c] = u]
      /\ conn_type' = [Cleared(conn_type, K, "OTHER") EXCEPT ![c] = "CLINET"]
      /\ lastMsg' = [lastMsg EXCEPT ![u] = "login"]
  BY DEF LoginAccepted, Reads, IInv
<1>3. p \in Packets /\ p.kind = "login" /\ sent' = <<p>>
  BY <1>1 DEF LoginAccepted, Packets
<1>4. /\ live' \subseteq Conn
      /\ failed' \subseteq live'
      /\ deaf' \subseteq live'
      /\ gtimer' \subseteq live'
      /\ moved' \subseteq live'
      /\ tid' \in [Conn -> Game \cup {None}]
      /\ addr' \in [Conn -> Game \cup {None}]
      /\ link' \in [Conn -> Game \cup {None}]
  BY <1>1, <1>2, DeletedTypes
<1>5. LinkedIsTimed'
  BY <1>1, <1>2, DeletedTimers
<1>6. /\ flag' \in [Conn -> Uid \cup {None}]
      /\ conn_type' \in [Conn -> {"CLINET", "OTHER"}]
      /\ objmap' \in [Uid -> Conn \cup {None}]
      /\ lastMsg' \in [Uid -> {"none", "login", "close"}]
  BY <1>2 DEF TypeOK, Cleared, Erased
<1>7. sent' \in Seq(Packets)
  BY <1>3
<1>8. RegistryConsistent'
  <2>1. ASSUME NEW v \in Uid, objmap'[v] # None
        PROVE  objmap'[v] \in live' /\ flag'[objmap'[v]] = v
    <3>1. CASE v = u
      BY <1>1, <1>2, <3>1 DEF TypeOK, Cleared, Erased, Deleted
    <3>2. CASE v # u
      <4> DEFINE e == objmap[v]
      <4>1. objmap'[v] = e /\ e # None
        BY <1>2, <2>1, <3>2 DEF TypeOK, Erased
      <4>2. e \in Conn /\ e \in live /\ flag[e] = v
        BY <4>1, <1>2 DEF IInv, TypeOK, RegistryConsistent
      <4>3. e \notin K /\ e # c
        BY <4>2, <3>2, <1>1, <1>2, NoneAssumption
      <4>4. flag'[e] = v /\ e \in live'
        BY <4>2, <4>3, <1>2 DEF Cleared, Deleted
      <4> QED
        BY <4>1, <4>4
    <3> QED
      BY <3>1, <3>2
  <2>2. ASSUME NEW d \in Conn, flag'[d] # None
        PROVE  objmap'[flag'[d]] = d
    <3>1. CASE d = c
      BY <1>1, <1>2, <3>1 DEF TypeOK, Cleared, Erased
    <3>2. CASE d # c
      <4>1. d \notin K /\ flag'[d] = flag[d] /\ flag[d] \in Uid
        BY <1>2, <2>2, <3>2 DEF TypeOK, Cleared
      <4>2. objmap[flag[d]] = d
        BY <4>1, <2>2 DEF IInv, RegistryConsistent
      <4>3. flag[d] # u
        BY <4>1, <4>2, <3>2, <1>1, NoneAssumption
      <4>4. Erased(K)[flag[d]] = d
        BY <4>1, <4>2, <1>1, <4>3 DEF Erased
      <4>5. Erased(K) \in [Uid -> Conn \cup {None}]
        BY <1>2 DEF TypeOK, Erased
      <4> QED
        BY <4>1, <4>3, <4>4, <4>5, <1>2
    <3> QED
      BY <3>1, <3>2
  <2> QED
    BY <2>1, <2>2 DEF RegistryConsistent
<1>9. FlagsAgree'
  BY <1>1, <1>2, NoneAssumption DEF IInv, TypeOK, Cleared, Deleted, FlagsAgree
<1>10. RegisteredIsAnnounced'
  BY <1>2 DEF IInv, TypeOK, Erased, RegisteredIsAnnounced
<1>11. CloseOnlyForGone'
  BY <1>3 DEF CloseOnlyForGone
<1>12. TypeOK'
  BY <1>1, <1>4, <1>6, <1>7 DEF TypeOK, LoginAccepted
<1> QED
  BY <1>5, <1>8, <1>9, <1>10, <1>11, <1>12 DEF IInv

\* A step that deletes the connections D, leaves user v unregistered and reports
\* exactly that v left keeps the invariant.
LEMMA ReportedIInv ==
  ASSUME IInv, NEW D \in SUBSET Conn, NEW v \in Uid, NEW ok \in BOOLEAN,
         Deleted(D),
         objmap' = [Erased(D) EXCEPT ![v] = None],
         \A c \in Conn : flag[c] = v => c \in D,
         flag' = Cleared(flag, D, None),
         conn_type' = Cleared(conn_type, D, "OTHER"),
         sent' = <<[kind |-> "close", uid |-> v]>>,
         Offered([kind |-> "close", uid |-> v], ok),
         othered' \subseteq Conn
  PROVE  IInv'
<1>1. objmap' = Erased(D)
  <2>1. Erased(D)[v] = None
    <3>1. CASE objmap[v] = None
      BY <3>1 DEF Erased
    <3>2. CASE objmap[v] # None
      BY <3>2 DEF IInv, TypeOK, RegistryConsistent, Erased
    <3> QED
      BY <3>1, <3>2
  <2> QED
    BY <2>1 DEF Erased
<1>2. TypeOK /\ LinkedIsTimed
  BY DEF IInv
<1>3. /\ live' \subseteq Conn
      /\ failed' \subseteq live'
      /\ deaf' \subseteq live'
      /\ gtimer' \subseteq live'
      /\ moved' \subseteq live'
      /\ tid' \in [Conn -> Game \cup {None}]
      /\ addr' \in [Conn -> Game \cup {None}]
      /\ link' \in [Conn -> Game \cup {None}]
  BY <1>2, DeletedTypes
<1>4. /\ flag' \in [Conn -> Uid \cup {None}]
      /\ conn_type' \in [Conn -> {"CLINET", "OTHER"}]
      /\ objmap' \in [Uid -> Conn \cup {None}]
      /\ RegistryConsistent'
      /\ FlagsAgree'
  BY <1>1, ErasedRegistry
<1>5. LinkedIsTimed'
  BY <1>2, DeletedTimers
<1>6. lastMsg' \in {lastMsg, [lastMsg EXCEPT ![v] = "close"]}
  BY DEF Offered
<1>7. lastMsg' \in [Uid -> {"none", "login", "close"}]
  BY <1>2, <1>6 DEF TypeOK
<1>8. RegisteredIsAnnounced'
  BY <1>2, <1>6 DEF IInv, TypeOK, RegisteredIsAnnounced, Erased
<1>9. CloseOnlyForGone'
  BY <1>2 DEF CloseOnlyForGone, TypeOK, Erased
<1>10. sent' \in Seq(Packets)
  BY DEF Packets
<1>11. TypeOK'
  BY <1>3, <1>4, <1>7, <1>10 DEF TypeOK
<1> QED
  BY <1>4, <1>5, <1>8, <1>9, <1>11 DEF IInv

\* A refused LOGIN keeps the invariant, though it kicks another connection.
LEMMA LoginRefusedIInv ==
  ASSUME IInv, NEW c \in Conn, NEW u \in Uid, NEW ok \in BOOLEAN,
         LoginRefused(c, u, ok)
  PROVE  IInv'
<1> DEFINE D == Kicked(c, u) \cup {c}
           v == flag[c]
<1>1. /\ Kicked(c, u) \in SUBSET Conn
      /\ KickNotice(c, u) = <<>>
  BY KickedFacts
<1>2. /\ v \in Uid
      /\ v # None
      /\ conn_type[c] = "CLINET"
  BY DEF LoginRefused, IInv, TypeOK, FlagsAgree
<1>3. /\ D \in SUBSET Conn
      /\ Deleted(D)
      /\ objmap' = Erased(D)
      /\ flag' = Cleared(flag, D, None)
      /\ conn_type' = Cleared(conn_type, D, "OTHER")
      /\ Offered([kind |-> "close", uid |-> v], ok)
      /\ othered' \subseteq Conn
  BY <1>1 DEF LoginRefused
<1>4. sent' = <<[kind |-> "close", uid |-> v]>>
  BY <1>1, <1>2 DEF LoginRefused, NoticeFor
<1>5. objmap' = [Erased(D) EXCEPT ![v] = None]
  BY <1>3 DEF Erased
<1>6. \A d \in Conn : flag[d] = v => d \in D
  BY <1>2 DEF IInv, RegistryConsistent
<1> QED
  BY <1>2, <1>3, <1>4, <1>5, <1>6, ReportedIInv

\* A LOGIN that no allocation server takes keeps the invariant.
LEMMA LoginNotForwardedIInv ==
  ASSUME IInv, NEW c \in Conn, NEW u \in Uid, NEW ok \in BOOLEAN,
         LoginNotForwarded(c, u, ok)
  PROVE  IInv'
<1> DEFINE D == Kicked(c, u) \cup {c}
<1>1. /\ Kicked(c, u) \in SUBSET Conn
      /\ KickNotice(c, u) = <<>>
      /\ objmap[u] \in Kicked(c, u) \cup {None, c}
  BY KickedFacts
<1>2. /\ D \in SUBSET Conn
      /\ Deleted(D)
      /\ objmap' = [Erased(D) EXCEPT ![u] = None]
      /\ flag' = Cleared(flag, D, None)
      /\ conn_type' = Cleared(conn_type, D, "OTHER")
      /\ Offered([kind |-> "close", uid |-> u], ok)
      /\ othered' \subseteq Conn
  BY <1>1 DEF LoginNotForwarded
<1>3. sent' = <<[kind |-> "close", uid |-> u]>>
  BY <1>1 DEF LoginNotForwarded, NoticeFor
<1>4. \A d \in Conn : flag[d] = u => d \in D
  BY <1>1, NoneAssumption DEF IInv, RegistryConsistent
<1> QED
  BY <1>2, <1>3, <1>4, ReportedIInv

-----------------------------------------------------------------------------
(* The steps of the three kinds of peers. *)

\* A step driven by a client keeps the invariant.
LEMMA ClientStepIInv ==
  ASSUME IInv, NEW c \in Conn, ClientStep(c)
  PROVE  IInv'
<1> USE DEF IInv
<1>1. CASE Accept(c)
  BY <1>1, EmptySeq DEF Accept, Quiet, client, game, TypeOK, RegistryConsistent,
       FlagsAgree, RegisteredIsAnnounced, CloseOnlyForGone, LinkedIsTimed
<1>2. CASE PolicyRequest(c)
  BY <1>2, SilentIInv DEF PolicyRequest
<1>3. CASE ClientServed(c)
  BY <1>3, EmptySeq DEF ClientServed, Handled, Quiet, session, game, TypeOK,
       RegistryConsistent, FlagsAgree, RegisteredIsAnnounced, CloseOnlyForGone,
       LinkedIsTimed
<1>4. CASE GameCommand(c)
  BY <1>4, EmptySeq DEF GameCommand, Reads, Handled, Quiet, session, TypeOK,
       RegistryConsistent, FlagsAgree, RegisteredIsAnnounced, CloseOnlyForGone,
       LinkedIsTimed
<1>5. ASSUME NEW F \in SUBSET Conn, Broadcast(c, F)
      PROVE  IInv'
  <2>1. F \subseteq live
    BY <1>5 DEF Broadcast, RegistryConsistent
  <2> QED
    BY <1>5, <2>1, EmptySeq DEF Broadcast, Quiet, session, game, TypeOK,
       RegistryConsistent, FlagsAgree, RegisteredIsAnnounced, CloseOnlyForGone,
       LinkedIsTimed
<1>6. ASSUME NEW u \in Uid, LoginAccepted(c, u)
      PROVE  IInv'
  BY <1>6, LoginAcceptedIInv
<1>7. ASSUME NEW ok \in BOOLEAN,
             \/ ClientGone(c, ok)
             \/ ClientHangup(c, ok)
             \/ ClientTimer(c, ok)
             \/ ClientSendFails(c, ok)
      PROVE  IInv'
  BY <1>7, CompleteIInv DEF ClientGone, ClientHangup, ClientTimer, ClientSendFails
<1>8. ASSUME NEW ok \in BOOLEAN, NEW u \in Uid,
             LoginRefused(c, u, ok) \/ LoginNotForwarded(c, u, ok)
      PROVE  IInv'
  BY <1>8, LoginRefusedIInv, LoginNotForwardedIInv
<1> QED
  BY <1>1, <1>2, <1>3, <1>4, <1>5, <1>6, <1>7, <1>8 DEF ClientStep

\* A step driven by a game server or a game unit's timer keeps the invariant.
LEMMA GameStepIInv ==
  ASSUME IInv, NEW c \in Conn, GameStep(c)
  PROVE  IInv'
<1> USE DEF IInv
<1>1. ASSUME NEW a \in Game \cup {None}, GameLeft(c, a)
      PROVE  IInv'
  BY <1>1, EmptySeq DEF GameLeft, GameReset, Quiet, session, client, TypeOK,
       RegistryConsistent, FlagsAgree, RegisteredIsAnnounced, CloseOnlyForGone,
       LinkedIsTimed
<1>2. CASE GameForward(c)
  BY <1>2, EmptySeq DEF GameForward, Quiet, session, client, TypeOK,
       RegistryConsistent, FlagsAgree, RegisteredIsAnnounced, CloseOnlyForGone,
       LinkedIsTimed
<1>3. ASSUME NEW ok \in BOOLEAN, GameGone(c, ok) \/ GameTimer(c, ok)
      PROVE  IInv'
  BY <1>3, CompleteIInv DEF GameGone, GameTimer
<1> QED
  BY <1>1, <1>2, <1>3 DEF GameStep

\* A step driven by an allocation server keeps the invariant.
LEMMA AllocStepIInv ==
  ASSUME IInv, NEW u \in Uid, AllocStep(u)
  PROVE  IInv'
<1> USE DEF IInv
<1>1. CASE ServerClose(u)
  BY <1>1, SilentIInv DEF ServerClose, TypeOK
<1>2. ASSUME NEW ok \in BOOLEAN, AllocReply(u, ok)
      PROVE  IInv'
  <2> DEFINE c == objmap[u]
  <2>1. c \in live /\ c \in Conn
    BY <1>2 DEF AllocReply, RegistryConsistent, TypeOK
  <2>2. /\ tid' \in [Conn -> Game \cup {None}]
        /\ addr' \in [Conn -> Game \cup {None}]
        /\ link' \in [Conn -> Game \cup {None}]
        /\ \A d \in Conn : link'[d] \in {link[d], None}
    BY <1>2, <2>1 DEF AllocReply, Seated, LoginSuccess, NewTable, TypeOK
  <2>6. moved' \subseteq live
    BY <1>2, <2>1 DEF AllocReply, Seated, LoginSuccess, NewTable, TypeOK
  <2>3. /\ failed' \subseteq live
        /\ deaf' \subseteq live
        /\ failed' \subseteq deaf'
    BY <1>2, <2>1 DEF AllocReply, TypeOK, FlagsAgree
  <2>4. UNCHANGED <<session, gtimer>> /\ Quiet
    BY <1>2 DEF AllocReply
  <2>5. LinkedIsTimed'
    BY <2>2, <2>4 DEF LinkedIsTimed
  <2> QED
    BY <2>2, <2>3, <2>4, <2>5, <2>6, EmptySeq DEF session, Quiet, TypeOK,
       RegistryConsistent, FlagsAgree, RegisteredIsAnnounced, CloseOnlyForGone
<1>3. ASSUME NEW ok \in BOOLEAN, AllocReplyToFailed(u, ok)
      PROVE  IInv'
  <2>1. objmap[u] \in Conn
    BY <1>3, NoneAssumption DEF AllocReplyToFailed, TypeOK
  <2> QED
    BY <1>3, <2>1, CompleteIInv DEF AllocReplyToFailed
<1>4. ASSUME NEW ok \in BOOLEAN, UnknownUser(u, ok)
      PROVE  IInv'
  <2>1. /\ objmap[u] = None
        /\ UNCHANGED <<session, client, game>>
        /\ othered' = {}
        /\ sent' = <<[kind |-> "close", uid |-> u]>>
        /\ lastMsg' \in {lastMsg, [lastMsg EXCEPT ![u] = "close"]}
    BY <1>4 DEF UnknownUser, Offered
  <2>2. sent' \in Seq(Packets)
    BY <2>1 DEF Packets
  <2>3. RegisteredIsAnnounced' /\ CloseOnlyForGone'
    BY <2>1 DEF session, TypeOK, RegisteredIsAnnounced, CloseOnlyForGone
  <2>4. lastMsg' \in [Uid -> {"none", "login", "close"}]
    BY <2>1 DEF TypeOK
  <2> QED
    BY <2>1, <2>2, <2>3, <2>4 DEF session, client, game, TypeOK,
       RegistryConsistent, FlagsAgree, LinkedIsTimed
<1> QED
  BY <1>1, <1>2, <1>3, <1>4 DEF AllocStep

\* Every step keeps the invariant.
LEMMA NextIInv == IInv /\ [Next]_vars => IInv'
<1> SUFFICES ASSUME IInv, [Next]_vars
             PROVE  IInv'
  OBVIOUS
<1>1. CASE Next
  BY <1>1, ClientStepIInv, GameStepIInv, AllocStepIInv DEF Next
<1>2. CASE UNCHANGED vars
  BY <1>2 DEF vars, IInv, TypeOK, RegistryConsistent, FlagsAgree,
       RegisteredIsAnnounced, CloseOnlyForGone, LinkedIsTimed
<1> QED
  BY <1>1, <1>2

-----------------------------------------------------------------------------
(* The theorems. *)

\* So it holds in every state.
LEMMA SpecIInv == Spec => []IInv
<1>1. Init => IInv
  BY InitIInv
<1>2. IInv /\ [Next]_vars => IInv'
  BY NextIInv
<1> QED
  BY <1>1, <1>2, PTL DEF Spec

\* The variables keep their types, and a deleted connection leaves no game timer
\* and no failed or deaf client behind (the destructors).
THEOREM TypeCorrect == Spec => []TypeOK
<1>1. IInv => TypeOK
  BY DEF IInv
<1> QED
  BY <1>1, SpecIInv, PTL

\* The registry m_objmap and the logged-in connections always agree, for any
\* number of connections and users.
THEOREM RegistryTheorem == Spec => []RegistryConsistent
<1>1. IInv => RegistryConsistent
  BY DEF IInv
<1> QED
  BY <1>1, SpecIInv, PTL

\* The last presence packet an allocation link took about a registered user is
\* that user's LOGIN.
THEOREM AnnouncedTheorem == Spec => []RegisteredIsAnnounced
<1>1. IInv => RegisteredIsAnnounced
  BY DEF IInv
<1> QED
  BY <1>1, SpecIInv, PTL

\* No handler reports a user as gone who is registered when it is done.
THEOREM CloseTheorem == Spec => []CloseOnlyForGone
<1>1. IInv => CloseOnlyForGone
  BY DEF IInv
<1> QED
  BY <1>1, SpecIInv, PTL

\* A connected game unit always has its timer armed.
THEOREM TimedTheorem == Spec => []LinkedIsTimed
<1>1. IInv => LinkedIsTimed
  BY DEF IInv
<1> QED
  BY <1>1, SpecIInv, PTL

-----------------------------------------------------------------------------
(* Nobody leaves unreported.                                                  *)

\* A user who is dropped from the registry by this step is reported by it, or was
\* on a connection the step silenced.
LeaveReported(u) ==
  objmap[u] # None /\ objmap'[u] = None =>
    \/ \E i \in 1..Len(sent') : sent'[i] = [kind |-> "close", uid |-> u]
    \/ objmap[u] \in othered'

\* A connection logged in as u is the one registered for u, and complete() reports u.
LEMMA LoggedIn ==
  ASSUME IInv, NEW c \in Conn, NEW u \in Uid, flag[c] = u
  PROVE  objmap[u] = c /\ NoticeFor(conn_type[c], flag[c]) = <<[kind |-> "close", uid |-> u]>>
<1>1. u # None
  BY NoneAssumption
<1> QED
  BY <1>1 DEF IInv, RegistryConsistent, FlagsAgree, NoticeFor

\* Only the users of the connections deleted are erased.
LEMMA ErasedOnly ==
  ASSUME NEW D \in SUBSET Conn, NEW u \in Uid, objmap[u] # None, Erased(D)[u] = None
  PROVE  \E d \in D : flag[d] = u
BY DEF Erased

\* Completing a connection reports the user it drops, unless it was made CONN_OTHER.
LEMMA CompleteReports ==
  ASSUME IInv, NEW c \in Conn, NEW ok \in BOOLEAN, Complete(c, ok), NEW u \in Uid
  PROVE  LeaveReported(u)
<1> SUFFICES ASSUME objmap[u] # None, objmap'[u] = None
             PROVE  \E i \in 1..Len(sent') : sent'[i] = [kind |-> "close", uid |-> u]
  BY DEF LeaveReported
<1>1. flag[c] = u
  BY ErasedOnly DEF Complete
<1>2. sent' = <<[kind |-> "close", uid |-> u]>>
  BY <1>1, LoggedIn DEF Complete
<1> QED
  BY <1>2

\* A step that neither drops a user nor connects one has nothing to report.
LEMMA SilentReports ==
  ASSUME IInv, NEW c \in Conn, CompleteSilently(c), NEW u \in Uid
  PROVE  LeaveReported(u)
<1> SUFFICES ASSUME objmap[u] # None, objmap'[u] = None
             PROVE  objmap[u] \in othered'
  BY DEF LeaveReported
<1>1. flag[c] = u
  BY ErasedOnly DEF CompleteSilently
<1> QED
  BY <1>1, LoggedIn DEF CompleteSilently

\* However a LOGIN ends: the kicked connection is silenced, its own is reported.
LEMMA LoginReports ==
  ASSUME IInv, NEW c \in Conn, NEW v \in Uid, NEW ok \in BOOLEAN, NEW u \in Uid,
         LoginAccepted(c, v) \/ LoginRefused(c, v, ok) \/ LoginNotForwarded(c, v, ok)
  PROVE  LeaveReported(u)
<1> DEFINE K == Kicked(c, v)
<1> SUFFICES ASSUME objmap[u] # None, objmap'[u] = None
             PROVE  \/ \E i \in 1..Len(sent') : sent'[i] = [kind |-> "close", uid |-> u]
                    \/ objmap[u] \in othered'
  BY DEF LeaveReported
<1>1. /\ K \in SUBSET Conn
      /\ K \cup {c} \in SUBSET Conn
      /\ \A d \in K : flag[d] = v
      /\ KickNotice(c, v) = <<>>
  BY KickedFacts
<1>2. othered' = K
  BY DEF LoginAccepted, LoginRefused, LoginNotForwarded
<1>3. ASSUME NEW d \in K, flag[d] = u PROVE objmap[u] \in othered'
  BY <1>1, <1>2, <1>3, LoggedIn
<1>4. CASE LoginAccepted(c, v)
  <2>1. u # v
    BY <1>4, NoneAssumption DEF LoginAccepted, Erased
  <2>2. Erased(K)[u] = None
    BY <1>4, <2>1 DEF LoginAccepted, Erased
  <2> QED
    BY <1>1, <1>3, <2>2, ErasedOnly
<1>5. CASE LoginRefused(c, v, ok)
  <2>1. PICK d \in K \cup {c} : flag[d] = u
    BY <1>1, <1>5, ErasedOnly DEF LoginRefused
  <2>2. CASE d = c
    <3>1. sent' = <<>> \o <<[kind |-> "close", uid |-> u]>>
      BY <1>1, <1>5, <2>1, <2>2, LoggedIn DEF LoginRefused
    <3> QED
      BY <3>1
  <2> QED
    BY <1>3, <2>1, <2>2
<1>6. CASE LoginNotForwarded(c, v, ok)
  <2>1. CASE u = v
    <3>1. sent' = <<>> \o <<[kind |-> "close", uid |-> u]>>
      BY <1>1, <1>6, <2>1 DEF LoginNotForwarded, NoticeFor
    <3> QED
      BY <3>1
  <2>2. CASE u # v
    <3>1. Erased(K \cup {c})[u] = None
      BY <1>6, <2>2 DEF LoginNotForwarded, Erased
    <3>2. PICK d \in K \cup {c} : flag[d] = u
      BY <1>1, <3>1, ErasedOnly
    <3>3. flag[c] \in {None, v} /\ u # None
      BY <1>6, NoneAssumption DEF LoginNotForwarded
    <3> QED
      BY <1>3, <2>2, <3>2, <3>3
  <2> QED
    BY <2>1, <2>2
<1> QED
  BY <1>4, <1>5, <1>6

\* Every step reports the users it drops.
LEMMA NextReports ==
  ASSUME IInv, [Next]_vars, NEW u \in Uid
  PROVE  LeaveReported(u)
<1>1. CASE UNCHANGED objmap
  BY <1>1 DEF LeaveReported
<1>2. ASSUME NEW c \in Conn, ClientStep(c) PROVE LeaveReported(u)
  <2>1. CASE \/ Accept(c)
             \/ ClientServed(c)
             \/ GameCommand(c)
             \/ \E F \in SUBSET Conn : Broadcast(c, F)
    BY <2>1, <1>1 DEF Accept, ClientServed, GameCommand, Broadcast, session
  <2>2. CASE PolicyRequest(c)
    BY <2>2, SilentReports DEF PolicyRequest
  <2>3. ASSUME NEW v \in Uid, LoginAccepted(c, v) PROVE LeaveReported(u)
    <3>1. TRUE \in BOOLEAN
      OBVIOUS
    <3> QED
      BY <2>3, <3>1, LoginReports
  <2>4. ASSUME NEW ok \in BOOLEAN,
               \/ ClientGone(c, ok)
               \/ ClientHangup(c, ok)
               \/ ClientTimer(c, ok)
               \/ ClientSendFails(c, ok)
        PROVE  LeaveReported(u)
    BY <2>4, CompleteReports DEF ClientGone, ClientHangup, ClientTimer, ClientSendFails
  <2>5. ASSUME NEW ok \in BOOLEAN, NEW v \in Uid,
               LoginRefused(c, v, ok) \/ LoginNotForwarded(c, v, ok)
        PROVE  LeaveReported(u)
    BY <2>5, LoginReports
  <2> QED
    BY <1>2, <2>1, <2>2, <2>3, <2>4, <2>5 DEF ClientStep
<1>3. ASSUME NEW c \in Conn, GameStep(c) PROVE LeaveReported(u)
  <2>1. CASE GameForward(c) \/ \E a \in Game \cup {None} : GameLeft(c, a)
    BY <2>1, <1>1 DEF GameForward, GameLeft, session
  <2>2. ASSUME NEW ok \in BOOLEAN, GameGone(c, ok) \/ GameTimer(c, ok)
        PROVE  LeaveReported(u)
    BY <2>2, CompleteReports DEF GameGone, GameTimer
  <2> QED
    BY <1>3, <2>1, <2>2 DEF GameStep
<1>4. ASSUME NEW v \in Uid, AllocStep(v) PROVE LeaveReported(u)
  <2>1. objmap[v] \in Conn \cup {None} /\ failed \subseteq Conn
    BY DEF IInv, TypeOK
  <2>2. CASE ServerClose(v)
    BY <2>1, <2>2, SilentReports DEF ServerClose
  <2>3. ASSUME NEW ok \in BOOLEAN, AllocReplyToFailed(v, ok) PROVE LeaveReported(u)
    BY <2>1, <2>3, CompleteReports DEF AllocReplyToFailed
  <2>4. ASSUME NEW ok \in BOOLEAN, AllocReply(v, ok) \/ UnknownUser(v, ok)
        PROVE  LeaveReported(u)
    BY <2>4, <1>1 DEF AllocReply, UnknownUser, session
  <2> QED
    BY <1>4, <2>2, <2>3, <2>4 DEF AllocStep
<1>5. CASE UNCHANGED vars
  BY <1>1, <1>5 DEF vars
<1> QED
  BY <1>2, <1>3, <1>4, <1>5 DEF Next

\* complete() tells an allocation server of every user it drops, unless the user's
\* own connection was made CONN_OTHER first, by whatever handler and for any number
\* of connections (listener.cpp:187).
THEOREM LeaveTheorem == Spec => LeaveIsReported
<1>1. IInv /\ [Next]_vars =>
        [ \A u \in Uid : objmap[u] # None /\ objmap'[u] = None =>
            \/ \E i \in 1..Len(sent') : sent'[i] = [kind |-> "close", uid |-> u]
            \/ objmap[u] \in othered' ]_vars
  BY NextReports DEF LeaveReported
<1> QED
  BY <1>1, SpecIInv, PTL DEF Spec, LeaveIsReported

-----------------------------------------------------------------------------
(* The game link follows the table, but for sessions that the answer to a    *)
(* later LOGIN moved.                                                         *)

\* The address is the table's whenever there is a table: GameCommand connects
\* to the address, so this makes OffTableIsMoved inductive.
TableInv ==
  /\ OffTableIsMoved
  /\ \A c \in Conn : tid[c] # None => addr[c] = tid[c]

\* Deleting connections keeps TableInv.
LEMMA DeletedTable ==
  ASSUME TypeOK, TableInv, NEW D \in SUBSET Conn, Deleted(D)
  PROVE  TableInv'
BY DEF TypeOK, TableInv, OffTableIsMoved, Deleted, Cleared

\* Every step keeps TableInv.
LEMMA NextTable ==
  ASSUME IInv, TableInv, [Next]_vars
  PROVE  TableInv'
<1> USE DEF TableInv, OffTableIsMoved
<1>1. TypeOK
  BY DEF IInv
<1>2. ASSUME NEW c \in Conn, ClientStep(c)
      PROVE  TableInv'
  <2>1. CASE \E D \in SUBSET Conn : Deleted(D)
    BY <2>1, <1>1, DeletedTable
  <2>2. CASE UNCHANGED <<tid, addr, link, moved>>
    BY <2>2
  <2>3. CASE GameCommand(c)
    BY <2>3, <1>1 DEF GameCommand, TypeOK
  <2>4. CASE Accept(c) \/ ClientServed(c) \/ \E F \in SUBSET Conn : Broadcast(c, F)
    BY <2>2, <2>4 DEF Accept, ClientServed, Broadcast, game
  <2>5. ASSUME NEW ok \in BOOLEAN,
               \/ PolicyRequest(c)
               \/ ClientGone(c, ok)
               \/ ClientHangup(c, ok)
               \/ ClientTimer(c, ok)
               \/ ClientSendFails(c, ok)
        PROVE  TableInv'
    <3>1. {c} \in SUBSET Conn /\ Deleted({c})
      BY <2>5 DEF PolicyRequest, CompleteSilently, ClientGone, ClientHangup,
         ClientTimer, ClientSendFails, Complete
    <3> QED
      BY <3>1, <2>1
  <2>6. ASSUME NEW u \in Uid, NEW ok \in BOOLEAN,
               \/ LoginAccepted(c, u)
               \/ LoginRefused(c, u, ok)
               \/ LoginNotForwarded(c, u, ok)
        PROVE  TableInv'
    <3>1. Kicked(c, u) \in SUBSET Conn
      BY KickedFacts
    <3>2. Deleted(Kicked(c, u)) \/ Deleted(Kicked(c, u) \cup {c})
      BY <2>6 DEF LoginAccepted, LoginRefused, LoginNotForwarded
    <3>3. Kicked(c, u) \cup {c} \in SUBSET Conn
      BY <3>1
    <3> QED
      BY <3>1, <3>2, <3>3, <2>1
  <2>7. ASSUME NEW u \in Uid, LoginAccepted(c, u)
        PROVE  TableInv'
    BY <2>7, <2>6
  <2> QED
    BY <1>2, <2>3, <2>4, <2>5, <2>6, <2>7 DEF ClientStep
<1>3. ASSUME NEW c \in Conn, GameStep(c)
      PROVE  TableInv'
  <2>1. ASSUME NEW a \in Game \cup {None}, GameLeft(c, a)
        PROVE  TableInv'
    BY <2>1, <1>1 DEF GameLeft, GameReset, TypeOK
  <2>2. CASE GameForward(c)
    BY <2>2 DEF GameForward
  <2>3. ASSUME NEW ok \in BOOLEAN, GameGone(c, ok) \/ GameTimer(c, ok)
        PROVE  TableInv'
    <3>1. {c} \in SUBSET Conn /\ Deleted({c})
      BY <2>3 DEF GameGone, GameTimer, Complete
    <3> QED
      BY <3>1, <1>1, DeletedTable
  <2> QED
    BY <1>3, <2>1, <2>2, <2>3 DEF GameStep
<1>4. ASSUME NEW u \in Uid, AllocStep(u)
      PROVE  TableInv'
  <2>1. ASSUME NEW ok \in BOOLEAN, AllocReply(u, ok)
        PROVE  TableInv'
    <3> DEFINE c == objmap[u]
    <3>1. c \in Conn /\ Seated(c)
      BY <2>1, <1>1 DEF AllocReply, TypeOK
    <3>2. CASE \E g \in Game : LoginSuccess(c, g)
      <4>1. PICK g \in Game : LoginSuccess(c, g)
        BY <3>2
      <4>2. \A d \in Conn \ {c} : UNCHANGED <<tid[d], addr[d], link[d]>>
                                /\ (d \in moved' <=> d \in moved)
        BY <3>1, <4>1, <1>1 DEF LoginSuccess, TypeOK
      <4>3. tid'[c] = g /\ addr'[c] = g /\ link'[c] = link[c] /\ g # None
        BY <3>1, <4>1, <1>1, NoneAssumption DEF LoginSuccess, TypeOK
      <4>4. c \in moved' <=> link[c] \notin {None, g}
        BY <4>1 DEF LoginSuccess
      <4>5. moved' \subseteq Conn
        BY <3>1, <4>1, <1>1 DEF LoginSuccess, TypeOK
      <4> QED
        BY <4>2, <4>3, <4>4, <4>5
    <3>3. CASE \E g \in Game \cup {None} : NewTable(c, g)
      BY <3>1, <3>3, <1>1 DEF NewTable, TypeOK
    <3>4. CASE UNCHANGED <<tid, addr, link, moved>>
      BY <3>4
    <3> QED
      BY <3>1, <3>2, <3>3, <3>4 DEF Seated
  <2>2. ASSUME NEW ok \in BOOLEAN,
               ServerClose(u) \/ AllocReplyToFailed(u, ok)
        PROVE  TableInv'
    <3>1. objmap[u] \in Conn /\ {objmap[u]} \in SUBSET Conn
      BY <2>2, <1>1 DEF ServerClose, AllocReplyToFailed, TypeOK
    <3>2. Deleted({objmap[u]})
      BY <2>2 DEF ServerClose, CompleteSilently, AllocReplyToFailed, Complete
    <3> QED
      BY <3>1, <3>2, <1>1, DeletedTable
  <2>3. CASE \E ok \in BOOLEAN : UnknownUser(u, ok)
    BY <2>3 DEF UnknownUser, game
  <2> QED
    BY <1>4, <2>1, <2>2, <2>3 DEF AllocStep
<1>5. CASE UNCHANGED vars
  BY <1>5 DEF vars
<1> QED
  BY <1>2, <1>3, <1>4, <1>5 DEF Next

\* A game unit's socket is off the server of the user's table exactly when the
\* answer to a later LOGIN moved the table under the connection.
THEOREM LinkTheorem == Spec => []OffTableIsMoved
<1>1. Init => TableInv
  BY DEF Init, TableInv, OffTableIsMoved
<1>2. IInv /\ TableInv /\ [Next]_vars => TableInv'
  BY NextTable
<1>3. TableInv => OffTableIsMoved
  BY DEF TableInv
<1> QED
  BY <1>1, <1>2, <1>3, SpecIInv, PTL DEF Spec

=============================================================================
