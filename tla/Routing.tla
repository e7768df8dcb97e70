------------------------------- MODULE Routing -------------------------------
(***************************************************************************)
(* The choice of the alloc server a packet goes to: the tables CHelperPool *)
(* keeps of the servers in server.xml, their reload while the proxy runs   *)
(* (SYS_RELOAD_CONFIG), round robin over all servers, a random server of a *)
(* level, and the server a table id names.                                 *)
(*                                                                         *)
(* A reload clears the tables before it has read the file; when the file   *)
(* cannot be read to its end, it stops where it is.  Choosing from an empty*)
(* list is checked for by some callers and not by others: a round robin    *)
(* step then reads outside a vector, a random choice divides by zero.      *)
(* What happens to packets queued on the deleted links: module Upstream.   *)
(***************************************************************************)
EXTENDS Integers, Sequences, SequencesExt, FiniteSets

CONSTANTS
  Svid,       \* alloc servers
  Level,      \* room levels
  Cmd,        \* client commands
  None,       \* no server
  MaxListed,  \* bound: servers in server.xml
  MaxTaken    \* bound: round robin steps between two reloads

VARIABLES
  helpermap,  \* servers that have a CHelperUnit
  svidlist,
  levelmap,   \* servers of each level, one of which is taken at random; a level
              \* without an entry has none
  cmdlist,
  loopNum,
  up,         \* the process runs
  picked,     \* history: what was chosen since the tables changed (None: no server)
  taken       \* history: how often round robin chose each position of svidlist since

routingVars == <<helpermap, svidlist, levelmap, cmdlist, loopNum, up, picked, taken>>
tables == <<helpermap, svidlist, levelmap, cmdlist>>

Server == [svid : Svid, level : Level]

\* What server.xml can list.
Files == UNION {[1..n -> Server] : n \in 0..MaxListed}

\* How far it can be read: not at all, up to the node, up to the end of the list
\* of servers, to the end; or it has no node, which is no error.
Readable == {"nothing", "no node", "node", "servers", "all"}

Listed(s) == [i \in 1..Len(s) |-> s[i].svid]

\* The servers of level v.
OfLevel(s, v) == {s[i].svid : i \in {j \in DOMAIN s : s[j].level = v}}

\* InitHelperUnit succeeded.
RoutingInit ==
  /\ \E s \in Files :
       /\ svidlist = Listed(s)
       /\ helpermap = Range(svidlist)
       /\ levelmap = [v \in Level |-> OfLevel(s, v)]
       /\ taken = [i \in 1..Len(s) |-> 0]
  /\ cmdlist \in SUBSET Cmd
  /\ loopNum = 0
  /\ up = TRUE
  /\ picked = {}

-----------------------------------------------------------------------------
(* ResetHelperUnit *)

\* The tables for the servers s; the links of before are deleted, loopNum is not
\* touched.
Loaded(s) ==
  /\ svidlist' = Listed(s)
  /\ helpermap' = Range(svidlist')
  /\ levelmap' = [v \in Level |-> OfLevel(s, v)]
  /\ taken' = [i \in 1..Len(s) |-> 0]
  /\ picked' = {}
  /\ UNCHANGED <<loopNum, up>>

\* The file ends early: before the node nothing has changed, after it all servers
\* are gone, after the list of servers only the commands are the old ones.
Reload(r, s, C) ==
  /\ up
  /\ CASE r \in {"nothing", "no node"} -> UNCHANGED routingVars
       [] r = "node" -> Loaded(<<>>) /\ UNCHANGED cmdlist
       [] r = "servers" -> Loaded(s) /\ UNCHANGED cmdlist
       [] r = "all" -> Loaded(s) /\ cmdlist' = C

-----------------------------------------------------------------------------
(* The choices. *)

\* Bugs: the comparison is off by one; the number does not start over.
NextNumBeyond(n, size) == IF n < size /\ n >= 0 THEN n + 1 ELSE 0
NextNumSticks(n, size) == IF n < size - 1 /\ n >= 0 THEN n + 1 ELSE n

\* LoopSvid: the number after n among size servers.
NextNum(n, size) == IF n < size - 1 /\ n >= 0 THEN n + 1 ELSE 0

Pick(s) == picked' = picked \cup {s} /\ UNCHANGED <<tables, up>>

\* LoopSvid of a list that is not empty.
LoopSvid ==
  /\ up /\ svidlist # <<>>
  /\ \A i \in DOMAIN taken : taken[i] < MaxTaken
  /\ loopNum' = NextNum(loopNum, Len(svidlist))
  /\ taken' = [i \in DOMAIN taken |-> IF i = loopNum' + 1 THEN taken[i] + 1 ELSE taken[i]]
  /\ Pick(IF loopNum' + 1 \in DOMAIN svidlist THEN svidlist[loopNum' + 1] ELSE None)

\* A listed command that names no server or level, a login among them; with no
\* servers it goes nowhere and nothing happens.
Command(c) == c \in cmdlist /\ LoopSvid

\* A close notice for a user at no table; SendClientClose, which checks the list.
CloseNotice == LoopSvid

\* The first of these with no servers: whatever a read outside the vector yields
\* has no helper and the notice goes nowhere, or the process ends.
CloseNoticeNoServers ==
  /\ up /\ svidlist = <<>>
  /\ loopNum' = NextNum(loopNum, 0)
  /\ up' \in BOOLEAN
  /\ UNCHANGED <<tables, picked, taken>>

\* A request for a room of level v: one of its servers, at random, if there is one.
RandomOfLevel(v) ==
  /\ up
  /\ \E s \in levelmap[v] : Pick(s)
  /\ UNCHANGED <<loopNum, taken>>

\* The level count timer asks a server chosen at random from the whole list; with
\* no servers the random number is divided by zero.
LevelCountTimer ==
  /\ up
  /\ IF svidlist = <<>>
     THEN up' = FALSE /\ UNCHANGED <<tables, picked>>
     ELSE \E s \in Range(svidlist) : Pick(s)
  /\ UNCHANGED <<loopNum, taken>>

\* The server a table id or a room request names, if it is in the table.
Named(s) ==
  /\ up /\ s \in helpermap
  /\ Pick(s)
  /\ UNCHANGED <<loopNum, taken>>

RoutingNext ==
  \/ \E r \in Readable, s \in Files, C \in SUBSET Cmd : Reload(r, s, C)
  \/ \E c \in Cmd : Command(c)
  \/ CloseNotice
  \/ CloseNoticeNoServers
  \/ \E v \in Level : RandomOfLevel(v)
  \/ LevelCountTimer
  \/ \E s \in Svid : Named(s)

RoutingSpec == RoutingInit /\ [][RoutingNext]_routingVars

-----------------------------------------------------------------------------
(* Properties. *)

\* The three tables name the same servers, as CHelper_pool.h:23-27 says of them,
\* after whatever reloads, failed ones included: no choice finds a number that has
\* no link, no link is left that nothing chooses.
TablesAgree ==
  /\ Range(svidlist) = helpermap
  /\ UNION {levelmap[v] : v \in Level} = helpermap

\* What a caller that checked for an empty list chooses is a server with a link,
\* also when loopNum was left by a longer list (global.cpp:215).
PickedHasLink == picked \subseteq helpermap

\* Round robin loads the servers evenly from the first choice after a reload on,
\* wherever an earlier list left the number (global.cpp:212-224).
EvenSpread == \A i, j \in DOMAIN taken : taken[i] <= taken[j] + 1

\* The process survives the choices of the unguarded callers too unless a reload
\* or the file left it without servers (RealTimer.cpp:72, decode_unit.cpp:229).
DownOnlyWithoutServers == ~ up => svidlist = <<>>

\* Every choice finds a server of tables that agree, and only a caller that does not
\* look finds none (CHelper_pool.h:23-27, global.cpp:212-224).
ChoicesSound == TablesAgree /\ PickedHasLink
SpreadOrDown == EvenSpread /\ DownOnlyWithoutServers
=============================================================================
