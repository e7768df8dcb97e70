-------------------------------- MODULE MCLoop --------------------------------
(***************************************************************************)
(* The instances TLC checks of what must go on: the timers (two lists, of 3    *)
(* and of 4 half milliseconds), the pointers of such lists, a link to an alloc *)
(* server and one to a game server, given up after two sends that block, and   *)
(* the listener.  They share nothing, so each behaviour moves one of them.     *)
(***************************************************************************)
EXTENDS Timer, LinkedList, Upstream, Accepting

VARIABLE part  \* what moves

\* Upstream itself is the link to an alloc server.
GameLink == INSTANCE Upstream WITH Game <- TRUE

allVars == <<part, vars, pointerVars, linkVars, listenerVars>>

OfTimer(A) == part = "timer" /\ A /\ UNCHANGED <<part, pointerVars, linkVars, listenerVars>>
OfLists(A) == part = "lists" /\ A /\ UNCHANGED <<part, vars, linkVars, listenerVars>>
OfAlloc(A) == part = "alloc" /\ A /\ UNCHANGED <<part, vars, pointerVars, listenerVars>>
OfGame(A) == part = "game" /\ A /\ UNCHANGED <<part, vars, pointerVars, listenerVars>>
OfListener(A) == part = "listener" /\ A /\ UNCHANGED <<part, vars, pointerVars, linkVars>>

MCTimeout == {3, 4}
MCOrder == <<4, 3>>

AllInit ==
  /\ part \in {"timer", "lists", "alloc", "game", "listener"}
  /\ Init /\ PointersInit /\ LinkInit /\ ListenerInit
AllNext ==
  \/ OfTimer(Next) \/ OfLists(PointersNext) \/ OfAlloc(LinkNext)
  \/ OfGame(GameLink!LinkNext) \/ OfListener(ListenerNext)

\* The fairness of Timer, Upstream (for either kind of link) and Accepting.
AllSpec ==
  /\ AllInit /\ [][AllNext]_allVars
  /\ WF_allVars(OfTimer(LoopStep)) /\ SF_allVars(OfTimer(Tick))
  /\ WF_allVars(OfAlloc(Processing)) /\ WF_allVars(OfAlloc(Notifying))
  /\ WF_allVars(OfGame(GameLink!Processing)) /\ WF_allVars(OfGame(GameLink!Notifying))
  /\ WF_allVars(OfListener(Step))

\* Timers, served as TimersGoOn asks, in the behaviours that move them.
TimersServed == part = "timer" => TimersGoOn
=============================================================================
