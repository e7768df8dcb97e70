-------------------------------- MODULE Timer --------------------------------
(***************************************************************************)
(* The timers of the event loop: CTimerUnit with one CTimerList per        *)
(* timeout, and the CTimerObjects on them.                                 *)
(*                                                                         *)
(* Times are kept relative, in ticks: left is objexp minus the clock, and  *)
(* late is the clock minus the `now' the loop read when epoll_wait         *)
(* returned.  A handler is a callback or a TimerNotify; what it does to    *)
(* timers are steps of their own, and time passes between them.  The       *)
(* pending list is left out: nothing in the proxy calls AttachZeroTimer.   *)
(***************************************************************************)
EXTENDS Integers, Sequences

CONSTANTS
  Tmr,        \* CTimerObjects
  Timeout,    \* the timeouts lists were asked for, in ticks, all > 0
  Order,      \* the lists as CTimerUnit chains them
  Periodic,   \* timers that arm themselves again in TimerNotify: the user
              \* count and the level count
  PeriodicList,  \* the list they are on
  None,       \* no timer
  PerMs,      \* ticks in a millisecond
  EpWait,     \* _epwaittimeout, in milliseconds
  MaxLate     \* bound: how long one pass through the handlers takes

ASSUME TimeoutAssumption == Timeout \subseteq Nat \ {0}
ASSUME PeriodicAssumption == Periodic \subseteq Tmr /\ PeriodicList \in Timeout
ASSUME NoneTimerAssumption == None \notin Tmr

VARIABLES
  list,   \* the timers on each list, in order
  left,   \* objexp of each timer, relative to the clock
  late,   \* how long ago the loop read `now'
  phase,  \* of CIncoming::run: idle (about to wait), wait, events, timers
  wake,   \* ticks until epoll_wait returns without an event
  todo,   \* the lists CheckExpired has not finished
  call    \* the timer whose TimerNotify runs

vars == <<list, left, late, phase, wake, todo, call>>

L == INSTANCE Lists WITH Anchor <- Timeout, Node <- Tmr

On(t) == {list[t][i] : i \in 1..Len(list[t])}
Armed(o) == \E t \in Timeout : o \in On(t)

Init ==
  /\ list \in [Timeout -> UNION {[1..n -> Periodic] : n \in 0..1}]
  /\ \A o \in Periodic : o \in On(PeriodicList)
  /\ \A t \in Timeout : t # PeriodicList => list[t] = <<>>
  /\ left = [o \in Tmr |-> IF o \in Periodic THEN PeriodicList ELSE 0]
  /\ late = 0
  /\ phase = "idle"
  /\ wake = 0
  /\ todo = <<>>
  /\ call = None

-----------------------------------------------------------------------------
(* What handlers do. *)

Running == phase = "events" \/ call # None

\* AttachTimer on the list of timeout t, armed before or not.
AttachTimer(o, t) ==
  /\ L!MoveTail(o, t)
  /\ left' = [left EXCEPT ![o] = t]

\* A handler arms a timer, or renews it (update_timer).
Attach(o, t) ==
  /\ Running
  /\ o \notin Periodic
  /\ AttachTimer(o, t)
  /\ UNCHANGED <<late, phase, wake, todo, call>>

\* DisableTimer, or the object is destroyed.
DisableTimer(o) ==
  /\ Running
  /\ o \notin Periodic
  /\ Armed(o)
  /\ L!Reset(o)
  /\ left' = [left EXCEPT ![o] = 0]
  /\ UNCHANGED <<late, phase, wake, todo, call>>

-----------------------------------------------------------------------------
(* The loop. *)

Least(S) == CHOOSE x \in S : \A y \in S : x <= y

\* How long epoll_wait may sleep: not longer than until the head of a list
\* expires, cut to whole milliseconds.
FirstListOnly(ms) ==
  LET exp == Least({ms * PerMs} \cup
                   {left[list[t][1]] : t \in {k \in {Order[1]} : list[k] # <<>>}})
  IN IF exp <= 0 THEN 0 ELSE exp \div PerMs
ExpireMicroSeconds(ms) ==
  LET exp == Least({ms * PerMs} \cup
                   {left[list[t][1]] : t \in {k \in Timeout : list[k] # <<>>}})
  IN IF exp <= 0 THEN 0 ELSE exp \div PerMs

WaitPollerEvents ==
  /\ phase = "idle"
  /\ phase' = "wait"
  /\ wake' = ExpireMicroSeconds(EpWait) * PerMs
  /\ UNCHANGED <<list, left, late, todo, call>>

\* epoll_wait returns, with events or because the time is over; now is read.
Return ==
  /\ phase = "wait"
  /\ phase' = "events"
  /\ wake' = 0
  /\ late' = 0
  /\ UNCHANGED <<list, left, todo, call>>

\* CheckExpired(now) starts on the lists.
CheckExpired ==
  /\ phase = "events"
  /\ phase' = "timers"
  /\ todo' = Order
  /\ UNCHANGED <<list, left, late, wake, call>>

\* There is a head of the list and it has expired at `now'.
Expired(t) == list[t] # <<>> /\ left[list[t][1]] + late <= 0

ExpireKeepsListed ==
  /\ phase = "timers" /\ call = None /\ todo # <<>>
  /\ Expired(todo[1])
  /\ call' = list[todo[1]][1]
  /\ UNCHANGED <<list, left, late, phase, wake, todo>>

\* It is taken off and notified.
Expire ==
  /\ phase = "timers" /\ call = None /\ todo # <<>>
  /\ Expired(todo[1])
  /\ call' = list[todo[1]][1]
  /\ L!Reset(call')
  /\ left' = [left EXCEPT ![call'] = 0]
  /\ UNCHANGED <<late, phase, wake, todo>>

NextList ==
  /\ phase = "timers" /\ call = None /\ todo # <<>>
  /\ ~ Expired(todo[1])
  /\ todo' = Tail(todo)
  /\ UNCHANGED <<list, left, late, phase, wake, call>>

\* TimerNotify returns; a periodic timer has armed itself again.
Notified ==
  /\ call # None
  /\ call' = None
  /\ IF call \in Periodic THEN AttachTimer(call, PeriodicList)
                          ELSE UNCHANGED <<list, left>>
  /\ UNCHANGED <<late, phase, wake, todo>>

CheckedExpired ==
  /\ phase = "timers" /\ call = None /\ todo = <<>>
  /\ phase' = "idle"
  /\ UNCHANGED <<list, left, late, wake, todo, call>>

\* A tick passes: in epoll_wait until it returns, elsewhere while handlers run.
Tick ==
  /\ \/ phase = "wait" /\ wake > 0 /\ wake' = wake - 1 /\ UNCHANGED late
     \/ phase # "wait" /\ late < MaxLate /\ late' = late + 1 /\ UNCHANGED wake
  /\ left' = [o \in Tmr |-> IF Armed(o) THEN left[o] - 1 ELSE left[o]]
  /\ UNCHANGED <<list, phase, todo, call>>

LoopStep ==
  \/ WaitPollerEvents
  \/ Return
  \/ CheckExpired
  \/ Expire
  \/ NextList
  \/ Notified
  \/ CheckedExpired

Next ==
  \/ \E o \in Tmr : DisableTimer(o) \/ \E t \in Timeout : Attach(o, t)
  \/ LoopStep
  \/ Tick

Spec == Init /\ [][Next]_vars

\* The loop keeps running - a handler always returns, epoll_wait at its timeout
\* at the latest - and time keeps passing.
FairSpec == Spec /\ WF_vars(LoopStep) /\ SF_vars(Tick)

-----------------------------------------------------------------------------
(* Properties. *)

\* Each list is sorted by expiry, which is why looking at its head is enough
\* (timerlist.cpp:35, :90) - while the clock is not set back.
ListSorted ==
  \A t \in Timeout : \A i, j \in 1..Len(list[t]) :
    i < j => left[list[t][i]] <= left[list[t][j]]

\* epoll_wait does not sleep past the expiry of an armed timer.
NeverOversleeps ==
  phase = "wait" /\ wake > 0 => \A t \in Timeout : \A o \in On(t) : left[o] >= wake

\* A timer that is armed and from some point on neither renewed nor disabled is
\* notified: it is armed again and again, or not armed any more.
TimersFire ==
  \A o \in Tmr \ Periodic : []<>(~ Armed(o) \/ \E t \in Timeout : o \in On(t) /\ left[o] = t)

\* The periodic timers go on for ever.
PeriodicForever == \A o \in Periodic : []<>(call = o)

\* The heads of the lists say how long to sleep (timerlist.cpp:35, :90).
SleepsRight == ListSorted /\ NeverOversleeps

\* No timer is forgotten, whatever the handlers arm, renew and disable
\* (timerlist.cpp:80-122).
TimersGoOn == TimersFire /\ PeriodicForever
=============================================================================
