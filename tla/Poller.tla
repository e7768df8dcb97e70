------------------------------- MODULE Poller -------------------------------
(***************************************************************************)
(* The event loop's dispatcher: CPollerUnit, its table of slots, and the   *)
(* CPollerObjects (listener, clients, game and helper units) attached.     *)
(*                                                                         *)
(* epoll reports an event by the 64 bits registered with the socket: the   *)
(* slot and the slot's sequence number.  A whole batch of reports is taken *)
(* at once and handled one by one, and the handler of one may detach,      *)
(* destroy, re-attach or re-arm any other object, so a report may be stale *)
(* when its turn comes.  The model follows the epoll loop in single steps: *)
(* between the start of a callback and its return, the callback's calls of *)
(* the poller's operations are steps of their own.                         *)
(***************************************************************************)
EXTENDS Integers, Sequences, FiniteSets

CONSTANTS
  Obj,     \* CPollerObjects: addresses, an address may be used again
  Slot,    \* entries of pollerTable
  None,    \* no object, no slot
  SeqMod   \* sequence numbers wrap here; 2^32 in the code, more than 2

VARIABLES
  slotOf,  \* epslot of each object
  owner,   \* poller of each slot
  seq,     \* seq of each slot
  free,    \* freeSlotList
  events,  \* oldEvents of each object: what epoll watches it for
  kernel,  \* the data epoll holds for the object's socket
  phase,   \* CIncoming::run: in epoll_wait, handling the batch, in the timers
  batch,   \* ep_events not handled yet; obj is the socket epoll reports about
  call,    \* the callback that runs
  bumps    \* how often each slot's seq changed since epoll_wait

pollerVars == <<slotOf, owner, seq, free, events, kernel, phase, batch, call, bumps>>
table == <<slotOf, owner, seq, free, events, kernel, bumps>>

Masks == SUBSET {"IN", "OUT"}
Unregistered == [slot |-> None, seq |-> 0]
Idle == [obj |-> None, slot |-> None, mask |-> {}, phase |-> "idle"]

PollerInit ==
  /\ slotOf = [o \in Obj |-> None]
  /\ owner = [s \in Slot |-> None]
  /\ seq = [s \in Slot |-> 0]
  /\ free \in [1..Cardinality(Slot) -> Slot]
  /\ \A s \in Slot : \E i \in 1..Len(free) : free[i] = s
  /\ \A i, j \in 1..Len(free) : free[i] = free[j] => i = j
  /\ events = [o \in Obj |-> {}]
  /\ kernel = [o \in Obj |-> Unregistered]
  /\ phase = "timers"
  /\ batch = <<>>
  /\ call = Idle
  /\ bumps = [s \in Slot |-> 0]

-----------------------------------------------------------------------------
(* The slots. *)

Plus1(n) == IF n + 1 = SeqMod THEN 0 ELSE n + 1

\* seq++ on slot s.  Bound: a slot changes less than SeqMod times in a batch.
Bumped(s) ==
  /\ bumps[s] + 1 < SeqMod
  /\ bumps' = [bumps EXCEPT ![s] = @ + 1]
  /\ seq' = [seq EXCEPT ![s] = Plus1(@)]

FreeKeepsPoller(o, s) ==
  /\ free' = <<s>> \o free
  /\ slotOf' = [slotOf EXCEPT ![o] = None]
  /\ Bumped(s)
  /\ UNCHANGED owner

\* Slot s of object o goes to the head of the free list.
FreeEpollSlot(o, s) ==
  /\ free' = <<s>> \o free
  /\ owner' = [owner EXCEPT ![s] = None]
  /\ slotOf' = [slotOf EXCEPT ![o] = None]
  /\ Bumped(s)

-----------------------------------------------------------------------------
(* What a callback, or a timer, may ask of the poller. *)

Running == call # Idle \/ phase = "timers"

\* AttachPoller of an object without a slot: it is registered for input.  No
\* object is attached, or built at the same address, in its own callback: the
\* listener builds the clients, and an upstream unit connects in callbacks of
\* others or before it loses its own socket.
AttachPoller(o) ==
  /\ Running
  /\ slotOf[o] = None
  /\ o # call.obj
  /\ free # <<>>
  /\ LET s == Head(free) IN
       /\ free' = Tail(free)
       /\ owner' = [owner EXCEPT ![s] = o]
       /\ slotOf' = [slotOf EXCEPT ![o] = s]
       /\ Bumped(s)
       /\ kernel' = [kernel EXCEPT ![o] = [slot |-> s, seq |-> Plus1(seq[s])]]
  /\ events' = [events EXCEPT ![o] = {"IN"}]
  /\ UNCHANGED <<phase, batch, call>>

\* EPOLL_CTL_ADD fails: the caller resets or deletes the object, which frees the
\* slot again.  Only the slot's seq has moved, twice.
AttachRefused(o) ==
  /\ Running
  /\ slotOf[o] = None
  /\ o # call.obj
  /\ free # <<>>
  /\ LET s == Head(free) IN
       /\ bumps[s] + 2 < SeqMod
       /\ bumps' = [bumps EXCEPT ![s] = @ + 2]
       /\ seq' = [seq EXCEPT ![s] = Plus1(Plus1(@))]
  /\ UNCHANGED <<slotOf, owner, free, events, kernel, phase, batch, call>>

\* The kernel keeps the old data: the modification is not made.
ApplyWithoutMod(o, E) ==
  /\ Running
  /\ slotOf[o] # None
  /\ E # events[o]
  /\ Bumped(slotOf[o])
  /\ events' = [events EXCEPT ![o] = E]
  /\ UNCHANGED <<slotOf, owner, free, kernel, phase, batch, call>>

\* Enable.. and Disable.. followed by ApplyEvents, for an attached object.
ApplyEvents(o, E) ==
  /\ Running
  /\ slotOf[o] # None
  /\ E # events[o]
  /\ Bumped(slotOf[o])
  /\ events' = [events EXCEPT ![o] = E]
  /\ kernel' = [kernel EXCEPT ![o].seq = Plus1(seq[slotOf[o]])]
  /\ UNCHANGED <<slotOf, owner, free, phase, batch, call>>

\* DetachPoller before the socket is closed, or the destructor, which closes it
\* afterwards: epoll forgets the socket either way.
DetachPoller(o) ==
  /\ Running
  /\ slotOf[o] # None
  /\ FreeEpollSlot(o, slotOf[o])
  /\ events' = [events EXCEPT ![o] = {}]
  /\ kernel' = [kernel EXCEPT ![o] = Unregistered]
  /\ UNCHANGED <<phase, batch, call>>

-----------------------------------------------------------------------------
(* The loop. *)

\* The timers are done: epoll_wait.
WaitPollerEvents ==
  /\ phase = "timers"
  /\ phase' = "wait"
  /\ bumps' = [s \in Slot |-> 0]
  /\ UNCHANGED <<slotOf, owner, seq, free, events, kernel, batch, call>>

\* epoll adds a report about the socket of o, at most one in a batch: what it
\* is watched for, or a hangup.
Report(o, mask) ==
  /\ phase = "wait"
  /\ kernel[o] # Unregistered
  /\ \A i \in 1..Len(batch) : batch[i].obj # o
  /\ mask # {} /\ mask \subseteq events[o] \cup {"HUP"}
  /\ batch' = Append(batch, [obj |-> o, slot |-> kernel[o].slot,
                             seq |-> kernel[o].seq, mask |-> mask])
  /\ UNCHANGED <<table, phase, call>>

WaitReturns ==
  /\ phase = "wait"
  /\ phase' = "process"
  /\ UNCHANGED <<table, batch, call>>

\* VerifyEvents accepts the report e.
VerifyEvents(e) == seq[e.slot] = e.seq

\* The callback a report starts with.
First(mask) ==
  IF "HUP" \in mask THEN "HUP" ELSE IF "IN" \in mask THEN "IN" ELSE "OUT"

\* The next report: its slot's poller is called if the sequence number fits.
Dispatch ==
  /\ phase = "process"
  /\ call = Idle
  /\ batch # <<>>
  /\ batch' = Tail(batch)
  /\ LET e == Head(batch) IN
       call' = IF VerifyEvents(e)
               THEN [obj |-> owner[e.slot], slot |-> e.slot, mask |-> e.mask,
                     phase |-> First(e.mask)]
               ELSE Idle
  /\ UNCHANGED <<table, phase>>

\* InputNotify returns; the same report asks for OutputNotify, too.
DetachUnchecked(succ) == succ
StillAttached(succ) == owner[call.slot] = call.obj /\ succ

\* The callback returns; succ: it returned POLLER_SUCC.
Return(succ) ==
  /\ call # Idle
  /\ call' = IF call.phase = "IN" /\ "OUT" \in call.mask /\ StillAttached(succ)
             THEN [call EXCEPT !.phase = "OUT"] ELSE Idle
  /\ UNCHANGED <<table, phase, batch>>

BatchDone ==
  /\ phase = "process"
  /\ call = Idle
  /\ batch = <<>>
  /\ phase' = "timers"
  /\ UNCHANGED <<table, batch, call>>

PollerNext ==
  \/ \E o \in Obj :
       \/ AttachPoller(o)
       \/ AttachRefused(o)
       \/ DetachPoller(o)
       \/ \E E \in Masks : ApplyEvents(o, E)
       \/ \E mask \in SUBSET {"IN", "OUT", "HUP"} : Report(o, mask)
  \/ WaitPollerEvents
  \/ WaitReturns
  \/ Dispatch
  \/ \E succ \in BOOLEAN : Return(succ)
  \/ BatchDone

PollerSpec == PollerInit /\ [][PollerNext]_pollerVars

-----------------------------------------------------------------------------
(* Properties. *)

\* A slot is used by one object, which knows it, or is on the free list once:
\* no order of attaching, refused attaching, detaching and destroying gives a
\* slot to two objects or loses one (poller.cpp:243, :252).
SlotsPartitioned ==
  /\ \A o \in Obj : slotOf[o] # None => owner[slotOf[o]] = o
  /\ \A s \in Slot : owner[s] # None => slotOf[owner[s]] = s
  /\ \A i \in 1..Len(free) : owner[free[i]] = None
  /\ \A i, j \in 1..Len(free) : free[i] = free[j] => i = j
  /\ \A s \in Slot : owner[s] = None => \E i \in 1..Len(free) : free[i] = s

\* What epoll would report about an attached object's socket passes
\* VerifyEvents: changing the interest bumps the sequence number, and an object
\* whose registration kept the old one would never be called again.
AttachedIsHeard ==
  \A o \in Obj :
    kernel[o] = IF slotOf[o] = None THEN Unregistered
                ELSE [slot |-> slotOf[o], seq |-> seq[slotOf[o]]]

\* A report that passes VerifyEvents is about the object that owns the slot now
\* and about nothing that object has since asked not to hear of, whatever
\* the callbacks of the reports before it did.
VerifiedIsCurrent ==
  \A i \in 1..Len(batch) :
    LET e == batch[i] IN
      VerifyEvents(e) => /\ owner[e.slot] = e.obj
                         /\ e.mask \subseteq events[e.obj] \cup {"HUP"}

\* VerifyEvents tells the reports to act on from the stale ones, neither more nor
\* fewer of them (poller.cpp:118, :292).
ReportsCurrent == AttachedIsHeard /\ VerifiedIsCurrent

\* A callback begins on the object epoll reported about, while that object is
\* attached under the slot of the report; OutputNotify after InputNotify only on
\* an object that is still attached (the comments at poller.cpp:315 and :321).
CallsReported ==
  [][ call' # call /\ call' # Idle =>
        /\ slotOf[call'.obj] = call'.slot
        /\ call = Idle => call'.obj = Head(batch).obj
        /\ call # Idle => call'.obj = call.obj ]_pollerVars
=============================================================================
