----------------------------- MODULE SocketProofs -----------------------------
(***************************************************************************)
(* Proofs about what sockets are served with: the table of their reports,   *)
(* the buffers of their bytes and the pool of the blocks of those.          *)
(*                                                                         *)
(* Poller, for any objects, finitely many slots and any width of the        *)
(* sequence numbers above two values: slots are neither shared nor lost,   *)
(* and no callback begins for a report that became stale.  A report carries *)
(* the number its slot had when epoll_wait returned.  The invariant says    *)
(* how far the slot has moved since: by bumps, modulo the width.  As long   *)
(* as a slot moves less than once around in a batch, an equal number means *)
(* that it has not moved at all, and then neither its owner nor what the    *)
(* owner listens for has changed.                                          *)
(*                                                                         *)
(* RawCache, for every pool that gives blocks large enough: the queued      *)
(* bytes stay inside the block, and every operation does to them what      *)
(* ByteQueue says.  The invariant adds to InBounds the type of the block    *)
(* and that an object without a block has no bytes, which the first append  *)
(* relies on.                                                              *)
(*                                                                         *)
(* MemPool, for any number of sizes and any limits: blocks have one owner   *)
(* and are counted exactly, and the pool keeps to its limit.  A sound pool  *)
(* is one of which that holds for the blocks some holder has; taking,      *)
(* putting back, making and giving back blocks leaves it sound, whatever    *)
(* else an operation does before and after.                                *)
(***************************************************************************)
EXTENDS Poller, RawCache, MemPool, SequenceTheorems, FiniteSetTheorems, WellFoundedInduction, TLAPS

-----------------------------------------------------------------------------
(* Poller. *)

\* What is asked of the constants.
Bounds == SeqMod \in Nat /\ SeqMod > 2 /\ None \notin Obj /\ None \notin Slot /\ IsFiniteSet(Slot)

Number == 0..SeqMod-1
Event == {"IN", "OUT", "HUP"}
Reported == [obj : Obj, slot : Slot, seq : Number, mask : SUBSET Event]
Call == [obj : Obj, slot : Slot, mask : SUBSET Event, phase : Event]
Registered == [slot : Slot \cup {None}, seq : Number]

TypeOK ==
  /\ slotOf \in [Obj -> Slot \cup {None}]
  /\ owner \in [Slot -> Obj \cup {None}]
  /\ seq \in [Slot -> Number] /\ bumps \in [Slot -> Number]
  /\ free \in Seq(Slot)
  /\ events \in [Obj -> Masks]
  /\ kernel \in [Obj -> Registered]
  /\ batch \in Seq(Reported)
  /\ call \in Call \cup {Idle}

\* Only while a callback or a timer runs does a slot move.
Phases ==
  /\ phase \in {"wait", "process", "timers"}
  /\ phase = "wait" => call = Idle /\ \A s \in Slot : bumps[s] = 0
  /\ phase = "timers" => call = Idle /\ batch = <<>>

\* The slot of report e moved by bumps since.
Moved(e) ==
  \/ seq[e.slot] = e.seq + bumps[e.slot]
  \/ seq[e.slot] = e.seq + bumps[e.slot] - SeqMod

Kept(e) ==
  /\ Moved(e)
  /\ bumps[e.slot] = 0 => /\ owner[e.slot] = e.obj
                          /\ e.mask \subseteq events[e.obj] \cup {"HUP"}

PollerInv ==
  /\ TypeOK /\ Phases
  /\ SlotsPartitioned /\ AttachedIsHeard
  /\ \A i \in 1..Len(batch) : Kept(batch[i])

-----------------------------------------------------------------------------
\* A number that fits is that of a slot that has not moved.
LEMMA FitsUnmoved ==
  ASSUME Bounds, NEW a \in Number, NEW b \in Number, NEW n \in Number,
         a = b + n \/ a = b + n - SeqMod
  PROVE  a = b => n = 0
BY DEF Bounds, Number

\* seq++ is one step around the circle.
LEMMA OneStep ==
  ASSUME Bounds, NEW a \in Number, NEW b \in Number, NEW n \in Number, n + 1 < SeqMod
  PROVE  /\ Plus1(a) \in Number /\ n + 1 \in Number /\ n + 1 # 0
         /\ (a = b + n \/ a = b + n - SeqMod) =>
              (Plus1(a) = b + (n + 1) \/ Plus1(a) = b + (n + 1) - SeqMod)
BY DEF Bounds, Number, Plus1

\* The reports of a batch are typed and kept.
LEMMA Batched ==
  ASSUME PollerInv
  PROVE  \A i \in 1..Len(batch) : batch[i] \in Reported /\ Kept(batch[i])
BY ElementOfSeq DEF PollerInv, TypeOK

\* What a step that moves slot s keeps of the numbers.
LEMMA BumpedOnce ==
  ASSUME Bounds, PollerInv, NEW s \in Slot, Bumped(s)
  PROVE  /\ seq' \in [Slot -> Number] /\ bumps' \in [Slot -> Number]
         /\ seq'[s] = Plus1(seq[s]) /\ bumps'[s] # 0
         /\ \A t \in Slot : t # s => seq'[t] = seq[t] /\ bumps'[t] = bumps[t]
         /\ \A e \in Reported : Moved(e) => Moved(e)'
<1>1. seq[s] \in Number /\ bumps[s] \in Number /\ bumps[s] + 1 < SeqMod
  BY DEF PollerInv, TypeOK, Bumped
<1>2. /\ seq' = [seq EXCEPT ![s] = Plus1(seq[s])]
      /\ bumps' = [bumps EXCEPT ![s] = bumps[s] + 1]
  BY DEF Bumped
<1>3. Plus1(seq[s]) \in Number /\ bumps[s] + 1 \in Number /\ bumps[s] + 1 # 0
  BY <1>1, OneStep
<1>4. /\ seq' \in [Slot -> Number] /\ bumps' \in [Slot -> Number]
      /\ seq'[s] = Plus1(seq[s]) /\ bumps'[s] = bumps[s] + 1
      /\ \A t \in Slot : t # s => seq'[t] = seq[t] /\ bumps'[t] = bumps[t]
  BY <1>2, <1>3 DEF PollerInv, TypeOK
<1>5. ASSUME NEW e \in Reported, Moved(e) PROVE Moved(e)'
  <2>1. e.slot \in Slot /\ e.seq \in Number
    BY DEF Reported
  <2>2. CASE e.slot = s
    BY <1>1, <1>4, <1>5, <2>1, <2>2, OneStep DEF Moved
  <2>3. CASE e.slot # s
    BY <1>4, <1>5, <2>1, <2>3 DEF Moved
  <2> QED
    BY <2>2, <2>3
<1> QED
  BY <1>3, <1>4, <1>5

\* A report is kept if its slot moved, or if its owner and interest stand.
LEMMA KeptStill ==
  ASSUME Bounds, PollerInv, NEW s \in Slot, Bumped(s), batch' = batch,
         \A t \in Slot : t # s /\ owner[t] # None =>
           owner'[t] = owner[t] /\ events'[owner[t]] = events[owner[t]]
  PROVE  \A i \in 1..Len(batch') : Kept(batch[i])'
<1> SUFFICES ASSUME NEW i \in 1..Len(batch) PROVE Kept(batch[i])'
  OBVIOUS
<1>1. PICK e \in Reported : e = batch[i]
  BY Batched
<1>2. Kept(e) /\ e.slot \in Slot /\ e.obj \in Obj
  BY <1>1, Batched DEF Reported
<1>3. Moved(e)'
  BY <1>2, BumpedOnce DEF Kept
<1>4. ASSUME bumps'[e.slot] = 0
      PROVE  owner'[e.slot] = e.obj /\ e.mask \subseteq events'[e.obj] \cup {"HUP"}
  <2>1. e.slot # s /\ bumps[e.slot] = 0
    BY <1>2, <1>4, BumpedOnce
  <2>2. owner[e.slot] = e.obj /\ e.obj # None /\ e.mask \subseteq events[e.obj] \cup {"HUP"}
    BY <1>2, <2>1 DEF Kept, Bounds
  <2> QED
    BY <1>2, <2>1, <2>2
<1>5. Kept(e)'
  BY <1>3, <1>4 DEF Kept
<1> QED
  BY <1>1, <1>5

\* The phases stand while something runs.
LEMMA RunningPhases ==
  ASSUME PollerInv, Running, UNCHANGED <<phase, batch, call>>
  PROVE  Phases'
BY DEF PollerInv, Phases, Running

-----------------------------------------------------------------------------
(* The list of free slots. *)

\* Taking a slot leaves the rest of the free ones.
LEMMA TakeSlot ==
  ASSUME NEW f \in Seq(Slot), f # <<>>
  PROVE  /\ Head(f) \in Slot /\ Tail(f) \in Seq(Slot)
         /\ Head(f) = f[1] /\ 1 \in 1..Len(f)
         /\ \A i \in 1..Len(Tail(f)) : i + 1 \in 1..Len(f) /\ Tail(f)[i] = f[i + 1] /\ i + 1 # 1
         /\ \A i \in 1..Len(f) : i # 1 =>
              \E j \in 1..Len(Tail(f)) : j + 1 = i /\ Tail(f)[j] = f[i]
<1>1. Len(f) \in Nat /\ Len(f) # 0
  BY LenProperties, EmptySeq
<1>2. /\ Head(f) = f[1] /\ Head(f) \in Slot /\ Tail(f) \in Seq(Slot)
      /\ Len(Tail(f)) = Len(f) - 1
      /\ \A i \in 1..Len(Tail(f)) : Tail(f)[i] = f[i + 1]
  BY <1>1, HeadTailProperties
<1>3. \A i \in 1..Len(f) : i # 1 =>
        \E j \in 1..Len(Tail(f)) : j + 1 = i /\ Tail(f)[j] = f[i]
  <2> SUFFICES ASSUME NEW i \in 1..Len(f), i # 1
               PROVE  \E j \in 1..Len(Tail(f)) : j + 1 = i /\ Tail(f)[j] = f[i]
    OBVIOUS
  <2>1. i - 1 \in 1..Len(Tail(f)) /\ (i - 1) + 1 = i
    BY <1>1, <1>2
  <2> QED
    BY <1>2, <2>1
<1> QED
  BY <1>1, <1>2, <1>3

\* A slot given back is free once.
LEMMA GiveSlot ==
  ASSUME NEW f \in Seq(Slot), NEW s \in Slot
  PROVE  LET g == <<s>> \o f
         IN  /\ g \in Seq(Slot) /\ g[1] = s /\ 1 \in 1..Len(g)
             /\ \A i \in 1..Len(g) : i # 1 => i - 1 \in 1..Len(f) /\ g[i] = f[i - 1]
             /\ \A i \in 1..Len(f) : i + 1 \in 1..Len(g) /\ g[i + 1] = f[i]
<1> DEFINE g == <<s>> \o f
<1>1. Len(f) \in Nat /\ <<s>> \in Seq(Slot) /\ Len(<<s>>) = 1 /\ <<s>>[1] = s
  BY LenProperties
<1>2. /\ g \in Seq(Slot) /\ Len(g) = 1 + Len(f)
      /\ \A i \in 1..1+Len(f) : g[i] = IF i <= 1 THEN <<s>>[i] ELSE f[i - 1]
  BY <1>1, ConcatProperties
<1> HIDE DEF g
<1>3. g[1] = s /\ 1 \in 1..Len(g)
  BY <1>1, <1>2
<1>4. \A i \in 1..Len(g) : i # 1 => i - 1 \in 1..Len(f) /\ g[i] = f[i - 1]
  BY <1>1, <1>2
<1>5. \A i \in 1..Len(f) : i + 1 \in 1..Len(g) /\ g[i + 1] = f[i]
  <2> SUFFICES ASSUME NEW i \in 1..Len(f) PROVE i + 1 \in 1..Len(g) /\ g[i + 1] = f[i]
    OBVIOUS
  <2>1. i + 1 \in 1..1+Len(f) /\ ~ i + 1 <= 1 /\ (i + 1) - 1 = i
    BY <1>1
  <2> QED
    BY <1>2, <2>1
<1> QED
  BY <1>2, <1>3, <1>4, <1>5 DEF g

-----------------------------------------------------------------------------
(* The steps. *)

\* At first all slots are free.
LEMMA PollerInvInit ==
  ASSUME Bounds, PollerInit
  PROVE  PollerInv
<1>1. Cardinality(Slot) \in Nat
  BY FS_CardinalityType DEF Bounds
<1>2. free \in Seq(Slot) /\ Len(free) = Cardinality(Slot)
  <2>1. free \in [1..Cardinality(Slot) -> Slot]
    BY DEF PollerInit
  <2>2. free \in Seq(Slot)
    BY <1>1, <2>1, SeqDef
  <2> QED
    BY <1>1, <2>1, <2>2, LenProperties
<1>3. TypeOK
  BY <1>2, EmptySeq DEF PollerInit, TypeOK, Bounds, Number, Masks, Registered, Unregistered
<1>4. SlotsPartitioned
  BY <1>2 DEF PollerInit, SlotsPartitioned
<1>5. AttachedIsHeard /\ Phases /\ \A i \in 1..Len(batch) : Kept(batch[i])
  BY EmptySeq DEF PollerInit, AttachedIsHeard, Phases
<1> QED
  BY <1>3, <1>4, <1>5 DEF PollerInv

\* An object takes the first free slot.
LEMMA AttachStep ==
  ASSUME Bounds, PollerInv, NEW o \in Obj, AttachPoller(o)
  PROVE  PollerInv'
<1> DEFINE s == Head(free)
<1>0. /\ free \in Seq(Slot) /\ slotOf \in [Obj -> Slot \cup {None}]
      /\ owner \in [Slot -> Obj \cup {None}] /\ seq \in [Slot -> Number]
      /\ events \in [Obj -> Masks] /\ kernel \in [Obj -> Registered] /\ SlotsPartitioned
  BY DEF PollerInv, TypeOK
<1>1. /\ Running /\ slotOf[o] = None /\ free # <<>> /\ free' = Tail(free) /\ Bumped(s)
      /\ owner' = [owner EXCEPT ![s] = o]
      /\ slotOf' = [slotOf EXCEPT ![o] = s]
      /\ kernel' = [kernel EXCEPT ![o] = [slot |-> s, seq |-> Plus1(seq[s])]]
      /\ events' = [events EXCEPT ![o] = {"IN"}]
      /\ UNCHANGED <<phase, batch, call>>
  BY DEF AttachPoller
<1>2. /\ s \in Slot /\ Tail(free) \in Seq(Slot)
      /\ s = free[1] /\ 1 \in 1..Len(free)
      /\ \A i \in 1..Len(Tail(free)) : i + 1 \in 1..Len(free) /\ Tail(free)[i] = free[i + 1] /\ i + 1 # 1
      /\ \A i \in 1..Len(free) : i # 1 =>
           \E j \in 1..Len(Tail(free)) : j + 1 = i /\ Tail(free)[j] = free[i]
  BY <1>0, <1>1, TakeSlot
<1>3. owner[s] = None
  BY <1>0, <1>2 DEF SlotsPartitioned
<1> HIDE DEF s
<1>4. /\ seq' \in [Slot -> Number] /\ bumps' \in [Slot -> Number] /\ seq'[s] = Plus1(seq[s])
      /\ \A t \in Slot : t # s => seq'[t] = seq[t]
  BY <1>1, <1>2, BumpedOnce
<1>5. TypeOK'
  <2>1. Plus1(seq[s]) \in Number
    BY <1>2, <1>4
  <2>2. kernel' \in [Obj -> Registered]
    BY <1>0, <1>1, <1>2, <2>1 DEF Registered
  <2>3. {"IN"} \in Masks
    BY DEF Masks
  <2>4. slotOf' \in [Obj -> Slot \cup {None}] /\ owner' \in [Slot -> Obj \cup {None}]
        /\ events' \in [Obj -> Masks]
    BY <1>0, <1>1, <1>2, <2>3
  <2>5. batch' \in Seq(Reported) /\ call' \in Call \cup {Idle} /\ free' \in Seq(Slot)
    BY <1>1, <1>2 DEF PollerInv, TypeOK
  <2> QED
    BY <1>4, <2>2, <2>4, <2>5 DEF TypeOK
<1>6. /\ slotOf'[o] = s /\ owner'[s] = o
      /\ \A p \in Obj : p # o => slotOf'[p] = slotOf[p] /\ slotOf[p] # s
      /\ \A t \in Slot : t # s => owner'[t] = owner[t] /\ owner[t] # o
  BY <1>0, <1>1, <1>2, <1>3 DEF SlotsPartitioned, Bounds
<1>7. SlotsPartitioned'
  <2>1. \A p \in Obj : slotOf'[p] # None => owner'[slotOf'[p]] = p
    BY <1>0, <1>6 DEF SlotsPartitioned
  <2>2. \A t \in Slot : owner'[t] # None => slotOf'[owner'[t]] = t
    BY <1>0, <1>6 DEF SlotsPartitioned
  <2>3. \A i \in 1..Len(free') : owner'[free'[i]] = None
    <3> SUFFICES ASSUME NEW i \in 1..Len(free') PROVE owner'[free'[i]] = None
      OBVIOUS
    <3>1. i + 1 \in 1..Len(free) /\ free'[i] = free[i + 1] /\ i + 1 # 1
      BY <1>1, <1>2
    <3>2. free'[i] \in Slot /\ free'[i] # s /\ owner[free'[i]] = None
      BY <1>0, <1>2, <3>1, ElementOfSeq DEF SlotsPartitioned
    <3> QED
      BY <1>6, <3>2
  <2>4. \A i, j \in 1..Len(free') : free'[i] = free'[j] => i = j
    <3> SUFFICES ASSUME NEW i \in 1..Len(free'), NEW j \in 1..Len(free'), free'[i] = free'[j]
                 PROVE  i = j
      OBVIOUS
    <3>1. /\ i + 1 \in 1..Len(free) /\ free'[i] = free[i + 1]
          /\ j + 1 \in 1..Len(free) /\ free'[j] = free[j + 1]
      BY <1>1, <1>2
    <3>2. i + 1 = j + 1
      BY <1>0, <3>1 DEF SlotsPartitioned
    <3> QED
      BY <3>2
  <2>5. \A t \in Slot : owner'[t] = None => \E i \in 1..Len(free') : free'[i] = t
    <3> SUFFICES ASSUME NEW t \in Slot, owner'[t] = None PROVE \E i \in 1..Len(free') : free'[i] = t
      OBVIOUS
    <3>1. t # s
      BY <1>6 DEF Bounds
    <3>2. PICK i \in 1..Len(free) : free[i] = t
      BY <1>0, <1>6, <3>1 DEF SlotsPartitioned
    <3> QED
      BY <1>1, <1>2, <3>1, <3>2
  <2> QED
    BY <2>1, <2>2, <2>3, <2>4, <2>5 DEF SlotsPartitioned
<1>8. AttachedIsHeard'
  <2> SUFFICES ASSUME NEW p \in Obj
               PROVE  kernel'[p] = IF slotOf'[p] = None THEN Unregistered
                                   ELSE [slot |-> slotOf'[p], seq |-> seq'[slotOf'[p]]]
    BY DEF AttachedIsHeard
  <2>1. CASE p = o
    BY <1>0, <1>1, <1>2, <1>4, <1>6, <2>1 DEF Bounds
  <2>2. CASE p # o
    <3>1. kernel'[p] = kernel[p] /\ slotOf'[p] = slotOf[p] /\ slotOf[p] # s
      BY <1>0, <1>1, <1>6, <2>2
    <3>2. slotOf[p] # None => seq'[slotOf[p]] = seq[slotOf[p]]
      BY <1>0, <1>4, <3>1
    <3> QED
      BY <3>1, <3>2 DEF PollerInv, AttachedIsHeard
  <2> QED
    BY <2>1, <2>2
<1>9. \A i \in 1..Len(batch') : Kept(batch[i])'
  <2>1. \A t \in Slot : t # s /\ owner[t] # None =>
          owner'[t] = owner[t] /\ events'[owner[t]] = events[owner[t]]
    BY <1>0, <1>1, <1>6
  <2> QED
    BY <1>1, <1>2, <2>1, KeptStill
<1> QED
  BY <1>1, <1>5, <1>7, <1>8, <1>9, RunningPhases DEF PollerInv

\* The socket is not registered: its slot went and came back, two steps further.
LEMMA RefusedStep ==
  ASSUME Bounds, PollerInv, NEW o \in Obj, AttachRefused(o)
  PROVE  PollerInv'
<1> DEFINE s == Head(free)
<1>0. /\ free \in Seq(Slot) /\ slotOf \in [Obj -> Slot \cup {None}]
      /\ seq \in [Slot -> Number] /\ bumps \in [Slot -> Number] /\ SlotsPartitioned
  BY DEF PollerInv, TypeOK
<1>1. /\ Running /\ free # <<>> /\ bumps[s] + 2 < SeqMod
      /\ bumps' = [bumps EXCEPT ![s] = @ + 2]
      /\ seq' = [seq EXCEPT ![s] = Plus1(Plus1(@))]
      /\ UNCHANGED <<slotOf, owner, free, events, kernel, phase, batch, call>>
  BY DEF AttachRefused
<1>2. s \in Slot /\ owner[s] = None
  BY <1>0, <1>1, TakeSlot DEF SlotsPartitioned
<1> HIDE DEF s
<1>3. /\ seq[s] \in Number /\ bumps[s] \in Number /\ bumps[s] + 1 < SeqMod
      /\ bumps[s] + 1 + 1 < SeqMod /\ bumps[s] + 1 + 1 = bumps[s] + 2
  BY <1>0, <1>1, <1>2 DEF Number, Bounds
<1>4. Plus1(seq[s]) \in Number /\ bumps[s] + 1 \in Number
  BY <1>3, OneStep
<1>5. Plus1(Plus1(seq[s])) \in Number /\ bumps[s] + 2 \in Number /\ bumps[s] + 2 # 0
  BY <1>3, <1>4, OneStep
<1>6. /\ seq' \in [Slot -> Number] /\ bumps' \in [Slot -> Number]
      /\ seq'[s] = Plus1(Plus1(seq[s])) /\ bumps'[s] = bumps[s] + 2
      /\ \A t \in Slot : t # s => seq'[t] = seq[t] /\ bumps'[t] = bumps[t]
  BY <1>0, <1>1, <1>2, <1>5
<1>7. TypeOK'
  BY <1>1, <1>6 DEF PollerInv, TypeOK
<1>8. SlotsPartitioned'
  BY <1>0, <1>1 DEF SlotsPartitioned
<1>9. AttachedIsHeard'
  <2>1. \A p \in Obj : slotOf[p] # None => slotOf[p] \in Slot /\ slotOf[p] # s
    BY <1>0, <1>2 DEF SlotsPartitioned, Bounds
  <2> QED
    BY <1>1, <1>6, <2>1 DEF PollerInv, AttachedIsHeard
<1>10. ASSUME NEW i \in 1..Len(batch) PROVE Kept(batch[i])'
  <2>1. PICK e \in Reported : e = batch[i]
    BY Batched
  <2>2. Kept(e) /\ e.slot \in Slot /\ e.seq \in Number
    BY <2>1, Batched DEF Reported
  <2>3. CASE e.slot # s
    BY <1>1, <1>6, <2>1, <2>2, <2>3 DEF Kept, Moved
  <2>4. CASE e.slot = s
    <3>1. \/ Plus1(seq[s]) = e.seq + (bumps[s] + 1)
          \/ Plus1(seq[s]) = e.seq + (bumps[s] + 1) - SeqMod
      BY <1>3, <2>2, <2>4, OneStep DEF Kept, Moved
    <3>2. \/ Plus1(Plus1(seq[s])) = e.seq + (bumps[s] + 1 + 1)
          \/ Plus1(Plus1(seq[s])) = e.seq + (bumps[s] + 1 + 1) - SeqMod
      BY <1>3, <1>4, <2>2, <3>1, OneStep
    <3>3. Kept(e)'
      BY <1>3, <1>5, <1>6, <2>4, <3>2 DEF Kept, Moved
    <3> QED
      BY <1>1, <2>1, <3>3
  <2> QED
    BY <2>3, <2>4
<1> QED
  BY <1>1, <1>7, <1>8, <1>9, <1>10, RunningPhases DEF PollerInv

\* Its owner listens for something else.
LEMMA ApplyStep ==
  ASSUME Bounds, PollerInv, NEW o \in Obj, NEW E \in Masks, ApplyEvents(o, E)
  PROVE  PollerInv'
<1> DEFINE s == slotOf[o]
<1>0. /\ slotOf \in [Obj -> Slot \cup {None}] /\ events \in [Obj -> Masks]
      /\ kernel \in [Obj -> Registered] /\ SlotsPartitioned
      /\ owner \in [Slot -> Obj \cup {None}]
  BY DEF PollerInv, TypeOK
<1>1. /\ Running /\ s # None /\ Bumped(s)
      /\ events' = [events EXCEPT ![o] = E]
      /\ kernel' = [kernel EXCEPT ![o].seq = Plus1(seq[s])]
      /\ UNCHANGED <<slotOf, owner, free, phase, batch, call>>
  BY DEF ApplyEvents
<1>2. s \in Slot /\ owner[s] = o /\ \A p \in Obj : slotOf[p] = s => p = o
  BY <1>0, <1>1 DEF SlotsPartitioned
<1>3. kernel[o] = [slot |-> s, seq |-> seq[s]]
  BY <1>1 DEF PollerInv, AttachedIsHeard
<1> HIDE DEF s
<1>4. /\ seq' \in [Slot -> Number] /\ bumps' \in [Slot -> Number] /\ seq'[s] = Plus1(seq[s])
      /\ \A t \in Slot : t # s => seq'[t] = seq[t]
  BY <1>1, <1>2, BumpedOnce
<1>5. kernel' = [kernel EXCEPT ![o] = [slot |-> s, seq |-> Plus1(seq[s])]]
  <2>1. kernel' = [kernel EXCEPT ![o] = [kernel[o] EXCEPT !.seq = Plus1(seq[s])]]
    BY <1>1
  <2>2. [kernel[o] EXCEPT !.seq = Plus1(seq[s])] = [slot |-> s, seq |-> Plus1(seq[s])]
    BY <1>3
  <2> QED
    BY <2>1, <2>2
<1>6. TypeOK'
  <2>1. Plus1(seq[s]) \in Number
    BY <1>2, <1>4
  <2>2. kernel' \in [Obj -> Registered]
    BY <1>0, <1>2, <1>5, <2>1 DEF Registered
  <2>3. events' \in [Obj -> Masks]
    BY <1>0, <1>1
  <2> QED
    BY <1>1, <1>4, <2>2, <2>3 DEF PollerInv, TypeOK
<1>7. SlotsPartitioned'
  BY <1>0, <1>1 DEF SlotsPartitioned
<1>8. AttachedIsHeard'
  <2> SUFFICES ASSUME NEW p \in Obj
               PROVE  kernel'[p] = IF slotOf[p] = None THEN Unregistered
                                   ELSE [slot |-> slotOf[p], seq |-> seq'[slotOf[p]]]
    BY <1>1 DEF AttachedIsHeard
  <2>1. CASE p = o
    BY <1>0, <1>1, <1>4, <1>5, <2>1 DEF s
  <2>2. CASE p # o
    <3>1. kernel'[p] = kernel[p] /\ slotOf[p] # s
      BY <1>0, <1>2, <1>5, <2>2
    <3>2. slotOf[p] # None => seq'[slotOf[p]] = seq[slotOf[p]]
      BY <1>0, <1>4, <3>1
    <3> QED
      BY <3>1, <3>2 DEF PollerInv, AttachedIsHeard
  <2> QED
    BY <2>1, <2>2
<1>9. \A i \in 1..Len(batch') : Kept(batch[i])'
  <2>1. \A t \in Slot : t # s /\ owner[t] # None => owner[t] # o
    BY <1>0, <1>2 DEF SlotsPartitioned, s
  <2>2. \A t \in Slot : t # s /\ owner[t] # None =>
          owner'[t] = owner[t] /\ events'[owner[t]] = events[owner[t]]
    BY <1>0, <1>1, <2>1
  <2> QED
    BY <1>1, <1>2, <2>2, KeptStill
<1> QED
  BY <1>1, <1>6, <1>7, <1>8, <1>9, RunningPhases DEF PollerInv

\* An object leaves its slot, which becomes the first free one.
LEMMA DetachStep ==
  ASSUME Bounds, PollerInv, NEW o \in Obj, DetachPoller(o)
  PROVE  PollerInv'
<1> DEFINE s == slotOf[o]
<1>0. /\ free \in Seq(Slot) /\ slotOf \in [Obj -> Slot \cup {None}]
      /\ owner \in [Slot -> Obj \cup {None}]
      /\ events \in [Obj -> Masks] /\ kernel \in [Obj -> Registered] /\ SlotsPartitioned
  BY DEF PollerInv, TypeOK
<1>1. /\ Running /\ s # None /\ free' = <<s>> \o free /\ Bumped(s)
      /\ owner' = [owner EXCEPT ![s] = None]
      /\ slotOf' = [slotOf EXCEPT ![o] = None]
      /\ events' = [events EXCEPT ![o] = {}]
      /\ kernel' = [kernel EXCEPT ![o] = Unregistered]
      /\ UNCHANGED <<phase, batch, call>>
  BY DEF DetachPoller, FreeEpollSlot
<1>2. s \in Slot /\ owner[s] = o /\ o # None /\ \A p \in Obj : slotOf[p] = s => p = o
  BY <1>0, <1>1 DEF SlotsPartitioned, Bounds
<1>3. /\ free' \in Seq(Slot) /\ free'[1] = s /\ 1 \in 1..Len(free')
      /\ \A i \in 1..Len(free') : i # 1 => i - 1 \in 1..Len(free) /\ free'[i] = free[i - 1]
      /\ \A i \in 1..Len(free) : i + 1 \in 1..Len(free') /\ free'[i + 1] = free[i]
  BY <1>0, <1>1, <1>2, GiveSlot
<1> HIDE DEF s
<1>4. /\ seq' \in [Slot -> Number] /\ bumps' \in [Slot -> Number]
      /\ \A t \in Slot : t # s => seq'[t] = seq[t]
  BY <1>1, <1>2, BumpedOnce
<1>5. TypeOK'
  <2>1. {} \in Masks /\ Unregistered \in Registered
    BY DEF Masks, Unregistered, Registered, Number, Bounds
  <2>2. slotOf' \in [Obj -> Slot \cup {None}] /\ owner' \in [Slot -> Obj \cup {None}]
        /\ events' \in [Obj -> Masks] /\ kernel' \in [Obj -> Registered]
    BY <1>0, <1>1, <1>2, <2>1
  <2> QED
    BY <1>1, <1>3, <1>4, <2>2 DEF PollerInv, TypeOK
<1>6. /\ slotOf'[o] = None /\ owner'[s] = None
      /\ \A p \in Obj : p # o => slotOf'[p] = slotOf[p] /\ slotOf[p] # s
      /\ \A t \in Slot : t # s => owner'[t] = owner[t] /\ (owner[t] # None => owner[t] # o)
  BY <1>0, <1>1, <1>2 DEF SlotsPartitioned, s
<1>7. SlotsPartitioned'
  <2>1. \A p \in Obj : slotOf'[p] # None => owner'[slotOf'[p]] = p
    BY <1>0, <1>6 DEF SlotsPartitioned
  <2>2. \A t \in Slot : owner'[t] # None => slotOf'[owner'[t]] = t
    BY <1>0, <1>6 DEF SlotsPartitioned
  <2>3. \A i \in 1..Len(free') : i # 1 => free'[i] # s /\ owner[free'[i]] = None
    <3> SUFFICES ASSUME NEW i \in 1..Len(free'), i # 1 PROVE free'[i] # s /\ owner[free'[i]] = None
      OBVIOUS
    <3>1. owner[free'[i]] = None
      BY <1>0, <1>3 DEF SlotsPartitioned
    <3> QED
      BY <1>2, <3>1
  <2>4. \A i \in 1..Len(free') : owner'[free'[i]] = None
    <3> SUFFICES ASSUME NEW i \in 1..Len(free') PROVE owner'[free'[i]] = None
      OBVIOUS
    <3>1. CASE i = 1
      BY <1>3, <1>6, <3>1
    <3>2. CASE i # 1
      <4>1. free'[i] \in Slot
        BY <1>3, ElementOfSeq
      <4> QED
        BY <1>6, <2>3, <3>2, <4>1
    <3> QED
      BY <3>1, <3>2
  <2>5. \A i, j \in 1..Len(free') : free'[i] = free'[j] => i = j
    <3> SUFFICES ASSUME NEW i \in 1..Len(free'), NEW j \in 1..Len(free'), free'[i] = free'[j]
                 PROVE  i = j
      OBVIOUS
    <3>1. CASE i = 1 \/ j = 1
      BY <1>3, <2>3, <3>1
    <3>2. CASE i # 1 /\ j # 1
      <4>1. /\ i - 1 \in 1..Len(free) /\ free'[i] = free[i - 1]
            /\ j - 1 \in 1..Len(free) /\ free'[j] = free[j - 1]
        BY <1>3, <3>2
      <4>2. i - 1 = j - 1
        BY <1>0, <4>1 DEF SlotsPartitioned
      <4> QED
        BY <4>2
    <3> QED
      BY <3>1, <3>2
  <2>6. \A t \in Slot : owner'[t] = None => \E i \in 1..Len(free') : free'[i] = t
    <3> SUFFICES ASSUME NEW t \in Slot, owner'[t] = None PROVE \E i \in 1..Len(free') : free'[i] = t
      OBVIOUS
    <3>1. CASE t = s
      BY <1>3, <3>1
    <3>2. CASE t # s
      <4>1. PICK i \in 1..Len(free) : free[i] = t
        BY <1>0, <1>6, <3>2 DEF SlotsPartitioned
      <4> QED
        BY <1>3, <4>1
    <3> QED
      BY <3>1, <3>2
  <2> QED
    BY <2>1, <2>2, <2>4, <2>5, <2>6 DEF SlotsPartitioned
<1>8. AttachedIsHeard'
  <2> SUFFICES ASSUME NEW p \in Obj
               PROVE  kernel'[p] = IF slotOf'[p] = None THEN Unregistered
                                   ELSE [slot |-> slotOf'[p], seq |-> seq'[slotOf'[p]]]
    BY DEF AttachedIsHeard
  <2>1. CASE p = o
    BY <1>0, <1>1, <1>6, <2>1
  <2>2. CASE p # o
    <3>1. kernel'[p] = kernel[p] /\ slotOf'[p] = slotOf[p] /\ slotOf[p] # s
      BY <1>0, <1>1, <1>6, <2>2
    <3>2. slotOf[p] # None => seq'[slotOf[p]] = seq[slotOf[p]]
      BY <1>0, <1>4, <3>1
    <3> QED
      BY <3>1, <3>2 DEF PollerInv, AttachedIsHeard
  <2> QED
    BY <2>1, <2>2
<1>9. \A i \in 1..Len(batch') : Kept(batch[i])'
  <2>1. \A t \in Slot : t # s /\ owner[t] # None =>
          owner'[t] = owner[t] /\ events'[owner[t]] = events[owner[t]]
    BY <1>0, <1>1, <1>6
  <2> QED
    BY <1>1, <1>2, <2>1, KeptStill
<1> QED
  BY <1>1, <1>5, <1>7, <1>8, <1>9, RunningPhases DEF PollerInv

\* epoll reports by what it holds of a socket, which is what its slot has now.
LEMMA ReportStep ==
  ASSUME Bounds, PollerInv, NEW o \in Obj, NEW mask \in SUBSET Event, Report(o, mask)
  PROVE  PollerInv'
<1> DEFINE e == [obj |-> o, slot |-> kernel[o].slot, seq |-> kernel[o].seq, mask |-> mask]
<1>0. /\ slotOf \in [Obj -> Slot \cup {None}] /\ seq \in [Slot -> Number]
      /\ batch \in Seq(Reported) /\ SlotsPartitioned
  BY DEF PollerInv, TypeOK
<1>1. /\ phase = "wait" /\ kernel[o] # Unregistered /\ mask \subseteq events[o] \cup {"HUP"}
      /\ batch' = Append(batch, e)
      /\ UNCHANGED <<table, phase, call>>
  BY DEF Report
<1>2. slotOf[o] \in Slot /\ kernel[o] = [slot |-> slotOf[o], seq |-> seq[slotOf[o]]]
  BY <1>0, <1>1 DEF PollerInv, AttachedIsHeard
<1>3. e.obj = o /\ e.mask = mask /\ e.slot = slotOf[o] /\ e.seq = seq[slotOf[o]]
  BY <1>2
<1>4. e \in Reported
  BY <1>0, <1>2, <1>3 DEF Reported
<1> HIDE DEF e
<1>5. owner[slotOf[o]] = o
  BY <1>0, <1>2 DEF SlotsPartitioned, Bounds
<1>6. Kept(e)
  <2>1. bumps[slotOf[o]] = 0 /\ seq[slotOf[o]] \in Number
    BY <1>0, <1>1, <1>2 DEF PollerInv, Phases
  <2> QED
    BY <1>1, <1>3, <1>5, <2>1 DEF Kept, Moved, Number, Bounds
<1>7. /\ batch' \in Seq(Reported) /\ Len(batch') = Len(batch) + 1 /\ Len(batch) \in Nat
      /\ \A i \in 1..Len(batch) : batch'[i] = batch[i] /\ batch'[Len(batch) + 1] = e
  BY <1>0, <1>1, <1>4, AppendProperties
<1>8. ASSUME NEW i \in 1..Len(batch') PROVE Kept(batch[i])'
  <2>1. CASE i \in 1..Len(batch)
    BY <1>1, <1>7, <2>1, Batched DEF table, Kept, Moved
  <2>2. CASE i = Len(batch) + 1
    <3>1. batch'[i] = e
      BY <1>0, <1>1, <1>4, <2>2, AppendProperties
    <3> QED
      BY <1>1, <1>6, <3>1 DEF table, Kept, Moved
  <2> QED
    BY <1>7, <2>1, <2>2
<1>9. TypeOK' /\ SlotsPartitioned' /\ AttachedIsHeard' /\ Phases'
  BY <1>1, <1>7 DEF PollerInv, TypeOK, SlotsPartitioned, AttachedIsHeard, Phases, table
<1> QED
  BY <1>8, <1>9 DEF PollerInv

\* The object a fitting report names.
LEMMA FittingReport ==
  ASSUME Bounds, PollerInv, NEW e \in Reported, Kept(e), VerifyEvents(e)
  PROVE  /\ owner[e.slot] = e.obj /\ slotOf[e.obj] = e.slot
         /\ e.mask \subseteq events[e.obj] \cup {"HUP"}
<1>1. e.slot \in Slot /\ e.obj \in Obj /\ e.seq \in Number
  BY DEF Reported
<1>2. seq[e.slot] \in Number /\ bumps[e.slot] \in Number
  BY <1>1 DEF PollerInv, TypeOK
<1>3. bumps[e.slot] = 0
  BY <1>1, <1>2, FitsUnmoved DEF Kept, Moved, VerifyEvents
<1> QED
  BY <1>1, <1>3 DEF Kept, PollerInv, SlotsPartitioned, Bounds

\* What a callback begins on.
CallReported ==
  call' # call /\ call' # Idle =>
    /\ slotOf[call'.obj] = call'.slot
    /\ call = Idle => call'.obj = Head(batch).obj
    /\ call # Idle => call'.obj = call.obj

\* The next report is dropped, or its object is called.
LEMMA DispatchStep ==
  ASSUME Bounds, PollerInv, Dispatch
  PROVE  PollerInv' /\ CallReported
<1> DEFINE e == Head(batch)
<1>1. /\ batch # <<>> /\ batch' = Tail(batch) /\ call = Idle /\ phase = "process"
      /\ UNCHANGED <<table, phase>>
      /\ call' = IF VerifyEvents(e)
                 THEN [obj |-> owner[e.slot], slot |-> e.slot, mask |-> e.mask,
                       phase |-> First(e.mask)]
                 ELSE Idle
  BY DEF Dispatch
<1>2. batch \in Seq(Reported)
  BY DEF PollerInv, TypeOK
<1>3. /\ e = batch[1] /\ 1 \in 1..Len(batch) /\ e \in Reported
      /\ batch' \in Seq(Reported) /\ Len(batch) \in Nat /\ Len(batch') = Len(batch) - 1
      /\ \A i \in 1..Len(batch') : batch'[i] = batch[i + 1]
  <2>1. Len(batch) \in Nat /\ Len(batch) # 0
    BY <1>1, <1>2, LenProperties, EmptySeq
  <2> QED
    BY <1>1, <1>2, <2>1, HeadTailProperties
<1>4. Kept(e)
  BY <1>3, Batched
<1> HIDE DEF e
<1>5. VerifyEvents(e) => owner[e.slot] = e.obj /\ slotOf[e.obj] = e.slot
  BY <1>3, <1>4, FittingReport
<1>6. call' \in Call \cup {Idle}
  <2>1. First(e.mask) \in Event
    BY DEF First, Event
  <2>2. e.obj \in Obj /\ e.slot \in Slot /\ e.mask \in SUBSET Event
    BY <1>3 DEF Reported
  <2> QED
    BY <1>1, <1>5, <2>1, <2>2 DEF Call
<1>7. ASSUME NEW i \in 1..Len(batch') PROVE Kept(batch[i])'
  <2>1. i + 1 \in 1..Len(batch) /\ batch'[i] = batch[i + 1]
    BY <1>3
  <2>2. Kept(batch[i + 1])
    BY <2>1, Batched
  <2> QED
    BY <1>1, <2>1, <2>2 DEF table, Kept, Moved
<1>8. TypeOK' /\ SlotsPartitioned' /\ AttachedIsHeard' /\ Phases'
  BY <1>1, <1>3, <1>6 DEF PollerInv, TypeOK, SlotsPartitioned, AttachedIsHeard, Phases, table
<1>9. CallReported
  BY <1>1, <1>5 DEF CallReported, e
<1> QED
  BY <1>7, <1>8, <1>9 DEF PollerInv

\* Output follows input only on an object still attached.
LEMMA ReturnStep ==
  ASSUME Bounds, PollerInv, NEW succ \in BOOLEAN, Return(succ)
  PROVE  PollerInv' /\ CallReported
<1>1. /\ call # Idle /\ call \in Call
      /\ call' = IF call.phase = "IN" /\ "OUT" \in call.mask /\ StillAttached(succ)
                 THEN [call EXCEPT !.phase = "OUT"] ELSE Idle
      /\ UNCHANGED <<table, phase, batch>>
  BY DEF Return, PollerInv, TypeOK
<1>2. /\ call.slot \in Slot /\ call.obj \in Obj
      /\ [call EXCEPT !.phase = "OUT"] \in Call
      /\ [call EXCEPT !.phase = "OUT"].obj = call.obj
      /\ [call EXCEPT !.phase = "OUT"].slot = call.slot
  BY <1>1 DEF Call, Event
<1>3. TypeOK' /\ SlotsPartitioned' /\ AttachedIsHeard'
      /\ \A i \in 1..Len(batch') : Kept(batch[i])'
  BY <1>1, <1>2 DEF PollerInv, TypeOK, SlotsPartitioned, AttachedIsHeard, table, Kept, Moved
<1>4. Phases'
  BY <1>1 DEF PollerInv, Phases, table
<1>5. CallReported
  <2>1. StillAttached(succ) => slotOf[call.obj] = call.slot
    BY <1>2 DEF StillAttached, PollerInv, SlotsPartitioned, Bounds
  <2> QED
    BY <1>1, <1>2, <2>1 DEF CallReported
<1> QED
  BY <1>3, <1>4, <1>5 DEF PollerInv

\* The loop goes from timers to epoll_wait to the batch and back.
LEMMA LoopStep ==
  ASSUME Bounds, PollerInv, WaitPollerEvents \/ WaitReturns \/ BatchDone
  PROVE  PollerInv'
<1>1. CASE WaitPollerEvents
  <2>1. /\ batch = <<>> /\ call = Idle /\ phase' = "wait"
        /\ bumps' = [s \in Slot |-> 0]
        /\ UNCHANGED <<slotOf, owner, seq, free, events, kernel, batch, call>>
    BY <1>1 DEF WaitPollerEvents, PollerInv, Phases
  <2>2. bumps' \in [Slot -> Number]
    BY <2>1 DEF Number, Bounds
  <2>3. TypeOK' /\ SlotsPartitioned' /\ AttachedIsHeard' /\ Phases'
    BY <2>1, <2>2 DEF PollerInv, TypeOK, SlotsPartitioned, AttachedIsHeard, Phases
  <2>4. \A i \in 1..Len(batch') : Kept(batch[i])'
    BY <2>1
  <2> QED
    BY <2>3, <2>4 DEF PollerInv
<1>2. CASE WaitReturns
  BY <1>2 DEF WaitReturns, PollerInv, TypeOK, SlotsPartitioned, AttachedIsHeard, Phases, table, Kept, Moved
<1>3. CASE BatchDone
  BY <1>3 DEF BatchDone, PollerInv, TypeOK, SlotsPartitioned, AttachedIsHeard, Phases, table, Kept, Moved
<1> QED
  BY <1>1, <1>2, <1>3

\* Every step keeps the invariant and begins callbacks on the objects reported.
LEMMA PollerInvStep ==
  ASSUME Bounds, PollerInv, [PollerNext]_pollerVars
  PROVE  PollerInv' /\ CallReported
<1>1. CASE UNCHANGED pollerVars
  BY <1>1 DEF pollerVars, PollerInv, TypeOK, SlotsPartitioned, AttachedIsHeard, Phases, Kept, Moved, CallReported
<1>2. ASSUME NEW o \in Obj,
             \/ AttachPoller(o) \/ AttachRefused(o) \/ DetachPoller(o)
             \/ \E E \in Masks : ApplyEvents(o, E)
      PROVE  PollerInv' /\ call' = call
  <2>1. call' = call
    BY <1>2 DEF AttachPoller, AttachRefused, DetachPoller, ApplyEvents
  <2> QED
    BY <1>2, <2>1, AttachStep, RefusedStep, DetachStep, ApplyStep
<1>3. ASSUME NEW o \in Obj, NEW mask \in SUBSET Event, Report(o, mask)
      PROVE  PollerInv' /\ call' = call
  BY <1>3, ReportStep DEF Report
<1>4. ASSUME WaitPollerEvents \/ WaitReturns \/ BatchDone
      PROVE  PollerInv' /\ call' = call
  <2>1. call' = call
    BY <1>4 DEF WaitPollerEvents, WaitReturns, BatchDone
  <2> QED
    BY <1>4, <2>1, LoopStep
<1>5. call' = call => CallReported
  BY DEF CallReported
<1> QED
  BY <1>1, <1>2, <1>3, <1>4, <1>5, DispatchStep, ReturnStep DEF PollerNext, Event

-----------------------------------------------------------------------------
\* No order of attaching, refused attaching, detaching and destroying gives a slot to
\* two objects or loses one (poller.cpp:243, :252).
THEOREM SlotsPartitionedTheorem ==
  ASSUME Bounds
  PROVE  PollerSpec => []SlotsPartitioned
<1>1. PollerInv => SlotsPartitioned
  BY DEF PollerInv
<1>2. PollerInit => PollerInv
  BY PollerInvInit
<1>3. PollerInv /\ [PollerNext]_pollerVars => PollerInv'
  BY PollerInvStep
<1> QED
  BY <1>1, <1>2, <1>3, PTL DEF PollerSpec

\* VerifyEvents accepts what epoll would report now, and of the reports taken only
\* those that are still true (poller.cpp:118, :292).
THEOREM ReportsCurrentTheorem ==
  ASSUME Bounds
  PROVE  PollerSpec => []ReportsCurrent
<1>1. PollerInv => ReportsCurrent
  BY Batched, FittingReport DEF PollerInv, ReportsCurrent, VerifiedIsCurrent
<1>2. PollerInit => PollerInv
  BY PollerInvInit
<1>3. PollerInv /\ [PollerNext]_pollerVars => PollerInv'
  BY PollerInvStep
<1> QED
  BY <1>1, <1>2, <1>3, PTL DEF PollerSpec

\* A callback begins on the object epoll reported about while it is attached under the
\* slot of the report (the comments at poller.cpp:315 and :321).
THEOREM CallsReportedTheorem ==
  ASSUME Bounds
  PROVE  PollerSpec => CallsReported
<1>1. PollerInit => PollerInv
  BY PollerInvInit
<1>2. PollerInv /\ [PollerNext]_pollerVars => PollerInv' /\ CallReported
  BY PollerInvStep
<1> QED
  BY <1>1, <1>2, PTL DEF PollerSpec, CallsReported, CallReported

-----------------------------------------------------------------------------
(* RawCache. *)

Held ==
  /\ mem \in Block(block_size)
  /\ block_size \in {Fit(n) : n \in 0..MaxData}

IInv ==
  /\ data_head \in Nat
  /\ data_len \in 0..MaxData
  /\ mem # Null => Held /\ data_head + data_len <= block_size
  /\ mem = Null => data_len = 0 /\ data_head = 0 /\ block_size = 0

-----------------------------------------------------------------------------
\* What append is given is a sequence of its length.
LEMMA PutIsSeq ==
  ASSUME NEW k \in Nat, NEW data \in [1..k -> Byte]
  PROVE  data \in Seq(Byte) /\ Len(data) = k
<1>1. data \in Seq(Byte)
  BY SeqDef
<1>2. Len(data) \in Nat /\ DOMAIN data = 1..Len(data)
  BY <1>1, LenProperties
<1>3. 1..Len(data) = 1..k
  BY <1>2
<1> QED
  BY <1>1, <1>2, <1>3

\* memcpy keeps a block a block.
LEMMA CopiedIsBlock ==
  ASSUME NEW size \in Nat, NEW m \in Block(size), NEW at \in Nat,
         NEW n \in Nat, NEW d \in [1..n -> Byte \cup {Garbage}], Len(d) = n
  PROVE  Copied(m, at, d) \in Block(size)
<1> SUFFICES ASSUME NEW i \in 0..size-1
             PROVE  (IF i >= at /\ i < at + Len(d) THEN d[i - at + 1] ELSE m[i])
                      \in Byte \cup {Garbage}
  BY DEF Copied, Block
<1>1. CASE i >= at /\ i < at + Len(d)
  BY <1>1
<1>2. CASE ~ (i >= at /\ i < at + Len(d))
  BY <1>2 DEF Block
<1> QED
  BY <1>1, <1>2

\* The queued bytes are a sequence, as long as data_len says.
LEMMA DataIsSeq ==
  ASSUME IInv
  PROVE  /\ Data \in [1..data_len -> Byte \cup {Garbage}]
         /\ Data \in Seq(Byte \cup {Garbage})
         /\ Len(Data) = data_len
<1>1. ASSUME NEW i \in 1..data_len PROVE mem[data_head + i - 1] \in Byte \cup {Garbage}
  <2>1. mem # Null
    BY <1>1 DEF IInv
  <2>2. block_size \in Nat
    BY <2>1, FitAssumption DEF IInv, Held
  <2>3. data_head + i - 1 \in 0..block_size-1
    BY <2>1, <2>2 DEF IInv
  <2> QED
    BY <2>1, <2>3 DEF IInv, Held, Block
<1>2. Data \in [1..data_len -> Byte \cup {Garbage}]
  BY <1>1 DEF Data
<1>3. data_len \in Nat
  BY BoundAssumption DEF IInv
<1>4. Data \in Seq(Byte \cup {Garbage})
  BY <1>2, <1>3, SeqDef
<1>5. Len(Data) \in Nat /\ DOMAIN Data = 1..Len(Data)
  BY <1>4, LenProperties
<1> QED
  BY <1>2, <1>3, <1>4, <1>5

\* A block is not the null pointer.
LEMMA BlockIsNotNull ==
  ASSUME NEW n \in 0..MaxData, NEW m \in Block(Fit(n))
  PROVE  m # Null
BY NullAssumption DEF Block

-----------------------------------------------------------------------------
\* The empty cache satisfies the invariant.
LEMMA InitIInv == Init => IInv
BY BoundAssumption DEF Init, IInv

\* append and skip keep it.
LEMMA NextIInv == IInv /\ [Next]_vars => IInv'
<1> SUFFICES ASSUME IInv, [Next]_vars PROVE IInv'
  OBVIOUS
<1>1. ASSUME NEW k \in 0..MaxPut, NEW data \in [1..k -> Byte], append(data) PROVE IInv'
  <2> DEFINE len == data_len + k
  <2>1. data \in Seq(Byte) /\ Len(data) = k /\ k \in Nat
    BY PutIsSeq, BoundAssumption
  <2>2. data \in [1..k -> Byte \cup {Garbage}]
    BY <2>1
  <2>3. len \in 0..MaxData /\ data_len \in 0..MaxData
    BY <1>1, <2>1, BoundAssumption DEF append, IInv
  <2>4. \A n \in 0..MaxData : Fit(n) \in Nat \ {0} /\ Fit(n) >= n
    BY FitAssumption
  <2>5. Data \in [1..data_len -> Byte \cup {Garbage}] /\ Len(Data) = data_len
    BY DataIsSeq
  <2>6. ASSUME NEW n \in 0..MaxData PROVE Fresh(Fit(n)) \in Block(Fit(n))
    BY DEF Fresh, Block
  <2>7. CASE AppendFirst(data)
    <3>1. data_len = 0 /\ data_head' = 0 /\ data_len' = k /\ block_size' = Fit(k)
      BY <2>7, <2>1 DEF AppendFirst, IInv
    <3>2. k \in 0..MaxData
      BY <3>1, <2>3, <2>1
    <3>3. mem' = Copied(Fresh(Fit(k)), 0, data)
      BY <2>7, <2>1 DEF AppendFirst
    <3>4. Copied(Fresh(Fit(k)), 0, data) \in Block(Fit(k))
      BY <3>2, <2>1, <2>2, <2>4, <2>6, CopiedIsBlock
    <3>5. mem' # Null /\ Held'
      BY <3>1, <3>2, <3>3, <3>4, BlockIsNotNull DEF Held, Block
    <3> QED
      BY <3>1, <3>2, <3>5, <2>4 DEF IInv
  <2>8. CASE AppendDirect(data)
    <3>1. mem # Null /\ Held /\ block_size \in Nat
      BY <2>8, <2>4 DEF AppendDirect, IInv, Held
    <3>2. PICK n \in 0..MaxData : block_size = Fit(n)
      BY <3>1 DEF Held
    <3>3. mem' = Copied(mem, data_head + data_len, data) /\ data_len' = len
          /\ data_head' = data_head /\ block_size' = block_size
          /\ k + data_head + data_len <= block_size
      BY <2>8, <2>1 DEF AppendDirect, FitsBehind
    <3>4. Copied(mem, data_head + data_len, data) \in Block(block_size)
      BY <3>1, <2>1, <2>2, <2>3, CopiedIsBlock DEF Held, IInv
    <3>5. mem' # Null /\ Held'
      BY <3>1, <3>2, <3>3, <3>4, BlockIsNotNull DEF Held, Block
    <3> QED
      BY <3>1, <3>3, <3>5, <2>1, <2>3 DEF IInv
  <2>9. CASE AppendGrow(data)
    <3>1. data_head' = 0 /\ data_len' = len /\ block_size' = Fit(len)
          /\ mem' = Copied(Copied(Fresh(Fit(len)), 0, Data), data_len, data)
      <4>1. Len(data) + data_len = len
        BY <2>1, <2>3
      <4> QED
        BY <4>1, <2>9, <2>1 DEF AppendGrow
    <3>2. Copied(Fresh(Fit(len)), 0, Data) \in Block(Fit(len))
      BY <2>3, <2>4, <2>5, <2>6, CopiedIsBlock
    <3>3. mem' \in Block(Fit(len))
      BY <3>1, <3>2, <2>1, <2>2, <2>3, <2>4, CopiedIsBlock
    <3>4. mem' # Null /\ Held'
      BY <3>1, <3>3, <2>3, BlockIsNotNull DEF Held, Block
    <3> QED
      BY <3>1, <3>4, <2>3, <2>4 DEF IInv
  <2>10. CASE AppendMove(data)
    <3>1. mem # Null /\ Held /\ block_size \in Nat
      BY <2>10, <2>4 DEF AppendMove, IInv, Held
    <3>2. PICK n \in 0..MaxData : block_size = Fit(n)
      BY <3>1 DEF Held
    <3>3. data_head' = 0 /\ data_len' = len /\ block_size' = block_size
          /\ mem' = Copied(Copied(mem, 0, Data), data_len, data) /\ len <= block_size
      BY <2>10, <2>1, <2>3 DEF AppendMove
    <3>4. Copied(mem, 0, Data) \in Block(block_size)
      BY <3>1, <2>3, <2>5, CopiedIsBlock DEF Held
    <3>5. mem' \in Block(block_size)
      BY <3>1, <3>3, <3>4, <2>1, <2>2, <2>3, CopiedIsBlock
    <3>6. mem' # Null /\ Held'
      BY <3>1, <3>2, <3>3, <3>5, BlockIsNotNull DEF Held, Block
    <3> QED
      BY <3>3, <3>6, <2>3 DEF IInv
  <2> QED
    BY <1>1, <2>7, <2>8, <2>9, <2>10 DEF append
<1>2. ASSUME NEW n \in 0..MaxData, skip(n) PROVE IInv'
  <2>1. CASE SkipAll(n)
    BY <2>1, BoundAssumption DEF SkipAll, IInv
  <2>2. CASE SkipPart(n)
    <3>1. mem # Null /\ mem' = mem /\ block_size' = block_size /\ Held'
      BY <2>2 DEF SkipPart, IInv, Held
    <3>2. block_size \in Nat
      BY <3>1, FitAssumption DEF IInv, Held
    <3>3. data_head' \in Nat /\ data_len' \in 0..MaxData
          /\ data_head' + data_len' = data_head + data_len
      BY <2>2, BoundAssumption DEF SkipPart, IInv
    <3> QED
      BY <3>1, <3>2, <3>3 DEF IInv
  <2> QED
    BY <1>2, <2>1, <2>2 DEF skip
<1>3. CASE UNCHANGED vars
  BY <1>3 DEF vars, IInv, Held
<1> QED
  BY <1>1, <1>2, <1>3 DEF Next

\* The queued bytes never leave the block, for every pool whose blocks are large
\* enough and every sequence of append and skip (cache.cpp:50-107).
THEOREM BoundsTheorem == Spec => []InBounds
<1>1. IInv => InBounds
  <2> SUFFICES ASSUME IInv PROVE InBounds
    OBVIOUS
  <2>1. CASE mem = Null
    BY <2>1 DEF IInv, InBounds
  <2>2. CASE mem # Null
    <3>1. block_size \in Nat
      BY <2>2, FitAssumption DEF IInv, Held
    <3> QED
      BY <3>1, <2>2 DEF IInv, Held, InBounds, Block
  <2> QED
    BY <2>1, <2>2
<1> QED
  BY <1>1, InitIInv, NextIInv, PTL DEF Spec

-----------------------------------------------------------------------------
(* The refinement.                                                          *)

Cont == Byte \cup {Garbage}

Window(m, h, n) == [i \in 1..n |-> m[h + i - 1]]

\* What lies at h in a block is a sequence of its bytes.
LEMMA SliceIsSeq ==
  ASSUME NEW size \in Nat, NEW m \in Block(size), NEW h \in Nat, NEW n \in Nat,
         h + n <= size
  PROVE  /\ Window(m, h, n) \in Seq(Cont)
         /\ Len(Window(m, h, n)) = n
         /\ \A i \in 1..n : Window(m, h, n)[i] = m[h + i - 1]
<1> DEFINE s == Window(m, h, n)
<1>1. \A i \in 1..n : m[h + i - 1] \in Cont
  BY DEF Block, Cont
<1>2. s \in [1..n -> Cont]
  BY <1>1 DEF Window
<1>3. s \in Seq(Cont)
  BY <1>2, SeqDef
<1>4. Len(s) \in Nat /\ DOMAIN s = 1..Len(s)
  BY <1>3, LenProperties
<1>5. Len(s) = n
  BY <1>2, <1>4
<1>6. \A i \in 1..n : s[i] = m[h + i - 1]
  BY DEF Window
<1> QED
  BY <1>3, <1>5, <1>6

\* What memcpy leaves in a block.
LEMMA CopiedAt ==
  ASSUME NEW size \in Nat, NEW m \in Block(size), NEW at \in Nat,
         NEW n \in Nat, NEW d, Len(d) = n
  PROVE  \A i \in 0..size-1 :
           Copied(m, at, d)[i] = IF i >= at /\ i < at + n THEN d[i - at + 1] ELSE m[i]
BY DEF Copied, Block

\* The queued bytes one by one.
LEMMA DataBytes ==
  ASSUME IInv
  PROVE  /\ Data \in Seq(Cont)
         /\ Len(Data) = data_len
         /\ \A i \in 1..data_len : Data[i] = mem[data_head + i - 1]
BY DataIsSeq DEF Data, Cont

\* The queued bytes after a step that leaves a block.
LEMMA DataBytesNext ==
  ASSUME IInv', mem' # Null
  PROVE  /\ Data' \in Seq(Cont)
         /\ Len(Data') = data_len'
         /\ \A i \in 1..data_len' : Data'[i] = mem'[data_head' + i - 1]
<1>1. PICK n \in 0..MaxData : block_size' = Fit(n)
  BY DEF IInv, Held
<1>2. block_size' \in Nat
  BY <1>1, FitAssumption
<1>3. mem' \in Block(block_size') /\ data_head' \in Nat /\ data_len' \in Nat
      /\ data_head' + data_len' <= block_size'
  BY BoundAssumption DEF IInv, Held, Block
<1>4. Data' = Window(mem', data_head', data_len')
  BY DEF Data, Window
<1>5. /\ Window(mem', data_head', data_len') \in Seq(Cont)
      /\ Len(Window(mem', data_head', data_len')) = data_len'
      /\ \A i \in 1..data_len' :
           Window(mem', data_head', data_len')[i] = mem'[data_head' + i - 1]
  BY <1>2, <1>3, SliceIsSeq
<1> QED
  BY <1>4, <1>5

\* A step that leaves in the block what was queued, followed by data, puts data.
LEMMA PutsData ==
  ASSUME IInv, IInv', mem' # Null, NEW data \in Seq(Cont),
         data_len' = data_len + Len(data),
         \A i \in 1..data_len : mem'[data_head' + i - 1] = Data[i],
         \A i \in 1..Len(data) : mem'[data_head' + data_len + i - 1] = data[i]
  PROVE  Data' = Data \o data
<1>1. Data \in Seq(Cont) /\ Len(Data) = data_len /\ data_len \in Nat
  BY DataBytes, BoundAssumption DEF IInv
<1>2. Data' \in Seq(Cont) /\ Len(Data') = data_len'
      /\ \A i \in 1..data_len' : Data'[i] = mem'[data_head' + i - 1]
  BY DataBytesNext
<1>3. Data \o data \in Seq(Cont) /\ Len(Data \o data) = data_len + Len(data)
      /\ \A i \in 1..data_len + Len(data) :
           (Data \o data)[i] = IF i <= data_len THEN Data[i] ELSE data[i - data_len]
  BY <1>1, ConcatProperties
<1>4. Len(data) \in Nat /\ data_head' \in Nat
  BY LenProperties DEF IInv
<1>5. ASSUME NEW i \in 1..data_len' PROVE Data'[i] = (Data \o data)[i]
  <2>1. CASE i <= data_len
    <3>1. i \in 1..data_len /\ i \in 1..data_len + Len(data)
      BY <2>1, <1>1, <1>4
    <3> QED
      BY <2>1, <3>1, <1>1, <1>2, <1>3
  <2>2. CASE ~ (i <= data_len)
    <3>1. i - data_len \in 1..Len(data)
      BY <2>2, <1>1, <1>4
    <3>2. mem'[data_head' + data_len + (i - data_len) - 1] = data[i - data_len]
      BY <3>1
    <3>3. data_head' + data_len + (i - data_len) - 1 = data_head' + i - 1
      BY <1>1, <1>4, <3>1
    <3> QED
      BY <2>2, <3>2, <3>3, <1>1, <1>2, <1>3, <1>4
  <2> QED
    BY <2>1, <2>2
<1> QED
  BY <1>1, <1>2, <1>3, <1>5, SeqEqual

\* append leaves the object with a block.
LEMMA AppendLeavesBlock ==
  ASSUME IInv, IInv', NEW k \in 0..MaxPut, NEW data \in [1..k -> Byte], append(data)
  PROVE  mem' # Null
<1>1. \A n \in 0..MaxData : Fit(n) \in Nat \ {0}
  BY FitAssumption
<1>2. Len(data) = k /\ k \in Nat /\ data_len \in Nat /\ data_len + k \in 0..MaxData
  BY PutIsSeq, BoundAssumption DEF append, IInv
<1>3. k \in 0..MaxData
  BY <1>2, BoundAssumption
<1>4. block_size' # 0
  <2>1. CASE AppendFirst(data)
    BY <2>1, <1>1, <1>2, <1>3 DEF AppendFirst
  <2>2. CASE AppendGrow(data)
    <3>1. Len(data) + data_len = data_len + k
      BY <1>2
    <3> QED
      BY <2>2, <3>1, <1>1, <1>2 DEF AppendGrow
  <2>3. CASE AppendDirect(data) \/ AppendMove(data)
    <3>1. mem # Null /\ block_size' = block_size
      BY <2>3 DEF AppendDirect, AppendMove
    <3> QED
      BY <3>1, <1>1 DEF IInv, Held
  <2> QED
    BY <2>1, <2>2, <2>3 DEF append
<1> QED
  BY <1>4 DEF IInv

\* The queued bytes moved to the front of a block, and data put behind them.
MovedThenPut(m, data) == Copied(Copied(m, 0, Data), data_len, data)

\* Both are where the queue expects them.
LEMMA MovedThenPutHolds ==
  ASSUME IInv, NEW size \in Nat, NEW m \in Block(size), NEW k \in Nat,
         NEW data \in [1..k -> Cont], Len(data) = k, data_len + k <= size
  PROVE  /\ \A i \in 1..data_len : MovedThenPut(m, data)[0 + i - 1] = Data[i]
         /\ \A i \in 1..k : MovedThenPut(m, data)[0 + data_len + i - 1] = data[i]
<1> DEFINE c == Copied(m, 0, Data)
<1>1. data_len \in Nat /\ Len(Data) = data_len /\ Data \in [1..data_len -> Cont]
  BY DataIsSeq, BoundAssumption DEF IInv, Cont
<1>2. c \in Block(size)
  BY <1>1, CopiedIsBlock DEF Cont
<1>3. \A i \in 0..size-1 : c[i] = IF i >= 0 /\ i < 0 + data_len THEN Data[i - 0 + 1] ELSE m[i]
  BY <1>1, CopiedAt
<1> HIDE DEF c
<1>4. \A i \in 0..size-1 : Copied(c, data_len, data)[i] =
         IF i >= data_len /\ i < data_len + k THEN data[i - data_len + 1] ELSE c[i]
  BY <1>1, <1>2, CopiedAt
<1>5. ASSUME NEW i \in 1..data_len PROVE Copied(c, data_len, data)[0 + i - 1] = Data[i]
  <2>1. 0 + i - 1 \in 0..size-1 /\ ~ (0 + i - 1 >= data_len) /\ 0 + i - 1 - 0 + 1 = i
    BY <1>1
  <2>2. Copied(c, data_len, data)[0 + i - 1] = c[0 + i - 1]
    BY <2>1, <1>4
  <2>3. c[0 + i - 1] = Data[0 + i - 1 - 0 + 1]
    BY <2>1, <1>3, <1>1
  <2> QED
    BY <2>1, <2>2, <2>3
<1>6. ASSUME NEW i \in 1..k PROVE Copied(c, data_len, data)[0 + data_len + i - 1] = data[i]
  <2> DEFINE j == 0 + data_len + i - 1
  <2>1. j \in 0..size-1 /\ j >= data_len /\ j < data_len + k /\ j - data_len + 1 = i
    BY <1>1
  <2> HIDE DEF j
  <2>2. Copied(c, data_len, data)[j] = data[j - data_len + 1]
    BY <2>1, <1>4
  <2>3. Copied(c, data_len, data)[j] = data[i]
    BY <2>1, <2>2
  <2> QED
    BY <2>3 DEF j
<1> QED
  BY <1>5, <1>6 DEF MovedThenPut, c

\* append, by whichever branch, is Put.
LEMMA AppendPuts ==
  ASSUME IInv, IInv', NEW k \in 0..MaxPut, NEW data \in [1..k -> Byte], append(data)
  PROVE  Data' = Data \o data
<1> DEFINE len == data_len + k
<1>1. data \in Seq(Byte) /\ Len(data) = k /\ k \in Nat
  BY PutIsSeq, BoundAssumption
<1>2. data \in Seq(Cont)
  BY <1>1, SeqMonotonic DEF Cont
<1>3. data_len \in Nat /\ data_head \in Nat /\ len \in 0..MaxData
  BY <1>1, BoundAssumption DEF IInv, append
<1>4. \A n \in 0..MaxData : Fit(n) \in Nat \ {0} /\ Fit(n) >= n
  BY FitAssumption
<1>5. Len(Data) = data_len /\ Data \in [1..data_len -> Cont]
      /\ \A i \in 1..data_len : Data[i] = mem[data_head + i - 1]
  BY DataIsSeq, DataBytes DEF Cont
<1>6. \A n \in 0..MaxData : Fresh(Fit(n)) \in Block(Fit(n))
  BY DEF Fresh, Block
<1>7. mem # Null => mem \in Block(block_size) /\ block_size \in Nat
                    /\ data_head + data_len <= block_size
  BY <1>4 DEF IInv, Held
<1>8. mem' # Null
  BY AppendLeavesBlock
<1>9. data \in [1..k -> Cont]
  BY DEF Cont
<1>10. CASE AppendFirst(data)
  <2>1. data_len = 0 /\ data_head' = 0 /\ data_len' = k /\ k \in 0..MaxData
        /\ mem' = Copied(Fresh(Fit(k)), 0, data)
    BY <1>10, <1>1, <1>3 DEF AppendFirst, IInv
  <2>2. Fit(k) \in Nat /\ Fit(k) >= k /\ Fresh(Fit(k)) \in Block(Fit(k))
    BY <2>1, <1>4, <1>6
  <2>3. \A i \in 0..Fit(k)-1 : mem'[i] = IF i >= 0 /\ i < 0 + k THEN data[i - 0 + 1]
                                         ELSE Fresh(Fit(k))[i]
    BY <2>1, <2>2, <1>1, CopiedAt
  <2>4. ASSUME NEW i \in 1..Len(data) PROVE mem'[data_head' + data_len + i - 1] = data[i]
    <3>1. i - 1 \in 0..Fit(k)-1 /\ i - 1 < k /\ i \in 1..k
      BY <2>2, <1>1
    <3>2. mem'[i - 1] = data[i - 1 - 0 + 1]
      BY <2>3, <3>1
    <3> QED
      BY <2>1, <3>1, <3>2
  <2> QED
    BY <2>1, <2>4, <1>1, <1>2, <1>8, PutsData, SMTT(20)
<1>11. CASE AppendDirect(data)
  <2>1. data_head' = data_head /\ data_len' = len /\ mem # Null
        /\ mem' = Copied(mem, data_head + data_len, data)
        /\ k + data_head + data_len <= block_size
    BY <1>11, <1>1 DEF AppendDirect, FitsBehind
  <2>2. \A i \in 0..block_size-1 :
          mem'[i] = IF i >= data_head + data_len /\ i < data_head + data_len + k
                    THEN data[i - (data_head + data_len) + 1] ELSE mem[i]
    BY <2>1, <1>1, <1>3, <1>7, CopiedAt
  <2>3. ASSUME NEW i \in 1..data_len PROVE mem'[data_head' + i - 1] = Data[i]
    <3>1. data_head + i - 1 \in 0..block_size-1 /\ data_head + i - 1 < data_head + data_len
      BY <2>1, <1>3, <1>7
    <3>2. mem'[data_head + i - 1] = mem[data_head + i - 1]
      BY <3>1, <2>2, <1>3
    <3> QED
      BY <2>1, <3>2, <1>5
  <2>4. ASSUME NEW i \in 1..Len(data) PROVE mem'[data_head' + data_len + i - 1] = data[i]
    <3> DEFINE j == data_head + data_len + i - 1
    <3>1. j \in 0..block_size-1 /\ j >= data_head + data_len /\ j < data_head + data_len + k
          /\ j - (data_head + data_len) + 1 = i
      BY <2>1, <1>1, <1>3, <1>7
    <3> HIDE DEF j
    <3>2. mem'[j] = data[j - (data_head + data_len) + 1]
      BY <3>1, <2>2
    <3>3. mem'[j] = data[i]
      BY <3>1, <3>2
    <3> QED
      BY <2>1, <3>3 DEF j
  <2> QED
    BY <2>1, <2>3, <2>4, <1>1, <1>2, <1>8, PutsData
<1>12. CASE AppendGrow(data)
  <2>1. data_head' = 0 /\ data_len' = len
        /\ mem' = Copied(Copied(Fresh(Fit(len)), 0, Data), data_len, data)
    <3>1. Len(data) + data_len = len
      BY <1>1, <1>3
    <3> QED
      BY <3>1, <1>12, <1>1 DEF AppendGrow
  <2>2. Fit(len) \in Nat /\ Fit(len) >= len /\ Fresh(Fit(len)) \in Block(Fit(len))
    BY <1>3, <1>4, <1>6
  <2>3. /\ \A i \in 1..data_len : mem'[0 + i - 1] = Data[i]
        /\ \A i \in 1..k : mem'[0 + data_len + i - 1] = data[i]
    BY <2>1, <2>2, <1>1, <1>3, <1>9, MovedThenPutHolds DEF MovedThenPut
  <2> QED
    BY <2>1, <2>3, <1>1, <1>2, <1>8, PutsData
<1>13. CASE AppendMove(data)
  <2>1. data_head' = 0 /\ data_len' = len /\ len <= block_size /\ mem # Null
        /\ mem' = Copied(Copied(mem, 0, Data), data_len, data)
    BY <1>13, <1>1, <1>3 DEF AppendMove
  <2>2. /\ \A i \in 1..data_len : mem'[0 + i - 1] = Data[i]
        /\ \A i \in 1..k : mem'[0 + data_len + i - 1] = data[i]
    <3>1. mem \in Block(block_size) /\ block_size \in Nat /\ data_len + k <= block_size
      BY <2>1, <1>7
    <3>2. mem' = MovedThenPut(mem, data)
      BY <2>1 DEF MovedThenPut
    <3>3. /\ \A i \in 1..data_len : MovedThenPut(mem, data)[0 + i - 1] = Data[i]
          /\ \A i \in 1..k : MovedThenPut(mem, data)[0 + data_len + i - 1] = data[i]
      BY <1>1, <1>9, <3>1, MovedThenPutHolds
    <3> QED
      BY <3>2, <3>3
  <2> QED
    BY <2>1, <2>2, <1>1, <1>2, <1>8, PutsData
<1> QED
  BY <1>10, <1>11, <1>12, <1>13 DEF append

\* What is left of a sequence without its first n elements.
LEMMA RestOf ==
  ASSUME NEW S, NEW s \in Seq(S), NEW n \in Nat, n <= Len(s)
  PROVE  /\ SubSeq(s, n + 1, Len(s)) \in Seq(S) /\ Len(SubSeq(s, n + 1, Len(s))) = Len(s) - n
         /\ \A i \in 1..Len(s) - n : SubSeq(s, n + 1, Len(s))[i] = s[n + i]
<1> DEFINE t == SubSeq(s, n + 1, Len(s))
<1>1. Len(s) \in Nat /\ \A i \in 1..Len(s) : s[i] \in S
  BY LenProperties, ElementOfSeq
<1>2. \A i \in (n+1)..Len(s) : s[i] \in S
  BY <1>1
<1>3. t \in Seq(S) /\ Len(t) = IF n + 1 <= Len(s) THEN Len(s) - (n + 1) + 1 ELSE 0
  BY <1>1, <1>2, SubSeqProperties
<1>4. \A i \in 1..Len(s) - (n + 1) + 1 : t[i] = s[n + 1 + i - 1]
  BY <1>1, <1>2, SubSeqProperties
<1> HIDE DEF t
<1>5. Len(t) = Len(s) - n
  BY <1>1, <1>3
<1>6. ASSUME NEW i \in 1..Len(s) - n PROVE t[i] = s[n + i]
  <2>1. n + 1 + i - 1 = n + i /\ Len(s) - (n + 1) + 1 = Len(s) - n
    BY <1>1
  <2> QED
    BY <1>4, <2>1
<1> QED
  BY <1>3, <1>5, <1>6 DEF t

\* skip is Skip.
LEMMA SkipSkips ==
  ASSUME IInv, IInv', NEW n \in 0..MaxData, skip(n)
  PROVE  Queue!Skip(n)
<1>1. Len(Data) = data_len /\ data_len \in Nat /\ data_head \in Nat /\ n \in Nat
      /\ Data \in Seq(Cont) /\ \A i \in 1..data_len : Data[i] = mem[data_head + i - 1]
  BY DataBytes, BoundAssumption DEF IInv
<1>2. CASE SkipAll(n)
  <2>1. data_len' = 0 /\ n >= Len(Data)
    BY <1>2, <1>1 DEF SkipAll
  <2>2. Data' = <<>>
    BY <2>1 DEF Data
  <2> QED
    BY <2>1, <2>2 DEF Queue!Skip
<1>3. CASE SkipPart(n)
  <2>1. n < data_len /\ data_head' = data_head + n /\ data_len' = data_len - n
        /\ mem' = mem /\ mem' # Null
    BY <1>3 DEF SkipPart
  <2>2. Data' \in Seq(Cont) /\ Len(Data') = data_len'
        /\ \A i \in 1..data_len' : Data'[i] = mem'[data_head' + i - 1]
    BY <2>1, DataBytesNext
  <2> DEFINE t == SubSeq(Data, n + 1, Len(Data))
  <2>3. t \in Seq(Cont) /\ Len(t) = data_len - n
        /\ \A i \in 1..data_len - n : t[i] = Data[n + i]
    <3>1. n <= Len(Data) /\ Data \in Seq(Cont)
      BY <1>1, <2>1
    <3>2. /\ t \in Seq(Cont) /\ Len(t) = Len(Data) - n
          /\ \A i \in 1..Len(Data) - n : t[i] = Data[n + i]
      BY <3>1, RestOf
    <3> HIDE DEF t
    <3> QED
      BY <1>1, <3>2
  <2>4. ASSUME NEW i \in 1..data_len - n PROVE Data'[i] = t[i]
    <3>1. n + i \in 1..data_len /\ data_head + n + i - 1 = data_head + (n + i) - 1
      BY <1>1
    <3>2. Data[n + i] = mem[data_head + (n + i) - 1]
      BY <3>1, <1>1
    <3> QED
      BY <3>1, <3>2, <2>1, <2>2, <2>3
  <2> HIDE DEF t
  <2>5. Data' = t
    BY <2>1, <2>2, <2>3, <2>4, SeqEqual
  <2>6. ~ (n >= Len(Data))
    BY <2>1, <1>1
  <2> QED
    BY <2>5, <2>6 DEF Queue!Skip, t
<1> QED
  BY <1>2, <1>3 DEF skip

\* The buffer is a byte queue: every append, whichever of its branches it takes,
\* puts the new bytes behind those queued, every skip removes the first ones, and
\* nothing else happens to them (cache.cpp:28-112).
THEOREM QueueTheorem == Spec => IsByteQueue
<1>1. Init => Queue!Init
  BY DEF Init, Data, Queue!Init
<1>2. ASSUME IInv, IInv', [Next]_vars
      PROVE  [\/ \E k \in 0..MaxPut : \E data \in [1..k -> Byte] : Queue!Put(data)
              \/ \E n \in 0..MaxData : Queue!Skip(n)]_Data
  <2>1. ASSUME NEW k \in 0..MaxPut, NEW data \in [1..k -> Byte], append(data)
        PROVE  Queue!Put(data)
    BY <1>2, <2>1, AppendPuts DEF Queue!Put
  <2>2. ASSUME NEW n \in 0..MaxData, skip(n) PROVE Queue!Skip(n)
    BY <1>2, <2>2, SkipSkips
  <2>3. CASE UNCHANGED vars
    BY <2>3 DEF vars, Data
  <2> QED
    BY <1>2, <2>1, <2>2, <2>3 DEF Next
<1> QED
  BY <1>1, <1>2, InitIInv, NextIInv, PTL DEF Spec, IsByteQueue

-----------------------------------------------------------------------------
(* MemPool. *)

Pools == [free : [Size -> Seq(Nat)], stub : [Size -> SUBSET Nat], allocated : Int]

\* A pool of blocks of which H are in use.
SoundPool(p, H) ==
  /\ p \in Pools
  /\ \A z \in Size : IsFiniteSet(p.stub[z])
  /\ Owned(p, H)
  /\ p.allocated = Cardinality(Memory(p))

PoolInv ==
  /\ held \subseteq [block : Nat, size : Size]
  /\ SoundPool(Pool, held)
  /\ PoolBounded

-----------------------------------------------------------------------------
(* Induction and iteration. *)

\* A set of numbers with 0 and with the successor of each of its numbers is all of them.
LEMMA AllNumbers ==
  ASSUME NEW G, 0 \in G, \A n \in Nat : n \in G => n + 1 \in G
  PROVE  \A n \in Nat : n \in G
<1> SUFFICES ASSUME Nat \ G # {} PROVE FALSE
  OBVIOUS
<1>1. PICK n \in Nat \ G : \A m \in Nat \ G : ~ (<<m, n>> \in OpToRel(<, Nat))
  BY NatLessThanWellFounded, WFMin
<1>2. n \in Nat /\ n \notin G /\ \A m \in Nat \ G : ~ (m < n)
  <2> SUFFICES ASSUME NEW m \in Nat \ G PROVE ~ (m < n)
    OBVIOUS
  <2>1. m \in Nat /\ n \in Nat
    OBVIOUS
  <2> QED
    BY <1>1, <2>1 DEF OpToRel
<1>3. n # 0
  BY <1>2
<1>4. n - 1 \in Nat /\ (n - 1) + 1 = n /\ n - 1 < n
  BY <1>2, <1>3
<1>5. n - 1 \in G
  BY <1>2, <1>4
<1> QED
  BY <1>2, <1>4, <1>5

\* The values of the first N of some steps on S from x.
Stepped(f, S, step, x, N) == f \in [0..N -> S] /\ f[0] = x /\ \A i \in 1..N : f[i] = step[i][f[i-1]]

\* Steps on a set can be taken one after the other.
LEMMA StepsAdd ==
  ASSUME NEW S, NEW N \in Nat, NEW step \in [1..N -> [S -> S]], NEW x \in S
  PROVE  \E f : Stepped(f, S, step, x, N)
<1> DEFINE G == {n \in Nat : n <= N => \E f : Stepped(f, S, step, x, n)}
<1>1. 0 \in G
  <2> DEFINE f == [i \in 0..0 |-> x]
  <2>1. f \in [0..0 -> S] /\ f[0] = x /\ \A i \in 1..0 : f[i] = step[i][f[i-1]]
    OBVIOUS
  <2> QED
    BY <2>1 DEF Stepped
<1>2. ASSUME NEW n \in Nat, n \in G PROVE n + 1 \in G
  <2> SUFFICES ASSUME n + 1 <= N PROVE \E f : Stepped(f, S, step, x, n + 1)
    OBVIOUS
  <2>1. PICK f \in [0..n -> S] : f[0] = x /\ \A i \in 1..n : f[i] = step[i][f[i-1]]
    BY <1>2 DEF Stepped
  <2> DEFINE g == [i \in 0..n+1 |-> IF i = n + 1 THEN step[n + 1][f[n]] ELSE f[i]]
  <2>2. f[n] \in S /\ step[n + 1][f[n]] \in S
    <3>1. n + 1 \in 1..N /\ n \in 0..n
      OBVIOUS
    <3>2. step[n + 1] \in [S -> S]
      BY <3>1
    <3> QED
      BY <2>1, <3>1, <3>2
  <2>3. g \in [0..n+1 -> S] /\ g[0] = x
    BY <2>1, <2>2
  <2>4. ASSUME NEW i \in 1..n+1 PROVE g[i] = step[i][g[i-1]]
    BY <2>1
  <2>5. Stepped(g, S, step, x, n + 1)
    BY <2>3, <2>4 DEF Stepped
  <2> QED
    BY <2>5
<1> HIDE DEF G
<1>3. N \in G
  BY <1>1, <1>2, AllNumbers
<1> QED
  BY <1>3 DEF G

-----------------------------------------------------------------------------
(* Sizes. *)

LEMMA Powers ==
  /\ BlockSize = [k \in 0..Top |-> IF k = 0 THEN 1 ELSE 2 * BlockSize[k-1]]
  /\ BlockSize \in [0..Top -> Nat \ {0}]
<1> DEFINE P(g) == [k \in 0..Top |-> IF k = 0 THEN 1 ELSE 2 * g[k-1]]
           step == [i \in 1..Top |-> [y \in Nat \ {0} |-> 2 * y]]
<1>0. Top \in Nat
  BY PoolAssumption
<1>1. PICK f : Stepped(f, Nat \ {0}, step, 1, Top)
  <2>1. step \in [1..Top -> [Nat \ {0} -> Nat \ {0}]]
    OBVIOUS
  <2>2. 1 \in Nat \ {0}
    OBVIOUS
  <2> HIDE DEF step
  <2> QED
    BY <1>0, <2>1, <2>2, StepsAdd
<1>2. f \in [0..Top -> Nat \ {0}] /\ f[0] = 1 /\ \A i \in 1..Top : f[i] = 2 * f[i-1]
  <2>1. f \in [0..Top -> Nat \ {0}] /\ f[0] = 1 /\ \A i \in 1..Top : f[i] = step[i][f[i-1]]
    BY <1>1 DEF Stepped
  <2>2. ASSUME NEW i \in 1..Top PROVE step[i][f[i-1]] = 2 * f[i-1]
    <3>1. i - 1 \in 0..Top
      BY <1>0
    <3>2. f[i-1] \in Nat \ {0}
      BY <2>1, <3>1
    <3> QED
      BY <3>2
  <2> QED
    BY <2>1, <2>2
<1>3. \A k \in 0..Top : k # 0 => k \in 1..Top
  BY <1>0
<1>4. f = [k \in 0..Top |-> f[k]]
  BY <1>2
<1>5. f = P(f)
  BY <1>2, <1>3, <1>4
<1>6. BlockSize = P(BlockSize)
  BY <1>5 DEF BlockSize
<1> DEFINE G == {k \in Nat : k <= Top => BlockSize[k] \in Nat \ {0}}
<1>7. 0 \in G
  BY <1>0, <1>6
<1>8. ASSUME NEW k \in Nat, k \in G PROVE k + 1 \in G
  <2> SUFFICES ASSUME k + 1 <= Top PROVE BlockSize[k + 1] \in Nat \ {0}
    OBVIOUS
  <2>1. k + 1 \in 0..Top /\ k + 1 # 0 /\ (k + 1) - 1 = k /\ k <= Top
    BY <1>0
  <2>2. BlockSize[k + 1] = 2 * BlockSize[k]
    BY <1>6, <2>1
  <2>3. BlockSize[k] \in Nat \ {0}
    BY <1>8, <2>1
  <2> QED
    BY <2>2, <2>3
<1> HIDE DEF G
<1>9. \A k \in Nat : k \in G
  BY <1>7, <1>8, AllNumbers
<1>10. \A k \in 0..Top : BlockSize[k] \in Nat \ {0}
  BY <1>0, <1>9 DEF G
<1> QED
  BY <1>6, <1>10

\* There are finitely many sizes, and they are not 0.
LEMMA SizesFinite == Size \subseteq Nat \ {0} /\ IsFiniteSet(Size)
<1>1. BlockSize \in [0..Top -> Nat \ {0}]
  BY Powers
<1>2. BlockSize \in Surjection(0..Top, Size)
  BY <1>1 DEF Size, Surjection
<1>3. IsFiniteSet(0..Top)
  <2>1. 0 \in Int /\ Top \in Int
    BY PoolAssumption
  <2> QED
    BY <2>1, FS_Interval
<1> QED
  BY <1>1, <1>2, <1>3, FS_Surjection DEF Size

\* Every request has a size.
LEMMA RequestFits == ASSUME NEW n \in Request PROVE fit_block_size(n) \in Size
<1>0. Top \in Nat
  BY PoolAssumption
<1>1. /\ BlockSize[0] = 1
      /\ \A k \in 1..Top : BlockSize[k] = 2 * BlockSize[k-1]
      /\ \A k \in 0..Top : BlockSize[k] \in Nat \ {0}
  BY <1>0, Powers
<1> SUFFICES \E z \in Size : z > n /\ z <= IF n = 0 THEN 1 ELSE 2 * n
  BY DEF fit_block_size
<1>2. CASE n = 0
  <2>1. 1 \in Size
    BY <1>0, <1>1 DEF Size
  <2> QED
    BY <1>2, <2>1
<1>3. CASE n # 0
  <2>1. PICK k \in 0..Top-1 : n = BlockSize[k]
    BY <1>3 DEF Request
  <2>2. k + 1 \in 1..Top /\ (k + 1) - 1 = k /\ k + 1 \in 0..Top /\ k \in 0..Top
    BY <1>0, <2>1
  <2>3. BlockSize[k + 1] = 2 * n /\ n \in Nat \ {0} /\ BlockSize[k + 1] \in Size
    BY <1>1, <2>1, <2>2 DEF Size
  <2> QED
    BY <1>3, <2>3
<1> QED
  BY <1>2, <1>3

\* Some blocks are made at a time.
LEMMA SetIsSome == ASSUME NEW z \in Size PROVE fit_extend_set(z) \in Nat \ {0}
<1>1. z \in Nat \ {0}
  BY SizesFinite
<1>2. C_EXTEND_SET \in Nat \ {0} /\ C_SLOT_1 \in Nat /\ C_SLOT_2 \in Nat \ {0}
  BY PoolAssumption
<1>3. ASSUME z < C_SLOT_2 PROVE C_ALLOC_CAPCITY \div z \in Nat \ {0}
  <2>1. C_ALLOC_CAPCITY \in Nat /\ C_ALLOC_CAPCITY >= z
    BY <1>1, <1>2, <1>3 DEF C_ALLOC_CAPCITY
  <2> DEFINE d == C_ALLOC_CAPCITY \div z
  <2>2. d \in Int
    BY <1>1, <2>1
  <2>3. d >= 1
    BY <1>1, <2>1, SMTT(30)
  <2> QED
    BY <2>2, <2>3
<1> QED
  BY <1>1, <1>2, <1>3 DEF fit_extend_set

-----------------------------------------------------------------------------
(* Sequences of blocks. *)

\* The elements of a sequence without repetition are as many as it is long.
LEMMA ElementsCounted ==
  ASSUME NEW s \in Seq(Nat), IsInjective(s)
  PROVE  IsFiniteSet(Range(s)) /\ Cardinality(Range(s)) = Len(s)
<1>1. Len(s) \in Nat /\ DOMAIN s = 1..Len(s)
  BY LenProperties
<1>2. s \in [1..Len(s) -> Range(s)]
  BY <1>1 DEF Range
<1>3. s \in Bijection(1..Len(s), Range(s))
  BY <1>1, <1>2 DEF Bijection, Injection, Surjection, IsInjective, Range
<1>4. IsFiniteSet(1..Len(s)) /\ Cardinality(1..Len(s)) = Len(s)
  <2>1. 1 \in Int /\ Len(s) \in Int
    BY <1>1
  <2>2. IsFiniteSet(1..Len(s)) /\ Cardinality(1..Len(s)) = IF 1 > Len(s) THEN 0 ELSE Len(s)-1+1
    BY <2>1, FS_Interval
  <2> QED
    BY <1>1, <2>2
<1> QED
  BY <1>3, <1>4, FS_Bijection DEF ExistsBijection

\* A sequence without repetition cut in two.
LEMMA CutInTwo ==
  ASSUME NEW s \in Seq(Nat), IsInjective(s), NEW n \in 0..Len(s)
  PROVE  LET a == SubSeq(s, 1, n)
             b == SubSeq(s, n + 1, Len(s))
         IN /\ a \in Seq(Nat) /\ b \in Seq(Nat)
            /\ IsInjective(a) /\ IsInjective(b)
            /\ Len(a) = n
            /\ Range(a) \subseteq Range(s)
            /\ Range(b) = Range(s) \ Range(a)
<1> DEFINE a == SubSeq(s, 1, n)
           b == SubSeq(s, n + 1, Len(s))
<1>1. Len(s) \in Nat /\ DOMAIN s = 1..Len(s) /\ n \in Nat /\ n <= Len(s)
  BY LenProperties
<1>2. a \in Seq(Nat) /\ Len(a) = n /\ \A i \in 1..n : a[i] = s[i]
  BY <1>1, SubSeqProperties
<1>3. b \in Seq(Nat) /\ Len(b) = Len(s) - n /\ \A i \in 1..Len(s)-n : b[i] = s[n + i]
  <2>1. n + 1 \in Int /\ Len(s) \in Int /\ \A i \in n+1..Len(s) : s[i] \in Nat
    BY <1>1
  <2>2. /\ b \in Seq(Nat)
        /\ Len(b) = IF n + 1 <= Len(s) THEN Len(s) - (n + 1) + 1 ELSE 0
        /\ \A i \in 1..Len(s)-(n+1)+1 : b[i] = s[(n + 1) + i - 1]
    BY <1>1, <2>1, SubSeqProperties
  <2>3. Len(s) - (n + 1) + 1 = Len(s) - n
    BY <1>1
  <2>4. ASSUME NEW i \in 1..Len(s)-n PROVE b[i] = s[n + i]
    <3>1. (n + 1) + i - 1 = n + i
      BY <1>1
    <3>2. b[i] = s[(n + 1) + i - 1]
      BY <2>2, <2>3
    <3> QED
      BY <3>1, <3>2
  <2>5. Len(b) = Len(s) - n
    <3>1. CASE n + 1 <= Len(s)
      BY <2>2, <2>3, <3>1
    <3>2. CASE ~ (n + 1 <= Len(s))
      <4> HIDE DEF b
      <4>0. \A x, y \in Nat : x <= y /\ ~ (x + 1 <= y) => x = y
        OBVIOUS
      <4>1. n = Len(s)
        BY <1>1, <3>2, <4>0
      <4>2. Len(b) = 0
        BY <2>2, <3>2
      <4> QED
        BY <1>1, <4>1, <4>2
    <3> QED
      BY <3>1, <3>2
  <2> HIDE DEF b
  <2> QED
    BY <2>2, <2>3, <2>4, <2>5
<1> HIDE DEF a, b
<1>4. DOMAIN a = 1..n /\ DOMAIN b = 1..Len(s)-n
  BY <1>2, <1>3, LenProperties
<1>5. \A i, j \in 1..Len(s) : s[i] = s[j] => i = j
  BY <1>1 DEF IsInjective
<1>6. IsInjective(a)
  BY <1>1, <1>2, <1>4, <1>5 DEF IsInjective
<1>7. IsInjective(b)
  <2> SUFFICES ASSUME NEW i \in 1..Len(s)-n, NEW j \in 1..Len(s)-n, b[i] = b[j] PROVE i = j
    BY <1>4 DEF IsInjective
  <2>1. n + i \in 1..Len(s) /\ n + j \in 1..Len(s) /\ s[n + i] = s[n + j]
    BY <1>1, <1>3
  <2>2. n + i = n + j
    BY <1>5, <2>1
  <2> QED
    BY <1>1, <2>2
<1>8. Range(a) \subseteq Range(s)
  BY <1>1, <1>2, <1>4 DEF Range
<1>9. ASSUME NEW x \in Range(b) PROVE x \in Range(s) \ Range(a)
  <2>1. PICK i \in 1..Len(s)-n : x = s[n + i]
    BY <1>3, <1>4 DEF Range
  <2>2. n + i \in 1..Len(s)
    BY <1>1
  <2>3. ASSUME NEW j \in 1..n, x = a[j] PROVE FALSE
    <3>1. s[n + i] = s[j] /\ j \in 1..Len(s) /\ n + i # j
      BY <1>1, <1>2, <2>1, <2>3
    <3> QED
      BY <1>5, <2>2, <3>1
  <2> QED
    BY <1>1, <1>4, <2>1, <2>2, <2>3 DEF Range
<1>10. ASSUME NEW x \in Range(s) \ Range(a) PROVE x \in Range(b)
  <2>1. PICK k \in 1..Len(s) : x = s[k]
    BY <1>1 DEF Range
  <2>2. k > n
    <3>1. ASSUME k <= n PROVE FALSE
      <4>1. k \in 1..n /\ a[k] = x
        BY <1>1, <1>2, <2>1, <3>1
      <4>2. x \in Range(a)
        BY <1>4, <4>1 DEF Range
      <4> QED
        BY <1>10, <4>2
    <3> QED
      BY <1>1, <3>1
  <2>3. k - n \in 1..Len(s)-n /\ n + (k - n) = k
    BY <1>1, <2>2
  <2>4. b[k - n] = x
    BY <1>3, <2>1, <2>3
  <2> QED
    BY <1>4, <2>3, <2>4 DEF Range
<1> QED
  BY <1>2, <1>3, <1>6, <1>7, <1>8, <1>9, <1>10 DEF a, b

\* Two sequences without a common element in one.
LEMMA Joined ==
  ASSUME NEW s \in Seq(Nat), NEW t \in Seq(Nat), IsInjective(s), IsInjective(t), Range(s) \cap Range(t) = {}
  PROVE  s \o t \in Seq(Nat) /\ IsInjective(s \o t) /\ Range(s \o t) = Range(s) \cup Range(t)
<1> DEFINE u == s \o t
           m == Len(s)
           n == Len(t)
<1>1. m \in Nat /\ n \in Nat /\ DOMAIN s = 1..m /\ DOMAIN t = 1..n
  BY LenProperties
<1>2. /\ u \in Seq(Nat) /\ Len(u) = m + n
      /\ \A i \in 1..m+n : u[i] = IF i <= m THEN s[i] ELSE t[i - m]
  BY ConcatProperties
<1>3. DOMAIN u = 1..m+n
  BY <1>2, LenProperties
<1> HIDE DEF u, m, n
<1>4. \A i \in 1..m+n : (i \in 1..m /\ u[i] = s[i]) \/ (i > m /\ i - m \in 1..n /\ u[i] = t[i - m])
  BY <1>1, <1>2
<1>5. \A i \in 1..m : s[i] \in Range(s)
  BY <1>1 DEF Range
<1>6. \A i \in 1..n : t[i] \in Range(t)
  BY <1>1 DEF Range
<1>7. IsInjective(u)
  <2> SUFFICES ASSUME NEW i \in 1..m+n, NEW j \in 1..m+n, u[i] = u[j] PROVE i = j
    BY <1>3 DEF IsInjective
  <2>1. CASE i \in 1..m /\ j \in 1..m /\ u[i] = s[i] /\ u[j] = s[j]
    BY <1>1, <2>1 DEF IsInjective
  <2>2. CASE i > m /\ j > m /\ i - m \in 1..n /\ j - m \in 1..n /\ u[i] = t[i - m] /\ u[j] = t[j - m]
    <3>1. i - m = j - m
      BY <1>1, <2>2 DEF IsInjective
    <3> QED
      BY <1>1, <3>1
  <2>3. CASE i \in 1..m /\ u[i] = s[i] /\ j - m \in 1..n /\ u[j] = t[j - m]
    BY <1>5, <1>6, <2>3
  <2>4. CASE j \in 1..m /\ u[j] = s[j] /\ i - m \in 1..n /\ u[i] = t[i - m]
    BY <1>5, <1>6, <2>4
  <2> QED
    BY <1>4, <2>1, <2>2, <2>3, <2>4
<1>8. Range(u) \subseteq Range(s) \cup Range(t)
  BY <1>3, <1>4, <1>5, <1>6 DEF Range
<1>9. ASSUME NEW x \in Range(s) PROVE x \in Range(u)
  <2>1. PICK i \in 1..m : x = s[i]
    BY <1>1 DEF Range
  <2>2. i \in 1..m+n /\ i <= m
    BY <1>1
  <2>3. u[i] = x
    BY <1>2, <2>1, <2>2
  <2> QED
    BY <1>3, <2>2, <2>3 DEF Range
<1>10. ASSUME NEW x \in Range(t) PROVE x \in Range(u)
  <2>1. PICK i \in 1..n : x = t[i]
    BY <1>1 DEF Range
  <2>2. m + i \in 1..m+n /\ ~ (m + i <= m) /\ (m + i) - m = i
    BY <1>1
  <2>3. u[m + i] = x
    BY <1>2, <2>1, <2>2
  <2> QED
    BY <1>3, <2>2, <2>3 DEF Range
<1> QED
  BY <1>2, <1>7, <1>8, <1>9, <1>10 DEF u

\* A sequence without its head.
LEMMA HeadOff ==
  ASSUME NEW s \in Seq(Nat), IsInjective(s), s # <<>>
  PROVE  /\ Tail(s) \in Seq(Nat) /\ IsInjective(Tail(s))
         /\ Head(s) \in Range(s) /\ Head(s) \in Nat
         /\ Range(Tail(s)) = Range(s) \ {Head(s)}
<1> DEFINE u == Tail(s)
           n == Len(s)
<1>1. /\ Head(s) \in Nat /\ u \in Seq(Nat) /\ Len(u) = n - 1
      /\ \A i \in 1..Len(u) : u[i] = s[i + 1]
  BY HeadTailProperties
<1>2. n \in Nat /\ n # 0 /\ DOMAIN s = 1..n /\ Head(s) = s[1]
  BY LenProperties, EmptySeq
<1>3. DOMAIN u = 1..n-1
  BY <1>1, LenProperties
<1> HIDE DEF u, n
<1>4. 1 \in 1..n /\ \A i \in 1..n-1 : i + 1 \in 1..n /\ i + 1 # 1 /\ u[i] = s[i + 1]
  BY <1>1, <1>2
<1>5. \A i, j \in 1..n : s[i] = s[j] => i = j
  BY <1>2 DEF IsInjective
<1>6. IsInjective(u)
  <2> SUFFICES ASSUME NEW i \in 1..n-1, NEW j \in 1..n-1, u[i] = u[j] PROVE i = j
    BY <1>3 DEF IsInjective
  <2>1. i + 1 = j + 1
    BY <1>4, <1>5
  <2> QED
    BY <1>2, <2>1
<1>7. Head(s) \in Range(s)
  BY <1>2, <1>4 DEF Range
<1>8. ASSUME NEW x \in Range(u) PROVE x \in Range(s) \ {Head(s)}
  <2>1. PICK i \in 1..n-1 : x = s[i + 1]
    BY <1>3, <1>4 DEF Range
  <2> QED
    BY <1>2, <1>4, <1>5, <2>1 DEF Range
<1>9. ASSUME NEW x \in Range(s) \ {Head(s)} PROVE x \in Range(u)
  <2>1. PICK k \in 1..n : x = s[k]
    BY <1>2 DEF Range
  <2>2. k # 1
    BY <1>2, <1>9, <2>1
  <2>3. k - 1 \in 1..n-1 /\ (k - 1) + 1 = k
    BY <1>2, <2>2
  <2>4. u[k - 1] = x
    BY <1>4, <2>1, <2>3
  <2> QED
    BY <1>3, <2>3, <2>4 DEF Range
<1> QED
  BY <1>1, <1>6, <1>7, <1>8, <1>9 DEF u

-----------------------------------------------------------------------------
(* What the steps do to a sound pool. *)

LEMMA MemoryFinite ==
  ASSUME NEW p, \A z \in Size : IsFiniteSet(p.stub[z])
  PROVE  IsFiniteSet(Memory(p))
<1> DEFINE f == [z \in Size |-> p.stub[z] \X (1..z)]
           F == {p.stub[z] \X (1..z) : z \in Size}
<1>1. f \in Surjection(Size, F)
  BY DEF Surjection
<1>2. IsFiniteSet(F)
  <2> HIDE DEF f, F
  <2> QED
    BY <1>1, SizesFinite, FS_Surjection
<1>3. ASSUME NEW z \in Size PROVE IsFiniteSet(p.stub[z] \X (1..z))
  <2>1. 1 \in Int /\ z \in Int
    BY SizesFinite
  <2>2. IsFiniteSet(1..z) /\ IsFiniteSet(p.stub[z])
    BY <2>1, FS_Interval
  <2> QED
    BY <2>2, FS_Product
<1>4. \A X \in F : IsFiniteSet(X)
  BY <1>3
<1> QED
  BY <1>2, <1>4, FS_UNION DEF Memory

\* The stub of pool q is that of p with blocks R of size z, all new.
Adds(p, q, z, R) ==
  /\ p.stub \in [Size -> SUBSET Nat]
  /\ \A y \in Size : IsFiniteSet(p.stub[y])
  /\ R \subseteq Nat /\ IsFiniteSet(R)
  /\ \A y \in Size : p.stub[y] \cap R = {}
  /\ q.stub = [p.stub EXCEPT ![z] = @ \cup R]

\* New blocks of a size add their memory.
LEMMA MemoryGrows ==
  ASSUME NEW p, NEW q, NEW z \in Size, NEW R, Adds(p, q, z, R)
  PROVE  Cardinality(Memory(q)) = Cardinality(Memory(p)) + z * Cardinality(R)
<1>0. /\ p.stub \in [Size -> SUBSET Nat] /\ \A y \in Size : IsFiniteSet(p.stub[y])
      /\ R \subseteq Nat /\ IsFiniteSet(R) /\ \A y \in Size : p.stub[y] \cap R = {}
      /\ q.stub = [p.stub EXCEPT ![z] = @ \cup R]
  BY DEF Adds
<1> DEFINE New == R \X (1..z)
<1>1. z \in Nat /\ 1 \in Int /\ z \in Int
  BY SizesFinite
<1>2. IsFiniteSet(1..z) /\ Cardinality(1..z) = z
  <2>1. IsFiniteSet(1..z) /\ Cardinality(1..z) = IF 1 > z THEN 0 ELSE z-1+1
    BY <1>1, FS_Interval
  <2> QED
    BY <1>1, <2>1, SizesFinite
<1>3. IsFiniteSet(New) /\ Cardinality(New) = Cardinality(R) * z
  <2> DEFINE Z == 1..z
  <2>1. IsFiniteSet(R) /\ IsFiniteSet(Z) /\ Cardinality(Z) = z
    BY <1>0, <1>2
  <2> HIDE DEF Z
  <2>2. IsFiniteSet(R \X Z) /\ Cardinality(R \X Z) = Cardinality(R) * z
    BY <2>1, FS_Product
  <2> QED
    BY <2>2 DEF Z
<1>4. IsFiniteSet(Memory(p))
  BY <1>0, MemoryFinite
<1>5. \A m : m \in Memory(p) <=> \E y \in Size : m \in p.stub[y] \X (1..y)
  BY DEF Memory
<1>6. \A m : m \in Memory(q) <=> \E y \in Size : m \in q.stub[y] \X (1..y)
  BY DEF Memory
<1>7. q.stub[z] = p.stub[z] \cup R /\ \A y \in Size : y # z => q.stub[y] = p.stub[y]
  BY <1>0
<1>8. Memory(q) = Memory(p) \cup New
  <2>1. ASSUME NEW m \in Memory(q) PROVE m \in Memory(p) \cup New
    <3>1. PICK y \in Size : m \in q.stub[y] \X (1..y)
      BY <1>6
    <3>2. CASE y = z
      <4>1. m \in p.stub[z] \X (1..z) \/ m \in New
        BY <1>7, <3>1, <3>2
      <4> QED
        BY <1>5, <4>1
    <3>3. CASE y # z
      BY <1>5, <1>7, <3>1, <3>3
    <3> QED
      BY <3>2, <3>3
  <2>2. ASSUME NEW m \in Memory(p) PROVE m \in Memory(q)
    <3>1. PICK y \in Size : m \in p.stub[y] \X (1..y)
      BY <1>5
    <3>2. p.stub[y] \subseteq q.stub[y]
      BY <1>7
    <3>3. m \in q.stub[y] \X (1..y)
      BY <3>1, <3>2
    <3> QED
      BY <1>6, <3>3
  <2>3. New \subseteq Memory(q)
    <3>1. New \subseteq q.stub[z] \X (1..z)
      BY <1>7
    <3> QED
      BY <1>6, <3>1
  <2> QED
    BY <2>1, <2>2, <2>3
<1>9. Memory(p) \cap New = {}
  <2> SUFFICES ASSUME NEW m \in Memory(p), m \in New PROVE FALSE
    OBVIOUS
  <2>1. PICK y \in Size : m \in p.stub[y] \X (1..y)
    BY <1>5
  <2>2. m[1] \in p.stub[y] /\ m[1] \in R
    BY <2>1
  <2> QED
    BY <1>0, <2>2
<1> HIDE DEF New
<1>10. Cardinality(Memory(q)) = Cardinality(Memory(p)) + Cardinality(New) - 0
  BY <1>3, <1>4, <1>8, <1>9, FS_Union, FS_EmptySet
<1>11. Cardinality(Memory(p)) \in Nat /\ Cardinality(R) \in Nat
  BY <1>0, <1>4, FS_CardinalityType
<1> QED
  BY <1>1, <1>3, <1>10, <1>11

\* No more blocks are given back than are free.
LEMMA TodoBounded ==
  ASSUME NEW z \in Size, NEW n \in Nat, NEW s \in Nat, NEW mark \in Nat
  PROVE  todo_count(z, n, s, mark) \in 0..n
<1>1. n \div 2 \in 0..n
  OBVIOUS
<1> QED
  BY <1>1 DEF todo_count

LEMMA Released ==
  ASSUME NEW p, NEW H, SoundPool(p, H), NEW z \in Size, NEW mark \in Nat
  PROVE  /\ SoundPool(Release(p, z, mark), H)
         /\ Release(p, z, mark).allocated <= p.allocated
<1> DEFINE s == p.free[z]
           n == todo_count(z, Len(s), Cardinality(p.stub[z]), mark)
           a == SubSeq(s, 1, n)
           b == SubSeq(s, n + 1, Len(s))
           R == Range(a)
           q == Release(p, z, mark)
<1>1. /\ p \in Pools /\ \A y \in Size : IsFiniteSet(p.stub[y])
      /\ p.allocated = Cardinality(Memory(p)) /\ Owned(p, H)
      /\ p.free \in [Size -> Seq(Nat)] /\ p.stub \in [Size -> SUBSET Nat] /\ p.allocated \in Int
  BY DEF SoundPool, Pools
<1>2. s \in Seq(Nat) /\ IsInjective(s) /\ Len(s) \in Nat /\ Cardinality(p.stub[z]) \in Nat
  <2>1. s \in Seq(Nat) /\ IsInjective(s)
    BY <1>1 DEF Owned
  <2>2. Cardinality(p.stub[z]) \in Nat
    BY <1>1, FS_CardinalityType
  <2> QED
    BY <2>1, <2>2, LenProperties
<1>3. q = [free |-> [p.free EXCEPT ![z] = b], stub |-> [p.stub EXCEPT ![z] = @ \ R],
           allocated |-> p.allocated - z * n]
  BY DEF Release
<1> HIDE DEF q
<1>4. n \in 0..Len(s)
  <2> HIDE DEF s
  <2> QED
    BY <1>2, TodoBounded
<1> HIDE DEF n
<1>5. /\ a \in Seq(Nat) /\ b \in Seq(Nat) /\ IsInjective(a) /\ IsInjective(b)
      /\ Len(a) = n /\ Range(a) \subseteq Range(s) /\ Range(b) = Range(s) \ Range(a)
  <2> HIDE DEF s
  <2> QED
    BY <1>2, <1>4, CutInTwo
<1> HIDE DEF a, b
<1>6. IsFiniteSet(R) /\ Cardinality(R) = n
  BY <1>5, ElementsCounted
<1>7. /\ \A y, x \in Size : y # x => p.stub[y] \cap p.stub[x] = {}
      /\ \A y \in Size : IsInjective(p.free[y]) /\ Range(p.free[y]) = p.stub[y] \ {h.block : h \in H}
      /\ \A h \in H : h.block \in p.stub[h.size]
      /\ \A g, h \in H : g.block = h.block => g = h
  BY <1>1, Zenon DEF Owned
<1>8. R \subseteq p.stub[z] /\ R \subseteq Nat /\ \A h \in H : h.block \notin R
  <2>1. Range(s) = p.stub[z] \ {h.block : h \in H}
    BY <1>7
  <2>2. R \subseteq Range(s)
    BY <1>5
  <2>3. p.stub[z] \subseteq Nat
    BY <1>1
  <2> HIDE DEF R, s
  <2> QED
    BY <2>1, <2>2, <2>3
<1> HIDE DEF R, s
<1>9. /\ q.free = [p.free EXCEPT ![z] = b] /\ q.stub = [p.stub EXCEPT ![z] = @ \ R]
      /\ q.allocated = p.allocated - z * n
  BY <1>3
<1>10. z \in Nat /\ n \in Nat /\ z * n \in Nat
  BY <1>2, <1>4, SizesFinite
<1>11. q \in Pools
  <2>1. q.free \in [Size -> Seq(Nat)]
    BY <1>1, <1>5, <1>9
  <2>2. q.stub \in [Size -> SUBSET Nat]
    BY <1>1, <1>9
  <2>3. q.allocated \in Int
    BY <1>1, <1>9, <1>10
  <2> QED
    BY <1>3, <1>9, <2>1, <2>2, <2>3 DEF Pools
<1>12. \A y \in Size : IsFiniteSet(q.stub[y])
  <2>1. IsFiniteSet(p.stub[z] \ R)
    BY <1>1, FS_Difference
  <2> QED
    BY <1>1, <1>9, <2>1
<1>13. \A y \in Size : q.stub[y] \subseteq p.stub[y] /\ (y # z => q.stub[y] = p.stub[y])
  BY <1>1, <1>9
<1>14. q.stub[z] = p.stub[z] \ R
  BY <1>1, <1>9
<1>15. Cardinality(Memory(p)) = Cardinality(Memory(q)) + z * n
  <2>1. \A y \in Size : q.stub[y] \cap R = {}
    BY <1>7, <1>8, <1>13, <1>14
  <2>2. p.stub = [q.stub EXCEPT ![z] = @ \cup R]
    BY <1>1, <1>8, <1>9, <1>14
  <2>3. q.stub \in [Size -> SUBSET Nat]
    BY <1>11 DEF Pools
  <2>4. Adds(q, p, z, R)
    BY <1>6, <1>8, <1>12, <2>1, <2>2, <2>3 DEF Adds
  <2> QED
    BY <1>6, <2>4, MemoryGrows
<1>16. q.allocated = Cardinality(Memory(q))
  <2>1. Cardinality(Memory(q)) \in Nat
    BY <1>12, MemoryFinite, FS_CardinalityType
  <2> DEFINE zn == z * n
  <2> HIDE DEF zn
  <2>2. p.allocated = Cardinality(Memory(q)) + zn /\ q.allocated = p.allocated - zn /\ zn \in Nat
    BY <1>1, <1>9, <1>10, <1>15 DEF zn
  <2> QED
    BY <2>1, <2>2
<1>17. Owned(q, H)
  <2>1. \A h \in H : h.block \in q.stub[h.size]
    BY <1>1, <1>7, <1>8, <1>9
  <2>2. ASSUME NEW y \in Size
        PROVE  IsInjective(q.free[y]) /\ Range(q.free[y]) = q.stub[y] \ {h.block : h \in H}
    <3>1. CASE y = z
      <4>1. q.free[z] = b
        BY <1>1, <1>9
      <4>2. Range(b) = (p.stub[z] \ {h.block : h \in H}) \ R
        BY <1>5, <1>7 DEF R, s
      <4> QED
        BY <1>5, <1>14, <3>1, <4>1, <4>2
    <3>2. CASE y # z
      BY <1>1, <1>7, <1>9, <3>2
    <3> QED
      BY <3>1, <3>2
  <2>3. \A x, y \in Size : x # y => q.stub[x] \cap q.stub[y] = {}
    BY <1>7, <1>13
  <2> QED
    BY <1>7, <2>1, <2>2, <2>3 DEF Owned
<1>18. q.allocated <= p.allocated
  <2> DEFINE zn == z * n
  <2> HIDE DEF zn
  <2>1. q.allocated = p.allocated - zn /\ zn \in Nat
    BY <1>9, <1>10 DEF zn
  <2> QED
    BY <1>1, <2>1
<1> QED
  BY <1>11, <1>12, <1>16, <1>17, <1>18 DEF SoundPool, q

\* Taking a block from the front of its free list.
LEMMA Taken ==
  ASSUME NEW p, NEW H, H \subseteq [block : Nat, size : Size], SoundPool(p, H),
         NEW z \in Size, p.free[z] # <<>>
  PROVE  LET G == H \cup {[block |-> Head(p.free[z]), size |-> z]}
         IN  G \subseteq [block : Nat, size : Size] /\ SoundPool([p EXCEPT !.free[z] = Tail(@)], G)
<1> DEFINE s == p.free[z]
           new == [block |-> Head(s), size |-> z]
           G == H \cup {new}
           q == [p EXCEPT !.free[z] = Tail(@)]
<1>1. /\ p \in Pools /\ \A y \in Size : IsFiniteSet(p.stub[y])
      /\ p.allocated = Cardinality(Memory(p)) /\ Owned(p, H)
      /\ p.free \in [Size -> Seq(Nat)] /\ p.stub \in [Size -> SUBSET Nat] /\ p.allocated \in Int
  BY DEF SoundPool, Pools
<1>2. /\ \A y, x \in Size : y # x => p.stub[y] \cap p.stub[x] = {}
      /\ \A y \in Size : IsInjective(p.free[y]) /\ Range(p.free[y]) = p.stub[y] \ {h.block : h \in H}
      /\ \A h \in H : h.block \in p.stub[h.size]
      /\ \A g, h \in H : g.block = h.block => g = h
  BY <1>1, Zenon DEF Owned
<1>3. /\ Tail(s) \in Seq(Nat) /\ IsInjective(Tail(s)) /\ Head(s) \in Range(s) /\ Head(s) \in Nat
      /\ Range(Tail(s)) = Range(s) \ {Head(s)}
  <2>1. s \in Seq(Nat) /\ IsInjective(s)
    BY <1>1, <1>2
  <2> HIDE DEF s
  <2> QED
    BY <2>1, HeadOff DEF s
<1>4. q = [free |-> [p.free EXCEPT ![z] = Tail(s)], stub |-> p.stub, allocated |-> p.allocated]
  <2>1. p = [free |-> p.free, stub |-> p.stub, allocated |-> p.allocated]
    BY <1>1 DEF Pools
  <2>2. [p EXCEPT !.free[z] = Tail(s)] = [p EXCEPT !.free = [p.free EXCEPT ![z] = Tail(s)]]
    OBVIOUS
  <2> QED
    BY <2>1, <2>2
<1> HIDE DEF q
<1>5. /\ q.free = [p.free EXCEPT ![z] = Tail(s)] /\ q.stub = p.stub
      /\ q.allocated = p.allocated
  BY <1>4
<1>6. Head(s) \in p.stub[z] /\ \A h \in H : h.block # Head(s)
  BY <1>2, <1>3
<1>7. new.block = Head(s) /\ new.size = z /\ new \in [block : Nat, size : Size]
  BY <1>3
<1>8. {h.block : h \in G} = {h.block : h \in H} \cup {Head(s)}
  <2> HIDE DEF new
  <2> QED
    BY <1>7
<1> HIDE DEF new
<1>9. q \in Pools
  <2>1. q.free \in [Size -> Seq(Nat)]
    BY <1>1, <1>3, <1>5
  <2> QED
    BY <1>1, <1>4, <1>5, <2>1 DEF Pools
<1>10. Memory(q) = Memory(p)
  BY <1>5 DEF Memory
<1>11. Owned(q, G)
  <2>1. \A h \in G : h.block \in q.stub[h.size]
    BY <1>2, <1>5, <1>6, <1>7
  <2>2. \A g, h \in G : g.block = h.block => g = h
    BY <1>2, <1>6, <1>7
  <2>3. ASSUME NEW y \in Size
        PROVE  IsInjective(q.free[y]) /\ Range(q.free[y]) = q.stub[y] \ {h.block : h \in G}
    <3>1. CASE y = z
      <4>1. q.free[z] = Tail(s)
        BY <1>1, <1>5
      <4>2. Range(s) = p.stub[z] \ {h.block : h \in H}
        BY <1>2
      <4>3. Range(q.free[z]) = q.stub[z] \ {h.block : h \in G}
        BY <1>3, <1>5, <1>8, <4>1, <4>2
      <4> QED
        BY <1>3, <3>1, <4>1, <4>3
    <3>2. CASE y # z
      <4>1. q.free[y] = p.free[y] /\ q.stub[y] = p.stub[y]
        BY <1>1, <1>5, <3>2
      <4>2. Head(s) \notin p.stub[y]
        BY <1>2, <1>6, <3>2
      <4> QED
        BY <1>2, <1>8, <4>1, <4>2
    <3> QED
      BY <3>1, <3>2
  <2> QED
    BY <1>2, <1>5, <2>1, <2>2, <2>3 DEF Owned
<1>12. SoundPool(q, G)
  BY <1>1, <1>5, <1>9, <1>10, <1>11 DEF SoundPool
<1> QED
  BY <1>7, <1>12 DEF q, new

\* Putting a block in use at the front of its free list.
LEMMA PutBack ==
  ASSUME NEW p, NEW H, H \subseteq [block : Nat, size : Size], SoundPool(p, H), NEW h \in H
  PROVE  SoundPool([p EXCEPT !.free[h.size] = <<h.block>> \o @], H \ {h})
<1> DEFINE z == h.size
           x == h.block
           s == p.free[z]
           t == <<x>> \o s
           G == H \ {h}
           q == [p EXCEPT !.free[z] = <<x>> \o @]
<1>0. h \in [block : Nat, size : Size]
  OBVIOUS
<1>1. /\ p \in Pools /\ \A y \in Size : IsFiniteSet(p.stub[y])
      /\ p.allocated = Cardinality(Memory(p)) /\ Owned(p, H)
      /\ p.free \in [Size -> Seq(Nat)] /\ p.stub \in [Size -> SUBSET Nat] /\ p.allocated \in Int
      /\ z \in Size /\ x \in Nat
  BY <1>0 DEF SoundPool, Pools
<1>2. /\ \A y, w \in Size : y # w => p.stub[y] \cap p.stub[w] = {}
      /\ \A y \in Size : IsInjective(p.free[y]) /\ Range(p.free[y]) = p.stub[y] \ {g.block : g \in H}
      /\ \A g \in H : g.block \in p.stub[g.size]
      /\ \A f, g \in H : f.block = g.block => f = g
  BY <1>1, Zenon DEF Owned
<1>3. x \in p.stub[z] /\ \A g \in G : g.block # x
  BY <1>2
<1>4. Range(s) = p.stub[z] \ {g.block : g \in H} /\ x \notin Range(s) /\ s \in Seq(Nat) /\ IsInjective(s)
  BY <1>1, <1>2
<1>5. t \in Seq(Nat) /\ IsInjective(t) /\ Range(t) = {x} \cup Range(s)
  <2>1. <<x>> \in Seq(Nat) /\ IsInjective(<<x>>) /\ Range(<<x>>) = {x}
    BY <1>1 DEF IsInjective, Range
  <2> DEFINE e == <<x>>
  <2>2. Range(e) \cap Range(s) = {}
    BY <1>4, <2>1
  <2> HIDE DEF e, s
  <2>3. e \in Seq(Nat) /\ IsInjective(e)
    BY <2>1 DEF e
  <2>4. e \o s \in Seq(Nat) /\ IsInjective(e \o s) /\ Range(e \o s) = Range(e) \cup Range(s)
    BY <1>4, <2>2, <2>3, Joined
  <2> QED
    BY <2>1, <2>4 DEF e
<1>6. q = [free |-> [p.free EXCEPT ![z] = t], stub |-> p.stub, allocated |-> p.allocated]
  <2>1. p = [free |-> p.free, stub |-> p.stub, allocated |-> p.allocated]
    BY <1>1 DEF Pools
  <2>2. q = [p EXCEPT !.free = [p.free EXCEPT ![z] = t]]
    OBVIOUS
  <2> HIDE DEF q, t
  <2> QED
    BY <2>1, <2>2
<1> HIDE DEF q, t
<1>7. /\ q.free = [p.free EXCEPT ![z] = t] /\ q.stub = p.stub
      /\ q.allocated = p.allocated
  BY <1>6
<1>8. {g.block : g \in H} = {g.block : g \in G} \cup {x}
  OBVIOUS
<1> HIDE DEF G, z, x
<1>9. q \in Pools
  <2>1. q.free \in [Size -> Seq(Nat)]
    BY <1>1, <1>5, <1>7
  <2> QED
    BY <1>1, <1>6, <1>7, <2>1 DEF Pools
<1>10. Memory(q) = Memory(p)
  BY <1>7 DEF Memory
<1>11. Owned(q, G)
  <2>1. \A g \in G : g.block \in q.stub[g.size]
    BY <1>2, <1>7 DEF G
  <2>2. \A f, g \in G : f.block = g.block => f = g
    BY <1>2 DEF G
  <2>3. ASSUME NEW y \in Size
        PROVE  IsInjective(q.free[y]) /\ Range(q.free[y]) = q.stub[y] \ {g.block : g \in G}
    <3>1. CASE y = z
      <4>1. q.free[z] = t
        BY <1>1, <1>7
      <4>2. x \notin {g.block : g \in G}
        BY <1>3
      <4>3. Range(q.free[z]) = q.stub[z] \ {g.block : g \in G}
        BY <1>3, <1>4, <1>5, <1>7, <1>8, <4>1, <4>2
      <4> QED
        BY <1>5, <3>1, <4>1, <4>3
    <3>2. CASE y # z
      <4>1. q.free[y] = p.free[y] /\ q.stub[y] = p.stub[y]
        BY <1>1, <1>7, <3>2
      <4>2. x \notin p.stub[y]
        BY <1>1, <1>2, <1>3, <3>2
      <4>3. IsInjective(p.free[y]) /\ Range(p.free[y]) = p.stub[y] \ {g.block : g \in H}
        BY <1>2
      <4> DEFINE HB == {g.block : g \in H}
                 GB == {g.block : g \in G}
      <4> HIDE DEF HB, GB
      <4>4. HB = GB \cup {x} /\ Range(p.free[y]) = p.stub[y] \ HB
        BY <1>8, <4>3 DEF HB, GB
      <4>5. Range(p.free[y]) = p.stub[y] \ GB
        BY <4>2, <4>4
      <4> QED
        BY <4>1, <4>3, <4>5 DEF GB
    <3> QED
      BY <3>1, <3>2
  <2> QED
    BY <1>2, <1>7, <2>1, <2>2, <2>3 DEF Owned
<1> QED
  BY <1>1, <1>7, <1>9, <1>10, <1>11 DEF SoundPool, q, z, x, G

\* Addresses that no block has can be found.
LEMMA NewBlocks ==
  ASSUME NEW q, q.stub \in [Size -> SUBSET Nat], \A z \in Size : IsFiniteSet(q.stub[z]), NEW n \in Nat
  PROVE  /\ Unused(q, n) \in Seq(Nat) /\ Len(Unused(q, n)) = n /\ IsInjective(Unused(q, n))
         /\ \A z \in Size : q.stub[z] \cap Range(Unused(q, n)) = {}
<1> DEFINE F == {q.stub[z] : z \in Size}
           used == UNION F
           C == Cardinality(used)
           m == C + n
           Free == (1..m) \ used
<1>1. IsFiniteSet(used)
  <2> DEFINE f == [z \in Size |-> q.stub[z]]
  <2>1. f \in Surjection(Size, F)
    BY DEF Surjection
  <2>2. IsFiniteSet(F)
    <3> HIDE DEF f, F
    <3> QED
      BY <2>1, SizesFinite, FS_Surjection
  <2>3. \A X \in F : IsFiniteSet(X)
    OBVIOUS
  <2> HIDE DEF F
  <2> QED
    BY <2>2, <2>3, FS_UNION
<1>2. Unused(q, n) = CHOOSE s \in [1..n -> Free] : IsInjective(s)
  BY DEF Unused
<1>3. \A z \in Size : q.stub[z] \subseteq used
  OBVIOUS
<1> HIDE DEF used
<1>4. C \in Nat
  BY <1>1, FS_CardinalityType
<1> HIDE DEF C, m
<1>5. IsFiniteSet(1..m) /\ Cardinality(1..m) = m /\ m = C + n
  <2>1. 1 \in Int /\ m \in Nat /\ m \in Int
    BY <1>4 DEF m
  <2>2. IsFiniteSet(1..m) /\ Cardinality(1..m) = IF 1 > m THEN 0 ELSE m-1+1
    BY <2>1, FS_Interval
  <2> QED
    BY <2>1, <2>2 DEF m
<1>6. IsFiniteSet(Free) /\ Cardinality(Free) = m - Cardinality((1..m) \cap used)
  <2> DEFINE M == 1..m
  <2>1. IsFiniteSet(M) /\ Cardinality(M) = m
    BY <1>5
  <2> HIDE DEF M
  <2>2. IsFiniteSet(M \ used) /\ Cardinality(M \ used) = m - Cardinality(M \cap used)
    BY <2>1, FS_Difference
  <2> QED
    BY <2>2 DEF M
<1>7. IsFiniteSet((1..m) \cap used) /\ Cardinality((1..m) \cap used) <= C
  BY <1>1, FS_Intersection DEF C
<1>8. Cardinality((1..m) \cap used) \in Nat
  BY <1>7, FS_CardinalityType
<1> DEFINE K == Cardinality(Free)
<1>9. K \in Nat /\ K >= n
  BY <1>4, <1>5, <1>6, <1>7, <1>8, FS_CardinalityType
<1>10. PICK f : f \in Bijection(1..K, Free)
  BY <1>6, FS_CardinalityType DEF ExistsBijection
<1> HIDE DEF K
<1> DEFINE g == [i \in 1..n |-> f[i]]
<1>11. g \in [1..n -> Free] /\ IsInjective(g)
  <2>1. f \in [1..K -> Free] /\ \A i, j \in 1..K : f[i] = f[j] => i = j
    BY <1>10 DEF Bijection, Injection, IsInjective
  <2>2. \A i \in 1..n : i \in 1..K
    BY <1>9
  <2> HIDE DEF Free
  <2> QED
    BY <2>1, <2>2 DEF IsInjective
<1> HIDE DEF g, Free
<1> DEFINE u == Unused(q, n)
<1>12. u \in [1..n -> Free] /\ IsInjective(u)
  BY <1>2, <1>11
<1> HIDE DEF u
<1>13. Free \subseteq Nat /\ Free \cap used = {}
  BY DEF Free
<1>14. u \in [1..n -> Nat] /\ Range(u) \subseteq Free
  BY <1>12, <1>13 DEF Range
<1>15. u \in Seq(Nat) /\ Len(u) = n
  <2>1. u \in Seq(Nat)
    BY <1>14, SeqDef
  <2>2. Len(u) \in Nat /\ 1..Len(u) = 1..n
    BY <1>14, <2>1, LenProperties
  <2> QED
    BY <2>1, <2>2
<1> QED
  BY <1>3, <1>12, <1>13, <1>14, <1>15 DEF u

\* Making blocks.
LEMMA MadeBlocks ==
  ASSUME NEW p, NEW H, H \subseteq [block : Nat, size : Size], SoundPool(p, H), NEW z \in Size,
         NEW new \in Seq(Nat), IsInjective(new), \A y \in Size : p.stub[y] \cap Range(new) = {}
  PROVE  SoundPool(Extended(p, z, new), H)
<1> DEFINE s == p.free[z]
           t == new \o s
           R == Range(new)
           q == Extended(p, z, new)
<1>1. /\ p \in Pools /\ \A y \in Size : IsFiniteSet(p.stub[y])
      /\ p.allocated = Cardinality(Memory(p)) /\ Owned(p, H)
      /\ p.free \in [Size -> Seq(Nat)] /\ p.stub \in [Size -> SUBSET Nat] /\ p.allocated \in Int
  BY DEF SoundPool, Pools
<1>2. /\ \A y, w \in Size : y # w => p.stub[y] \cap p.stub[w] = {}
      /\ \A y \in Size : IsInjective(p.free[y]) /\ Range(p.free[y]) = p.stub[y] \ {g.block : g \in H}
      /\ \A g \in H : g.block \in p.stub[g.size]
      /\ \A f, g \in H : f.block = g.block => f = g
  BY <1>1, Zenon DEF Owned
<1>3. IsFiniteSet(R) /\ Cardinality(R) = Len(new) /\ Len(new) \in Nat /\ R \subseteq Nat
  <2>1. Len(new) \in Nat /\ DOMAIN new = 1..Len(new) /\ \A i \in 1..Len(new) : new[i] \in Nat
    BY LenProperties, ElementOfSeq
  <2>2. R \subseteq Nat
    BY <2>1 DEF Range
  <2> QED
    BY <2>1, <2>2, ElementsCounted
<1>4. s \in Seq(Nat) /\ IsInjective(s) /\ Range(s) = p.stub[z] \ {g.block : g \in H}
  BY <1>1, <1>2
<1>5. t \in Seq(Nat) /\ IsInjective(t) /\ Range(t) = R \cup Range(s)
  <2>1. R \cap Range(s) = {}
    BY <1>4
  <2> HIDE DEF s
  <2> QED
    BY <1>4, <2>1, Joined
<1>6. \A g \in H : g.block \notin R
  BY <1>2
<1>7. q = [free |-> [p.free EXCEPT ![z] = t], stub |-> [p.stub EXCEPT ![z] = @ \cup R],
           allocated |-> p.allocated + z * Len(new)]
  BY DEF Extended
<1> HIDE DEF q, t, R
<1>8. /\ q.free = [p.free EXCEPT ![z] = t] /\ q.stub = [p.stub EXCEPT ![z] = @ \cup R]
      /\ q.allocated = p.allocated + z * Len(new)
  BY <1>7
<1>9. q.stub[z] = p.stub[z] \cup R /\ \A y \in Size : y # z => q.stub[y] = p.stub[y]
  BY <1>1, <1>8
<1>10. q \in Pools
  <2>1. q.free \in [Size -> Seq(Nat)]
    BY <1>1, <1>5, <1>8
  <2>2. q.stub \in [Size -> SUBSET Nat]
    BY <1>1, <1>3, <1>8
  <2>3. z * Len(new) \in Nat
    BY <1>3, SizesFinite
  <2>4. q.allocated \in Int
    BY <1>1, <1>8, <2>3
  <2> QED
    BY <1>7, <1>8, <2>1, <2>2, <2>4 DEF Pools
<1>11. \A y \in Size : IsFiniteSet(q.stub[y])
  <2>1. IsFiniteSet(p.stub[z] \cup R)
    BY <1>1, <1>3, FS_Union
  <2> QED
    BY <1>1, <1>9, <2>1
<1>12. Cardinality(Memory(q)) = Cardinality(Memory(p)) + z * Len(new)
  <2>1. R \in SUBSET Nat /\ \A y \in Size : p.stub[y] \cap R = {}
    BY <1>3 DEF R
  <2>2. Adds(p, q, z, R)
    BY <1>1, <1>3, <1>8, <2>1 DEF Adds
  <2>3. Cardinality(Memory(q)) = Cardinality(Memory(p)) + z * Cardinality(R)
    BY <2>2, MemoryGrows
  <2> QED
    BY <1>3, <2>3
<1>13. Owned(q, H)
  <2>1. \A g \in H : g.block \in q.stub[g.size]
    BY <1>2, <1>9
  <2>2. ASSUME NEW y \in Size
        PROVE  IsInjective(q.free[y]) /\ Range(q.free[y]) = q.stub[y] \ {g.block : g \in H}
    <3>1. CASE y = z
      <4>1. q.free[z] = t
        BY <1>1, <1>8
      <4>2. Range(t) = (p.stub[z] \cup R) \ {g.block : g \in H}
        BY <1>4, <1>5, <1>6
      <4> QED
        BY <1>5, <1>9, <3>1, <4>1, <4>2
    <3>2. CASE y # z
      <4>1. q.free[y] = p.free[y] /\ q.stub[y] = p.stub[y]
        BY <1>1, <1>8, <1>9, <3>2
      <4> QED
        BY <1>2, <4>1
    <3> QED
      BY <3>1, <3>2
  <2>3. \A x, y \in Size : x # y => q.stub[x] \cap q.stub[y] = {}
    <3>1. \A y \in Size : p.stub[y] \cap R = {}
      BY DEF R
    <3> QED
      BY <1>2, <1>9, <3>1
  <2> QED
    BY <1>2, <2>1, <2>2, <2>3 DEF Owned
<1> QED
  BY <1>1, <1>8, <1>10, <1>11, <1>12, <1>13 DEF SoundPool, q

\* Giving back free blocks of the large sizes.
LEMMA Purged ==
  ASSUME NEW p, NEW H, SoundPool(p, H), NEW need \in Int
  PROVE  SoundPool(Purge(p, need), H) /\ Purge(p, need).allocated <= p.allocated
<1> DEFINE S == {q \in Pools : SoundPool(q, H) /\ q.allocated <= p.allocated}
           N == Top + 1
           step == [i \in 1..N |-> [q \in S |-> PurgeSize(p, q, BlockSize[N - i], need)]]
           Steps(g) == [i \in 0..Top+1 |->
                          IF i = 0 THEN p ELSE PurgeSize(p, g[i-1], BlockSize[(Top + 1) - i], need)]
           After == CHOOSE g : g = Steps(g)
<1>1. N \in Nat /\ Top \in Nat /\ C_ALLOC_CAPCITY \in Nat
  BY PoolAssumption DEF C_ALLOC_CAPCITY
<1>2. Purge(p, need) = After[Top + 1]
  BY DEF Purge
<1>3. p \in S
  BY DEF SoundPool, Pools
<1>4. ASSUME NEW q \in S, NEW z \in Size PROVE PurgeSize(p, q, z, need) \in S
  <2>1. SoundPool(q, H) /\ q \in Pools /\ q.allocated <= p.allocated /\ q.allocated \in Int /\ p.allocated \in Int
    BY <1>3 DEF Pools
  <2>2. SoundPool(Release(q, z, C_ALLOC_CAPCITY), H) /\ Release(q, z, C_ALLOC_CAPCITY).allocated <= q.allocated
    BY <1>1, <2>1, Released
  <2> DEFINE r == Release(q, z, C_ALLOC_CAPCITY)
  <2> HIDE DEF r
  <2>3. SoundPool(r, H) /\ r.allocated <= q.allocated
    BY <2>2 DEF r
  <2>4. r \in Pools /\ r.allocated \in Int
    BY <2>3 DEF SoundPool, Pools
  <2>5. r \in S
    BY <2>1, <2>3, <2>4
  <2> QED
    BY <2>5 DEF r, PurgeSize
<1> HIDE DEF S
<1>5. \A i \in 1..N : BlockSize[N - i] \in Size
  BY <1>1 DEF Size
<1>6. step \in [1..N -> [S -> S]]
  BY <1>4, <1>5
<1> HIDE DEF N
<1>7. \E g : g = Steps(g)
  <2>1. PICK f : Stepped(f, S, step, p, N)
    <3> HIDE DEF step
    <3> QED
      BY <1>1, <1>3, <1>6, StepsAdd
  <2>2. f \in [0..N -> S] /\ f[0] = p /\ \A i \in 1..N : f[i] = step[i][f[i-1]]
    BY <2>1 DEF Stepped
  <2>3. \A i \in 0..N : i # 0 => i \in 1..N /\ i - 1 \in 0..N
    BY <1>1
  <2>4. ASSUME NEW i \in 1..N PROVE f[i] = PurgeSize(p, f[i-1], BlockSize[N - i], need)
    <3>1. f[i-1] \in S
      BY <1>1, <2>2, <2>3
    <3> QED
      BY <2>2, <3>1
  <2>5. N = Top + 1
    BY DEF N
  <2> HIDE DEF step
  <2>6. \A i \in 0..Top+1 :
          f[i] = IF i = 0 THEN p ELSE PurgeSize(p, f[i-1], BlockSize[(Top + 1) - i], need)
    <3> TAKE i \in 0..Top+1
    <3>1. (Top + 1) - i = N - i /\ (i # 0 => i \in 1..N)
      BY <2>3, <2>5
    <3>2. CASE i = 0
      BY <2>2, <3>2
    <3>3. CASE i # 0
      BY <2>4, <3>1, <3>3
    <3> QED
      BY <3>2, <3>3
  <2>7. f = [i \in 0..Top+1 |-> f[i]]
    BY <2>2, <2>5
  <2>8. f = Steps(f)
    BY <2>6, <2>7
  <2> QED
    BY <2>8
<1>8. After[0] = p /\ \A i \in 1..N : After[i] = PurgeSize(p, After[i-1], BlockSize[N - i], need)
  <2>1. After = Steps(After)
    BY <1>7
  <2>2. \A i \in 0..Top+1 :
          After[i] = IF i = 0 THEN p ELSE PurgeSize(p, After[i-1], BlockSize[(Top + 1) - i], need)
    BY <2>1
  <2> HIDE DEF After, Steps
  <2>3. 0 \in 0..Top+1 /\ \A i \in 1..N : i \in 0..Top+1 /\ i # 0
    BY <1>1 DEF N
  <2>4. After[0] = p
    BY <2>2, <2>3
  <2>5. ASSUME NEW i \in 1..N PROVE After[i] = PurgeSize(p, After[i-1], BlockSize[N - i], need)
    <3>1. N - i = (Top + 1) - i
      BY DEF N
    <3>2. i \in 0..Top+1 /\ i # 0
      BY <2>3
    <3> QED
      BY <2>2, <3>1, <3>2
  <2> QED
    BY <2>4, <2>5
<1> HIDE DEF After, step
<1> DEFINE G == {i \in Nat : i <= N => After[i] \in S}
<1>9. 0 \in G
  BY <1>1, <1>3, <1>8
<1>10. ASSUME NEW i \in Nat, i \in G PROVE i + 1 \in G
  <2> SUFFICES ASSUME i + 1 <= N PROVE After[i + 1] \in S
    OBVIOUS
  <2>1. i + 1 \in 0..N /\ i + 1 \in 1..N /\ i + 1 # 0 /\ (i + 1) - 1 = i /\ i <= N
    BY <1>1
  <2>2. After[i + 1] = PurgeSize(p, After[i], BlockSize[N - (i + 1)], need)
    BY <1>8, <2>1
  <2>3. After[i] \in S
    BY <1>10, <2>1
  <2> QED
    BY <1>4, <1>5, <2>1, <2>2, <2>3
<1> HIDE DEF G
<1>11. N \in G
  BY <1>1, <1>9, <1>10, AllNumbers
<1>12. After[N] \in S
  BY <1>1, <1>11 DEF G
<1> QED
  BY <1>2, <1>12 DEF S, N

\* What extend has when it begins to make blocks, if it does.
LEMMA RoomMade ==
  ASSUME NEW p, NEW H, SoundPool(p, H), NEW z \in Size
  PROVE  /\ SoundPool(MakeRoom(p, z), H)
         /\ MakeRoom(p, z).allocated <= p.allocated
         /\ Enough(p, MakeRoom(p, z), z)
               => MakeRoom(p, z).allocated + z * fit_extend_set(z) <= C_MAX_POOL_SIZE
<1> DEFINE q == MakeRoom(p, z)
           e == z * fit_extend_set(z)
<1>1. e \in Nat /\ C_MAX_POOL_SIZE \in Nat /\ p.allocated \in Int
  BY SetIsSome, SizesFinite, PoolAssumption DEF SoundPool, Pools
<1>2. Beyond(p, z) = p.allocated + e - C_MAX_POOL_SIZE
  BY DEF Beyond
<1> HIDE DEF e
<1>3. Beyond(p, z) \in Int
  BY <1>1, <1>2
<1>4. SoundPool(q, H) /\ q.allocated <= p.allocated
  BY <1>1, <1>3, Purged DEF MakeRoom
<1>5. q.allocated \in Int
  BY <1>4 DEF SoundPool, Pools
<1> HIDE DEF q
<1>6. Enough(p, q, z) => q.allocated + e <= C_MAX_POOL_SIZE
  BY <1>1, <1>2, <1>5 DEF Enough
<1> QED
  BY <1>4, <1>6 DEF q, e

-----------------------------------------------------------------------------
(* The invariant. *)

\* What a step makes of the variables.
LEMMA BecomesSound ==
  ASSUME NEW q, SoundPool(q, held'), Becomes(q)
  PROVE  SoundPool(Pool, held)' /\ allocated' = q.allocated
<1>1. q = [free |-> q.free, stub |-> q.stub, allocated |-> q.allocated]
  BY DEF SoundPool, Pools
<1>2. Pool' = q
  BY <1>1 DEF Pool, Becomes
<1>3. SoundPool(Pool, held)' <=> SoundPool(Pool', held')
  BY DEF SoundPool, Owned, Memory
<1> QED
  BY <1>2, <1>3 DEF Becomes

LEMMA PoolInvInit == PoolInit => PoolInv
<1> SUFFICES ASSUME PoolInit PROVE PoolInv
  OBVIOUS
<1>1. Pool = [free |-> [z \in Size |-> <<>>], stub |-> [z \in Size |-> {}], allocated |-> 0] /\ held = {}
  BY DEF PoolInit, Pool
<1> DEFINE p == Pool
<1>2. /\ p.free = [z \in Size |-> <<>>] /\ p.stub = [z \in Size |-> {}] /\ p.allocated = 0
  BY <1>1
<1>3. p \in Pools
  BY <1>1 DEF Pools
<1> HIDE DEF p
<1>4. \A z \in Size : p.free[z] = <<>> /\ p.stub[z] = {} /\ Range(p.free[z]) = {} /\ IsInjective(p.free[z])
  BY <1>2 DEF Range, IsInjective
<1>5. Owned(p, {})
  BY <1>4 DEF Owned
<1>6. Memory(p) = {}
  BY <1>4 DEF Memory
<1>7. SoundPool(p, {})
  BY <1>2, <1>3, <1>4, <1>5, <1>6, FS_EmptySet DEF SoundPool
<1>8. PoolBounded
  BY PoolAssumption DEF PoolBounded, PoolInit
<1> QED
  BY <1>1, <1>7, <1>8 DEF PoolInv, p

LEMMA PoolInvStep == PoolInv /\ [PoolNext]_poolVars => PoolInv'
<1> SUFFICES ASSUME PoolInv, [PoolNext]_poolVars PROVE PoolInv'
  OBVIOUS
<1>1. /\ held \subseteq [block : Nat, size : Size] /\ SoundPool(Pool, held)
      /\ allocated <= C_MAX_POOL_SIZE
  BY DEF PoolInv, PoolBounded
<1>2. Pool.free = freeBlocks /\ Pool.stub = stub /\ Pool.allocated = allocated
  BY DEF Pool
<1>3. allocated \in Int /\ C_MAX_POOL_SIZE \in Nat
  BY <1>1, <1>2, PoolAssumption DEF SoundPool, Pools
<1>4. ASSUME NEW n \in Request, AllocateFree(n) PROVE PoolInv'
  <2> DEFINE z == fit_block_size(n)
             q == [Pool EXCEPT !.free[z] = Tail(@)]
  <2>1. z \in Size
    BY RequestFits
  <2>2. /\ Pool.free[z] # <<>> /\ Becomes(q)
        /\ held' = held \cup {[block |-> Head(Pool.free[z]), size |-> z]}
    BY <1>2, <1>4 DEF AllocateFree, Take
  <2> HIDE DEF z
  <2>3. held' \subseteq [block : Nat, size : Size] /\ SoundPool(q, held')
    BY <1>1, <2>1, <2>2, Taken
  <2>4. q.allocated = allocated
    BY <1>2
  <2> HIDE DEF q
  <2>5. SoundPool(Pool, held)' /\ allocated' = allocated
    BY <2>2, <2>3, <2>4, BecomesSound
  <2> QED
    BY <1>1, <2>3, <2>5 DEF PoolInv, PoolBounded
<1>5. ASSUME NEW n \in Request, AllocateExtend(n) PROVE PoolInv'
  <2> DEFINE z == fit_block_size(n)
             r == MakeRoom(Pool, z)
             k == fit_extend_set(z)
             new == Unused(r, k)
             p == Extended(r, z, new)
             q == [p EXCEPT !.free[z] = Tail(@)]
  <2>1. z \in Size
    BY RequestFits
  <2>2. Enough(Pool, r, z) /\ Becomes(q) /\ held' = held \cup {[block |-> Head(p.free[z]), size |-> z]}
    BY <1>5 DEF AllocateExtend, Take
  <2> HIDE DEF z
  <2>3. SoundPool(r, held) /\ r.allocated + z * k <= C_MAX_POOL_SIZE /\ k \in Nat \ {0}
    BY <1>1, <2>1, <2>2, RoomMade, SetIsSome
  <2> HIDE DEF r, k
  <2>4. r.stub \in [Size -> SUBSET Nat] /\ r.free \in [Size -> Seq(Nat)] /\ \A y \in Size : IsFiniteSet(r.stub[y])
    BY <2>3 DEF SoundPool, Pools
  <2>5. new \in Seq(Nat) /\ Len(new) = k /\ IsInjective(new) /\ \A y \in Size : r.stub[y] \cap Range(new) = {}
    BY <2>3, <2>4, NewBlocks
  <2> HIDE DEF new
  <2>6. SoundPool(p, held)
    BY <1>1, <2>1, <2>3, <2>5, MadeBlocks
  <2>7. p.free[z] = new \o r.free[z] /\ p.allocated = r.allocated + z * k
    BY <2>1, <2>4, <2>5 DEF Extended
  <2>8. p.free[z] # <<>>
    <3>1. r.free[z] \in Seq(Nat)
      BY <2>1, <2>4
    <3>2. \A s, t \in Seq(Nat) : Len(s \o t) = Len(s) + Len(t) /\ Len(t) \in Nat
      BY ConcatProperties, LenProperties
    <3>3. Len(new \o r.free[z]) = k + Len(r.free[z]) /\ Len(r.free[z]) \in Nat
      BY <2>5, <3>1, <3>2
    <3>4. Len(<<>>) = 0
      OBVIOUS
    <3> QED
      BY <2>3, <2>7, <3>3, <3>4
  <2> HIDE DEF p
  <2>9. held' \subseteq [block : Nat, size : Size] /\ SoundPool(q, held')
    BY <1>1, <2>1, <2>2, <2>6, <2>8, Taken
  <2>10. q.allocated = p.allocated
    <3>1. p \in Pools
      BY <2>6 DEF SoundPool
    <3> QED
      BY <3>1 DEF Pools
  <2> HIDE DEF q
  <2>11. SoundPool(Pool, held)' /\ allocated' = p.allocated
    BY <2>2, <2>9, <2>10, BecomesSound
  <2> QED
    BY <2>3, <2>7, <2>9, <2>11 DEF PoolInv, PoolBounded
<1>6. ASSUME NEW n \in Request, AllocateFails(n) PROVE PoolInv'
  <2> DEFINE z == fit_block_size(n)
             q == MakeRoom(Pool, z)
  <2>1. z \in Size
    BY RequestFits
  <2>2. Becomes(q) /\ held' = held
    BY <1>6 DEF AllocateFails
  <2> HIDE DEF z
  <2>3. SoundPool(q, held') /\ q.allocated <= allocated
    BY <1>1, <1>2, <2>1, <2>2, RoomMade
  <2> HIDE DEF q
  <2>4. SoundPool(Pool, held)' /\ allocated' = q.allocated /\ q.allocated \in Int
    BY <2>2, <2>3, BecomesSound DEF SoundPool, Pools
  <2> QED
    BY <1>1, <1>3, <2>2, <2>3, <2>4 DEF PoolInv, PoolBounded
<1>7. ASSUME NEW h \in held, Recycle(h) PROVE PoolInv'
  <2> DEFINE p == [Pool EXCEPT !.free[h.size] = <<h.block>> \o @]
             q == Release(p, h.size, C_MAX_WATER_MARK)
  <2>1. h.size \in Size /\ C_MAX_WATER_MARK \in Nat
    BY <1>1, PoolAssumption
  <2>2. Becomes(q) /\ held' = held \ {h}
    BY <1>7 DEF Recycle
  <2>3. SoundPool(p, held')
    BY <1>1, <2>2, PutBack
  <2>4. p.allocated = allocated
    BY <1>2
  <2> HIDE DEF p
  <2>5. SoundPool(q, held') /\ q.allocated <= allocated
    BY <2>1, <2>3, <2>4, Released
  <2> HIDE DEF q
  <2>6. SoundPool(Pool, held)' /\ allocated' = q.allocated /\ q.allocated \in Int
    BY <2>2, <2>5, BecomesSound DEF SoundPool, Pools
  <2> QED
    BY <1>1, <1>3, <2>2, <2>5, <2>6 DEF PoolInv, PoolBounded
<1>8. CASE UNCHANGED poolVars
  BY <1>1, <1>8 DEF PoolInv, poolVars, SoundPool, Pool, Owned, Memory, PoolBounded
<1> QED
  BY <1>4, <1>5, <1>6, <1>7, <1>8 DEF PoolNext

\* Blocks have one owner and are counted exactly, and the pool keeps to its limit
\* (mempool.cpp:89, :222, :225).
THEOREM PoolTheorem == PoolSpec => []PoolSound
<1>1. PoolInv => PoolSound
  BY DEF PoolInv, PoolSound, SoundPool, HeldIsOwned, AllocatedExact, Pool
<1> QED
  BY <1>1, PoolInvInit, PoolInvStep, PTL DEF PoolSpec
=============================================================================
