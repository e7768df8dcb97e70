------------------------------ MODULE SharedMap ------------------------------
(***************************************************************************)
(* The hash map of include/HashMapImp.hpp in shared memory, as              *)
(* include/ShmHashMap.hpp lets several processes use it under one semaphore. *)
(* A process may be killed between any two of the steps below; the kernel   *)
(* then gives back its semaphore (SEM_UNDO) and leaves the memory as it is. *)
(* The stores are grouped: linking a node to its bucket and unlinking it    *)
(* are two steps each, as they stand between what leads to the node and     *)
(* what it leads to; each helper of the list of all nodes and of the free   *)
(* list is one.  A kill inside a step is not modelled.                      *)
(*                                                                         *)
(* The memory is the record m.  Its nodes stand for their handles, which    *)
(* are offsets into the pool.  CChunkAllocator, of which the repository has *)
(* only the declaration, is modelled as its comments and this code use it:  *)
(* by how many chunks are free, and by the chunks and content of each node.  *)
(* Access times and counts, which nothing reads, are left out.              *)
(***************************************************************************)
EXTENDS Integers, Sequences, FiniteSets, SequencesExt

CONSTANTS
  Proc,       \* processes
  Key, Value, \* Value: pairs of a length in chunks and a content
  NodeTotal, BucketSize, ChunkTotal,
  MaxKills    \* bound: processes killed

ASSUME SizeAssumption == {NodeTotal, BucketSize} \subseteq Nat \ {0} /\ {ChunkTotal, MaxKills} \subseteq Nat
ASSUME KeyAssumption == Key \subseteq Nat /\ Key # {}
ASSUME ValueAssumption == \A v \in Value : v = <<v[1], v[2]>> /\ v[1] \in Nat

Node == 0..NodeTotal-1
Bucket == 0..BucketSize-1
INVALID == -1
Handle == Node \cup {INVALID}
None == "none"

ASSUME ProcAssumption == None \notin Proc

VARIABLES
  sem,    \* value of the semaphore, INVALID before it exists
  holder, \* the process that has it
  m,      \* the segment, Absent before it exists
  proc,   \* where each process is and what it works on
  torn,   \* an operation was cut short in the middle of its pointers
  kills

vars == <<sem, holder, m, proc, torn, kills>>

-----------------------------------------------------------------------------
(* The memory. *)

\* A segment as the kernel hands it out.
Zeroed ==
  [total |-> 0, used |-> 0, usedBuckets |-> 0, free |-> 0, addHead |-> 0, addTail |-> 0,
   bucket |-> [b \in Bucket |-> 0],
   key |-> [n \in Node |-> CHOOSE k \in Key : TRUE], len |-> [n \in Node |-> 0],
   data |-> [n \in Node |-> None],
   next |-> [n \in Node |-> 0], prev |-> [n \in Node |-> 0],
   addNext |-> [n \in Node |-> 0], addPrev |-> [n \in Node |-> 0],
   freeChunks |-> 0]

Absent == [Zeroed EXCEPT !.total = INVALID]

AllInvalid == [n \in Node |-> INVALID]

\* init_pool_data: every node is put at the head of the free list, in turn.
InitPoolData ==
  [Zeroed EXCEPT
     !.total = NodeTotal, !.bucket = [b \in Bucket |-> INVALID],
     !.addHead = INVALID, !.addTail = INVALID, !.free = NodeTotal - 1,
     !.next = [n \in Node |-> n - 1], !.prev = AllInvalid,
     !.addNext = AllInvalid, !.addPrev = AllInvalid,
     !.freeChunks = ChunkTotal]

\* The handles met from one on, at each step.
Along(first, link) ==
  LET on == [h \in Handle |-> IF h = INVALID THEN INVALID ELSE link[h]]
      w[i \in 0..NodeTotal] == IF i = 0 THEN first ELSE on[w[i-1]]
  IN w

\* The nodes met from a handle on.
Walk(first, link) ==
  LET w == Along(first, link)
  IN [i \in 1..Cardinality({j \in 0..NodeTotal : w[j] # INVALID}) |-> w[i-1]]

GetBucketId(k) == k % BucketSize
BucketList(mem, b) == Walk(mem.bucket[b], mem.next)
FreeList(mem) == Walk(mem.free, mem.next)
AddList(mem) == Walk(mem.addHead, mem.addNext)

\* verify_pool_data
VerifyPoolData(mem) ==
  /\ mem.total = NodeTotal
  /\ Cardinality({b \in Bucket : mem.bucket[b] # INVALID}) = mem.usedBuckets
  /\ mem.used + Len(FreeList(mem)) = mem.total

\* The nodes of list l that have key k, in order.
Having(l, key, k) ==
  LET h[i \in 0..Len(l)] ==
        IF i = 0 THEN <<>> ELSE h[i-1] \o (IF key[l[i]] = k THEN <<l[i]>> ELSE <<>>)
  IN h[Len(l)]

Hits(mem, k) == LET l == BucketList(mem, GetBucketId(k)) IN Having(l, mem.key, k)

\* A slip: the search goes on behind a node with the key.
NodeOfOldest(mem, k) == LET h == Hits(mem, k) IN IF h = <<>> THEN INVALID ELSE Last(h)

\* The node find_node returns, INVALID for NULL: it goes no further than a node with
\* the key.
NodeOf(mem, k) ==
  Along(mem.bucket[GetBucketId(k)], [n \in Node |-> IF mem.key[n] = k THEN n ELSE mem.next[n]])[NodeTotal]

DeleteFromAddList(mem, n) ==
  LET nx == mem.addNext[n]
      pv == mem.addPrev[n]
  IN [mem EXCEPT
        !.addNext = [x \in Node |-> IF x = n THEN INVALID ELSE IF x = pv THEN nx ELSE @[x]],
        !.addPrev = [x \in Node |-> IF x = n THEN INVALID ELSE IF x = nx THEN pv ELSE @[x]],
        !.addHead = IF @ = n THEN nx ELSE @,
        !.addTail = IF @ = n THEN pv ELSE @]

InsertAddListHead(mem, n) ==
  LET d == DeleteFromAddList(mem, n)
  IN [d EXCEPT
        !.addNext[n] = d.addHead,
        !.addPrev = [x \in Node |-> IF x = d.addHead THEN n ELSE @[x]],
        !.addHead = n,
        !.addTail = IF @ = INVALID THEN n ELSE @]

FreeListInsert(mem, n) == [mem EXCEPT !.next[n] = mem.free, !.free = n]
FreeListRemove(mem) ==
  [mem EXCEPT !.free = mem.next[mem.free], !.next[mem.free] = INVALID]

\* A slip: the key is not looked at before the bucket is said to be used again.
UseNodeUncounted(mem, n, k, v) ==
  [mem EXCEPT !.key[n] = k, !.len[n] = v[1], !.data[n] = v[2], !.usedBuckets = @ + 1]

\* split, and use_node up to insert_node_list.
UseNode(mem, n, k, v) ==
  [mem EXCEPT !.key[n] = k, !.len[n] = v[1], !.data[n] = v[2],
              !.usedBuckets = IF BucketList(mem, GetBucketId(k)) = <<>> THEN @ + 1 ELSE @]

\* insert_node_list: the bucket leads to the node before the next node knows it.
Link1(mem, n) ==
  LET b == GetBucketId(mem.key[n])
  IN [mem EXCEPT !.next[n] = mem.bucket[b], !.prev[n] = INVALID, !.bucket[b] = n]
Link2(mem, n) == IF mem.next[n] = INVALID THEN mem ELSE [mem EXCEPT !.prev[mem.next[n]] = n]

\* delete_from_node_list, in two parts as well.
Unlink1(mem, n) == IF mem.prev[n] = INVALID THEN mem ELSE [mem EXCEPT !.next[mem.prev[n]] = mem.next[n]]
Unlink2(mem, n) ==
  [mem EXCEPT
     !.prev = [x \in Node |-> IF x = n THEN INVALID ELSE IF x = mem.next[n] THEN mem.prev[n] ELSE @[x]],
     !.bucket = [b \in Bucket |-> IF b = GetBucketId(mem.key[n]) /\ @[b] = n THEN mem.next[n] ELSE @[b]],
     !.next[n] = INVALID]

\* The rest of free_node; init_node leaves the key.
FreeNode(mem, n) ==
  [mem EXCEPT !.freeChunks = @ + mem.len[n],
              !.usedBuckets = IF BucketList(mem, GetBucketId(mem.key[n])) = <<>> THEN @ - 1 ELSE @,
              !.len[n] = 0, !.data[n] = None,
              !.next[n] = INVALID, !.prev[n] = INVALID, !.addNext[n] = INVALID, !.addPrev[n] = INVALID]

-----------------------------------------------------------------------------
(* Processes. *)

Out ==
  [pc |-> "out", back |-> "leave", op |-> "none", node |-> INVALID, key |-> INVALID, val |-> <<>>,
   dup |-> FALSE]   \* the key that is inserted was there

Init ==
  /\ sem = INVALID /\ holder = None /\ m = Absent
  /\ proc = [p \in Proc |-> Out]
  /\ torn = FALSE /\ kills = 0

At(p, pc) == proc[p].pc = pc
Goto(p, pc) == proc' = [proc EXCEPT ![p].pc = pc]
Kept == UNCHANGED <<sem, holder, torn, kills>>

\* Init: semget with IPC_EXCL, and SETALL by the process that created it.
SemGet(p) ==
  /\ At(p, "out")
  /\ sem' = IF sem = INVALID THEN 0 ELSE sem
  /\ Goto(p, IF sem = INVALID THEN "setall" ELSE "waitOpen")
  /\ UNCHANGED <<holder, m, torn, kills>>

SetAll(p) ==
  /\ At(p, "setall")
  /\ sem' = 1
  /\ Goto(p, "waitOpen")
  /\ UNCHANGED <<holder, m, torn, kills>>

\* CAutoLock and the constructor of vistor: semop by -1 with SEM_UNDO.
\* A process that has opened the map always wants to use it again; a torn map is
\* followed no further than to opening it.
Lock(p) ==
  /\ proc[p].pc \in {"waitOpen", "wait"} /\ sem = 1
  /\ sem' = 0 /\ holder' = p
  /\ proc' = [proc EXCEPT ![p].pc = IF At(p, "waitOpen") THEN "open" ELSE IF torn THEN "leave" ELSE "inside",
                          ![p].op = IF At(p, "waitOpen") THEN "open" ELSE "none"]
  /\ UNCHANGED <<m, torn, kills>>

Unlock(p) ==
  /\ sem' = 1 /\ holder' = None
  /\ proc' = [proc EXCEPT ![p] = [Out EXCEPT !.pc = "wait"]]

\* force_open_and_attach creates the segment, which then is to be initialised.
Create(p) ==
  /\ At(p, "open") /\ m = Absent
  /\ m' = Zeroed
  /\ Goto(p, "init")
  /\ Kept

InitPool(p) ==
  /\ At(p, "init")
  /\ m' = InitPoolData
  /\ Goto(p, "leave")
  /\ Kept

\* A segment that was there: the variable init was never given a value, so the pool
\* is initialised again or verified.
Reopen(p) ==
  /\ At(p, "open") /\ m # Absent
  /\ \/ m' = InitPoolData /\ Goto(p, "leave")
     \/ m' = m /\ Goto(p, IF VerifyPoolData(m) THEN "leave" ELSE "refused")
  /\ Kept

Refused(p) ==
  /\ At(p, "refused")
  /\ sem' = 1 /\ holder' = None
  /\ Goto(p, "givenUp")
  /\ UNCHANGED <<m, torn, kills>>

Found(k) == IF NodeOf(m, k) = INVALID THEN m ELSE InsertAddListHead(m, NodeOf(m, k))

Find(p, k) ==
  /\ At(p, "inside")
  /\ m' = Found(k)
  /\ Goto(p, "leave")
  /\ Kept

Insert(p, k, v) ==
  /\ At(p, "inside")
  /\ proc' = [proc EXCEPT ![p].pc = "take", ![p].op = "insert", ![p].key = k, ![p].val = v,
                          ![p].dup = NodeOf(m, k) # INVALID]
  /\ UNCHANGED m /\ Kept

\* SetValue: replace_node
SetValue(p, k, v) ==
  /\ At(p, "inside")
  /\ m' = Found(k)
  /\ proc' = [proc EXCEPT ![p].pc = IF NodeOf(m, k) = INVALID THEN "take" ELSE "update", ![p].op = "set",
                          ![p].key = k, ![p].val = v, ![p].node = NodeOf(m, k)]
  /\ Kept

Delete(p, k) ==
  /\ At(p, "inside")
  /\ m' = Found(k)
  /\ proc' = [proc EXCEPT ![p].pc = IF NodeOf(m, k) = INVALID THEN "leave" ELSE "unlist",
                          ![p].op = "delete", ![p].key = k, ![p].node = NodeOf(m, k)]
  /\ Kept

\* A vistor walks the list of all nodes with the lock held.
Visit(p) ==
  /\ At(p, "inside")
  /\ proc' = [proc EXCEPT ![p].pc = "visit", ![p].op = "visit", ![p].back = "visit", ![p].node = m.addHead]
  /\ UNCHANGED m /\ Kept

VisitNext(p) ==
  /\ At(p, "visit") /\ proc[p].node # INVALID
  /\ proc' = [proc EXCEPT ![p].node = m.addNext[@]]
  /\ UNCHANGED m /\ Kept

VisitErase(p) ==
  /\ At(p, "visit") /\ proc[p].node # INVALID
  /\ Goto(p, "unlist")
  /\ UNCHANGED m /\ Kept

VisitUpdate(p, v) ==
  /\ At(p, "visit") /\ proc[p].node # INVALID
  /\ proc' = [proc EXCEPT ![p].pc = "update", ![p].val = v]
  /\ UNCHANGED m /\ Kept

VisitEnd(p) == At(p, "visit") /\ Goto(p, "leave") /\ UNCHANGED m /\ Kept

-----------------------------------------------------------------------------
(* insert_node. *)

Take(p) ==
  /\ At(p, "take")
  /\ IF m.free = INVALID
     THEN Goto(p, "leave") /\ UNCHANGED m
     ELSE /\ m' = FreeListRemove(m)
          /\ proc' = [proc EXCEPT ![p].pc = "malloc", ![p].node = m.free]
  /\ Kept

MallocChunks(p) ==
  /\ At(p, "malloc")
  /\ LET n == proc[p].val[1] IN
     IF n > m.freeChunks
     THEN m' = FreeListInsert(m, proc[p].node) /\ Goto(p, "leave")
     ELSE m' = [m EXCEPT !.freeChunks = @ - n] /\ Goto(p, "use")
  /\ Kept

\* A step on the process's node that only changes the memory.
Do(p, from, mem, to) == At(p, from) /\ m' = mem /\ Goto(p, to) /\ Kept

Use(p) == At(p, "use") /\ Do(p, "use", UseNode(m, proc[p].node, proc[p].key, proc[p].val), "link")
InsertNodeList1(p) == At(p, "link") /\ Do(p, "link", Link1(m, proc[p].node), "linkOn")
InsertNodeList2(p) == At(p, "linkOn") /\ Do(p, "linkOn", Link2(m, proc[p].node), "count")
Count(p) == At(p, "count") /\ Do(p, "count", [m EXCEPT !.used = @ + 1], "front")
Foremost(p) == At(p, "front") /\ Do(p, "front", InsertAddListHead(m, proc[p].node), "leave")

-----------------------------------------------------------------------------
(* update_node. *)

Update(p) ==
  /\ At(p, "update")
  /\ LET n == proc[p].node
         v == proc[p].val
         grown == v[1] - m.len[n]
     IN IF grown = 0
        THEN m' = [m EXCEPT !.data[n] = v[2]] /\ Goto(p, proc[p].back)
        ELSE IF grown > m.freeChunks
        THEN UNCHANGED m /\ Goto(p, proc[p].back)
        ELSE m' = [m EXCEPT !.freeChunks = @ + m.len[n]] /\ Goto(p, "resize")
  /\ Kept

Resize(p) ==
  /\ At(p, "resize")
  /\ LET v == proc[p].val
         n == proc[p].node
     IN m' = [m EXCEPT !.freeChunks = @ - v[1], !.data[n] = v[2], !.len[n] = v[1]]
  /\ Goto(p, proc[p].back)
  /\ Kept

-----------------------------------------------------------------------------
(* delete_node. *)

Unlist(p) == At(p, "unlist") /\ Do(p, "unlist", DeleteFromAddList(m, proc[p].node), "unlink")
DeleteFromNodeList1(p) == At(p, "unlink") /\ Do(p, "unlink", Unlink1(m, proc[p].node), "unlinkOn")
DeleteFromNodeList2(p) == At(p, "unlinkOn") /\ Do(p, "unlinkOn", Unlink2(m, proc[p].node), "uncount")
Uncount(p) == At(p, "uncount") /\ Do(p, "uncount", [m EXCEPT !.used = @ - 1], "empty")
Empty(p) == At(p, "empty") /\ Do(p, "empty", FreeNode(m, proc[p].node), "giveBack")

\* free_list_insert; a vistor whose node this was has nothing behind it any more.
GiveBack(p) ==
  /\ At(p, "giveBack")
  /\ m' = FreeListInsert(m, proc[p].node)
  /\ proc' = [proc EXCEPT ![p].pc = proc[p].back, ![p].node = INVALID]
  /\ Kept

Leave(p) == At(p, "leave") /\ Unlock(p) /\ UNCHANGED <<m, torn, kills>>

-----------------------------------------------------------------------------

\* Cut here, a bucket's links or a node's chunks are half done.
TornAt == {"linkOn", "unlinkOn", "resize"}

HolderKept(p) == UNCHANGED <<sem, holder>>
\* SEM_UNDO
HolderUndone(p) ==
  IF holder = p THEN sem' = 1 /\ holder' = None ELSE UNCHANGED <<sem, holder>>

Kill(p) ==
  /\ kills < MaxKills /\ ~ At(p, "out")
  /\ kills' = kills + 1
  /\ HolderUndone(p)
  /\ torn' = (torn \/ proc[p].pc \in TornAt)
  /\ proc' = [proc EXCEPT ![p] = Out]
  /\ UNCHANGED m

\* What a process in the lock does by itself until it leaves.
Proceed(p) ==
  \/ Create(p) \/ InitPool(p) \/ Reopen(p) \/ Refused(p)
  \/ Take(p) \/ MallocChunks(p) \/ Use(p) \/ InsertNodeList1(p) \/ InsertNodeList2(p) \/ Count(p) \/ Foremost(p)
  \/ Update(p) \/ Resize(p)
  \/ Unlist(p) \/ DeleteFromNodeList1(p) \/ DeleteFromNodeList2(p) \/ Uncount(p) \/ Empty(p) \/ GiveBack(p)
  \/ VisitNext(p)
  \/ At(p, "visit") /\ proc[p].node = INVALID /\ VisitEnd(p)
  \/ Leave(p)

Operate(p) ==
  \/ \E k \in Key : Find(p, k) \/ Delete(p, k) \/ \E v \in Value : Insert(p, k, v) \/ SetValue(p, k, v)
  \/ Visit(p)

Next ==
  \E p \in Proc :
    \/ SemGet(p) \/ SetAll(p) \/ Lock(p) \/ Operate(p) \/ Proceed(p) \/ Kill(p)
    \/ VisitErase(p) \/ VisitEnd(p) \/ \E v \in Value : VisitUpdate(p, v)

Spec == Init /\ [][Next]_vars

\* Processes go on with what they do, a walk over the map comes to an end, and the
\* kernel serves a semaphore in the order of its waiters.
FairSpec ==
  /\ Spec
  /\ \A p \in Proc : WF_vars(SetAll(p) \/ Operate(p) \/ Proceed(p)) /\ SF_vars(VisitEnd(p)) /\ SF_vars(Lock(p))

-----------------------------------------------------------------------------
\* The values of the nodes h.
Values(mem, h) == [i \in DOMAIN h |-> <<mem.len[h[i]], mem.data[h[i]]>>]

\* The values under a key, the newest first.
StacksOf(mem) ==
  IF mem \in {Absent, Zeroed} THEN [k \in Key |-> <<>>] ELSE [k \in Key |-> Values(mem, Hits(mem, k))]

Stacks == StacksOf(m)

\* What the process in the lock is to do and has not done.
Asked ==
  LET past == {"linkOn", "count", "front", "leave"}
  IN IF holder = None \/ proc[holder].pc \in past \/ proc[holder].pc = "refused"
     THEN [op |-> "none", key |-> INVALID, val |-> <<>>]
     ELSE [op |-> proc[holder].op, key |-> proc[holder].key, val |-> proc[holder].val]

KeyStacksOfMap == INSTANCE KeyStacks WITH stacks <- Stacks, asked <- Asked, trusted <- ~ torn

\* The map is the stacks of values of module KeyStacks, also for a process that
\* works on it after others were killed anywhere but in the middle of a bucket's
\* links or of a change of size (HashMapImp.hpp:248-254, :321-325, :342-360).
ImplementsStacks == KeyStacksOfMap!Spec

\* While nobody is at work on a map whose users all came out of it, every node is
\* in its bucket, known to its neighbours, and in the list of all, or free; no chunk
\* is lost; and verify_pool_data would accept it.
MapSound ==
  (kills = 0 /\ holder = None /\ m # Absent) =>
    LET used == UNION {Range(BucketList(m, b)) : b \in Bucket}
        all == AddList(m)
    IN /\ VerifyPoolData(m)
       /\ used = Node \ Range(FreeList(m)) /\ m.used = Cardinality(used)
       /\ \A b \in Bucket : \A i \in DOMAIN BucketList(m, b) :
            LET l == BucketList(m, b) IN
            /\ GetBucketId(m.key[l[i]]) = b
            /\ m.prev[l[i]] = IF i = 1 THEN INVALID ELSE l[i-1]
       /\ Range(all) = used /\ Len(all) = m.used
       /\ Walk(m.addTail, m.addPrev) = Reverse(all)
       /\ m.freeChunks + Cardinality(UNION {{n} \X (1..m.len[n]) : n \in used}) = ChunkTotal

\* Whoever waits for the lock gets it, though the process that has it may be killed,
\* unless the one that made the semaphore was killed before it was set.
LockGranted ==
  \A p \in Proc :
    proc[p].pc \in {"waitOpen", "wait"} ~>
      (proc[p].pc \notin {"waitOpen", "wait"} \/ (sem = 0 /\ holder = None))

\* "若key存在则返回失败": an insertion under a key that exists fails
\* (ShmHashMap.hpp:230); it is about to succeed when its node goes to the front.
InsertRefusesKnown == \A p \in Proc : At(p, "front") => ~ proc[p].dup
=============================================================================
