--------------------------- MODULE SharedMapProofs ---------------------------
(***************************************************************************)
(* Proofs about SharedMap, for any processes, nodes, buckets, chunks, keys  *)
(* and values: a map at rest is sound unless a process was killed in it,    *)
(* and every step, a death included, is one of the stacks of KeyStacks, as  *)
(* long as no operation was cut short in the middle of its pointers.        *)
(*                                                                         *)
(* Neither says what is true of the memory while a process is at work on    *)
(* it, which is what the invariant adds: there are lists that the links     *)
(* lead through at every step (Shape), but for one node that may not know   *)
(* who comes before it (Hole); the process knows where its own node is      *)
(* (Hand); and the counts are right but for that node (Counts), which a     *)
(* process killed leaves uncounted.                                         *)
(***************************************************************************)
EXTENDS SharedMapLists

-----------------------------------------------------------------------------
(* What the process in the lock, w, knows of the node it works on. *)

\* The node is in no list.
InHand == {"malloc", "use", "link", "uncount", "empty", "giveBack"}

\* The node is the first of the list under key k.
FirstOf(mem, L, k, n) ==
  LET h == Having(L[GetBucketId(k)], mem.key, k) IN h # <<>> /\ h[1] = n

\* The node is still the head of its bucket, or nobody leads to it any more.
HalfOut(mem, L, F, w) ==
  LET l == ListOf(mem, L, w.node) IN
  \/ /\ l # <<>> /\ l[1] = w.node /\ mem.prev[w.node] = INVALID
     /\ w.op = "delete" => w.key = mem.key[w.node]
  \/ /\ w.node \notin Linked(L) \cup Range(F)
     /\ \E i \in 1..Len(l) : mem.prev[w.node] = l[i] /\ mem.next[w.node] = Nth(l, i + 1)

Hand(mem, L, F, A, w) ==
  /\ w.pc \in InHand => w.node \in Node \ (Linked(L) \cup Range(F))
  /\ w.pc \in {"take", "malloc", "use", "link"} =>
       /\ w.op \in {"insert", "set"} /\ w.key \in Key /\ w.val \in Value
       /\ w.op = "set" => \A n \in Linked(L) : mem.key[n] # w.key
  /\ w.pc = "link" => mem.key[w.node] = w.key /\ <<mem.len[w.node], mem.data[w.node]>> = w.val
  /\ w.pc = "linkOn" => w.node \in Node /\ ListOf(mem, L, w.node) # <<>> /\ ListOf(mem, L, w.node)[1] = w.node
  /\ w.pc \in {"count", "front"} => w.node \in Linked(L)
  /\ w.pc \in {"update", "resize", "unlist"} => w.node \in Range(A)
  /\ w.pc \in {"update", "resize"} => w.op \in {"set", "visit"} /\ w.val \in Value
  /\ w.pc \in {"unlist", "unlink", "unlinkOn"} => w.op \in {"delete", "visit"}
  /\ w.pc \in {"update", "resize", "unlist", "unlink"} /\ w.op # "visit" =>
       w.key \in Key /\ FirstOf(mem, L, w.key, w.node)
  /\ w.pc = "unlink" => w.node \in Linked(L) \ Range(A)
  /\ w.pc = "unlinkOn" => w.node \in Node \ Range(A) /\ HalfOut(mem, L, F, w)
  /\ w.pc = "visit" => w.node \in Range(A) \cup {INVALID} /\ w.op = "visit"

\* The node that does not know yet who comes before it.
Hole(mem, w) == IF w.pc \in {"linkOn", "unlinkOn"} THEN mem.next[w.node] ELSE INVALID

-----------------------------------------------------------------------------
(* What the counts say while nobody has been killed. *)

\* The nodes in no list.
Holding(w) == IF w.pc \in InHand \cup {"unlinkOn"} THEN {w.node} ELSE {}

Counted(L, w) ==
  IF w.pc \in {"linkOn", "count"} THEN Linked(L) \ {w.node}
  ELSE IF w.pc \in {"unlinkOn", "uncount"} THEN Linked(L) \cup {w.node} ELSE Linked(L)

\* The nodes that may be missing in the list of all.
Unlisted(w) == IF w.pc \in {"linkOn", "count", "front", "unlink", "unlinkOn"} THEN {w.node} ELSE {}

Nonempty(L) == {b \in Bucket : L[b] # <<>>}

Busy(mem, L, w) ==
  Nonempty(L) \cup (IF w.pc \in {"link", "uncount", "empty"} THEN {GetBucketId(mem.key[w.node])} ELSE {})

\* The chunks of each node; those of the node at work may have been taken or given back.
Charge(mem, w) ==
  IF w.pc = "use" THEN [mem.len EXCEPT ![w.node] = w.val[1]]
  ELSE IF w.pc = "resize" THEN [mem.len EXCEPT ![w.node] = 0] ELSE mem.len

\* The nodes that may have chunks though they are not linked.
Full(w) == IF w.pc \in {"link", "unlinkOn", "uncount", "empty"} THEN {w.node} ELSE {}

Tally(mem, L, F, A, holding, counted, unlisted, busy, charge, full) ==
  /\ Node \subseteq Linked(L) \cup Range(F) \cup holding
  /\ mem.used = Cardinality(counted)
  /\ Linked(L) \subseteq Range(A) \cup unlisted
  /\ mem.usedBuckets = Cardinality(busy)
  /\ mem.freeChunks + Cardinality(Chunks(charge)) = ChunkTotal
  /\ \A n \in Node \ (Linked(L) \cup full) : mem.len[n] = 0

Counts(mem, L, F, A, w) ==
  Tally(mem, L, F, A, Holding(w), Counted(L, w), Unlisted(w), Busy(mem, L, w), Charge(mem, w), Full(w))

Good(mem, w, clean) ==
  \E L, F, A :
    /\ Shape(mem, L, F, A) /\ PrevRight(mem, L, Hole(mem, w)) /\ Hand(mem, L, F, A, w)
    /\ clean => Counts(mem, L, F, A, w)

-----------------------------------------------------------------------------
(* The invariant. *)

PcsOut == {"out", "setall", "waitOpen", "givenUp", "wait"}
PcsBefore == {"out", "setall", "waitOpen", "givenUp", "open", "init", "refused"}
PcsIn == {"open", "init", "refused", "inside", "take", "malloc", "use", "link", "linkOn", "count", "front",
          "update", "resize", "unlist", "unlink", "unlinkOn", "uncount", "empty", "giveBack", "visit", "leave"}

Worker == [pc : PcsOut \cup PcsIn, back : {"leave", "visit"},
           op : {"none", "open", "insert", "set", "delete", "visit"},
           node : Handle, key : Key \cup {INVALID}, val : Value \cup {<<>>}, dup : BOOLEAN]

Lawful(w) ==
  /\ w.back = "visit" => w.op = "visit"
  /\ w.pc = "visit" => w.back = "visit"
  /\ w.pc \in {"open", "init"} => w.op = "open"
  /\ w.pc \in {"inside", "out", "setall", "waitOpen", "wait"} => w.op = "none"

\* Where a process can be once the map is torn.
PcsTorn == PcsOut \cup {"open", "init", "refused", "leave"}

TypeOK ==
  /\ sem \in {INVALID, 0, 1} /\ holder \in Proc \cup {None} /\ kills \in Nat /\ torn \in BOOLEAN
  /\ proc \in [Proc -> Worker]
  /\ \A p \in Proc : Lawful(proc[p]) /\ (torn => proc[p].pc \in PcsTorn)
  /\ kills = 0 => ~ torn

\* One process is in the lock at a time.
OneInLock ==
  /\ \A p \in Proc : proc[p].pc \in PcsIn <=> holder = p
  /\ holder # None \/ (\E p \in Proc : At(p, "setall")) => sem = 0
  /\ \A p, q \in Proc : At(p, "setall") /\ At(q, "setall") => p = q
  /\ \A p \in Proc : At(p, "setall") => holder = None

AtWork == IF holder = None THEN Out ELSE proc[holder]

Sound ==
  ~ torn =>
    \/ /\ m \in {Absent, Zeroed} /\ \A p \in Proc : proc[p].pc \in PcsBefore
       /\ kills = 0 /\ m = Zeroed => AtWork.pc = "init"
    \/ Good(m, AtWork, kills = 0)

IInv == TypeOK /\ OneInLock /\ Sound

-----------------------------------------------------------------------------
(* At rest: nothing is half done. *)

RestPcs == {"out", "setall", "waitOpen", "givenUp", "wait", "open", "init", "refused", "inside",
            "take", "update", "unlist", "visit", "leave"}

Calm(mem, L, F, A) == Tally(mem, L, F, A, {}, Linked(L), {}, Nonempty(L), mem.len, {})

Rests(mem, L, F, A, clean) ==
  Shape(mem, L, F, A) /\ PrevRight(mem, L, INVALID) /\ (clean => Calm(mem, L, F, A))

\* What a process at work changes of the counts at rest.
LEMMA CountsAre ==
  ASSUME NEW mem, NEW L, NEW F, NEW A, NEW w
  PROVE  LET n == w.node
             Lk == Linked(L)
             Ne == Nonempty(L)
             Bk == Ne \cup {GetBucketId(mem.key[n])}
         IN
         /\ w.pc \in RestPcs => (Counts(mem, L, F, A, w) <=> Calm(mem, L, F, A))
         /\ w.pc \in {"malloc", "giveBack"} =>
              (Counts(mem, L, F, A, w) <=> Tally(mem, L, F, A, {n}, Lk, {}, Ne, mem.len, {}))
         /\ w.pc = "use" =>
              (Counts(mem, L, F, A, w) <=>
                 Tally(mem, L, F, A, {n}, Lk, {}, Ne, [mem.len EXCEPT ![n] = w.val[1]], {}))
         /\ w.pc \in {"link", "empty"} =>
              (Counts(mem, L, F, A, w) <=> Tally(mem, L, F, A, {n}, Lk, {}, Bk, mem.len, {n}))
         /\ w.pc \in {"linkOn", "count"} =>
              (Counts(mem, L, F, A, w) <=> Tally(mem, L, F, A, {}, Lk \ {n}, {n}, Ne, mem.len, {}))
         /\ w.pc \in {"front", "unlink"} =>
              (Counts(mem, L, F, A, w) <=> Tally(mem, L, F, A, {}, Lk, {n}, Ne, mem.len, {}))
         /\ w.pc = "resize" =>
              (Counts(mem, L, F, A, w) <=>
                 Tally(mem, L, F, A, {}, Lk, {}, Ne, [mem.len EXCEPT ![n] = 0], {}))
         /\ w.pc = "unlinkOn" =>
              (Counts(mem, L, F, A, w) <=> Tally(mem, L, F, A, {n}, Lk \cup {n}, {n}, Ne, mem.len, {n}))
         /\ w.pc = "uncount" =>
              (Counts(mem, L, F, A, w) <=> Tally(mem, L, F, A, {n}, Lk \cup {n}, {}, Bk, mem.len, {n}))
<1> DEFINE n == w.node
           Ne == Nonempty(L)
<1>0. Ne \cup {} = Ne
  OBVIOUS
<1>1. w.pc \in RestPcs =>
        /\ Holding(w) = {} /\ Counted(L, w) = Linked(L) /\ Unlisted(w) = {}
        /\ Busy(mem, L, w) = Ne /\ Charge(mem, w) = mem.len /\ Full(w) = {}
  BY <1>0 DEF RestPcs, Holding, InHand, Counted, Unlisted, Busy, Charge, Full
<1>2. w.pc \in {"malloc", "giveBack"} =>
        /\ Holding(w) = {n} /\ Counted(L, w) = Linked(L) /\ Unlisted(w) = {}
        /\ Busy(mem, L, w) = Ne /\ Charge(mem, w) = mem.len /\ Full(w) = {}
  BY <1>0 DEF Holding, InHand, Counted, Unlisted, Busy, Charge, Full
<1>3. w.pc = "use" =>
        /\ Holding(w) = {n} /\ Counted(L, w) = Linked(L) /\ Unlisted(w) = {}
        /\ Busy(mem, L, w) = Ne /\ Charge(mem, w) = [mem.len EXCEPT ![n] = w.val[1]] /\ Full(w) = {}
  BY <1>0 DEF Holding, InHand, Counted, Unlisted, Busy, Charge, Full
<1>4. w.pc \in {"link", "empty"} =>
        /\ Holding(w) = {n} /\ Counted(L, w) = Linked(L) /\ Unlisted(w) = {}
        /\ Busy(mem, L, w) = Ne \cup {GetBucketId(mem.key[n])} /\ Charge(mem, w) = mem.len /\ Full(w) = {n}
  BY DEF Holding, InHand, Counted, Unlisted, Busy, Charge, Full
<1>5. w.pc \in {"linkOn", "count"} =>
        /\ Holding(w) = {} /\ Counted(L, w) = Linked(L) \ {n} /\ Unlisted(w) = {n}
        /\ Busy(mem, L, w) = Ne /\ Charge(mem, w) = mem.len /\ Full(w) = {}
  BY <1>0 DEF Holding, InHand, Counted, Unlisted, Busy, Charge, Full
<1>6. w.pc \in {"front", "unlink"} =>
        /\ Holding(w) = {} /\ Counted(L, w) = Linked(L) /\ Unlisted(w) = {n}
        /\ Busy(mem, L, w) = Ne /\ Charge(mem, w) = mem.len /\ Full(w) = {}
  BY <1>0 DEF Holding, InHand, Counted, Unlisted, Busy, Charge, Full
<1>7. w.pc = "resize" =>
        /\ Holding(w) = {} /\ Counted(L, w) = Linked(L) /\ Unlisted(w) = {}
        /\ Busy(mem, L, w) = Ne /\ Charge(mem, w) = [mem.len EXCEPT ![n] = 0] /\ Full(w) = {}
  BY <1>0 DEF Holding, InHand, Counted, Unlisted, Busy, Charge, Full
<1>8. w.pc = "unlinkOn" =>
        /\ Holding(w) = {n} /\ Counted(L, w) = Linked(L) \cup {n} /\ Unlisted(w) = {n}
        /\ Busy(mem, L, w) = Ne /\ Charge(mem, w) = mem.len /\ Full(w) = {n}
  BY <1>0 DEF Holding, InHand, Counted, Unlisted, Busy, Charge, Full
<1>9. w.pc = "uncount" =>
        /\ Holding(w) = {n} /\ Counted(L, w) = Linked(L) \cup {n} /\ Unlisted(w) = {}
        /\ Busy(mem, L, w) = Ne \cup {GetBucketId(mem.key[n])} /\ Charge(mem, w) = mem.len /\ Full(w) = {n}
  BY DEF Holding, InHand, Counted, Unlisted, Busy, Charge, Full
<1> HIDE DEF n, Ne
<1>10. Counts(mem, L, F, A, w) =
         Tally(mem, L, F, A, Holding(w), Counted(L, w), Unlisted(w), Busy(mem, L, w), Charge(mem, w), Full(w))
  BY DEF Counts
<1>11. Calm(mem, L, F, A) = Tally(mem, L, F, A, {}, Linked(L), {}, Ne, mem.len, {})
  BY DEF Calm, Ne
<1>12. w.pc \in RestPcs => (Counts(mem, L, F, A, w) <=> Calm(mem, L, F, A))
  BY <1>1, <1>10, <1>11
<1>13. /\ w.pc \in {"malloc", "giveBack"} =>
              (Counts(mem, L, F, A, w) <=> Tally(mem, L, F, A, {n}, Linked(L), {}, Ne, mem.len, {}))
       /\ w.pc = "use" =>
              (Counts(mem, L, F, A, w) <=>
                 Tally(mem, L, F, A, {n}, Linked(L), {}, Ne, [mem.len EXCEPT ![n] = w.val[1]], {}))
  BY <1>2, <1>3, <1>10
<1>14. /\ w.pc \in {"link", "empty"} =>
              (Counts(mem, L, F, A, w) <=>
                 Tally(mem, L, F, A, {n}, Linked(L), {}, Ne \cup {GetBucketId(mem.key[n])}, mem.len, {n}))
       /\ w.pc \in {"linkOn", "count"} =>
              (Counts(mem, L, F, A, w) <=> Tally(mem, L, F, A, {}, Linked(L) \ {n}, {n}, Ne, mem.len, {}))
  BY <1>4, <1>5, <1>10
<1>15. /\ w.pc \in {"front", "unlink"} =>
              (Counts(mem, L, F, A, w) <=> Tally(mem, L, F, A, {}, Linked(L), {n}, Ne, mem.len, {}))
       /\ w.pc = "resize" =>
              (Counts(mem, L, F, A, w) <=>
                 Tally(mem, L, F, A, {}, Linked(L), {}, Ne, [mem.len EXCEPT ![n] = 0], {}))
  BY <1>6, <1>7, <1>10
<1>16. /\ w.pc = "unlinkOn" =>
              (Counts(mem, L, F, A, w) <=> Tally(mem, L, F, A, {n}, Linked(L) \cup {n}, {n}, Ne, mem.len, {n}))
       /\ w.pc = "uncount" =>
              (Counts(mem, L, F, A, w) <=>
                 Tally(mem, L, F, A, {n}, Linked(L) \cup {n}, {}, Ne \cup {GetBucketId(mem.key[n])}, mem.len, {n}))
  BY <1>8, <1>9, <1>10
<1> QED
  BY <1>12, <1>13, <1>14, <1>15, <1>16 DEF n, Ne

\* What a process between two things has to do with the memory.
LEMMA GoodAtRest ==
  ASSUME NEW mem, NEW w, w.pc \in RestPcs, NEW clean, NEW L, NEW F, NEW A
  PROVE  (/\ Shape(mem, L, F, A) /\ PrevRight(mem, L, Hole(mem, w))
          /\ clean => Counts(mem, L, F, A, w))
           <=> Rests(mem, L, F, A, clean)
<1>1. w.pc \notin {"linkOn", "unlinkOn"}
  BY DEF RestPcs
<1>2. Hole(mem, w) = INVALID
  BY <1>1 DEF Hole
<1>3. Counts(mem, L, F, A, w) <=> Calm(mem, L, F, A)
  BY CountsAre
<1> QED
  BY <1>2, <1>3 DEF Rests

\* Where the process has no link half done, a good map is one at rest.
LEMMA RestIs ==
  ASSUME NEW mem, NEW w, w.pc \in RestPcs, NEW clean
  PROVE  Good(mem, w, clean) <=> \E L, F, A : Rests(mem, L, F, A, clean) /\ Hand(mem, L, F, A, w)
BY GoodAtRest DEF Good

\* The same, for given lists.
LEMMA RestGood ==
  ASSUME NEW mem, NEW w, NEW clean, NEW L, NEW F, NEW A,
         w.pc \in RestPcs, Rests(mem, L, F, A, clean), Hand(mem, L, F, A, w)
  PROVE  Good(mem, w, clean)
BY RestIs

\* A process with nothing in hand.
IdlePcs == {"out", "setall", "waitOpen", "givenUp", "wait", "open", "init", "refused", "inside", "leave"}

\* Where the process works on no node, nothing is asked of it.
LEMMA IdleGood ==
  ASSUME NEW mem, NEW w, NEW clean, NEW L, NEW F, NEW A,
         w.pc \in IdlePcs, Rests(mem, L, F, A, clean)
  PROVE  Good(mem, w, clean)
<1>1. w.pc \in RestPcs
  BY DEF IdlePcs, RestPcs
<1>2. Hand(mem, L, F, A, w)
  BY DEF Hand, InHand, IdlePcs
<1> QED
  BY <1>1, <1>2, RestGood

\* All of the memory but the list of all.
SameNodes(mem, mm) ==
  /\ mm \in Segment
  /\ mm.total = mem.total /\ mm.used = mem.used /\ mm.usedBuckets = mem.usedBuckets /\ mm.free = mem.free
  /\ mm.bucket = mem.bucket /\ mm.key = mem.key /\ mm.len = mem.len /\ mm.data = mem.data
  /\ mm.next = mem.next /\ mm.prev = mem.prev /\ mm.freeChunks = mem.freeChunks

\* delete_from_add_list leaves all else as it was.
LEMMA UnlistIs ==
  ASSUME NEW mem, NEW L, NEW F, NEW A, Shape(mem, L, F, A), NEW n \in Node
  PROVE  \E B : /\ Shape(DeleteFromAddList(mem, n), L, F, B) /\ Range(B) = Range(A) \ {n}
                /\ SameNodes(mem, DeleteFromAddList(mem, n))
<1> DEFINE d == DeleteFromAddList(mem, n)
<1>1. /\ mem \in Segment /\ A \in Seq(Node) /\ Distinct(A) /\ InAddList(mem, A) /\ Range(A) \subseteq Linked(L)
      /\ mem.addNext \in [Node -> Handle] /\ mem.addPrev \in [Node -> Handle]
  BY ShapeTells
<1>2. PICK B \in Seq(Node) : Distinct(B) /\ Range(B) = Range(A) \ {n} /\ InAddList(d, B)
  BY <1>1, AddListOut
<1>3. SameNodes(mem, d)
  <2>1. mem.addNext[n] \in Handle /\ mem.addPrev[n] \in Handle
    BY <1>1
  <2> DEFINE nx == mem.addNext[n]
             pv == mem.addPrev[n]
             an == [x \in Node |-> IF x = n THEN INVALID ELSE IF x = pv THEN nx ELSE mem.addNext[x]]
             ap == [x \in Node |-> IF x = n THEN INVALID ELSE IF x = nx THEN pv ELSE mem.addPrev[x]]
             hd == IF mem.addHead = n THEN nx ELSE mem.addHead
             tl == IF mem.addTail = n THEN pv ELSE mem.addTail
  <2>2. an \in [Node -> Handle] /\ ap \in [Node -> Handle] /\ hd \in Handle /\ tl \in Handle
    BY <1>1, <2>1, NoNode DEF Segment
  <2>3. d = [mem EXCEPT !.addNext = an, !.addPrev = ap, !.addHead = hd, !.addTail = tl]
    BY DEF DeleteFromAddList
  <2> HIDE DEF an, ap, hd, tl, d
  <2> QED
    BY <1>1, <2>2, <2>3 DEF SameNodes, Segment
<1>4. Shape(d, L, F, B)
  <2>1. Range(B) \subseteq Linked(L)
    BY <1>1, <1>2
  <2>2. /\ d \in Segment /\ d.total = mem.total /\ d.bucket = mem.bucket /\ d.next = mem.next
        /\ d.free = mem.free /\ d.key = mem.key
    BY <1>3 DEF SameNodes
  <2> HIDE DEF d
  <2> QED
    BY <1>2, <2>1, <2>2, ShapeKept
<1> QED
  BY <1>2, <1>3, <1>4

\* insert_add_list_head leaves all else as it was, and the node is in the list of all.
LEMMA ForemostIs ==
  ASSUME NEW mem, NEW L, NEW F, NEW A, Shape(mem, L, F, A), NEW n \in Linked(L)
  PROVE  \E B : /\ Shape(InsertAddListHead(mem, n), L, F, B) /\ Range(B) = Range(A) \cup {n}
                /\ SameNodes(mem, InsertAddListHead(mem, n))
<1> DEFINE d == DeleteFromAddList(mem, n)
           e == InsertAddListHead(mem, n)
<1>0. n \in Node
  BY DEF Linked
<1>1. PICK D : Shape(d, L, F, D) /\ Range(D) = Range(A) \ {n} /\ SameNodes(mem, d)
  BY <1>0, UnlistIs
<1> DEFINE an == [d.addNext EXCEPT ![n] = d.addHead]
           ap == [x \in Node |-> IF x = d.addHead THEN n ELSE d.addPrev[x]]
           tl == IF d.addTail = INVALID THEN n ELSE d.addTail
<1>2. e = [d EXCEPT !.addNext = an, !.addPrev = ap, !.addHead = n, !.addTail = tl]
  BY DEF InsertAddListHead
<1> HIDE DEF d
<1>3. /\ d \in Segment /\ D \in Seq(Node) /\ Distinct(D) /\ InAddList(d, D) /\ Range(D) \subseteq Linked(L)
      /\ d.addNext \in [Node -> Handle] /\ d.addPrev \in [Node -> Handle] /\ Range(A) \subseteq Linked(L)
  BY <1>1, ShapeTells
<1>4. an \in [Node -> Handle] /\ ap \in [Node -> Handle] /\ n \in Handle /\ tl \in Handle
  BY <1>0, <1>3, NoNode DEF Segment
<1>5. an = [d.addNext EXCEPT ![n] = d.addHead]
      /\ ap = [x \in Node |-> IF x = d.addHead THEN n ELSE d.addPrev[x]]
      /\ tl = IF d.addTail = INVALID THEN n ELSE d.addTail
  OBVIOUS
<1> HIDE DEF e, an, ap, tl
<1>6. SameNodes(d, e) /\ e.addNext = an /\ e.addPrev = ap /\ e.addHead = n /\ e.addTail = tl
  BY <1>2, <1>3, <1>4 DEF SameNodes, Segment
<1> DEFINE B == <<n>> \o D
<1>7. B \in Seq(Node) /\ Distinct(B) /\ Range(B) = Range(D) \cup {n} /\ InAddList(e, B)
  <2>1. n \in Node \ Range(D)
    BY <1>0, <1>1
  <2>2. /\ e.addNext = [d.addNext EXCEPT ![n] = d.addHead]
        /\ e.addPrev = [x \in Node |-> IF x = d.addHead THEN n ELSE d.addPrev[x]]
        /\ e.addHead = n /\ e.addTail = IF d.addTail = INVALID THEN n ELSE d.addTail
    BY <1>5, <1>6
  <2> QED
    BY <1>3, <2>1, <2>2, AddListIn
<1> HIDE DEF B
<1>8. Shape(e, L, F, B)
  <2>1. Range(B) \subseteq Linked(L)
    BY <1>3, <1>7
  <2>2. /\ e \in Segment /\ e.total = d.total /\ e.bucket = d.bucket /\ e.next = d.next
        /\ e.free = d.free /\ e.key = d.key
    BY <1>6 DEF SameNodes
  <2> QED
    BY <1>1, <1>7, <2>1, <2>2, ShapeKept
<1>9. SameNodes(mem, e)
  BY <1>1, <1>6 DEF SameNodes
<1>10. Range(B) = Range(A) \cup {n}
  BY <1>1, <1>7
<1> QED
  BY <1>8, <1>9, <1>10 DEF e

-----------------------------------------------------------------------------
(* Searching and moving to the front. *)

\* The stacks are the same when the lists of the buckets are, and what their nodes contain.
LEMMA StacksKept ==
  ASSUME NEW mem, NEW mm, NEW L, NEW F, NEW A, NEW G, NEW B, Shape(mem, L, F, A), Shape(mm, L, G, B),
         \A n \in Linked(L) : mm.key[n] = mem.key[n] /\ mm.len[n] = mem.len[n] /\ mm.data[n] = mem.data[n]
  PROVE  StacksOf(mm) = StacksOf(mem)
<1>1. Typed(mem, L) /\ Typed(mm, L)
  BY ShapeTells
<1>2. Repr(mm, L) = Repr(mem, L)
  BY <1>1, ReprSame
<1> QED
  BY <1>2, ListsAre

\* The list of all may change.
LEMMA SameNodesKept ==
  ASSUME NEW mem, NEW mm, NEW L, NEW F, NEW A, NEW B, Shape(mem, L, F, A), Shape(mm, L, F, B), SameNodes(mem, mm)
  PROVE  StacksOf(mm) = StacksOf(mem)
<1>1. mm.key = mem.key /\ mm.len = mem.len /\ mm.data = mem.data
  BY DEF SameNodes
<1> QED
  BY <1>1, StacksKept

\* A node found is put first in the list of all, and nothing else changes.
LEMMA FrontIs ==
  ASSUME NEW mem, NEW L, NEW F, NEW A, NEW clean, Rests(mem, L, F, A, clean), NEW n \in Linked(L)
  PROVE  LET mm == InsertAddListHead(mem, n)
         IN /\ StacksOf(mm) = StacksOf(mem) /\ SameNodes(mem, mm)
            /\ \E B : Rests(mm, L, F, B, clean) /\ Range(B) = Range(A) \cup {n}
<1> DEFINE mm == InsertAddListHead(mem, n)
<1>1. Shape(mem, L, F, A) /\ PrevRight(mem, L, INVALID)
  BY DEF Rests
<1>2. PICK B : Shape(mm, L, F, B) /\ Range(B) = Range(A) \cup {n} /\ SameNodes(mem, mm)
  BY <1>1, ForemostIs
<1> HIDE DEF mm
<1>3. StacksOf(mm) = StacksOf(mem)
  BY <1>1, <1>2, SameNodesKept
<1>4. Rests(mm, L, F, B, clean)
  BY <1>1, <1>2 DEF Rests, SameNodes, PrevRight, Knows, Calm, Tally
<1> QED
  BY <1>2, <1>3, <1>4 DEF mm

\* What find_node and the move to the front do.
LEMMA FoundIs ==
  ASSUME NEW mem, NEW L, NEW F, NEW A, NEW clean, Rests(mem, L, F, A, clean), NEW k \in Key,
         NEW n, n = NodeOf(mem, k), NEW mm, mm = IF n = INVALID THEN mem ELSE InsertAddListHead(mem, n)
  PROVE  /\ StacksOf(mm) = StacksOf(mem)
         /\ n = INVALID => \A x \in Linked(L) : mem.key[x] # k
         /\ n # INVALID => n \in Linked(L)
         /\ \E B : /\ Rests(mm, L, F, B, clean)
                   /\ n # INVALID => n \in Range(B) /\ FirstOf(mm, L, k, n)
<1> DEFINE h == KeyNodes(mem, L, k)
<1>1. Shape(mem, L, F, A) /\ Typed(mem, L)
  BY ShapeTells DEF Rests
<1>2. n = IF h = <<>> THEN INVALID ELSE h[1]
  BY <1>1, ListsAre
<1>3. /\ h \in Seq(Node) /\ \A x \in Range(h) : x \in Linked(L)
      /\ \A x \in Range(L[GetBucketId(k)]) : mem.key[x] = k => x \in Range(h)
  BY <1>1, KeyNodesAre
<1>4. FirstOf(mem, L, k, n) <=> h # <<>> /\ h[1] = n
  BY DEF FirstOf, KeyNodes
<1> HIDE DEF h
<1>5. h # <<>> => 1 \in 1..Len(h) /\ h[1] \in Range(h) /\ h[1] \in Node
  BY <1>3, Somewhere
<1>6. CASE h = <<>>
  <2>1. n = INVALID /\ mm = mem
    BY <1>2, <1>6
  <2>2. Range(h) = {}
    <3>1. <<>> \in Seq(Node) /\ 1..Len(<<>>) = {}
      OBVIOUS
    <3>2. Range(<<>>) = {<<>>[i] : i \in 1..Len(<<>>)}
      BY <3>1, RangeEquality
    <3> QED
      BY <1>6, <3>1, <3>2
  <2>3. ASSUME NEW x \in Linked(L) PROVE mem.key[x] # k
    <3>1. x \in Range(ListOf(mem, L, x))
      BY <1>1, ShapeTells, InBucket DEF Typed
    <3> QED
      BY <1>3, <2>2, <3>1 DEF ListOf
  <2> QED
    BY <2>1, <2>3
<1>7. CASE h # <<>>
  <2>1. n = h[1] /\ n \in Linked(L) /\ n \in Node /\ n # INVALID /\ mm = InsertAddListHead(mem, n)
    BY <1>2, <1>3, <1>5, <1>7, NoNode
  <2>2. PICK B : Rests(mm, L, F, B, clean) /\ Range(B) = Range(A) \cup {n}
    BY <2>1, FrontIs
  <2>3. StacksOf(mm) = StacksOf(mem) /\ SameNodes(mem, mm)
    BY <2>1, FrontIs
  <2>4. FirstOf(mm, L, k, n)
    <3>1. FirstOf(mem, L, k, n)
      BY <1>4, <1>7, <2>1
    <3>2. mm.key = mem.key
      BY <2>3 DEF SameNodes
    <3> QED
      BY <3>1, <3>2 DEF FirstOf
  <2> QED
    BY <2>1, <2>2, <2>3, <2>4
<1> QED
  BY <1>6, <1>7

\* The process keeps the node, the operation and its arguments.
SameWork(w, ww) == ww.node = w.node /\ ww.op = w.op /\ ww.key = w.key /\ ww.val = w.val
Goes(w, ww, pc) == ww.pc = pc /\ SameWork(w, ww)

\* Find, Insert, SetValue and Delete begin.
LEMMA BeginStep ==
  ASSUME NEW mem, NEW w, NEW clean, Good(mem, w, clean), w.pc = "inside", NEW k \in Key,
         NEW mm, mm = IF NodeOf(mem, k) = INVALID THEN mem ELSE InsertAddListHead(mem, NodeOf(mem, k)),
         NEW ww
  PROVE  /\ StacksOf(mm) = StacksOf(mem)
         /\ ww.pc = "leave" => Good(mm, ww, clean)
         /\ ww.pc = "take" /\ ww.op = "insert" /\ ww.key \in Key /\ ww.val \in Value => Good(mem, ww, clean)
         /\ NodeOf(mem, k) = INVALID /\ ww.pc = "take" /\ ww.op = "set" /\ ww.key = k /\ ww.val \in Value =>
              Good(mm, ww, clean)
         /\ NodeOf(mem, k) # INVALID /\ ww.pc = "update" /\ ww.op = "set" /\ ww.key = k /\ ww.val \in Value
            /\ ww.node = NodeOf(mem, k) => Good(mm, ww, clean)
         /\ NodeOf(mem, k) # INVALID /\ ww.pc = "unlist" /\ ww.op = "delete" /\ ww.key = k
            /\ ww.node = NodeOf(mem, k) => Good(mm, ww, clean)
<1> DEFINE n == NodeOf(mem, k)
<1>1. w.pc \in RestPcs
  BY DEF RestPcs
<1>2. PICK L, F, A : Rests(mem, L, F, A, clean)
  BY <1>1, RestIs
<1>3. n = NodeOf(mem, k) /\ mm = IF n = INVALID THEN mem ELSE InsertAddListHead(mem, n)
  OBVIOUS
<1> HIDE DEF n
<1>4. /\ StacksOf(mm) = StacksOf(mem)
      /\ n = INVALID => \A x \in Linked(L) : mem.key[x] # k
      /\ \E B : /\ Rests(mm, L, F, B, clean)
                /\ n # INVALID => n \in Range(B) /\ FirstOf(mm, L, k, n)
  BY <1>2, <1>3, FoundIs
<1>5. PICK B : /\ Rests(mm, L, F, B, clean)
               /\ n # INVALID => n \in Range(B) /\ FirstOf(mm, L, k, n)
  BY <1>4
<1>6. ASSUME ww.pc = "leave" PROVE Good(mm, ww, clean)
  <2>1. ww.pc \in IdlePcs
    BY <1>6 DEF IdlePcs
  <2> QED
    BY <1>5, <2>1, IdleGood
<1>7. ASSUME ww.pc = "take", ww.op = "insert", ww.key \in Key, ww.val \in Value PROVE Good(mem, ww, clean)
  <2>1. Hand(mem, L, F, A, ww)
    BY <1>7 DEF Hand, InHand
  <2>9. ww.pc \in RestPcs
    BY <1>7 DEF RestPcs
  <2> QED
    BY <1>2, <2>1, <2>9, RestGood
<1>8. ASSUME n = INVALID, ww.pc = "take", ww.op = "set", ww.key = k, ww.val \in Value PROVE Good(mm, ww, clean)
  <2>1. mm = mem
    BY <1>3, <1>8
  <2>2. Hand(mm, L, F, B, ww)
    BY <1>4, <1>8, <2>1 DEF Hand, InHand
  <2>9. ww.pc \in RestPcs
    BY <1>8 DEF RestPcs
  <2> QED
    BY <1>5, <2>2, <2>9, RestGood
<1>9. ASSUME n # INVALID, ww.pc = "update", ww.op = "set", ww.key = k, ww.val \in Value, ww.node = n
      PROVE  Good(mm, ww, clean)
  <2>1. Hand(mm, L, F, B, ww)
    BY <1>5, <1>9 DEF Hand, InHand
  <2>9. ww.pc \in RestPcs
    BY <1>9 DEF RestPcs
  <2> QED
    BY <1>5, <2>1, <2>9, RestGood
<1>10. ASSUME n # INVALID, ww.pc = "unlist", ww.op = "delete", ww.key = k, ww.node = n
       PROVE  Good(mm, ww, clean)
  <2>1. Hand(mm, L, F, B, ww)
    BY <1>5, <1>10 DEF Hand, InHand
  <2>9. ww.pc \in RestPcs
    BY <1>10 DEF RestPcs
  <2> QED
    BY <1>5, <2>1, <2>9, RestGood
<1> QED
  BY <1>4, <1>6, <1>7, <1>8, <1>9, <1>10 DEF n

\* A walk begins or goes on; an entry is erased or changed, the walk ends.
LEMMA VisitStep ==
  ASSUME NEW mem, NEW w, NEW clean, Good(mem, w, clean), NEW ww
  PROVE  /\ w.pc = "inside" /\ ww.pc = "visit" /\ ww.op = "visit" /\ ww.node = mem.addHead => Good(mem, ww, clean)
         /\ w.pc = "visit" /\ w.node # INVALID /\ ww.pc = "visit" /\ ww.op = w.op /\ ww.node = mem.addNext[w.node] =>
              Good(mem, ww, clean)
         /\ w.pc = "visit" /\ w.node # INVALID /\ Goes(w, ww, "unlist") => Good(mem, ww, clean)
         /\ w.pc = "visit" /\ w.node # INVALID /\ ww.pc = "update" /\ ww.op = w.op /\ ww.node = w.node
            /\ ww.val \in Value => Good(mem, ww, clean)
<1> SUFFICES ASSUME w.pc \in {"inside", "visit"}
             PROVE  /\ w.pc = "inside" /\ ww.pc = "visit" /\ ww.op = "visit" /\ ww.node = mem.addHead =>
                         Good(mem, ww, clean)
                    /\ w.pc = "visit" /\ w.node # INVALID /\ ww.pc = "visit" /\ ww.op = w.op
                       /\ ww.node = mem.addNext[w.node] => Good(mem, ww, clean)
                    /\ w.pc = "visit" /\ w.node # INVALID /\ Goes(w, ww, "unlist") => Good(mem, ww, clean)
                    /\ w.pc = "visit" /\ w.node # INVALID /\ ww.pc = "update" /\ ww.op = w.op /\ ww.node = w.node
                       /\ ww.val \in Value => Good(mem, ww, clean)
  OBVIOUS
<1>1. w.pc \in RestPcs
  BY DEF RestPcs
<1>2. PICK L, F, A : Rests(mem, L, F, A, clean) /\ Hand(mem, L, F, A, w)
  BY <1>1, RestIs
<1>3. InAddList(mem, A) /\ A \in Seq(Node)
  BY <1>2, ShapeTells DEF Rests
<1>4. mem.addHead \in Range(A) \cup {INVALID} /\ \A n \in Range(A) : mem.addNext[n] \in Range(A) \cup {INVALID}
  <2>1. /\ mem.addHead = Nth(A, 1) /\ \A i \in 1..Len(A) : mem.addNext[A[i]] = Nth(A, i + 1)
    BY <1>3 DEF InAddList, Leads
  <2>2. \A i \in Int : Nth(A, i) \in Range(A) \cup {INVALID}
    BY <1>3, Somewhere DEF Nth
  <2>3. \A n \in Range(A) : \E i \in 1..Len(A) : A[i] = n
    BY <1>3, Somewhere
  <2>4. ASSUME NEW n \in Range(A) PROVE mem.addNext[n] \in Range(A) \cup {INVALID}
    <3>1. PICK i \in 1..Len(A) : A[i] = n
      BY <2>3
    <3>2. i + 1 \in Int
      OBVIOUS
    <3> QED
      BY <2>1, <2>2, <3>1, <3>2
  <2> QED
    BY <2>1, <2>2, <2>4
<1>5. w.pc = "visit" => w.node \in Range(A) \cup {INVALID} /\ w.op = "visit"
  BY <1>2 DEF Hand
<1>6. ASSUME Hand(mem, L, F, A, ww), ww.pc \in RestPcs PROVE Good(mem, ww, clean)
  BY <1>2, <1>6, RestGood
<1>7. ASSUME ww.pc = "visit", ww.op = "visit", ww.node \in Range(A) \cup {INVALID} PROVE Good(mem, ww, clean)
  <2>1. Hand(mem, L, F, A, ww)
    BY <1>7 DEF Hand, InHand
  <2> QED
    BY <1>6, <1>7, <2>1 DEF RestPcs
<1>8. ASSUME ww.pc = "unlist", ww.op = "visit", ww.node \in Range(A) PROVE Good(mem, ww, clean)
  <2>1. Hand(mem, L, F, A, ww)
    BY <1>8 DEF Hand, InHand
  <2> QED
    BY <1>6, <1>8, <2>1 DEF RestPcs
<1>9. ASSUME ww.pc = "update", ww.op = "visit", ww.node \in Range(A), ww.val \in Value PROVE Good(mem, ww, clean)
  <2>1. Hand(mem, L, F, A, ww)
    BY <1>9 DEF Hand, InHand
  <2> QED
    BY <1>6, <1>9, <2>1 DEF RestPcs
<1> QED
  BY <1>4, <1>5, <1>7, <1>8, <1>9 DEF Goes, SameWork

\* The process lets go of everything between two things.
LEMMA LetGo ==
  ASSUME NEW mem, NEW w, NEW clean, NEW ww, Good(mem, w, clean),
         ww.pc \in IdlePcs
  PROVE  /\ w.pc \in RestPcs => Good(mem, ww, clean)
         /\ w.pc \notin TornAt => Good(mem, ww, FALSE)
<1>2. PICK L, F, A : /\ Shape(mem, L, F, A) /\ PrevRight(mem, L, Hole(mem, w)) /\ Hand(mem, L, F, A, w)
                     /\ clean => Counts(mem, L, F, A, w)
  BY DEF Good
<1>4. ASSUME w.pc \in RestPcs PROVE Good(mem, ww, clean)
  <2>1. Rests(mem, L, F, A, clean)
    BY <1>2, <1>4, GoodAtRest
  <2> QED
    BY <2>1, IdleGood
<1>5. ASSUME w.pc \notin TornAt PROVE Good(mem, ww, FALSE)
  <2>1. Hole(mem, w) = INVALID
    BY <1>5 DEF Hole, TornAt
  <2>2. Rests(mem, L, F, A, FALSE)
    BY <1>2, <2>1 DEF Rests
  <2> QED
    BY <2>2, IdleGood
<1> QED
  BY <1>4, <1>5

-----------------------------------------------------------------------------
(* Inserting. *)

\* Nothing changes in the list of all.
SameAll(mem, mm) ==
  /\ mm \in Segment /\ mm.total = mem.total
  /\ mm.addHead = mem.addHead /\ mm.addTail = mem.addTail
  /\ \A n \in Node : mm.addNext[n] = mem.addNext[n] /\ mm.addPrev[n] = mem.addPrev[n]

\* The list of all stays as it is when its links do.
LEMMA AllKept ==
  ASSUME NEW mem, NEW mm, NEW A \in Seq(Node), InAddList(mem, A), SameAll(mem, mm)
  PROVE  InAddList(mm, A)
<1>1. \A x \in Range(A) : x \in Node
  BY Somewhere
<1>2. Leads(mm.addHead, mm.addNext, A) /\ Backs(mm.addTail, mm.addPrev, A)
  BY <1>1, LeadsKept, BacksKept DEF InAddList, SameAll
<1> QED
  BY <1>2 DEF InAddList, SameAll

\* The shape stays while the buckets do, with another list of free nodes.
LEMMA ShapeFree ==
  ASSUME NEW mem, NEW mm, NEW L, NEW F, NEW A, NEW G, Shape(mem, L, F, A), SameAll(mem, mm),
         mm.bucket = mem.bucket, \A n \in Linked(L) : mm.next[n] = mem.next[n] /\ mm.key[n] = mem.key[n],
         G \in Seq(Node), Distinct(G), Range(G) \cap Linked(L) = {}, Leads(mm.free, mm.next, G)
  PROVE  Shape(mm, L, G, A)
<1>1. Placed(L, G, A)
  BY DEF Shape, Placed
<1>2. ASSUME NEW b \in Bucket
      PROVE  /\ Leads(mm.bucket[b], mm.next, L[b])
             /\ \A n \in Range(L[b]) : GetBucketId(mm.key[n]) = b
  <2>1. /\ Leads(mem.bucket[b], mem.next, L[b]) /\ L[b] \in Seq(Node)
        /\ \A n \in Range(L[b]) : GetBucketId(mem.key[n]) = b
    BY DEF Shape, Buckets, Placed
  <2>2. \A n \in Range(L[b]) : n \in Linked(L)
    BY OfBucket DEF Shape, Placed
  <2>3. Leads(mm.bucket[b], mm.next, L[b])
    BY <2>1, <2>2, LeadsKept
  <2> QED
    BY <2>1, <2>2, <2>3
<1>3. Buckets(mm, L)
  BY <1>2 DEF Buckets
<1>4. InAddList(mm, A)
  BY ShapeTells, AllKept
<1>5. mm \in Segment /\ mm.total = NodeTotal
  BY DEF Shape, SameAll
<1> QED
  BY <1>1, <1>3, <1>4, <1>5 DEF Shape

\* The nodes of the buckets know who comes before them as they did.
LEMMA PrevKept ==
  ASSUME NEW mem, NEW mm, NEW L \in [Bucket -> Seq(Node)], NEW x, PrevRight(mem, L, x),
         \A n \in Linked(L) : mm.prev[n] = mem.prev[n]
  PROVE  PrevRight(mm, L, x)
BY OfBucket DEF PrevRight, Knows

\* Take: the first free node is in the hand of the process.
LEMMA TakeStep ==
  ASSUME NEW mem, NEW w, NEW clean, Good(mem, w, clean), w.pc = "take", mem.free # INVALID,
         NEW ww, ww.pc = "malloc", ww.node = mem.free, ww.op = w.op, ww.key = w.key, ww.val = w.val
  PROVE  Good(FreeListRemove(mem), ww, clean) /\ StacksOf(FreeListRemove(mem)) = StacksOf(mem)
<1> DEFINE mm == FreeListRemove(mem)
           n == mem.free
<1>0. w.pc \in RestPcs
  BY DEF RestPcs
<1>1. PICK L, F, A : Rests(mem, L, F, A, clean) /\ Hand(mem, L, F, A, w)
  BY <1>0, RestIs
<1>2. Shape(mem, L, F, A) /\ PrevRight(mem, L, INVALID) /\ (clean => Calm(mem, L, F, A))
  BY <1>1 DEF Rests
<1>3. /\ mem \in Segment /\ mem.next \in [Node -> Handle] /\ F \in Seq(Node) /\ Distinct(F)
      /\ L \in [Bucket -> Seq(Node)] /\ Linked(L) \subseteq Node
      /\ Range(F) \cap Linked(L) = {} /\ Leads(mem.free, mem.next, F)
  BY <1>2, ShapeTells DEF Typed
<1>4. n = F[1] /\ 1 \in 1..Len(F) /\ n \in Node /\ n \in Range(F)
  <2>1. n = Nth(F, 1)
    BY <1>3 DEF Leads
  <2>2. 1 \in 1..Len(F)
    BY <2>1 DEF Nth
  <2> QED
    BY <1>3, <2>1, <2>2, Somewhere DEF Nth
<1>5. /\ mm.next = [mem.next EXCEPT ![n] = INVALID] /\ mm.free = mem.next[n]
      /\ SameAll(mem, mm) /\ mm.bucket = mem.bucket /\ mm.key = mem.key /\ mm.prev = mem.prev
      /\ mm.len = mem.len /\ mm.data = mem.data /\ mm.used = mem.used /\ mm.usedBuckets = mem.usedBuckets
      /\ mm.freeChunks = mem.freeChunks
  <2> DEFINE nx == [mem.next EXCEPT ![n] = INVALID]
             fr == mem.next[n]
  <2>1. nx \in [Node -> Handle] /\ fr \in Handle
    BY <1>3, <1>4, NoNode
  <2>2. mm = [mem EXCEPT !.free = fr, !.next = nx]
    BY DEF FreeListRemove
  <2> HIDE DEF mm, nx, fr, n
  <2>3. mm \in Segment /\ mm.next = nx /\ mm.free = fr
    BY <1>3, <2>1, <2>2 DEF Segment
  <2>4. SameAll(mem, mm)
    BY <1>3, <2>2, <2>3 DEF SameAll, Segment
  <2> QED
    BY <1>3, <2>2, <2>3, <2>4 DEF Segment, nx, fr
<1> DEFINE G == RemoveAt(F, 1)
<1>6. G \in Seq(Node) /\ Distinct(G) /\ Range(G) = Range(F) \ {n}
  BY <1>3, <1>4, Cut
<1> HIDE DEF mm, G
<1>7. Leads(mm.free, mm.next, G)
  <2> DEFINE link2 == mm.next
             link == mem.next
  <2>1. Passed(link, link2, F, 1, -1)
    <3>1. 1 + (-1) \notin 1..Len(F)
      OBVIOUS
    <3>2. ASSUME NEW j \in 1..Len(F), j # 1 PROVE link2[F[j]] = link[F[j]]
      <4>1. F[j] # n /\ F[j] \in Node
        BY <1>3, <1>4, <3>2, Somewhere DEF Distinct
      <4> QED
        BY <1>3, <1>5, <4>1
    <3> QED
      BY <3>1, <3>2 DEF Passed
  <2>2. Nth(F, 2) = mm.free
    BY <1>3, <1>4, <1>5 DEF Leads
  <2> HIDE DEF link2, link
  <2>3. Leads(Nth(F, 2), link2, G)
    <3>1. Leads(mem.free, link, F)
      BY <1>3 DEF link
    <3>2. Leads(IF 1 = 1 THEN Nth(F, 2) ELSE mem.free, link2, RemoveAt(F, 1))
      BY <1>3, <1>4, <2>1, <3>1, LeadsCut
    <3> QED
      BY <3>2 DEF G
  <2> QED
    BY <2>2, <2>3 DEF link2
<1>8. \A x \in Linked(L) : x # n /\ x \in Node
  BY <1>3, <1>4
<1>9. Shape(mm, L, G, A)
  <2>1. \A x \in Linked(L) : mm.next[x] = mem.next[x] /\ mm.key[x] = mem.key[x]
    BY <1>3, <1>5, <1>8
  <2>2. Range(G) \cap Linked(L) = {}
    BY <1>3, <1>6
  <2> QED
    BY <1>2, <1>5, <1>6, <1>7, <2>1, <2>2, ShapeFree
<1>10. PrevRight(mm, L, Hole(mm, ww))
  <2>1. Hole(mm, ww) = INVALID
    BY DEF Hole
  <2> QED
    BY <1>2, <1>5, <2>1 DEF PrevRight, Knows
<1>11. Hand(mm, L, G, A, ww)
  <2>1. n \in Node \ (Linked(L) \cup Range(G))
    BY <1>4, <1>6, <1>8
  <2>2. /\ ww.op \in {"insert", "set"} /\ ww.key \in Key /\ ww.val \in Value
        /\ ww.op = "set" => \A x \in Linked(L) : mm.key[x] # ww.key
    BY <1>1, <1>5 DEF Hand
  <2> HIDE DEF n
  <2> QED
    BY <2>1, <2>2 DEF Hand, InHand, n
<1>12. clean => Counts(mm, L, G, A, ww)
  <2> SUFFICES ASSUME clean PROVE Counts(mm, L, G, A, ww)
    OBVIOUS
  <2>1. Calm(mem, L, F, A)
    BY <1>2
  <2>2. Tally(mm, L, G, A, {n}, Linked(L), {}, Nonempty(L), mm.len, {})
    BY <1>5, <1>6, <2>1 DEF Calm, Tally
  <2> QED
    BY <2>2, CountsAre
<1>13. StacksOf(mm) = StacksOf(mem)
  BY <1>2, <1>5, <1>9, StacksKept
<1>14. Good(mm, ww, clean)
  BY <1>9, <1>10, <1>11, <1>12 DEF Good
<1> QED
  BY <1>13, <1>14 DEF mm

\* A node in hand becomes the first free one.
LEMMA FreedIs ==
  ASSUME NEW mem, NEW L, NEW F, NEW A, Shape(mem, L, F, A), NEW n \in Node \ (Linked(L) \cup Range(F))
  PROVE  LET mm == FreeListInsert(mem, n)
         IN /\ Shape(mm, L, <<n>> \o F, A) /\ Range(<<n>> \o F) = Range(F) \cup {n}
            /\ mm.bucket = mem.bucket /\ mm.key = mem.key /\ mm.prev = mem.prev
            /\ mm.len = mem.len /\ mm.data = mem.data /\ mm.used = mem.used /\ mm.usedBuckets = mem.usedBuckets
            /\ mm.freeChunks = mem.freeChunks
            /\ StacksOf(mm) = StacksOf(mem)
<1> DEFINE mm == FreeListInsert(mem, n)
           G == <<n>> \o F
<1>3. /\ mem \in Segment /\ mem.next \in [Node -> Handle] /\ F \in Seq(Node) /\ Distinct(F)
      /\ L \in [Bucket -> Seq(Node)] /\ Linked(L) \subseteq Node /\ mem.free \in Handle
      /\ Range(F) \cap Linked(L) = {} /\ Leads(mem.free, mem.next, F)
  BY ShapeTells DEF Typed
<1>5. /\ mm.next = [mem.next EXCEPT ![n] = mem.free] /\ mm.free = n
      /\ SameAll(mem, mm) /\ mm.bucket = mem.bucket /\ mm.key = mem.key /\ mm.prev = mem.prev
      /\ mm.len = mem.len /\ mm.data = mem.data /\ mm.used = mem.used /\ mm.usedBuckets = mem.usedBuckets
      /\ mm.freeChunks = mem.freeChunks
  <2> DEFINE nx == [mem.next EXCEPT ![n] = mem.free]
  <2>1. nx \in [Node -> Handle] /\ n \in Handle
    BY <1>3, NoNode
  <2>2. mm = [mem EXCEPT !.next = nx, !.free = n]
    BY DEF FreeListInsert
  <2> HIDE DEF mm, nx
  <2>3. mm \in Segment /\ mm.next = nx /\ mm.free = n
    BY <1>3, <2>1, <2>2 DEF Segment
  <2>4. SameAll(mem, mm)
    BY <1>3, <2>2, <2>3 DEF SameAll, Segment
  <2> QED
    BY <1>3, <2>2, <2>3, <2>4 DEF Segment, nx
<1>6. G \in Seq(Node) /\ Distinct(G) /\ Range(G) = Range(F) \cup {n}
  BY <1>3, Pushed
<1> HIDE DEF mm
<1>7. Leads(mm.free, mm.next, G)
  <2> DEFINE link2 == mm.next
             link == mem.next
             first == mem.free
  <2>1. link2[n] = first /\ \A x \in Range(F) : link2[x] = link[x]
    BY <1>3, <1>5, Somewhere
  <2>2. Leads(first, link, F) /\ n \in Node \ Range(F)
    BY <1>3
  <2> HIDE DEF link2, link, first
  <2>3. Leads(n, link2, <<n>> \o F)
    BY <1>3, <2>1, <2>2, LeadsPushed
  <2> QED
    BY <1>5, <2>3 DEF link2
<1> HIDE DEF G
<1>9. Shape(mm, L, G, A)
  <2>1. \A x \in Linked(L) : mm.next[x] = mem.next[x] /\ mm.key[x] = mem.key[x]
    BY <1>3, <1>5
  <2>2. Range(G) \cap Linked(L) = {}
    BY <1>3, <1>6
  <2> QED
    BY <1>5, <1>6, <1>7, <2>1, <2>2, ShapeFree
<1>10. StacksOf(mm) = StacksOf(mem)
  BY <1>5, <1>9, StacksKept
<1> QED
  BY <1>5, <1>6, <1>9, <1>10 DEF mm, G

\* MallocChunks: the node goes back, or the chunks it is to have are no longer free.
LEMMA MallocStep ==
  ASSUME NEW mem, NEW w, NEW clean, Good(mem, w, clean), w.pc = "malloc", NEW ww
  PROVE  /\ ww.pc = "leave" => Good(FreeListInsert(mem, w.node), ww, clean)
         /\ StacksOf(FreeListInsert(mem, w.node)) = StacksOf(mem)
         /\ Goes(w, ww, "use") => Good([mem EXCEPT !.freeChunks = @ - w.val[1]], ww, clean)
         /\ StacksOf([mem EXCEPT !.freeChunks = @ - w.val[1]]) = StacksOf(mem)
<1> DEFINE n == w.node
           m1 == FreeListInsert(mem, n)
           m2 == [mem EXCEPT !.freeChunks = @ - w.val[1]]
<1>1. PICK L, F, A : /\ Shape(mem, L, F, A) /\ PrevRight(mem, L, Hole(mem, w)) /\ Hand(mem, L, F, A, w)
                     /\ clean => Counts(mem, L, F, A, w)
  BY DEF Good
<1>2. /\ n \in Node \ (Linked(L) \cup Range(F)) /\ w.op \in {"insert", "set"} /\ w.key \in Key /\ w.val \in Value
      /\ w.op = "set" => \A x \in Linked(L) : mem.key[x] # w.key
  BY <1>1 DEF Hand, InHand
<1>3. Hole(mem, w) = INVALID
  BY DEF Hole
<1>4. clean => Tally(mem, L, F, A, {n}, Linked(L), {}, Nonempty(L), mem.len, {})
  BY <1>1, CountsAre
<1>5. mem \in Segment /\ mem.len \in [Node -> Nat] /\ A \in Seq(Node) /\ L \in [Bucket -> Seq(Node)]
      /\ F \in Seq(Node) /\ Distinct(F) /\ Range(F) \cap Linked(L) = {} /\ Leads(mem.free, mem.next, F)
  BY <1>1, ShapeTells DEF Typed
<1>6. StacksOf(m1) = StacksOf(mem)
  <2> HIDE DEF n
  <2>1. n \in Node \ (Linked(L) \cup Range(F))
    BY <1>2
  <2>2. Shape(FreeListInsert(mem, n), L, <<n>> \o F, A) /\ StacksOf(FreeListInsert(mem, n)) = StacksOf(mem)
    BY <1>1, <2>1, FreedIs
  <2> QED
    BY <2>2
<1>7. ASSUME ww.pc = "leave" PROVE Good(m1, ww, clean)
  <2> DEFINE G == <<n>> \o F
  <2>1. /\ Shape(m1, L, G, A) /\ Range(G) = Range(F) \cup {n}
        /\ m1.prev = mem.prev /\ m1.len = mem.len /\ m1.used = mem.used
        /\ m1.usedBuckets = mem.usedBuckets /\ m1.freeChunks = mem.freeChunks
    BY <1>1, <1>2, FreedIs
  <2> HIDE DEF m1, G
  <2>2. PrevRight(m1, L, INVALID)
    BY <1>1, <1>3, <2>1 DEF PrevRight, Knows
  <2>3. clean => Calm(m1, L, G, A)
    BY <1>4, <2>1 DEF Calm, Tally
  <2>4. Rests(m1, L, G, A, clean)
    BY <2>1, <2>2, <2>3 DEF Rests
  <2>5. ww.pc \in IdlePcs
    BY <1>7 DEF IdlePcs
  <2> QED
    BY <2>4, <2>5, IdleGood
<1>8. /\ SameAll(mem, m2) /\ m2.bucket = mem.bucket /\ m2.free = mem.free /\ m2.next = mem.next /\ m2.prev = mem.prev
      /\ m2.key = mem.key /\ m2.len = mem.len /\ m2.data = mem.data
      /\ m2.used = mem.used /\ m2.usedBuckets = mem.usedBuckets
      /\ m2.freeChunks = mem.freeChunks - w.val[1] /\ w.val[1] \in Nat
  <2>1. w.val[1] \in Nat
    BY <1>2, ValueAssumption
  <2> DEFINE fc == mem.freeChunks - w.val[1]
  <2>2. fc \in Int
    BY <1>5, <2>1 DEF Segment
  <2>3. m2 = [mem EXCEPT !.freeChunks = fc]
    OBVIOUS
  <2>4. fc = mem.freeChunks - w.val[1]
    OBVIOUS
  <2> HIDE DEF m2, fc
  <2>5. m2 \in Segment
    BY <1>5, <2>2, <2>3 DEF Segment
  <2>6. SameAll(mem, m2)
    BY <1>5, <2>3, <2>5 DEF SameAll, Segment
  <2> QED
    BY <1>5, <2>1, <2>3, <2>4, <2>6 DEF Segment
<1> HIDE DEF m2
<1>9. Shape(m2, L, F, A)
  BY <1>1, <1>5, <1>8, ShapeFree
<1>10. StacksOf(m2) = StacksOf(mem)
  BY <1>1, <1>8, <1>9, StacksKept
<1>11. ASSUME Goes(w, ww, "use") PROVE Good(m2, ww, clean)
  <2>1. ww.pc = "use" /\ ww.node = n /\ ww.op = w.op /\ ww.key = w.key /\ ww.val = w.val
    BY <1>11 DEF Goes, SameWork
  <2>2. PrevRight(m2, L, Hole(m2, ww))
    <3>1. Hole(m2, ww) = INVALID
      BY <2>1 DEF Hole
    <3> QED
      BY <1>1, <1>3, <1>8, <3>1 DEF PrevRight, Knows
  <2>3. Hand(m2, L, F, A, ww)
    <3>1. ww.node \in Node \ (Linked(L) \cup Range(F))
      BY <1>2, <2>1
    <3>2. /\ ww.op \in {"insert", "set"} /\ ww.key \in Key /\ ww.val \in Value
          /\ ww.op = "set" => \A x \in Linked(L) : m2.key[x] # ww.key
      BY <1>2, <1>8, <2>1
    <3> QED
      BY <2>1, <3>1, <3>2 DEF Hand, InHand
  <2>4. ASSUME clean PROVE Counts(m2, L, F, A, ww)
    <3> DEFINE f == [mem.len EXCEPT ![n] = w.val[1]]
    <3>1. f \in [Node -> Nat] /\ f[n] = w.val[1] /\ \A x \in Node : x # n => f[x] = mem.len[x]
      BY <1>2, <1>5, <1>8
    <3>2. mem.len[n] = 0
      BY <1>2, <1>4, <2>4 DEF Tally
    <3> HIDE DEF f
    <3>3. Cardinality(Chunks(mem.len)) \in Nat /\ Cardinality(Chunks(f)) = Cardinality(Chunks(mem.len)) + w.val[1]
      <4> DEFINE ln == mem.len
                 a == Cardinality(Chunks(ln))
      <4>1. ln \in [Node -> Nat] /\ ln[n] = 0 /\ n \in Node /\ \A x \in Node : x # n => f[x] = ln[x]
        BY <1>2, <1>5, <3>1, <3>2
      <4> HIDE DEF ln, n
      <4>2. a \in Nat /\ Cardinality(Chunks(f)) = (a - ln[n]) + f[n]
        BY <3>1, <4>1, ChunksChanged
      <4> HIDE DEF a
      <4>3. Cardinality(Chunks(f)) = a + w.val[1]
        BY <1>8, <3>1, <4>1, <4>2
      <4> QED
        BY <4>2, <4>3 DEF a, ln
    <3>4. mem.freeChunks \in Int /\ mem.freeChunks + Cardinality(Chunks(mem.len)) = ChunkTotal
      BY <1>4, <1>5, <2>4 DEF Tally, Segment
    <3>5. m2.freeChunks + Cardinality(Chunks(f)) = ChunkTotal
      BY <1>8, <3>3, <3>4
    <3>6. Tally(m2, L, F, A, {n}, Linked(L), {}, Nonempty(L), f, {})
      BY <1>4, <1>8, <2>4, <3>5 DEF Tally
    <3>7. f = [m2.len EXCEPT ![ww.node] = ww.val[1]]
      BY <1>8, <2>1 DEF f
    <3> QED
      BY <2>1, <3>6, <3>7, CountsAre
  <2> QED
    BY <1>9, <2>2, <2>3, <2>4 DEF Good
<1> QED
  BY <1>6, <1>7, <1>10, <1>11 DEF m2

\* Use: the node has its key, its chunks and its content, and its bucket is counted.
LEMMA UseStep ==
  ASSUME NEW mem, NEW w, NEW clean, Good(mem, w, clean), w.pc = "use", NEW ww, ww.pc = "link", SameWork(w, ww)
  PROVE  LET mm == UseNode(mem, w.node, w.key, w.val)
         IN Good(mm, ww, clean) /\ StacksOf(mm) = StacksOf(mem)
<1> DEFINE n == w.node
           mm == UseNode(mem, n, w.key, w.val)
           b == GetBucketId(w.key)
<1>1. PICK L, F, A : /\ Shape(mem, L, F, A) /\ PrevRight(mem, L, Hole(mem, w)) /\ Hand(mem, L, F, A, w)
                     /\ clean => Counts(mem, L, F, A, w)
  BY DEF Good
<1>2. /\ n \in Node \ (Linked(L) \cup Range(F)) /\ w.op \in {"insert", "set"} /\ w.key \in Key /\ w.val \in Value
      /\ w.op = "set" => \A x \in Linked(L) : mem.key[x] # w.key
  BY <1>1 DEF Hand, InHand
<1>3. Hole(mem, w) = INVALID
  BY DEF Hole
<1>4. clean => Tally(mem, L, F, A, {n}, Linked(L), {}, Nonempty(L), [mem.len EXCEPT ![n] = w.val[1]], {})
  BY <1>1, CountsAre
<1>5. mem \in Segment /\ A \in Seq(Node) /\ L \in [Bucket -> Seq(Node)]
      /\ mem.len \in [Node -> Nat] /\ mem.key \in [Node -> Key] /\ mem.data \in [Node -> Datum]
      /\ F \in Seq(Node) /\ Distinct(F) /\ Range(F) \cap Linked(L) = {} /\ Leads(mem.free, mem.next, F)
  BY <1>1, ShapeTells DEF Typed
<1>6. w.val = <<w.val[1], w.val[2]>> /\ w.val[1] \in Nat /\ w.val[2] \in Datum
  BY <1>2, ValueAssumption DEF Datum
<1>7. b \in Bucket /\ BucketList(mem, b) = L[b]
  BY <1>1, <1>2, BucketOf, ListsAre
<1>8. /\ SameAll(mem, mm) /\ mm.bucket = mem.bucket /\ mm.free = mem.free /\ mm.next = mem.next /\ mm.prev = mem.prev
      /\ mm.key = [mem.key EXCEPT ![n] = w.key]
      /\ mm.len = [mem.len EXCEPT ![n] = w.val[1]] /\ mm.data = [mem.data EXCEPT ![n] = w.val[2]]
      /\ mm.used = mem.used /\ mm.usedBuckets = (IF L[b] = <<>> THEN mem.usedBuckets + 1 ELSE mem.usedBuckets)
      /\ mm.freeChunks = mem.freeChunks
  <2> DEFINE ky == [mem.key EXCEPT ![n] = w.key]
             ln == [mem.len EXCEPT ![n] = w.val[1]]
             dt == [mem.data EXCEPT ![n] = w.val[2]]
             ub == IF L[b] = <<>> THEN mem.usedBuckets + 1 ELSE mem.usedBuckets
  <2>1. ky \in [Node -> Key] /\ ln \in [Node -> Nat] /\ dt \in [Node -> Datum] /\ ub \in Int
    BY <1>2, <1>5, <1>6 DEF Segment
  <2>2. mm = [mem EXCEPT !.key = ky, !.len = ln, !.data = dt, !.usedBuckets = ub]
    BY <1>7 DEF UseNode
  <2>3. ky = [mem.key EXCEPT ![n] = w.key] /\ ln = [mem.len EXCEPT ![n] = w.val[1]]
        /\ dt = [mem.data EXCEPT ![n] = w.val[2]] /\ ub = IF L[b] = <<>> THEN mem.usedBuckets + 1 ELSE mem.usedBuckets
    OBVIOUS
  <2> HIDE DEF mm, ky, ln, dt, ub, n, b
  <2>5. mm \in Segment
    BY <1>5, <2>1, <2>2 DEF Segment
  <2>6. SameAll(mem, mm)
    BY <1>5, <2>2, <2>5 DEF SameAll, Segment
  <2> QED
    BY <1>5, <2>2, <2>3, <2>6 DEF Segment
<1> HIDE DEF mm
<1>9. \A x \in Linked(L) : mm.key[x] = mem.key[x] /\ mm.len[x] = mem.len[x] /\ mm.data[x] = mem.data[x]
  <2>1. \A x \in Linked(L) : x \in Node /\ x # n
    BY <1>2 DEF Linked
  <2> QED
    BY <1>5, <1>8, <2>1
<1>10. Shape(mm, L, F, A)
  BY <1>1, <1>5, <1>8, <1>9, ShapeFree
<1>11. StacksOf(mm) = StacksOf(mem)
  BY <1>1, <1>9, <1>10, StacksKept
<1>12. ww.pc = "link" /\ ww.node = n /\ ww.op = w.op /\ ww.key = w.key /\ ww.val = w.val
  BY DEF Goes, SameWork
<1>13. PrevRight(mm, L, Hole(mm, ww))
  <2>1. Hole(mm, ww) = INVALID
    BY <1>12 DEF Hole
  <2> QED
    BY <1>1, <1>3, <1>8, <2>1 DEF PrevRight, Knows
<1>14. mm.key[n] = w.key /\ mm.len[n] = w.val[1] /\ mm.data[n] = w.val[2]
  BY <1>2, <1>5, <1>8
<1>15. Hand(mm, L, F, A, ww)
  <2>1. ww.node \in Node \ (Linked(L) \cup Range(F))
    BY <1>2, <1>12
  <2>2. /\ ww.op \in {"insert", "set"} /\ ww.key \in Key /\ ww.val \in Value
        /\ ww.op = "set" => \A x \in Linked(L) : mm.key[x] # ww.key
    BY <1>2, <1>9, <1>12
  <2>3. mm.key[ww.node] = ww.key /\ <<mm.len[ww.node], mm.data[ww.node]>> = ww.val
    BY <1>6, <1>12, <1>14
  <2> QED
    BY <1>12, <2>1, <2>2, <2>3 DEF Hand, InHand
<1>16. ASSUME clean PROVE Counts(mm, L, F, A, ww)
  <2>0. Tally(mem, L, F, A, {n}, Linked(L), {}, Nonempty(L), [mem.len EXCEPT ![n] = w.val[1]], {})
    BY <1>4, <1>16
  <2> HIDE DEF n, b
  <2>1. mm.usedBuckets = Cardinality(Nonempty(L) \cup {b})
    <3>1. Nonempty(L) \in SUBSET Bucket /\ (b \in Nonempty(L) <=> L[b] # <<>>)
      BY <1>7 DEF Nonempty
    <3>2. mem.usedBuckets = Cardinality(Nonempty(L))
      BY <2>0 DEF Tally
    <3> DEFINE Ne == Nonempty(L)
    <3>3. Ne \in SUBSET Bucket /\ mem.usedBuckets = Cardinality(Ne) /\ (b \in Ne <=> L[b] # <<>>)
      BY <3>1, <3>2
    <3> HIDE DEF Ne
    <3>4. Cardinality(Ne \cup {b}) = IF b \in Ne THEN Cardinality(Ne) ELSE Cardinality(Ne) + 1
      BY <1>7, <3>3, BucketSetCounted
    <3> QED
      BY <1>8, <3>3, <3>4 DEF Ne
  <2>2. \A x \in Node \ (Linked(L) \cup {n}) : mm.len[x] = 0
    BY <1>5, <1>8, <2>0 DEF Tally
  <2>3. Tally(mm, L, F, A, {n}, Linked(L), {}, Nonempty(L) \cup {b}, mm.len, {n})
    BY <1>8, <2>0, <2>1, <2>2 DEF Tally
  <2>4. b = GetBucketId(mm.key[ww.node]) /\ ww.node = n /\ ww.pc \in {"link", "empty"}
    BY <1>12, <1>14 DEF b
  <2> QED
    BY <2>3, <2>4, CountsAre
<1>17. Good(mm, ww, clean)
  BY <1>10, <1>13, <1>15, <1>16 DEF Good
<1> QED
  BY <1>11, <1>17 DEF mm

\* One bucket is changed.
LEMMA ShapeBucket ==
  ASSUME NEW mem, NEW mm, NEW L, NEW F, NEW A, NEW M, Shape(mem, L, F, A), SameAll(mem, mm),
         mm.key = mem.key, NEW b \in Bucket, M \in [Bucket -> Seq(Node)],
         \A c \in Bucket : c # b => M[c] = L[c] /\ mm.bucket[c] = mem.bucket[c],
         \A c \in Bucket : c # b => \A x \in Range(L[c]) : mm.next[x] = mem.next[x],
         Distinct(M[b]), Leads(mm.bucket[b], mm.next, M[b]),
         \A x \in Range(M[b]) : GetBucketId(mem.key[x]) = b,
         Range(F) \cap Linked(M) = {}, Range(A) \subseteq Linked(M), Leads(mm.free, mm.next, F)
  PROVE  Shape(mm, M, F, A)
<1>1. Placed(M, F, A)
  <2>1. \A c \in Bucket : Distinct(M[c])
    BY DEF Shape, Placed
  <2> QED
    BY <2>1 DEF Shape, Placed
<1>2. ASSUME NEW c \in Bucket
      PROVE  /\ Leads(mm.bucket[c], mm.next, M[c])
             /\ \A x \in Range(M[c]) : GetBucketId(mm.key[x]) = c
  <2>1. CASE c = b
    BY <2>1
  <2>2. CASE c # b
    <3>1. /\ Leads(mem.bucket[c], mem.next, L[c]) /\ L[c] \in Seq(Node)
          /\ \A x \in Range(L[c]) : GetBucketId(mem.key[x]) = c
      BY DEF Shape, Buckets, Placed
    <3>2. M[c] = L[c] /\ mm.bucket[c] = mem.bucket[c] /\ \A x \in Range(L[c]) : mm.next[x] = mem.next[x]
      BY <2>2
    <3>3. Leads(mem.bucket[c], mm.next, L[c])
      BY <3>1, <3>2, LeadsKept
    <3> QED
      BY <3>1, <3>2, <3>3
  <2> QED
    BY <2>1, <2>2
<1>3. Buckets(mm, M)
  BY <1>2 DEF Buckets
<1>4. InAddList(mm, A)
  BY ShapeTells, AllKept
<1>5. mm \in Segment /\ mm.total = NodeTotal
  BY DEF Shape, SameAll
<1> QED
  BY <1>1, <1>3, <1>4, <1>5 DEF Shape

\* A node put first in its bucket has its value pushed.
LEMMA PushedIs ==
  ASSUME NEW mem, NEW mm, NEW L, NEW F, NEW A, NEW N, NEW G, NEW B, Shape(mem, L, F, A), Shape(mm, N, G, B),
         NEW n \in Node, PushedTo(L, GetBucketId(mem.key[n]), n, N),
         mm.key = mem.key, mm.len = mem.len, mm.data = mem.data
  PROVE  StacksOf(mm) = PushOn(StacksOf(mem), mem.key[n], ValueOf(mem, n))
<1>1. Typed(mem, L)
  BY ShapeTells
<1>2. Repr(mm, N) = PushOn(Repr(mem, L), mem.key[n], ValueOf(mem, n))
  BY <1>1, ReprPush
<1>3. StacksOf(mm) = Repr(mm, N) /\ StacksOf(mem) = Repr(mem, L)
  BY ListsAre
<1> QED
  BY <1>2, <1>3

\* The node is linked to by its bucket.
LEMMA LinkStep ==
  ASSUME NEW mem, NEW w, NEW clean, Good(mem, w, clean), w.pc = "link", NEW ww, ww.pc = "linkOn", SameWork(w, ww)
  PROVE  LET mm == Link1(mem, w.node)
         IN /\ Good(mm, ww, clean)
            /\ w.key \in Key /\ StacksOf(mm) = PushOn(StacksOf(mem), w.key, w.val)
            /\ w.op \in {"insert", "set"} /\ (w.op = "set" => StacksOf(mem)[w.key] = <<>>)
<1> DEFINE n == w.node
           mm == Link1(mem, n)
           b == GetBucketId(mem.key[n])
<1>1. PICK L, F, A : /\ Shape(mem, L, F, A) /\ PrevRight(mem, L, Hole(mem, w)) /\ Hand(mem, L, F, A, w)
                     /\ clean => Counts(mem, L, F, A, w)
  BY DEF Good
<1>2. /\ n \in Node \ (Linked(L) \cup Range(F)) /\ w.op \in {"insert", "set"} /\ w.key \in Key /\ w.val \in Value
      /\ w.op = "set" => \A x \in Linked(L) : mem.key[x] # w.key
  BY <1>1 DEF Hand, InHand
<1>3. mem.key[n] = w.key /\ <<mem.len[n], mem.data[n]>> = w.val
  BY <1>1 DEF Hand
<1>4. clean => Tally(mem, L, F, A, {n}, Linked(L), {}, Nonempty(L) \cup {b}, mem.len, {n})
  BY <1>1, CountsAre
<1>5. /\ mem \in Segment /\ A \in Seq(Node) /\ L \in [Bucket -> Seq(Node)] /\ Typed(mem, L)
      /\ mem.next \in [Node -> Handle] /\ mem.prev \in [Node -> Handle] /\ mem.bucket \in [Bucket -> Handle]
      /\ F \in Seq(Node) /\ Distinct(F) /\ Range(F) \cap Linked(L) = {} /\ Leads(mem.free, mem.next, F)
      /\ Range(A) \subseteq Linked(L) /\ Range(F) \subseteq Node /\ Buckets(mem, L)
      /\ \A c \in Bucket : Distinct(L[c])
  BY <1>1, ShapeTells DEF Typed
<1>6. b \in Bucket /\ L[b] \in Seq(Node) /\ n \notin Range(L[b])
  <2>1. b \in Bucket
    BY <1>2, <1>3, BucketOf
  <2> QED
    BY <1>2, <1>5, <2>1, OfBucket
<1>7. b = GetBucketId(mem.key[n])
  OBVIOUS
<1> DEFINE nx == [mem.next EXCEPT ![n] = mem.bucket[b]]
           pr == [mem.prev EXCEPT ![n] = INVALID]
           bk == [mem.bucket EXCEPT ![b] = n]
<1>8. nx \in [Node -> Handle] /\ pr \in [Node -> Handle] /\ bk \in [Bucket -> Handle]
  BY <1>2, <1>5, <1>6, NoNode
<1>9. mm = [mem EXCEPT !.next = nx, !.prev = pr, !.bucket = bk]
  BY DEF Link1
<1>10. /\ nx[n] = mem.bucket[b] /\ \A x \in Node : x # n => nx[x] = mem.next[x]
       /\ pr[n] = INVALID /\ \A x \in Node : x # n => pr[x] = mem.prev[x]
       /\ bk[b] = n /\ \A c \in Bucket : c # b => bk[c] = mem.bucket[c]
  BY <1>2, <1>5, <1>6
<1> HIDE DEF mm, nx, pr, bk, b, n
<1>11. /\ mm.next = nx /\ mm.prev = pr /\ mm.bucket = bk /\ mm.free = mem.free
       /\ mm.key = mem.key /\ mm.len = mem.len /\ mm.data = mem.data /\ SameAll(mem, mm)
       /\ mm.used = mem.used /\ mm.usedBuckets = mem.usedBuckets /\ mm.freeChunks = mem.freeChunks
  <2>1. mm \in Segment
    BY <1>5, <1>8, <1>9 DEF Segment
  <2>2. SameAll(mem, mm)
    BY <1>5, <1>9, <2>1 DEF SameAll, Segment
  <2> QED
    BY <1>5, <1>9, <2>2 DEF Segment
<1> DEFINE N == [L EXCEPT ![b] = <<n>> \o @]
<1>0. n \in Node /\ L \in [Bucket -> Seq(Node)] /\ b \in Bucket /\ n \notin Range(L[b]) /\ L[b] \in Seq(Node)
      /\ Distinct(L[b])
  BY <1>2, <1>5, <1>6
<1>12. /\ N \in [Bucket -> Seq(Node)] /\ N[b] = <<n>> \o L[b] /\ Linked(N) = Linked(L) \cup {n}
       /\ \A c \in Bucket : c # b => N[c] = L[c]
  BY <1>0, LinkedMore, ZenonT(30)
<1>13. /\ N[b] # <<>> /\ N[b][1] = n /\ Range(N[b]) = Range(L[b]) \cup {n} /\ Distinct(N[b])
  <2> DEFINE s == L[b]
             t == <<n>> \o s
  <2>1. s \in Seq(Node) /\ n \notin Range(s) /\ Distinct(s)
    BY <1>0
  <2> HIDE DEF s
  <2>2. t # <<>> /\ t[1] = n /\ Range(t) = Range(s) \cup {n}
    BY <1>0, <2>1, Pushed
  <2>3. Distinct(t)
    BY <1>0, <2>1, Pushed
  <2>4. N[b] = t
    BY <1>12 DEF s
  <2> HIDE DEF t, N
  <2> QED
    BY <2>2, <2>3, <2>4 DEF s
<1> HIDE DEF N
<1>14. \A x \in Linked(L) : x \in Node /\ x # n
  BY <1>2 DEF Linked
<1>15. Shape(mm, N, F, A)
  <2>1. \A c \in Bucket : c # b => N[c] = L[c] /\ mm.bucket[c] = mem.bucket[c]
    BY <1>10, <1>11, <1>12
  <2>2. \A c \in Bucket : c # b => \A x \in Range(L[c]) : mm.next[x] = mem.next[x]
    <3> SUFFICES ASSUME NEW c \in Bucket, NEW x \in Range(L[c]) PROVE mm.next[x] = mem.next[x]
      OBVIOUS
    <3>1. x \in Linked(L)
      BY <1>0, OfBucket
    <3> QED
      BY <1>10, <1>11, <1>14, <3>1
  <2>3. Leads(mm.bucket[b], mm.next, N[b])
    <3> DEFINE s == L[b]
               link == mem.next
               first == mem.bucket[b]
    <3>1. s \in Seq(Node) /\ n \in Node \ Range(s) /\ Leads(first, link, s)
      BY <1>2, <1>5, <1>6 DEF Buckets
    <3>2. nx[n] = first /\ \A x \in Range(s) : nx[x] = link[x]
      BY <1>6, <1>10, <3>1, Somewhere
    <3> HIDE DEF s, link, first
    <3>3. Leads(n, nx, <<n>> \o s)
      BY <3>1, <3>2, LeadsPushed
    <3> QED
      BY <1>10, <1>11, <1>12, <3>3 DEF s
  <2>4. \A x \in Range(N[b]) : GetBucketId(mem.key[x]) = b
    BY <1>5, <1>6, <1>7, <1>13 DEF Buckets
  <2>5. Range(F) \cap Linked(N) = {} /\ Range(A) \subseteq Linked(N)
    BY <1>2, <1>5, <1>12
  <2>6. Leads(mm.free, mm.next, F)
    <3>1. \A x \in Range(F) : nx[x] = mem.next[x]
      BY <1>2, <1>5, <1>10
    <3>2. Leads(mem.free, nx, F)
      BY <1>5, <3>1, LeadsKept
    <3> QED
      BY <1>11, <3>2
  <2>7. /\ mm.key = mem.key /\ SameAll(mem, mm) /\ b \in Bucket /\ N \in [Bucket -> Seq(Node)] /\ Distinct(N[b])
    BY <1>0, <1>11, <1>12, <1>13
  <2>8. Shape(mem, L, F, A)
    BY <1>1
  <2> QED
    BY <2>1, <2>2, <2>3, <2>4, <2>5, <2>6, <2>7, <2>8, ShapeBucket
<1>16. ww.pc = "linkOn" /\ ww.node = n
  BY DEF SameWork, n
<1>17. PrevRight(mm, N, Hole(mm, ww))
  <2>1. Hole(mm, ww) = mem.bucket[b]
    BY <1>10, <1>11, <1>16 DEF Hole
  <2>2. mem.bucket[b] = Nth(L[b], 1)
    BY <1>5, <1>6 DEF Buckets, Leads
  <2>3. Hole(mem, w) = INVALID
    BY DEF Hole
  <2>4. ASSUME NEW c \in Bucket PROVE Knows(mm.prev, N[c], mem.bucket[b])
    <3> DEFINE s == L[c]
               prev == mem.prev
    <3>1. /\ s \in Seq(Node) /\ Knows(prev, s, INVALID)
          /\ \A x \in Range(s) : x \in Linked(L) /\ x \in Node /\ x # n
      BY <1>0, <1>1, <1>14, <2>3, OfBucket DEF PrevRight
    <3>2. \A x \in Range(s) : pr[x] = prev[x]
      BY <1>10, <3>1
    <3> HIDE DEF s, prev
    <3>3. CASE c # b
      <4>1. Knows(pr, s, INVALID)
        BY <3>1, <3>2, KnowsKept
      <4>2. Knows(pr, s, mem.bucket[b])
        BY <3>1, <4>1, KnowsLess
      <4> QED
        BY <1>11, <1>12, <3>3, <4>2 DEF s
    <3>4. CASE c = b
      <4>1. Knows(pr, <<n>> \o s, Nth(s, 1))
        BY <1>0, <1>10, <3>1, <3>2, KnowsPushed
      <4> QED
        BY <1>11, <1>12, <2>2, <3>4, <4>1 DEF s
    <3> QED
      BY <3>3, <3>4
  <2> QED
    BY <2>1, <2>4 DEF PrevRight
<1>18. Hand(mm, N, F, A, ww)
  <2>1. ListOf(mm, N, ww.node) = N[b]
    BY <1>7, <1>11, <1>16 DEF ListOf
  <2>2. ww.node \in Node /\ ListOf(mm, N, ww.node) # <<>> /\ ListOf(mm, N, ww.node)[1] = ww.node
    BY <1>2, <1>13, <1>16, <2>1
  <2> QED
    BY <1>16, <2>2 DEF Hand, InHand
<1>19. ASSUME clean PROVE Counts(mm, N, F, A, ww)
  <2>0. Tally(mem, L, F, A, {n}, Linked(L), {}, Nonempty(L) \cup {b}, mem.len, {n})
    BY <1>4, <1>19
  <2>1. Linked(N) \ {n} = Linked(L)
    BY <1>12, <1>14
  <2>2. Nonempty(N) = Nonempty(L) \cup {b}
    BY <1>6, <1>12, <1>13 DEF Nonempty
  <2>3. Tally(mm, N, F, A, {}, Linked(N) \ {n}, {n}, Nonempty(N), mm.len, {})
    BY <1>11, <1>12, <2>0, <2>1, <2>2 DEF Tally
  <2> QED
    BY <1>16, <2>3, CountsAre
<1>20. StacksOf(mm) = PushOn(StacksOf(mem), w.key, w.val)
  <2>1. n \in Node /\ mm.key = mem.key /\ mm.len = mem.len /\ mm.data = mem.data
    BY <1>2, <1>11
  <2>2. StacksOf(mm) = PushOn(StacksOf(mem), mem.key[n], ValueOf(mem, n))
    <3>1. PushedTo(L, b, n, N)
      BY <1>12 DEF PushedTo
    <3> QED
      BY <1>1, <1>7, <1>15, <2>1, <3>1, PushedIs
  <2>3. mem.key[n] = w.key /\ ValueOf(mem, n) = w.val
    BY <1>3 DEF ValueOf, n
  <2> QED
    BY <2>2, <2>3
<1>21. ASSUME w.op = "set" PROVE StacksOf(mem)[w.key] = <<>>
  <2>1. \A x \in Linked(L) : mem.key[x] # w.key
    BY <1>2, <1>21
  <2> DEFINE h == KeyNodes(mem, L, w.key)
  <2>2. h \in Seq(Node) /\ \A x \in Range(h) : mem.key[x] = w.key /\ x \in Linked(L)
    BY <1>2, <1>5, KeyNodesAre
  <2>3. StacksOf(mem)[w.key] = Values(mem, h)
    <3>1. StacksOf(mem) = Repr(mem, L)
      BY <1>1, ListsAre
    <3> QED
      BY <1>2, <3>1 DEF Repr
  <2> HIDE DEF h
  <2>4. Len(h) = 0
    <3> SUFFICES ASSUME Len(h) # 0 PROVE FALSE
      OBVIOUS
    <3>0. Len(h) \in Nat
      BY <2>2
    <3>1. 1 \in 1..Len(h)
      BY <3>0
    <3>2. h[1] \in Range(h)
      BY <2>2, <3>1, Somewhere
    <3> QED
      BY <2>1, <2>2, <3>2
  <2>5. Values(mem, h) \in Seq(Nat \X Datum) /\ Len(Values(mem, h)) = 0
    BY <1>5, <2>2, <2>4, ValuesAre
  <2> QED
    BY <2>3, <2>5, EmptySeq
<1>22. Good(mm, ww, clean)
  BY <1>15, <1>17, <1>18, <1>19 DEF Good
<1> QED
  BY <1>2, <1>20, <1>21, <1>22 DEF mm, n

\* A list without the node that does not know who comes before it.
LEMMA KnowsElse ==
  ASSUME NEW s \in Seq(Node), NEW prev, NEW prev2, NEW x, x \notin Range(s), Knows(prev, s, x),
         \A y \in Range(s) : prev2[y] = prev[y]
  PROVE  Knows(prev2, s, INVALID)
BY Somewhere DEF Knows

\* Nodes of different buckets differ.
LEMMA Apart ==
  ASSUME NEW mem, NEW L, NEW F, NEW A, Shape(mem, L, F, A), NEW b \in Bucket, NEW c \in Bucket, b # c,
         NEW x \in Range(L[b])
  PROVE  x \notin Range(L[c])
BY ShapeTells, ZenonT(30) DEF Buckets

\* The node behind the new one is told of it.
LEMMA Link2Step ==
  ASSUME NEW mem, NEW w, NEW clean, Good(mem, w, clean), w.pc = "linkOn", NEW ww, ww.pc = "count", SameWork(w, ww)
  PROVE  Good(Link2(mem, w.node), ww, clean) /\ StacksOf(Link2(mem, w.node)) = StacksOf(mem)
<1> DEFINE n == w.node
           mm == Link2(mem, n)
           b == GetBucketId(mem.key[n])
           x == mem.next[n]
<1>1. PICK L, F, A : /\ Shape(mem, L, F, A) /\ PrevRight(mem, L, Hole(mem, w)) /\ Hand(mem, L, F, A, w)
                     /\ clean => Counts(mem, L, F, A, w)
  BY DEF Good
<1>2. n \in Node /\ L[b] # <<>> /\ L[b][1] = n
  BY <1>1 DEF Hand, ListOf
<1>3. PrevRight(mem, L, x)
  BY <1>1 DEF Hole
<1>4. clean => Tally(mem, L, F, A, {}, Linked(L) \ {n}, {n}, Nonempty(L), mem.len, {})
  BY <1>1, CountsAre
<1>5. /\ mem \in Segment /\ L \in [Bucket -> Seq(Node)] /\ mem.key \in [Node -> Key]
      /\ mem.next \in [Node -> Handle] /\ mem.prev \in [Node -> Handle]
      /\ F \in Seq(Node) /\ Distinct(F) /\ Range(F) \cap Linked(L) = {} /\ Leads(mem.free, mem.next, F)
  BY <1>1, ShapeTells DEF Typed
<1>6. b \in Bucket /\ L[b] \in Seq(Node) /\ Distinct(L[b]) /\ Leads(mem.bucket[b], mem.next, L[b])
  <2>1. b \in Bucket
    BY <1>2, <1>5, BucketOf
  <2> QED
    BY <1>1, <2>1, ShapeTells DEF Buckets
<1>7. x \in Handle
  BY <1>2, <1>5
<1> DEFINE pr == IF x = INVALID THEN mem.prev ELSE [mem.prev EXCEPT ![x] = n]
<1>8. pr \in [Node -> Handle] /\ (\A y \in Node : y # x => pr[y] = mem.prev[y]) /\ (x # INVALID => pr[x] = n)
  <2>1. CASE x = INVALID
    BY <1>5, <2>1
  <2>2. CASE x # INVALID
    <3>1. x \in Node
      BY <1>7, <2>2 DEF Handle
    <3> QED
      BY <1>2, <1>5, <2>2, <3>1, NoNode
  <2> QED
    BY <2>1, <2>2
<1>9. mm = [mem EXCEPT !.prev = pr]
  <2>1. CASE x = INVALID
    BY <1>5, <2>1 DEF Link2, Segment
  <2>2. CASE x # INVALID
    BY <2>2 DEF Link2
  <2> QED
    BY <2>1, <2>2
<1> HIDE DEF mm, pr, x, b, n
<1>10. /\ mm.prev = pr /\ mm.next = mem.next /\ mm.free = mem.free /\ mm.bucket = mem.bucket
       /\ mm.key = mem.key /\ mm.len = mem.len /\ mm.data = mem.data /\ SameAll(mem, mm)
       /\ mm.used = mem.used /\ mm.usedBuckets = mem.usedBuckets /\ mm.freeChunks = mem.freeChunks
  <2>1. mm \in Segment
    BY <1>5, <1>8, <1>9 DEF Segment
  <2>2. SameAll(mem, mm)
    BY <1>5, <1>9, <2>1 DEF SameAll, Segment
  <2> QED
    BY <1>5, <1>9, <2>2 DEF Segment
<1>11. Shape(mm, L, F, A)
  <2>1. \A y \in Linked(L) : mm.next[y] = mem.next[y] /\ mm.key[y] = mem.key[y]
    BY <1>10
  <2>2. Leads(mm.free, mm.next, F)
    BY <1>5, <1>10
  <2> QED
    BY <1>1, <1>5, <1>10, <2>1, <2>2, ShapeFree
<1>12. n \in Range(L[b]) /\ n \in Linked(L) /\ n = Nth(L[b], 1) /\ x = Nth(L[b], 2)
  <2>1. 1 \in 1..Len(L[b])
    <3>1. Len(L[b]) \in Nat /\ Len(L[b]) # 0
      BY <1>2, <1>6, Somewhere
    <3> QED
      BY <3>1
  <2>2. n \in Range(L[b]) /\ n \in Linked(L)
    BY <1>2, <1>5, <1>6, <2>1, OfBucket
  <2>3. mem.next[L[b][1]] = Nth(L[b], 1 + 1)
    BY <1>6, <2>1 DEF Leads
  <2> QED
    BY <1>2, <2>1, <2>2, <2>3 DEF Nth, x
<1>13. PrevRight(mm, L, Hole(mm, ww))
  <2>1. Hole(mm, ww) = INVALID
    BY DEF Hole
  <2>2. ASSUME NEW c \in Bucket PROVE Knows(pr, L[c], INVALID)
    <3> DEFINE s == L[c]
               prev == mem.prev
    <3>1. s \in Seq(Node) /\ Knows(prev, s, x) /\ Distinct(s)
      BY <1>1, <1>3, ShapeTells DEF PrevRight
    <3>2. \A y \in Range(s) : y # x => pr[y] = prev[y]
      BY <1>8, <3>1, Somewhere
    <3>3. CASE c = b
      <4>1. x = Nth(s, 2) /\ 2 \in Int /\ n = Nth(s, 2 - 1)
        BY <1>12, <3>3
      <4>2. x = INVALID \/ pr[x] = Nth(s, 2 - 1)
        BY <1>8, <4>1
      <4> HIDE DEF s, prev
      <4>3. Knows(pr, s, INVALID)
        BY <3>1, <3>2, <4>1, <4>2, KnowsAgain, SMTT(20)
      <4> QED
        BY <4>3 DEF s
    <3>4. CASE c # b
      <4>1. x \notin Range(s)
        <5>1. CASE x = INVALID
          BY <3>1, <5>1, Somewhere, NoNode
        <5>2. CASE x # INVALID
          <6>1. 2 \in 1..Len(L[b]) /\ x = L[b][2]
            BY <1>12, <5>2 DEF Nth
          <6>2. x \in Range(L[b])
            BY <1>6, <6>1, Somewhere
          <6> QED
            BY <1>1, <1>6, <3>4, <6>2, Apart
        <5> QED
          BY <5>1, <5>2
      <4>2. \A y \in Range(s) : pr[y] = prev[y]
        BY <3>2, <4>1
      <4> HIDE DEF s, prev
      <4>3. Knows(pr, s, INVALID)
        BY <3>1, <4>1, <4>2, KnowsElse
      <4> QED
        BY <4>3 DEF s
    <3> QED
      BY <3>3, <3>4
  <2> QED
    BY <1>10, <2>1, <2>2 DEF PrevRight
<1>14. ww.node = n
  BY DEF SameWork, n
<1>15. Hand(mm, L, F, A, ww)
  BY <1>12, <1>14 DEF Hand, InHand
<1>16. clean => Counts(mm, L, F, A, ww)
  <2> SUFFICES ASSUME clean PROVE Counts(mm, L, F, A, ww)
    OBVIOUS
  <2>1. Tally(mm, L, F, A, {}, Linked(L) \ {n}, {n}, Nonempty(L), mm.len, {})
    BY <1>4, <1>10 DEF Tally
  <2> QED
    BY <1>14, <2>1, CountsAre
<1>17. StacksOf(mm) = StacksOf(mem)
  BY <1>1, <1>10, <1>11, StacksKept
<1>18. Good(mm, ww, clean)
  BY <1>11, <1>13, <1>15, <1>16 DEF Good
<1> QED
  BY <1>17, <1>18 DEF mm, n

\* A set of nodes has one more than without one of them.
LEMMA OneMore ==
  ASSUME NEW S, S \subseteq Node, NEW n \in S
  PROVE  IsFiniteSet(S) /\ Cardinality(S) \in Nat /\ Cardinality(S) = Cardinality(S \ {n}) + 1
<1>1. IsFiniteSet(S)
  BY NodesCounted, FS_Subset
<1>2. Cardinality(S) \in Nat /\ Cardinality(S \ {n}) = Cardinality(S) - 1
  BY <1>1, FS_RemoveElement, FS_CardinalityType
<1> QED
  BY <1>1, <1>2

\* Only the count of nodes is changed.
LEMMA Recounted ==
  ASSUME NEW mem, NEW L, NEW F, NEW A, Shape(mem, L, F, A), NEW u \in Int, NEW mm, mm = [mem EXCEPT !.used = u]
  PROVE  /\ Shape(mm, L, F, A) /\ StacksOf(mm) = StacksOf(mem)
         /\ mm.used = u /\ mm.usedBuckets = mem.usedBuckets /\ mm.freeChunks = mem.freeChunks
         /\ mm.key = mem.key /\ mm.len = mem.len /\ mm.prev = mem.prev /\ mm.next = mem.next
<1>1. mem \in Segment /\ F \in Seq(Node) /\ Distinct(F) /\ Range(F) \cap Linked(L) = {} /\ Leads(mem.free, mem.next, F)
  BY ShapeTells
<1>2. mm \in Segment
  BY <1>1 DEF Segment
<1>3. /\ mm.used = u /\ mm.usedBuckets = mem.usedBuckets /\ mm.freeChunks = mem.freeChunks
      /\ mm.key = mem.key /\ mm.len = mem.len /\ mm.data = mem.data /\ mm.prev = mem.prev /\ mm.next = mem.next
      /\ mm.bucket = mem.bucket /\ mm.free = mem.free
  BY <1>1 DEF Segment
<1>4. SameAll(mem, mm)
  BY <1>1, <1>2 DEF SameAll, Segment
<1>5. Shape(mm, L, F, A)
  BY <1>1, <1>3, <1>4, ShapeFree
<1>6. StacksOf(mm) = StacksOf(mem)
  BY <1>3, <1>5, StacksKept
<1> QED
  BY <1>3, <1>5, <1>6

\* Count: the node linked is counted.
LEMMA CountStep ==
  ASSUME NEW mem, NEW w, NEW clean, Good(mem, w, clean), w.pc = "count", NEW ww, ww.pc = "front", SameWork(w, ww)
  PROVE  /\ Good([mem EXCEPT !.used = @ + 1], ww, clean)
         /\ StacksOf([mem EXCEPT !.used = @ + 1]) = StacksOf(mem)
<1> DEFINE n == w.node
           u == mem.used + 1
           mm == [mem EXCEPT !.used = u]
<1>1. PICK L, F, A : /\ Shape(mem, L, F, A) /\ PrevRight(mem, L, Hole(mem, w)) /\ Hand(mem, L, F, A, w)
                     /\ clean => Counts(mem, L, F, A, w)
  BY DEF Good
<1>2. n \in Linked(L) /\ Hole(mem, w) = INVALID /\ Linked(L) \subseteq Node
  BY <1>1, ShapeTells DEF Hand, Hole
<1>3. clean => Tally(mem, L, F, A, {}, Linked(L) \ {n}, {n}, Nonempty(L), mem.len, {})
  BY <1>1, CountsAre
<1>4. u \in Int /\ u = mem.used + 1
  BY <1>1, ShapeTells DEF Segment
<1>5. mm = [mem EXCEPT !.used = u]
  OBVIOUS
<1> HIDE DEF mm, u, n
<1>6. /\ Shape(mm, L, F, A) /\ StacksOf(mm) = StacksOf(mem)
      /\ mm.used = u /\ mm.usedBuckets = mem.usedBuckets /\ mm.freeChunks = mem.freeChunks
      /\ mm.key = mem.key /\ mm.len = mem.len /\ mm.prev = mem.prev
  BY <1>1, <1>4, <1>5, Recounted
<1>7. ww.node = n
  BY DEF SameWork, n
<1>8. Hand(mm, L, F, A, ww)
  BY <1>2, <1>7 DEF Hand, InHand
<1>9. PrevRight(mm, L, Hole(mm, ww))
  <2>1. Hole(mm, ww) = INVALID
    BY DEF Hole
  <2> QED
    BY <1>1, <1>2, <1>6, <2>1 DEF PrevRight
<1>10. clean => Counts(mm, L, F, A, ww)
  <2> SUFFICES ASSUME clean PROVE Counts(mm, L, F, A, ww)
    OBVIOUS
  <2>1. Cardinality(Linked(L)) = Cardinality(Linked(L) \ {n}) + 1
    BY <1>2, OneMore
  <2>2. Tally(mm, L, F, A, {}, Linked(L), {n}, Nonempty(L), mm.len, {})
    BY <1>3, <1>4, <1>6, <2>1 DEF Tally
  <2> QED
    BY <1>7, <2>2, CountsAre
<1>11. Good(mm, ww, clean)
  BY <1>6, <1>8, <1>9, <1>10 DEF Good
<1> QED
  BY <1>6, <1>11 DEF mm, u

\* Foremost: it is in the list of all.
LEMMA ForemostStep ==
  ASSUME NEW mem, NEW w, NEW clean, Good(mem, w, clean), w.pc = "front", NEW ww, ww.pc = "leave"
  PROVE  /\ Good(InsertAddListHead(mem, w.node), ww, clean)
         /\ StacksOf(InsertAddListHead(mem, w.node)) = StacksOf(mem)
<1> DEFINE n == w.node
           mm == InsertAddListHead(mem, n)
<1>1. PICK L, F, A : /\ Shape(mem, L, F, A) /\ PrevRight(mem, L, Hole(mem, w)) /\ Hand(mem, L, F, A, w)
                     /\ clean => Counts(mem, L, F, A, w)
  BY DEF Good
<1>2. n \in Linked(L) /\ Hole(mem, w) = INVALID
  BY <1>1 DEF Hand, Hole
<1>3. clean => Tally(mem, L, F, A, {}, Linked(L), {n}, Nonempty(L), mem.len, {})
  BY <1>1, CountsAre
<1> HIDE DEF n
<1>4. PICK B : Shape(mm, L, F, B) /\ Range(B) = Range(A) \cup {n} /\ SameNodes(mem, mm)
  BY <1>1, <1>2, ForemostIs
<1> HIDE DEF mm
<1>5. StacksOf(mm) = StacksOf(mem)
  BY <1>1, <1>4, SameNodesKept
<1>6. Rests(mm, L, F, B, clean)
  <2>1. PrevRight(mm, L, INVALID)
    BY <1>1, <1>2, <1>4 DEF SameNodes, PrevRight
  <2>2. ASSUME clean PROVE Calm(mm, L, F, B)
    BY <1>3, <1>4, <2>2 DEF SameNodes, Calm, Tally
  <2> QED
    BY <1>4, <2>1, <2>2 DEF Rests
<1>7. ww.pc \in IdlePcs
  BY DEF IdlePcs
<1> QED
  BY <1>5, <1>6, <1>7, IdleGood DEF mm, n

-----------------------------------------------------------------------------
(* Changing a value. *)

\* The value of w's operation replaces one, the top one of its key unless w walks the map.
Changes(st, st2, w) ==
  \E k \in Key : \E j \in DOMAIN st[k] : st2 = ChangeAt(st, k, j, w.val) /\ (w.op # "visit" => k = w.key /\ j = 1)

\* A value is removed, the top one of w's key unless w walks the map.
Drops(st, st2, w) ==
  \E k \in Key : \E j \in DOMAIN st[k] : st2 = DropAt(st, k, j) /\ (w.op # "visit" => k = w.key /\ j = 1)

\* The node that is the first under a key has that key and is the first of its nodes.
LEMMA PlaceIs ==
  ASSUME NEW mem, NEW L, NEW F, NEW A, Shape(mem, L, F, A), NEW n \in Linked(L),
         NEW j \in 1..Len(KeyNodes(mem, L, mem.key[n])), KeyNodes(mem, L, mem.key[n])[j] = n
  PROVE  /\ mem.key[n] \in Key /\ j \in DOMAIN StacksOf(mem)[mem.key[n]]
         /\ \A k \in Key : FirstOf(mem, L, k, n) => k = mem.key[n] /\ j = 1
<1>1. Typed(mem, L) /\ StacksOf(mem) = Repr(mem, L) /\ Distinct(L[GetBucketId(mem.key[n])]) /\ mem.key[n] \in Key
  BY ShapeTells, ListsAre, BucketOf DEF Typed, Linked
<1> DEFINE h(k) == KeyNodes(mem, L, k)
           kn == mem.key[n]
<1>2. h(kn) \in Seq(Node) /\ Distinct(h(kn)) /\ L[GetBucketId(kn)] \in Seq(Node)
  BY <1>1, KeyNodesAre, HavingDistinct DEF KeyNodes
<1>3. j \in DOMAIN StacksOf(mem)[kn]
  <2>1. StacksOf(mem)[kn] = Values(mem, h(kn))
    BY <1>1 DEF Repr
  <2>2. Values(mem, h(kn)) \in Seq(Nat \X Datum) /\ Len(Values(mem, h(kn))) = Len(h(kn))
    BY <1>1, <1>2, ValuesAre
  <2> QED
    BY <2>1, <2>2, LenProperties
<1>4. ASSUME NEW k \in Key, FirstOf(mem, L, k, n) PROVE k = kn /\ j = 1
  <2>1. h(k) # <<>> /\ h(k)[1] = n
    BY <1>4 DEF FirstOf, KeyNodes
  <2>2. h(k) \in Seq(Node) /\ \A x \in Range(h(k)) : mem.key[x] = k
    BY <1>1, KeyNodesAre
  <2>3. Len(h(k)) \in Nat /\ Len(h(k)) # 0
    BY <2>1, <2>2, Somewhere
  <2>4. 1 \in 1..Len(h(k))
    BY <2>3
  <2>5. n \in Range(h(k))
    BY <2>1, <2>2, <2>4, Somewhere
  <2>6. k = kn
    BY <2>2, <2>5
  <2>7. 1 \in 1..Len(h(kn)) /\ h(kn)[1] = n /\ h(kn)[j] = n
    BY <2>1, <2>4, <2>6
  <2>8. j = 1
    BY <1>2, <2>7 DEF Distinct
  <2> QED
    BY <2>6, <2>8
<1> QED
  BY <1>1, <1>3, <1>4

\* A node whose content became that of the process is a value changed on a stack, on top of
\* that of the key when the process works on a key.
LEMMA ChangedIs ==
  ASSUME NEW mem, NEW mm, NEW L, NEW F, NEW A, NEW G, NEW B, Shape(mem, L, F, A), Shape(mm, L, G, B),
         NEW w, w.node \in Linked(L), mm.key = mem.key,
         \A x \in Node : x # w.node => mm.len[x] = mem.len[x] /\ mm.data[x] = mem.data[x],
         ValueOf(mm, w.node) = w.val,
         w.op # "visit" => w.key \in Key /\ FirstOf(mem, L, w.key, w.node)
  PROVE  Changes(StacksOf(mem), StacksOf(mm), w)
<1> DEFINE n == w.node
<1>1. Typed(mem, L) /\ Typed(mm, L) /\ Buckets(mem, L) /\ \A b \in Bucket : Distinct(L[b])
  BY ShapeTells
<1>2. PICK j \in 1..Len(KeyNodes(mem, L, mem.key[n])) :
        /\ KeyNodes(mem, L, mem.key[n])[j] = n
        /\ Repr(mm, L) = ChangeAt(Repr(mem, L), mem.key[n], j, ValueOf(mm, n))
  BY <1>1, ReprSet
<1>3. StacksOf(mm) = ChangeAt(StacksOf(mem), mem.key[n], j, w.val)
  <2>1. StacksOf(mm) = Repr(mm, L) /\ StacksOf(mem) = Repr(mem, L)
    BY ListsAre
  <2> QED
    BY <1>2, <2>1
<1>4. /\ mem.key[n] \in Key /\ j \in DOMAIN StacksOf(mem)[mem.key[n]]
      /\ \A k \in Key : FirstOf(mem, L, k, n) => k = mem.key[n] /\ j = 1
  BY <1>2, PlaceIs
<1> QED
  BY <1>3, <1>4 DEF Changes

\* Only the chunks and the content of nodes are changed.
Refill(mem, fc, dt, ln) == [mem EXCEPT !.freeChunks = fc, !.data = dt, !.len = ln]

\* Chunks, lengths and contents may change without the lists.
LEMMA Refilled ==
  ASSUME NEW mem, NEW L, NEW F, NEW A, Shape(mem, L, F, A), NEW fc \in Int, NEW dt \in [Node -> Datum],
         NEW ln \in [Node -> Nat], NEW mm, mm = Refill(mem, fc, dt, ln)
  PROVE  /\ Shape(mm, L, F, A)
         /\ mm.freeChunks = fc /\ mm.data = dt /\ mm.len = ln
         /\ mm.used = mem.used /\ mm.usedBuckets = mem.usedBuckets
         /\ mm.key = mem.key /\ mm.prev = mem.prev /\ mm.next = mem.next
<1>1. mem \in Segment /\ F \in Seq(Node) /\ Distinct(F) /\ Range(F) \cap Linked(L) = {} /\ Leads(mem.free, mem.next, F)
  BY ShapeTells
<1>2. mm \in Segment
  BY <1>1 DEF Segment, Refill
<1>3. /\ mm.freeChunks = fc /\ mm.data = dt /\ mm.len = ln
      /\ mm.used = mem.used /\ mm.usedBuckets = mem.usedBuckets
      /\ mm.key = mem.key /\ mm.prev = mem.prev /\ mm.next = mem.next
      /\ mm.bucket = mem.bucket /\ mm.free = mem.free
  BY <1>1 DEF Segment, Refill
<1>4. SameAll(mem, mm)
  BY <1>1, <1>2 DEF SameAll, Segment, Refill
<1>5. Shape(mm, L, F, A)
  BY <1>1, <1>3, <1>4, ShapeFree
<1> QED
  BY <1>3, <1>5

\* What is left to do is to leave the lock or to go on with the walk.
Ends(w, ww) == ww.pc = "leave" \/ (ww.pc = "visit" /\ ww.op = "visit" /\ ww.node = w.node)

\* A process that leaves, or goes back to its walk, leaves a good map.
LEMMA EndsGood ==
  ASSUME NEW mem, NEW w, NEW ww, Ends(w, ww), NEW clean, NEW L, NEW F, NEW A, Rests(mem, L, F, A, clean),
         w.node \in Range(A)
  PROVE  Good(mem, ww, clean)
<1>1. CASE ww.pc = "leave"
  <2>1. ww.pc \in IdlePcs
    BY <1>1 DEF IdlePcs
  <2> QED
    BY <2>1, IdleGood
<1>2. CASE ww.pc = "visit" /\ ww.op = "visit" /\ ww.node = w.node
  <2>1. ww.pc \in RestPcs
    BY <1>2 DEF RestPcs
  <2>2. Hand(mem, L, F, A, ww)
    BY <1>2 DEF Hand, InHand
  <2> QED
    BY <2>1, <2>2, RestGood
<1> QED
  BY <1>1, <1>2 DEF Ends

\* What update_node begins with.
LEMMA UpdateBegins ==
  ASSUME NEW mem, NEW w, NEW clean, Good(mem, w, clean), w.pc \in {"update", "resize"}
  PROVE  \E L, F, A :
           /\ Shape(mem, L, F, A) /\ PrevRight(mem, L, INVALID)
           /\ w.node \in Range(A) /\ w.node \in Linked(L) /\ w.node \in Node
           /\ w.op \in {"set", "visit"} /\ w.val \in Value
           /\ w.op # "visit" => w.key \in Key /\ FirstOf(mem, L, w.key, w.node)
           /\ w.pc = "update" => Rests(mem, L, F, A, clean)
           /\ w.pc = "resize" /\ clean =>
                Tally(mem, L, F, A, {}, Linked(L), {}, Nonempty(L), [mem.len EXCEPT ![w.node] = 0], {})
<1>1. PICK L, F, A : /\ Shape(mem, L, F, A) /\ PrevRight(mem, L, Hole(mem, w)) /\ Hand(mem, L, F, A, w)
                     /\ clean => Counts(mem, L, F, A, w)
  BY DEF Good
<1>2. Hole(mem, w) = INVALID
  BY DEF Hole
<1>3. Range(A) \subseteq Linked(L) /\ Linked(L) \subseteq Node
  BY <1>1, ShapeTells
<1>4. /\ w.node \in Range(A) /\ w.op \in {"set", "visit"} /\ w.val \in Value
      /\ w.op # "visit" => w.key \in Key /\ FirstOf(mem, L, w.key, w.node)
  BY <1>1 DEF Hand
<1>5. w.pc = "update" => Rests(mem, L, F, A, clean)
  <2> SUFFICES ASSUME w.pc = "update" PROVE Rests(mem, L, F, A, clean)
    OBVIOUS
  <2>1. w.pc \in RestPcs
    BY DEF RestPcs
  <2> QED
    BY <1>1, <2>1, GoodAtRest
<1>6. w.pc = "resize" /\ clean =>
        Tally(mem, L, F, A, {}, Linked(L), {}, Nonempty(L), [mem.len EXCEPT ![w.node] = 0], {})
  BY <1>1, CountsAre
<1> QED
  BY <1>1, <1>2, <1>3, <1>4, <1>5, <1>6

\* A value is a length and a content.
LEMMA ValueParts == \A v \in Value : v = <<v[1], v[2]>> /\ v[1] \in Nat /\ v[2] \in Datum
BY ValueAssumption DEF Datum

\* The new value has as many chunks as the old one.
LEMMA UpdateSame ==
  ASSUME NEW mem, NEW w, NEW clean, Good(mem, w, clean), w.pc = "update", NEW ww, Ends(w, ww),
         w.val[1] - mem.len[w.node] = 0
  PROVE  LET mm == [mem EXCEPT !.data[w.node] = w.val[2]]
         IN Good(mm, ww, clean) /\ Changes(StacksOf(mem), StacksOf(mm), w)
<1> DEFINE n == w.node
           mm == [mem EXCEPT !.data[w.node] = w.val[2]]
           fc == mem.freeChunks
           ln == mem.len
           dt == [mem.data EXCEPT ![n] = w.val[2]]
<1>1. PICK L, F, A :
        /\ Shape(mem, L, F, A) /\ PrevRight(mem, L, INVALID)
        /\ n \in Range(A) /\ n \in Linked(L) /\ n \in Node
        /\ w.val \in Value
        /\ w.op # "visit" => w.key \in Key /\ FirstOf(mem, L, w.key, n)
        /\ Rests(mem, L, F, A, clean)
  BY UpdateBegins
<1>2. /\ mem \in Segment /\ mem.data \in [Node -> Datum] /\ ln \in [Node -> Nat] /\ fc \in Int
      /\ w.val = <<w.val[1], w.val[2]>> /\ w.val[1] \in Nat /\ w.val[2] \in Datum
  BY <1>1, ShapeTells, ValueParts, SMTT(20) DEF Typed, Segment
<1>3. ln[n] = w.val[1]
  BY <1>1, <1>2
<1>4. dt \in [Node -> Datum] /\ dt[n] = w.val[2] /\ \A x \in Node : x # n => dt[x] = mem.data[x]
  BY <1>1, <1>2
<1>5. mm = Refill(mem, fc, dt, ln)
  BY <1>2 DEF Segment, Refill
<1> HIDE DEF fc, ln, dt, mm
<1>6. /\ Shape(mm, L, F, A)
      /\ mm.freeChunks = fc /\ mm.data = dt /\ mm.len = ln
      /\ mm.used = mem.used /\ mm.usedBuckets = mem.usedBuckets
      /\ mm.key = mem.key /\ mm.prev = mem.prev /\ mm.next = mem.next
  <2>1. Shape(mem, L, F, A) /\ fc \in Int /\ dt \in [Node -> Datum] /\ ln \in [Node -> Nat]
    BY <1>1, <1>2, <1>4
  <2> QED
    BY <2>1, <1>5, Refilled, SMTT(20)
<1>7. Rests(mm, L, F, A, clean)
  <2>1. PrevRight(mm, L, INVALID)
    BY <1>1, <1>6 DEF PrevRight
  <2>2. ASSUME clean PROVE Calm(mm, L, F, A)
    BY <1>1, <1>6, <2>2 DEF Rests, Calm, Tally, fc, ln
  <2> QED
    BY <1>6, <2>1, <2>2 DEF Rests
<1>8. Good(mm, ww, clean)
  BY <1>1, <1>7, EndsGood
<1>9. ValueOf(mm, n) = w.val
  BY <1>2, <1>3, <1>4, <1>6 DEF ValueOf
<1>10. Changes(StacksOf(mem), StacksOf(mm), w)
  <2>1. \A x \in Node : x # n => mm.len[x] = mem.len[x] /\ mm.data[x] = mem.data[x]
    BY <1>4, <1>6 DEF ln
  <2> QED
    BY <1>1, <1>6, <1>9, <2>1, ChangedIs
<1> QED
  BY <1>8, <1>10 DEF mm

\* The old value's chunks are given back first, or there are too few and nothing is done.
LEMMA UpdateStep ==
  ASSUME NEW mem, NEW w, NEW clean, Good(mem, w, clean), w.pc = "update", NEW ww
  PROVE  /\ Ends(w, ww) => Good(mem, ww, clean)
         /\ ww.pc = "resize" /\ SameWork(w, ww) =>
              Good([mem EXCEPT !.freeChunks = @ + mem.len[w.node]], ww, clean)
         /\ StacksOf([mem EXCEPT !.freeChunks = @ + mem.len[w.node]]) = StacksOf(mem)
<1> DEFINE n == w.node
           fc == mem.freeChunks + mem.len[n]
           ln == mem.len
           dt == mem.data
           mm == [mem EXCEPT !.freeChunks = fc]
<1>1. PICK L, F, A :
        /\ Shape(mem, L, F, A) /\ PrevRight(mem, L, INVALID)
        /\ n \in Range(A) /\ n \in Linked(L) /\ n \in Node
        /\ w.op \in {"set", "visit"} /\ w.val \in Value
        /\ w.op # "visit" => w.key \in Key /\ FirstOf(mem, L, w.key, n)
        /\ Rests(mem, L, F, A, clean)
  BY UpdateBegins
<1>2. Ends(w, ww) => Good(mem, ww, clean)
  BY <1>1, EndsGood
<1>3. /\ mem \in Segment /\ dt \in [Node -> Datum] /\ ln \in [Node -> Nat] /\ mem.freeChunks \in Int
  BY <1>1, ShapeTells DEF Typed, Segment
<1>4. fc \in Int /\ ln[n] \in Nat
  BY <1>1, <1>3
<1>5. mm = Refill(mem, fc, dt, ln)
  BY <1>3 DEF Segment, Refill
<1>6. fc = mem.freeChunks + ln[n] /\ ln = mem.len /\ dt = mem.data
  OBVIOUS
<1> HIDE DEF fc, ln, dt, mm, n
<1>7. /\ Shape(mm, L, F, A)
      /\ mm.freeChunks = fc /\ mm.data = dt /\ mm.len = ln
      /\ mm.used = mem.used /\ mm.usedBuckets = mem.usedBuckets
      /\ mm.key = mem.key /\ mm.prev = mem.prev /\ mm.next = mem.next
  <2>1. Shape(mem, L, F, A) /\ fc \in Int /\ dt \in [Node -> Datum] /\ ln \in [Node -> Nat]
    BY <1>1, <1>3, <1>4
  <2> QED
    BY <2>1, <1>5, Refilled
<1>8. StacksOf(mm) = StacksOf(mem)
  BY <1>1, <1>6, <1>7, StacksKept
<1>9. ASSUME ww.pc = "resize", SameWork(w, ww) PROVE Good(mm, ww, clean)
  <2>1. ww.node = n /\ ww.op = w.op /\ ww.key = w.key /\ ww.val = w.val
    BY <1>9 DEF SameWork, n
  <2>2. Hand(mm, L, F, A, ww)
    BY <1>1, <1>7, <1>9, <2>1 DEF Hand, InHand, FirstOf
  <2>3. PrevRight(mm, L, Hole(mm, ww))
    <3>1. Hole(mm, ww) = INVALID
      BY <1>9 DEF Hole
    <3> QED
      BY <1>1, <1>7, <3>1 DEF PrevRight
  <2>4. ASSUME clean PROVE Counts(mm, L, F, A, ww)
    <3> DEFINE g == [ln EXCEPT ![n] = 0]
    <3>1. Tally(mem, L, F, A, {}, Linked(L), {}, Nonempty(L), ln, {})
      BY <1>1, <1>6, <2>4 DEF Rests, Calm
    <3>2. g \in [Node -> Nat] /\ g[n] = 0 /\ \A x \in Node : x # n => g[x] = ln[x]
      BY <1>1, <1>3
    <3> HIDE DEF g
    <3>3. Cardinality(Chunks(ln)) \in Nat /\ Cardinality(Chunks(g)) = (Cardinality(Chunks(ln)) - ln[n]) + g[n]
      BY <1>1, <1>3, <3>2, ChunksChanged
    <3>4. fc + Cardinality(Chunks(g)) = mem.freeChunks + Cardinality(Chunks(ln))
      BY <1>3, <1>4, <1>6, <3>2, <3>3
    <3>5. Tally(mm, L, F, A, {}, Linked(L), {}, Nonempty(L), g, {})
      BY <1>6, <1>7, <3>1, <3>4 DEF Tally
    <3>6. g = [mm.len EXCEPT ![n] = 0]
      BY <1>7 DEF g
    <3> QED
      BY <1>9, <2>1, <3>5, <3>6, CountsAre
  <2> QED
    BY <1>7, <2>2, <2>3, <2>4 DEF Good
<1> QED
  BY <1>2, <1>8, <1>9 DEF mm, fc, n

\* The new value takes its chunks.
LEMMA ResizeStep ==
  ASSUME NEW mem, NEW w, NEW clean, Good(mem, w, clean), w.pc = "resize", NEW ww, Ends(w, ww)
  PROVE  LET mm == [mem EXCEPT !.freeChunks = @ - w.val[1], !.data[w.node] = w.val[2], !.len[w.node] = w.val[1]]
         IN Good(mm, ww, clean) /\ Changes(StacksOf(mem), StacksOf(mm), w)
<1> DEFINE n == w.node
           mm == [mem EXCEPT !.freeChunks = @ - w.val[1], !.data[w.node] = w.val[2], !.len[w.node] = w.val[1]]
           v == w.val
           fc == mem.freeChunks - v[1]
           ln == [mem.len EXCEPT ![n] = v[1]]
           dt == [mem.data EXCEPT ![n] = v[2]]
<1>1. PICK L, F, A :
        /\ Shape(mem, L, F, A) /\ PrevRight(mem, L, INVALID)
        /\ n \in Range(A) /\ n \in Linked(L) /\ n \in Node
        /\ v \in Value
        /\ w.op # "visit" => w.key \in Key /\ FirstOf(mem, L, w.key, n)
        /\ clean => Tally(mem, L, F, A, {}, Linked(L), {}, Nonempty(L), [mem.len EXCEPT ![n] = 0], {})
  BY UpdateBegins
<1>2. /\ mem \in Segment /\ mem.data \in [Node -> Datum] /\ mem.len \in [Node -> Nat] /\ mem.freeChunks \in Int
      /\ v = <<v[1], v[2]>> /\ v[1] \in Nat /\ v[2] \in Datum
  BY <1>1, ShapeTells, ValueParts, SMTT(20) DEF Typed, Segment
<1>3. /\ dt \in [Node -> Datum] /\ dt[n] = v[2] /\ \A x \in Node : x # n => dt[x] = mem.data[x]
      /\ ln \in [Node -> Nat] /\ ln[n] = v[1] /\ \A x \in Node : x # n => ln[x] = mem.len[x]
      /\ fc \in Int /\ fc = mem.freeChunks - v[1]
  BY <1>1, <1>2
<1>4. mm = Refill(mem, fc, dt, ln)
  BY DEF Refill
<1> HIDE DEF fc, ln, dt, v, mm
<1>5. /\ Shape(mm, L, F, A)
      /\ mm.freeChunks = fc /\ mm.data = dt /\ mm.len = ln
      /\ mm.used = mem.used /\ mm.usedBuckets = mem.usedBuckets
      /\ mm.key = mem.key /\ mm.prev = mem.prev /\ mm.next = mem.next
  <2>1. Shape(mem, L, F, A) /\ fc \in Int /\ dt \in [Node -> Datum] /\ ln \in [Node -> Nat]
    BY <1>1, <1>2, <1>3
  <2> QED
    BY <2>1, <1>4, Refilled
<1>6. Rests(mm, L, F, A, clean)
  <2>1. PrevRight(mm, L, INVALID)
    BY <1>1, <1>5 DEF PrevRight
  <2>2. ASSUME clean PROVE Calm(mm, L, F, A)
    <3> DEFINE g == [mem.len EXCEPT ![n] = 0]
    <3>1. Tally(mem, L, F, A, {}, Linked(L), {}, Nonempty(L), g, {})
      BY <1>1, <2>2
    <3>2. g \in [Node -> Nat] /\ g[n] = 0 /\ \A x \in Node : x # n => g[x] = mem.len[x]
      BY <1>1, <1>2
    <3> HIDE DEF g
    <3>3. \A x \in Node : x # n => ln[x] = g[x]
      BY <1>3, <3>2
    <3>4. Cardinality(Chunks(g)) \in Nat /\ Cardinality(Chunks(ln)) = (Cardinality(Chunks(g)) - g[n]) + ln[n]
      BY <1>1, <1>3, <3>2, <3>3, ChunksChanged
    <3>5. fc + Cardinality(Chunks(ln)) = mem.freeChunks + Cardinality(Chunks(g))
      BY <1>2, <1>3, <3>2, <3>4
    <3>6. \A x \in Node \ Linked(L) : mm.len[x] = mem.len[x]
      BY <1>1, <1>3, <1>5
    <3>7. Tally(mm, L, F, A, {}, Linked(L), {}, Nonempty(L), mm.len, {})
      BY <1>5, <3>1, <3>5, <3>6 DEF Tally
    <3> QED
      BY <3>7 DEF Calm
  <2> QED
    BY <1>5, <2>1, <2>2 DEF Rests
<1>7. Good(mm, ww, clean)
  BY <1>1, <1>6, EndsGood
<1>8. ValueOf(mm, n) = v
  BY <1>2, <1>3, <1>5 DEF ValueOf
<1>9. Changes(StacksOf(mem), StacksOf(mm), w)
  <2>1. \A x \in Node : x # n => mm.len[x] = mem.len[x] /\ mm.data[x] = mem.data[x]
    BY <1>3, <1>5
  <2>2. ValueOf(mm, n) = w.val
    BY <1>8 DEF v
  <2> QED
    BY <1>1, <1>5, <2>1, <2>2, ChangedIs
<1> QED
  BY <1>7, <1>9 DEF mm

-----------------------------------------------------------------------------
(* Deleting. *)

\* The node the process is to delete has its key.
LEMMA FirstKey ==
  ASSUME NEW mem, NEW L, NEW F, NEW A, Shape(mem, L, F, A), NEW k \in Key, NEW n, FirstOf(mem, L, k, n)
  PROVE  mem.key[n] = k /\ n \in Linked(L)
<1> DEFINE h == KeyNodes(mem, L, k)
<1>1. h # <<>> /\ h[1] = n
  BY DEF FirstOf, KeyNodes
<1>2. h \in Seq(Node) /\ \A x \in Range(h) : mem.key[x] = k /\ x \in Linked(L)
  BY ShapeTells, KeyNodesAre
<1> HIDE DEF h
<1>3. Len(h) \in Nat /\ Len(h) # 0
  BY <1>1, <1>2, Somewhere
<1>4. 1 \in 1..Len(h)
  BY <1>3
<1> QED
  BY <1>1, <1>2, <1>4, Somewhere

\* The head of a bucket is the first node under its key.
LEMMA HeadFirst ==
  ASSUME NEW mem, NEW L, NEW F, NEW A, Shape(mem, L, F, A), NEW n \in Node,
         ListOf(mem, L, n) # <<>>, ListOf(mem, L, n)[1] = n
  PROVE  FirstOf(mem, L, mem.key[n], n)
<1> DEFINE l == ListOf(mem, L, n)
           k == mem.key[n]
<1>1. k \in Key /\ l \in Seq(Node) /\ l = L[GetBucketId(k)]
  BY ShapeTells, BucketOf DEF ListOf, Typed
<1>2. l # <<>> /\ l[1] = n /\ mem.key[n] = k
  OBVIOUS
<1> HIDE DEF l, k
<1>3. Len(l) \in Nat /\ Len(l) # 0
  BY <1>1, <1>2, Somewhere
<1>4. 1 \in Nat /\ 1 \in 1..Len(l)+1 /\ 1 <= Len(l) /\ \A j \in 1..Len(l) : ~ (j < 1)
  BY <1>3
<1>5. FirstAt(l, mem.key, k, 1)
  BY <1>2, <1>4 DEF FirstAt
<1>6. Having(l, mem.key, k) # <<>> /\ Having(l, mem.key, k)[1] = l[1]
  BY <1>1, <1>4, <1>5, HavingFirst
<1> QED
  BY <1>1, <1>2, <1>6 DEF FirstOf, k

\* A bucket without its i-th node.
LEMMA CutIs ==
  ASSUME NEW mem, NEW L, NEW F, NEW A, Shape(mem, L, F, A), NEW b \in Bucket, NEW i \in 1..Len(L[b])
  PROVE  \E M : /\ CutFrom(L, b, i, M) /\ Linked(M) = Linked(L) \ {L[b][i]}
                /\ Distinct(M[b]) /\ M[b] \in Seq(Node)
                /\ Range(M[b]) = Range(L[b]) \ {L[b][i]} /\ Len(M[b]) = Len(L[b]) - 1
<1>1. mem.key \in [Node -> Key] /\ L \in [Bucket -> Seq(Node)] /\ Buckets(mem, L) /\ Distinct(L[b]) /\ L[b] \in Seq(Node)
  BY ShapeTells DEF Typed
<1>2. PICK M : CutFrom(L, b, i, M) /\ Linked(M) = Linked(L) \ {L[b][i]}
  BY <1>1, LinkedLess
<1>4. M[b] = RemoveAt(L[b], i)
  BY <1>2 DEF CutFrom
<1>3. /\ RemoveAt(L[b], i) \in Seq(Node) /\ Distinct(RemoveAt(L[b], i))
      /\ Range(RemoveAt(L[b], i)) = Range(L[b]) \ {L[b][i]} /\ Len(RemoveAt(L[b], i)) = Len(L[b]) - 1
  BY <1>1, Cut
<1> QED
  BY <1>2, <1>3, <1>4

\* A node out of its bucket is a value off a stack, off the top of that of the key when the
\* process works on a key.
LEMMA DroppedIs ==
  ASSUME NEW mem, NEW mm, NEW L, NEW F, NEW A, NEW M, NEW G, NEW B, Shape(mem, L, F, A), Shape(mm, M, G, B),
         NEW b \in Bucket, NEW i \in 1..Len(L[b]), CutFrom(L, b, i, M), NEW w, w.node = L[b][i],
         mm.key = mem.key, mm.len = mem.len, mm.data = mem.data,
         w.op # "visit" => w.key \in Key /\ FirstOf(mem, L, w.key, w.node)
  PROVE  Drops(StacksOf(mem), StacksOf(mm), w)
<1> DEFINE n == w.node
<1>1. /\ Typed(mem, L) /\ Buckets(mem, L) /\ L \in [Bucket -> Seq(Node)]
  BY ShapeTells DEF Typed
<1>2. n = L[b][i] /\ n \in Linked(L) /\ n \in Range(L[b])
  BY <1>1, OfBucket
<1>3. GetBucketId(mem.key[L[b][i]]) = b
  BY <1>1, <1>2 DEF Buckets
<1>4. PICK j \in 1..Len(KeyNodes(mem, L, mem.key[L[b][i]])) :
        /\ KeyNodes(mem, L, mem.key[L[b][i]])[j] = L[b][i]
        /\ Repr(mm, M) = DropAt(Repr(mem, L), mem.key[L[b][i]], j)
  BY <1>1, <1>3, ReprCut
<1>5. StacksOf(mm) = DropAt(StacksOf(mem), mem.key[n], j)
  <2>1. StacksOf(mm) = Repr(mm, M) /\ StacksOf(mem) = Repr(mem, L)
    BY ListsAre
  <2> QED
    BY <1>2, <1>4, <2>1
<1>6. j \in 1..Len(KeyNodes(mem, L, mem.key[n])) /\ KeyNodes(mem, L, mem.key[n])[j] = n
  BY <1>2, <1>4
<1>7. /\ mem.key[n] \in Key /\ j \in DOMAIN StacksOf(mem)[mem.key[n]]
      /\ \A k \in Key : FirstOf(mem, L, k, n) => k = mem.key[n] /\ j = 1
  BY <1>2, <1>6, PlaceIs
<1> QED
  BY <1>5, <1>7 DEF Drops

\* Unlist: the node to be deleted leaves the list of all.
LEMMA UnlistStep ==
  ASSUME NEW mem, NEW w, NEW clean, Good(mem, w, clean), w.pc = "unlist", NEW ww, ww.pc = "unlink", SameWork(w, ww)
  PROVE  /\ Good(DeleteFromAddList(mem, w.node), ww, clean)
         /\ StacksOf(DeleteFromAddList(mem, w.node)) = StacksOf(mem)
<1> DEFINE n == w.node
           mm == DeleteFromAddList(mem, n)
<1>1. PICK L, F, A : /\ Shape(mem, L, F, A) /\ PrevRight(mem, L, Hole(mem, w)) /\ Hand(mem, L, F, A, w)
                     /\ clean => Counts(mem, L, F, A, w)
  BY DEF Good
<1>2. /\ n \in Range(A) /\ w.op \in {"delete", "visit"} /\ Hole(mem, w) = INVALID
      /\ w.op # "visit" => w.key \in Key /\ FirstOf(mem, L, w.key, n)
  BY <1>1 DEF Hand, Hole
<1>3. n \in Linked(L) /\ n \in Node
  BY <1>1, <1>2, ShapeTells
<1>4. clean => Calm(mem, L, F, A)
  <2>1. w.pc \in RestPcs
    BY DEF RestPcs
  <2> QED
    BY <1>1, <2>1, CountsAre
<1>5. ww.node = n /\ ww.op = w.op /\ ww.key = w.key
  BY DEF SameWork
<1> HIDE DEF n
<1>6. PICK B : Shape(mm, L, F, B) /\ Range(B) = Range(A) \ {n} /\ SameNodes(mem, mm)
  BY <1>1, <1>3, UnlistIs
<1> HIDE DEF mm
<1>7. mm.key = mem.key /\ mm.prev = mem.prev
  BY <1>6 DEF SameNodes
<1>8. StacksOf(mm) = StacksOf(mem)
  BY <1>1, <1>6, SameNodesKept
<1>9. Hand(mm, L, F, B, ww)
  <2>1. FirstOf(mm, L, w.key, n) <=> FirstOf(mem, L, w.key, n)
    BY <1>7 DEF FirstOf
  <2> QED
    BY <1>2, <1>3, <1>5, <1>6, <2>1 DEF Hand, InHand
<1>10. PrevRight(mm, L, Hole(mm, ww))
  <2>1. Hole(mm, ww) = INVALID
    BY DEF Hole
  <2> QED
    BY <1>1, <1>2, <1>7, <2>1 DEF PrevRight
<1>11. ASSUME clean PROVE Counts(mm, L, F, B, ww)
  <2>1. Tally(mm, L, F, B, {}, Linked(L), {n}, Nonempty(L), mm.len, {})
    BY <1>4, <1>6, <1>11 DEF Calm, Tally, SameNodes
  <2> QED
    BY <1>5, <2>1, CountsAre
<1>12. Good(mm, ww, clean)
  BY <1>6, <1>9, <1>10, <1>11 DEF Good
<1> QED
  BY <1>8, <1>12 DEF mm, n

\* The node before the deleted one leads past it, if there is one.
LEMMA Unlink1Step ==
  ASSUME NEW mem, NEW w, NEW clean, Good(mem, w, clean), w.pc = "unlink", NEW ww, ww.pc = "unlinkOn", SameWork(w, ww)
  PROVE  LET mm == Unlink1(mem, w.node)
         IN /\ Good(mm, ww, clean)
            /\ StacksOf(mm) = StacksOf(mem) \/ Drops(StacksOf(mem), StacksOf(mm), w)
            /\ w.op \in {"delete", "visit"}
<1> DEFINE n == w.node
           mm == Unlink1(mem, n)
           b == GetBucketId(mem.key[n])
<1>1. PICK L, F, A : /\ Shape(mem, L, F, A) /\ PrevRight(mem, L, Hole(mem, w)) /\ Hand(mem, L, F, A, w)
                     /\ clean => Counts(mem, L, F, A, w)
  BY DEF Good
<1>2. /\ n \in Linked(L) \ Range(A) /\ w.op \in {"delete", "visit"} /\ Hole(mem, w) = INVALID
      /\ w.op # "visit" => w.key \in Key /\ FirstOf(mem, L, w.key, n)
  BY <1>1 DEF Hand, Hole
<1>3. clean => Tally(mem, L, F, A, {}, Linked(L), {n}, Nonempty(L), mem.len, {})
  BY <1>1, CountsAre
<1>4. /\ mem \in Segment /\ L \in [Bucket -> Seq(Node)] /\ mem.key \in [Node -> Key]
      /\ mem.next \in [Node -> Handle] /\ mem.prev \in [Node -> Handle] /\ Buckets(mem, L)
      /\ F \in Seq(Node) /\ Distinct(F) /\ Range(F) \cap Linked(L) = {} /\ Leads(mem.free, mem.next, F)
      /\ Range(A) \subseteq Linked(L) /\ Linked(L) \subseteq Node /\ Range(F) \subseteq Node
  BY <1>1, ShapeTells DEF Typed
<1>5. n \in Node /\ n # INVALID
  BY <1>2, <1>4, NoNode
<1>6. b \in Bucket /\ L[b] \in Seq(Node) /\ Distinct(L[b]) /\ Leads(mem.bucket[b], mem.next, L[b])
      /\ Knows(mem.prev, L[b], INVALID)
  <2>1. b \in Bucket
    BY <1>5, <1>4, BucketOf
  <2>2. Knows(mem.prev, L[b], INVALID)
    BY <1>1, <1>2, <2>1 DEF PrevRight
  <2> QED
    BY <1>1, <2>1, <2>2, ShapeTells DEF Buckets
<1>7. PICK i \in 1..Len(L[b]) : L[b][i] = n
  BY <1>2, <1>4, InBucket, ZenonT(30) DEF ListOf
<1>8. /\ Len(L[b]) \in Nat /\ i \in Int /\ 1 <= i /\ i <= Len(L[b])
      /\ mem.prev[n] = Nth(L[b], i - 1) /\ mem.next[n] = Nth(L[b], i + 1)
  <2>1. Len(L[b]) \in Nat
    BY <1>6, Somewhere
  <2>2. mem.next[L[b][i]] = Nth(L[b], i + 1)
    BY <1>6 DEF Leads
  <2>3. mem.prev[L[b][i]] = Nth(L[b], i - 1)
    BY <1>5, <1>6, <1>7 DEF Knows
  <2> QED
    BY <1>7, <2>1, <2>2, <2>3
<1>9. ww.node = n /\ ww.op = w.op /\ ww.key = w.key
  BY DEF SameWork
<1>10. w.op = "delete" => w.key = mem.key[n]
  BY <1>1, <1>2, FirstKey
<1> HIDE DEF n, b
<1>11. CASE i = 1
  <2>1. mem.prev[n] = INVALID
    <3>1. i - 1 \notin 1..Len(L[b])
      BY <1>8, <1>11
    <3> QED
      BY <1>8, <3>1 DEF Nth
  <2>2. mm = mem
    BY <2>1 DEF Unlink1
  <2> HIDE DEF mm
  <2>3. PrevRight(mm, L, Hole(mm, ww))
    <3> DEFINE x == Hole(mm, ww)
    <3>1. ASSUME NEW c \in Bucket PROVE Knows(mm.prev, L[c], x)
      <4> DEFINE r == L[c]
                 prev == mem.prev
      <4>1. r \in Seq(Node) /\ Knows(prev, r, INVALID)
        BY <1>1, <1>2, <1>4 DEF PrevRight
      <4> HIDE DEF r, prev, x
      <4>2. Knows(prev, r, x)
        BY <4>1, KnowsLess
      <4> QED
        BY <2>2, <4>2 DEF r, prev
    <3> QED
      BY <3>1 DEF PrevRight
  <2>4. Hand(mm, L, F, A, ww)
    <3>1. ListOf(mem, L, n) = L[b] /\ L[b] # <<>>
      BY <1>8, <1>6, Somewhere DEF ListOf, b
    <3>2. HalfOut(mm, L, F, ww)
      BY <1>7, <1>9, <1>10, <1>11, <2>1, <2>2, <3>1 DEF HalfOut
    <3> QED
      BY <1>2, <1>5, <1>9, <3>2 DEF Hand, InHand
  <2>5. ASSUME clean PROVE Counts(mm, L, F, A, ww)
    <3>1. Linked(L) \cup {n} = Linked(L)
      BY <1>2
    <3>2. Tally(mm, L, F, A, {n}, Linked(L) \cup {n}, {n}, Nonempty(L), mm.len, {n})
      BY <1>3, <2>2, <2>5, <3>1 DEF Tally
    <3> QED
      BY <1>9, <3>2, CountsAre
  <2>6. Good(mm, ww, clean)
    BY <1>1, <2>2, <2>3, <2>4, <2>5 DEF Good
  <2> QED
    BY <1>2, <2>2, <2>6 DEF mm, n
<1>12. CASE i # 1
  <2>0. Len(L[b]) # 0 /\ Len(L[b]) - 1 # 0
    <3> DEFINE len == Len(L[b])
    <3>1. len \in Nat /\ i \in Int /\ 1 <= i /\ i <= len /\ i # 1
      BY <1>8, <1>12
    <3> HIDE DEF len
    <3>2. len # 0 /\ len - 1 # 0
      BY <3>1
    <3> QED
      BY <3>2 DEF len
  <2> DEFINE p == L[b][i-1]
  <2>1. i - 1 \in 1..Len(L[b]) /\ (i - 1) + 1 = i /\ i + (-1) = i - 1 /\ i - (-1) = i + 1 /\ i \in Nat /\ i - 1 \in Nat
    BY <1>8, <1>12
  <2>2. p \in Node /\ p \in Linked(L) /\ p # n /\ mem.prev[n] = p /\ p # INVALID
    <3>1. p \in Node /\ p \in Linked(L)
      BY <1>4, <1>6, <2>1, OfBucket
    <3>2. p # n
      <4>1. i - 1 # i
        BY <1>8
      <4> QED
        BY <1>6, <1>7, <2>1, <4>1 DEF Distinct
    <3>3. mem.prev[n] = p
      BY <1>8, <2>1 DEF Nth
    <3> QED
      BY <3>1, <3>2, <3>3, NoNode
  <2> DEFINE nx == [mem.next EXCEPT ![p] = mem.next[n]]
  <2>3. mm = [mem EXCEPT !.next = nx]
    BY <2>2 DEF Unlink1
  <2>4. nx \in [Node -> Handle] /\ nx[p] = mem.next[n] /\ \A x \in Node : x # p => nx[x] = mem.next[x]
    BY <1>4, <1>5, <2>2
  <2> HIDE DEF mm, nx, p
  <2>5. /\ mm.next = nx /\ mm.prev = mem.prev /\ mm.free = mem.free /\ mm.bucket = mem.bucket
        /\ mm.key = mem.key /\ mm.len = mem.len /\ mm.data = mem.data /\ SameAll(mem, mm)
        /\ mm.used = mem.used /\ mm.usedBuckets = mem.usedBuckets /\ mm.freeChunks = mem.freeChunks
    <3>1. mm \in Segment
      BY <1>4, <2>3, <2>4 DEF Segment
    <3>2. SameAll(mem, mm)
      BY <1>4, <2>3, <3>1 DEF SameAll, Segment
    <3> QED
      BY <1>4, <2>3, <3>2 DEF Segment
  <2>6. PICK M : /\ CutFrom(L, b, i, M) /\ Linked(M) = Linked(L) \ {L[b][i]}
                 /\ Distinct(M[b]) /\ M[b] \in Seq(Node)
                 /\ Range(M[b]) = Range(L[b]) \ {L[b][i]} /\ Len(M[b]) = Len(L[b]) - 1
    BY <1>1, <1>6, CutIs
  <2>7. /\ M \in [Bucket -> Seq(Node)] /\ M[b] = RemoveAt(L[b], i) /\ \A c \in Bucket : c # b => M[c] = L[c]
        /\ Linked(M) = Linked(L) \ {n} /\ n \notin Linked(M)
    BY <1>7, <2>6 DEF CutFrom
  <2>8. Shape(mm, M, F, A)
    <3>1. \A c \in Bucket : c # b => M[c] = L[c] /\ mm.bucket[c] = mem.bucket[c]
      BY <2>5, <2>7
    <3>2. \A c \in Bucket : c # b => \A x \in Range(L[c]) : mm.next[x] = mem.next[x]
      <4> SUFFICES ASSUME NEW c \in Bucket, c # b, NEW x \in Range(L[c]) PROVE mm.next[x] = mem.next[x]
        OBVIOUS
      <4>1. x \in Node
        BY <1>4, OfBucket
      <4>2. p \in Range(L[b])
        BY <1>6, <2>1, Somewhere DEF p
      <4>3. x # p
        BY <1>1, <1>6, <4>2, Apart
      <4> QED
        BY <2>4, <2>5, <4>1, <4>3
    <3>3. Leads(mm.bucket[b], mm.next, M[b])
      <4> DEFINE t == L[b]
                 link == mem.next
                 first == mem.bucket[b]
      <4>1. t \in Seq(Node) /\ Distinct(t) /\ i \in 1..Len(t) /\ Leads(first, link, t)
        BY <1>6
      <4>2. Passed(link, nx, t, i, -1)
        <5>1. nx[t[i-1]] = Nth(t, i + 1)
          BY <1>8, <2>4 DEF p
        <5>2. ASSUME NEW j \in 1..Len(t), j # i, j # i - 1 PROVE nx[t[j]] = link[t[j]]
          <6>1. t[j] \in Node /\ t[j] # p
            BY <1>6, <2>1, <5>2, Somewhere DEF Distinct, p
          <6> QED
            BY <2>4, <6>1
        <5> QED
          BY <2>1, <5>1, <5>2 DEF Passed
      <4> HIDE DEF t, link, first
      <4>3. Leads(IF i = 1 THEN Nth(t, 2) ELSE first, nx, RemoveAt(t, i))
        BY <4>1, <4>2, LeadsCut
      <4>4. Leads(first, nx, RemoveAt(t, i))
        BY <1>12, <4>3
      <4> QED
        BY <2>5, <2>7, <4>4 DEF t, first
    <3>4. \A x \in Range(M[b]) : GetBucketId(mem.key[x]) = b
      BY <1>4, <1>6, <2>6 DEF Buckets
    <3>5. Range(F) \cap Linked(M) = {} /\ Range(A) \subseteq Linked(M)
      BY <1>2, <1>4, <2>7
    <3>6. Leads(mm.free, mm.next, F)
      <4>1. \A x \in Range(F) : nx[x] = mem.next[x]
        BY <1>4, <2>2, <2>4
      <4>2. Leads(mem.free, nx, F)
        BY <1>4, <4>1, LeadsKept
      <4> QED
        BY <2>5, <4>2
    <3>7. /\ mm.key = mem.key /\ SameAll(mem, mm) /\ b \in Bucket /\ M \in [Bucket -> Seq(Node)] /\ Distinct(M[b])
      BY <1>6, <2>5, <2>6, <2>7
    <3>8. Shape(mem, L, F, A)
      BY <1>1
    <3> QED
      BY <3>1, <3>2, <3>3, <3>4, <3>5, <3>6, <3>7, <3>8, ShapeBucket
  <2>9. mm.next[n] = Nth(L[b], i + 1) /\ Hole(mm, ww) = Nth(L[b], i + 1)
    <3>1. nx[n] = mem.next[n]
      BY <1>5, <2>2, <2>4
    <3> QED
      BY <1>8, <1>9, <2>5, <3>1 DEF Hole
  <2> DEFINE x == Nth(L[b], i + 1)
  <2>10. Knows(mem.prev, L[b], x)
    BY <1>6, KnowsLess
  <2>11. /\ Knows(mem.prev, M[b], x)
         /\ x = Nth(M[b], i) /\ p = Nth(M[b], i - 1)
    <3> DEFINE t == L[b]
               prev == mem.prev
    <3>1. t \in Seq(Node) /\ Distinct(t) /\ i \in 1..Len(t) /\ Knows(prev, t, Nth(t, i + 1))
      BY <1>6, <2>10
    <3> HIDE DEF t, prev
    <3>2. /\ Knows(prev, RemoveAt(t, i), Nth(t, i + 1))
          /\ Nth(t, i + 1) = Nth(RemoveAt(t, i), i) /\ Nth(t, i - 1) = Nth(RemoveAt(t, i), i - 1)
      BY <3>1, KnowsCut
    <3> QED
      BY <1>8, <2>2, <2>7, <3>2 DEF t, prev
  <2>12. PrevRight(mm, M, Hole(mm, ww))
    <3> HIDE DEF x
    <3>1. ASSUME NEW c \in Bucket PROVE Knows(mm.prev, M[c], x)
      <4>1. CASE c = b
        BY <2>5, <2>11, <4>1
      <4>2. CASE c # b
        <5> DEFINE r == L[c]
                   prev == mem.prev
        <5>1. r \in Seq(Node) /\ Knows(prev, r, INVALID)
          BY <1>1, <1>2, <1>4 DEF PrevRight
        <5> HIDE DEF r, prev
        <5>2. Knows(prev, r, x)
          BY <5>1, KnowsLess
        <5> QED
          BY <2>5, <2>7, <4>2, <5>2 DEF r, prev
      <4> QED
        BY <4>1, <4>2
    <3> QED
      BY <2>9, <3>1 DEF PrevRight, x
  <2>13. Hand(mm, M, F, A, ww)
    <3>1. ListOf(mm, M, n) = M[b]
      BY <2>5 DEF ListOf, b
    <3>2. i - 1 \in 1..Len(M[b]) /\ M[b][i-1] = p /\ (i - 1) + 1 = i
      <4>1. i - 1 \in 1..Len(M[b])
        BY <1>8, <2>1, <2>6
      <4> QED
        BY <2>1, <2>11, <4>1 DEF Nth
    <3>3. mm.prev[n] = M[b][i-1] /\ mm.next[n] = Nth(M[b], (i - 1) + 1)
      BY <2>2, <2>5, <2>9, <2>11, <3>2
    <3>4. n \notin Linked(M) \cup Range(F)
      BY <1>2, <1>4, <2>7
    <3>5. HalfOut(mm, M, F, ww)
      BY <1>9, <3>1, <3>2, <3>3, <3>4 DEF HalfOut
    <3> QED
      BY <1>2, <1>5, <1>9, <3>5 DEF Hand, InHand
  <2>14. ASSUME clean PROVE Counts(mm, M, F, A, ww)
    <3>1. Linked(M) \cup {n} = Linked(L)
      BY <1>2, <2>7
    <3>2. Nonempty(M) = Nonempty(L)
      <4>1. Len(M[b]) # 0 /\ Len(L[b]) # 0
        BY <2>0, <2>6
      <4>2. M[b] # <<>> /\ L[b] # <<>>
        BY <1>6, <2>6, <4>1, Somewhere
      <4> QED
        BY <2>7, <4>2 DEF Nonempty
    <3>3. Tally(mm, M, F, A, {n}, Linked(M) \cup {n}, {n}, Nonempty(M), mm.len, {n})
      BY <1>3, <2>5, <2>14, <3>1, <3>2 DEF Tally
    <3> QED
      BY <1>9, <3>3, CountsAre
  <2>15. Good(mm, ww, clean)
    BY <2>8, <2>12, <2>13, <2>14 DEF Good
  <2>16. Drops(StacksOf(mem), StacksOf(mm), w)
    <3>1. w.node = L[b][i]
      BY <1>7 DEF n
    <3>2. w.op # "visit" => w.key \in Key /\ FirstOf(mem, L, w.key, w.node)
      BY <1>2 DEF n
    <3> QED
      BY <1>1, <1>6, <2>5, <2>6, <2>8, <3>1, <3>2, DroppedIs
  <2> QED
    BY <1>2, <2>15, <2>16 DEF mm, n
<1> QED
  BY <1>11, <1>12

\* The bucket and the node behind the deleted one are told.  The node has left the
\* stacks with this step if it was the head of its bucket, else with the one before.
LEMMA Unlink2Step ==
  ASSUME NEW mem, NEW w, NEW clean, Good(mem, w, clean), w.pc = "unlinkOn", NEW ww, ww.pc = "uncount", SameWork(w, ww)
  PROVE  LET mm == Unlink2(mem, w.node)
         IN /\ Good(mm, ww, clean)
            /\ StacksOf(mm) = StacksOf(mem) \/ Drops(StacksOf(mem), StacksOf(mm), w)
            /\ w.op \in {"delete", "visit"}
<1> DEFINE n == w.node
           mm == Unlink2(mem, n)
           b == GetBucketId(mem.key[n])
           x == mem.next[n]
<1>1. PICK L, F, A : /\ Shape(mem, L, F, A) /\ PrevRight(mem, L, Hole(mem, w)) /\ Hand(mem, L, F, A, w)
                     /\ clean => Counts(mem, L, F, A, w)
  BY DEF Good
<1>2. n \in Node \ Range(A) /\ HalfOut(mem, L, F, w) /\ w.op \in {"delete", "visit"} /\ Hole(mem, w) = x
  BY <1>1 DEF Hand, Hole
<1>3. clean => Tally(mem, L, F, A, {n}, Linked(L) \cup {n}, {n}, Nonempty(L), mem.len, {n})
  BY <1>1, CountsAre
<1>4. /\ mem \in Segment /\ L \in [Bucket -> Seq(Node)] /\ mem.key \in [Node -> Key]
      /\ mem.bucket \in [Bucket -> Handle]
      /\ mem.next \in [Node -> Handle] /\ mem.prev \in [Node -> Handle] /\ Buckets(mem, L)
      /\ F \in Seq(Node) /\ Distinct(F) /\ Range(F) \cap Linked(L) = {} /\ Leads(mem.free, mem.next, F)
      /\ Range(A) \subseteq Linked(L) /\ Linked(L) \subseteq Node /\ Range(F) \subseteq Node
  BY <1>1, ShapeTells DEF Typed
<1>5. n \in Node /\ n # INVALID /\ x \in Handle
  BY <1>2, <1>4, NoNode
<1>6. b \in Bucket /\ L[b] \in Seq(Node) /\ Distinct(L[b]) /\ Leads(mem.bucket[b], mem.next, L[b])
      /\ Knows(mem.prev, L[b], x) /\ Len(L[b]) \in Nat
  <2>1. b \in Bucket
    BY <1>5, <1>4, BucketOf
  <2>2. Knows(mem.prev, L[b], x)
    BY <1>1, <1>2, <2>1 DEF PrevRight
  <2>3. L[b] \in Seq(Node) /\ Len(L[b]) \in Nat
    BY <1>4, <2>1, OfBucket
  <2> QED
    BY <1>1, <2>1, <2>2, <2>3, ShapeTells DEF Buckets
<1> DEFINE pr == [y \in Node |-> IF y = n THEN INVALID ELSE IF y = x THEN mem.prev[n] ELSE mem.prev[y]]
           bu == [c \in Bucket |-> IF c = b /\ mem.bucket[c] = n THEN x ELSE mem.bucket[c]]
           nx == [mem.next EXCEPT ![n] = INVALID]
<1>7. mm = [mem EXCEPT !.prev = pr, !.bucket = bu, !.next = nx]
  BY <1>4 DEF Unlink2, Segment
<1>8. /\ pr \in [Node -> Handle] /\ pr[n] = INVALID /\ \A y \in Node : y # n /\ y # x => pr[y] = mem.prev[y]
      /\ x \in Node => pr[x] = IF x = n THEN INVALID ELSE mem.prev[n]
      /\ bu \in [Bucket -> Handle] /\ bu[b] = (IF mem.bucket[b] = n THEN x ELSE mem.bucket[b])
      /\ \A c \in Bucket : c # b => bu[c] = mem.bucket[c]
      /\ nx \in [Node -> Handle] /\ \A y \in Node : y # n => nx[y] = mem.next[y]
  BY <1>4, <1>5, <1>6, NoNode
<1>9. ww.node = n
  BY DEF SameWork
<1> HIDE DEF mm, pr, bu, nx
<1>10. /\ mm.prev = pr /\ mm.next = nx /\ mm.free = mem.free /\ mm.bucket = bu
       /\ mm.key = mem.key /\ mm.len = mem.len /\ mm.data = mem.data /\ SameAll(mem, mm)
       /\ mm.used = mem.used /\ mm.usedBuckets = mem.usedBuckets /\ mm.freeChunks = mem.freeChunks
  <2>1. mm \in Segment
    BY <1>4, <1>7, <1>8 DEF Segment
  <2>2. SameAll(mem, mm)
    BY <1>4, <1>7, <2>1 DEF SameAll, Segment
  <2> QED
    BY <1>4, <1>7, <2>2 DEF Segment
\* The lists without the node, and the place j of the node behind it.
<1> DEFINE Without(M, j) ==
             /\ M \in [Bucket -> Seq(Node)] /\ \A c \in Bucket : c # b => M[c] = L[c]
             /\ Distinct(M[b]) /\ Range(M[b]) \subseteq Range(L[b]) /\ Linked(M) = Linked(L) \ {n}
             /\ n \notin Range(F)
             /\ Leads(bu[b], nx, M[b]) /\ Knows(mem.prev, M[b], x)
             /\ j \in Int /\ x = Nth(M[b], j) /\ mem.prev[n] = Nth(M[b], j - 1)
             /\ L[b] # <<>>
             /\ \/ M = L
                \/ /\ 1 \in 1..Len(L[b]) /\ CutFrom(L, b, 1, M) /\ n = L[b][1]
                   /\ w.op # "visit" => w.key \in Key /\ FirstOf(mem, L, w.key, n)
<1>11. \E M, j : Without(M, j)
  <2>0. ListOf(mem, L, n) = L[b]
    BY DEF ListOf
  <2>1. CASE /\ L[b] # <<>> /\ L[b][1] = n /\ mem.prev[n] = INVALID
             /\ w.op = "delete" => w.key = mem.key[n]
    <3> HIDE DEF b, n, x
    <3>1. 1 \in 1..Len(L[b]) /\ Len(L[b]) # 0
      <4>1. Len(L[b]) # 0
        BY <1>6, <2>1, Somewhere
      <4> QED
        BY <1>6, <4>1
    <3>2. PICK M : /\ CutFrom(L, b, 1, M) /\ Linked(M) = Linked(L) \ {L[b][1]}
                   /\ Distinct(M[b]) /\ M[b] \in Seq(Node)
                   /\ Range(M[b]) = Range(L[b]) \ {L[b][1]}
      <4>1. \A i \in 1..Len(L[b]) :
              \E M : /\ CutFrom(L, b, i, M) /\ Linked(M) = Linked(L) \ {L[b][i]}
                     /\ Distinct(M[b]) /\ M[b] \in Seq(Node)
                     /\ Range(M[b]) = Range(L[b]) \ {L[b][i]} /\ Len(M[b]) = Len(L[b]) - 1
        <5>1. Shape(mem, L, F, A) /\ b \in Bucket
          BY <1>1, <1>6
        <5> QED
          BY <5>1, CutIs
      <4> QED
        BY <3>1, <4>1
    <3>3. /\ M \in [Bucket -> Seq(Node)] /\ M[b] = RemoveAt(L[b], 1) /\ \A c \in Bucket : c # b => M[c] = L[c]
      BY <3>2 DEF CutFrom
    <3>4. x = Nth(L[b], 2) /\ mem.bucket[b] = n /\ bu[b] = x
      <4>1. mem.next[L[b][1]] = Nth(L[b], 1 + 1) /\ mem.bucket[b] = Nth(L[b], 1)
        BY <1>6, <3>1 DEF Leads
      <4>2. mem.bucket[b] = n
        BY <2>1, <3>1, <4>1 DEF Nth
      <4> QED
        BY <1>8, <2>1, <4>1, <4>2 DEF x
    <3>5. Leads(bu[b], nx, M[b])
      <4> DEFINE t == L[b]
                 link == mem.next
                 first == mem.bucket[b]
      <4>1. t \in Seq(Node) /\ Distinct(t) /\ 1 \in 1..Len(t) /\ Leads(first, link, t)
        BY <1>6, <3>1
      <4>2. Passed(link, nx, t, 1, -1)
        <5>1. 1 + (-1) = 0 /\ 0 \notin 1..Len(t)
          BY <1>6
        <5>2. ASSUME NEW k \in 1..Len(t), k # 1 PROVE nx[t[k]] = link[t[k]]
          <6>1. t[k] \in Node /\ t[k] # n
            BY <1>6, <2>1, <3>1, <5>2, Somewhere DEF Distinct
          <6> QED
            BY <1>8, <6>1
        <5> QED
          BY <5>1, <5>2 DEF Passed
      <4> HIDE DEF t, link, first
      <4>3. Leads(IF 1 = 1 THEN Nth(t, 2) ELSE first, nx, RemoveAt(t, 1))
        BY <4>1, <4>2, LeadsCut
      <4>4. Leads(Nth(t, 2), nx, RemoveAt(t, 1))
        BY <4>3
      <4> QED
        BY <3>3, <3>4, <4>4 DEF t
    <3>6. Knows(mem.prev, M[b], x) /\ x = Nth(M[b], 1) /\ mem.prev[n] = Nth(M[b], 1 - 1)
      <4> DEFINE t == L[b]
                 prev == mem.prev
      <4>1. t \in Seq(Node) /\ Distinct(t) /\ 1 \in 1..Len(t) /\ Knows(prev, t, Nth(t, 1 + 1))
        BY <1>6, <3>1, <3>4
      <4>2. mem.prev[n] = Nth(t, 1 - 1)
        <5>1. 1 - 1 \notin 1..Len(t)
          BY <1>6
        <5> QED
          BY <2>1, <5>1 DEF Nth
      <4> HIDE DEF t, prev
      <4>3. /\ Knows(prev, RemoveAt(t, 1), Nth(t, 1 + 1))
            /\ Nth(t, 1 + 1) = Nth(RemoveAt(t, 1), 1) /\ Nth(t, 1 - 1) = Nth(RemoveAt(t, 1), 1 - 1)
        BY <4>1, KnowsCut
      <4> QED
        BY <3>3, <3>4, <4>2, <4>3 DEF t, prev
    <3>7. n \notin Range(F)
      <4>1. n \in Linked(L)
        BY <1>4, <1>6, <2>1, <3>1, OfBucket
      <4> QED
        BY <1>4, <4>1
    <3>8. w.op # "visit" => w.key \in Key /\ FirstOf(mem, L, w.key, n)
      <4>1. FirstOf(mem, L, mem.key[n], n)
        BY <1>1, <1>5, <2>0, <2>1, HeadFirst
      <4> QED
        BY <1>2, <1>4, <2>1, <4>1
    <3>9. Without(M, 1)
      <4>1. 1 \in Int
        OBVIOUS
      <4> QED
        BY <2>1, <3>1, <3>2, <3>3, <3>5, <3>6, <3>7, <3>8, <4>1
    <3> QED
      BY <3>9
  <2>2. ASSUME n \notin Linked(L) \cup Range(F), NEW i \in 1..Len(L[b]), mem.prev[n] = L[b][i], x = Nth(L[b], i + 1)
        PROVE  Without(L, i + 1)
    <3>1. i + 1 \in Int /\ (i + 1) - 1 = i /\ Len(L[b]) # 0
      BY <1>6
    <3>2. mem.prev[n] = Nth(L[b], (i + 1) - 1)
      BY <2>2, <3>1 DEF Nth
    <3>3. L[b] # <<>>
      BY <1>6, <3>1, Somewhere
    <3>4. n \notin Range(L[b])
      BY <1>4, <1>6, <2>2, OfBucket
    <3>5. bu[b] = mem.bucket[b]
      <4>1. 1 \in 1..Len(L[b])
        BY <1>6, <3>1
      <4>2. mem.bucket[b] = L[b][1]
        BY <1>6, <4>1 DEF Leads, Nth
      <4>3. mem.bucket[b] # n
        BY <1>6, <3>4, <4>1, <4>2, Somewhere
      <4> QED
        BY <1>8, <4>3
    <3>6. Leads(bu[b], nx, L[b])
      <4> DEFINE t == L[b]
                 link == mem.next
                 first == mem.bucket[b]
      <4>1. t \in Seq(Node) /\ Leads(first, link, t)
        BY <1>6
      <4>2. \A y \in Range(t) : nx[y] = link[y]
        BY <1>8, <3>4, <4>1, Somewhere
      <4> HIDE DEF t, link, first
      <4>3. Leads(first, nx, t)
        BY <4>1, <4>2, LeadsKept
      <4> QED
        BY <3>5, <4>3 DEF t, first
    <3>7. Linked(L) = Linked(L) \ {n}
      BY <2>2
    <3> QED
      BY <1>4, <1>6, <2>2, <3>1, <3>2, <3>3, <3>6, <3>7
  <2> HIDE DEF Without
  <2>3. \/ /\ L[b] # <<>> /\ L[b][1] = n /\ mem.prev[n] = INVALID
           /\ w.op = "delete" => w.key = mem.key[n]
        \/ /\ n \notin Linked(L) \cup Range(F)
           /\ \E i \in 1..Len(L[b]) : mem.prev[n] = L[b][i] /\ x = Nth(L[b], i + 1)
    BY <1>2, <2>0 DEF HalfOut
  <2>4. CASE /\ n \notin Linked(L) \cup Range(F)
             /\ \E i \in 1..Len(L[b]) : mem.prev[n] = L[b][i] /\ x = Nth(L[b], i + 1)
    <3>1. PICK i \in 1..Len(L[b]) : mem.prev[n] = L[b][i] /\ x = Nth(L[b], i + 1)
      BY <2>4
    <3>2. Without(L, i + 1)
      BY <2>2, <2>4, <3>1
    <3> QED
      BY <3>2
  <2> QED
    BY <2>1, <2>3, <2>4
<1>12. PICK M, j : Without(M, j)
  BY <1>11
<1>13. /\ M \in [Bucket -> Seq(Node)] /\ \A c \in Bucket : c # b => M[c] = L[c]
       /\ M[b] \in Seq(Node) /\ Distinct(M[b]) /\ Range(M[b]) \subseteq Range(L[b]) /\ Linked(M) = Linked(L) \ {n}
       /\ n \notin Linked(M) /\ n \notin Range(F)
       /\ Leads(bu[b], nx, M[b]) /\ Knows(mem.prev, M[b], x)
       /\ j \in Int /\ x = Nth(M[b], j) /\ mem.prev[n] = Nth(M[b], j - 1)
       /\ L[b] # <<>>
  BY <1>6, <1>12
<1>14. \/ M = L
       \/ /\ 1 \in 1..Len(L[b]) /\ CutFrom(L, b, 1, M) /\ n = L[b][1]
          /\ w.op # "visit" => w.key \in Key /\ FirstOf(mem, L, w.key, n)
  BY <1>12
<1> HIDE DEF Without, b, n, x
<1>15. Shape(mm, M, F, A)
  <2>1. \A c \in Bucket : c # b => M[c] = L[c] /\ mm.bucket[c] = mem.bucket[c]
    BY <1>8, <1>10, <1>13
  <2>2. \A c \in Bucket : c # b => \A y \in Range(L[c]) : mm.next[y] = mem.next[y]
    <3> SUFFICES ASSUME NEW c \in Bucket, c # b, NEW y \in Range(L[c]) PROVE mm.next[y] = mem.next[y]
      OBVIOUS
    <3>1. y \in Node /\ y \in Range(M[c])
      BY <1>4, <1>13, OfBucket
    <3>2. y \in Linked(M)
      BY <1>13, <3>1, OfBucket
    <3> QED
      BY <1>8, <1>10, <1>13, <3>1, <3>2
  <2>3. Leads(mm.bucket[b], mm.next, M[b])
    BY <1>10, <1>13
  <2>4. \A y \in Range(M[b]) : GetBucketId(mem.key[y]) = b
    BY <1>4, <1>6, <1>13 DEF Buckets
  <2>5. Range(F) \cap Linked(M) = {} /\ Range(A) \subseteq Linked(M)
    BY <1>2, <1>4, <1>13 DEF n
  <2>6. Leads(mm.free, mm.next, F)
    <3>1. \A y \in Range(F) : nx[y] = mem.next[y]
      BY <1>4, <1>8, <1>13
    <3>2. Leads(mem.free, nx, F)
      BY <1>4, <3>1, LeadsKept
    <3> QED
      BY <1>10, <3>2
  <2>7. /\ mm.key = mem.key /\ SameAll(mem, mm) /\ b \in Bucket /\ M \in [Bucket -> Seq(Node)] /\ Distinct(M[b])
    BY <1>6, <1>10, <1>13
  <2>8. Shape(mem, L, F, A)
    BY <1>1
  <2> QED
    BY <2>1, <2>2, <2>3, <2>4, <2>5, <2>6, <2>7, <2>8, ShapeBucket
<1>16. PrevRight(mm, M, Hole(mm, ww))
  <2>1. Hole(mm, ww) = INVALID
    BY DEF Hole
  <2>2. ASSUME NEW c \in Bucket PROVE Knows(pr, M[c], INVALID)
    <3> DEFINE s == M[c]
               prev == mem.prev
    <3>1. s \in Seq(Node) /\ Range(s) \subseteq Linked(M) /\ Range(s) \subseteq Node
      BY <1>4, <1>13, OfBucket
    <3>2. \A y \in Range(s) : y # x => pr[y] = prev[y]
      BY <1>8, <1>13, <3>1
    <3>3. CASE c = b
      <4>1. Distinct(s) /\ Knows(prev, s, x) /\ j \in Int /\ x = Nth(s, j)
        BY <1>13, <3>3
      <4>2. x = INVALID \/ pr[x] = Nth(s, j - 1)
        <5> SUFFICES ASSUME x # INVALID PROVE pr[x] = Nth(s, j - 1)
          OBVIOUS
        <5>1. x \in Range(s)
          BY <3>1, <4>1, Somewhere DEF Nth
        <5>2. x \in Node /\ x # n
          BY <1>13, <3>1, <5>1
        <5> QED
          BY <1>8, <1>13, <3>3, <5>2
      <4> HIDE DEF s, prev
      <4>3. Knows(pr, s, INVALID)
        BY <3>1, <3>2, <4>1, <4>2, KnowsAgain
      <4> QED
        BY <4>3 DEF s
    <3>4. CASE c # b
      <4>0. s = L[c]
        BY <1>13, <3>4
      <4>1. x \notin Range(s)
        <5>1. CASE x = INVALID
          BY <3>1, <5>1, NoNode
        <5>2. CASE x # INVALID
          <6>1. x \in Range(M[b])
            BY <1>13, <5>2, Somewhere DEF Nth
          <6>2. x \in Range(L[b])
            BY <1>13, <6>1
          <6> QED
            BY <1>1, <1>6, <3>4, <4>0, <6>2, Apart
        <5> QED
          BY <5>1, <5>2
      <4>2. \A y \in Range(s) : pr[y] = prev[y]
        BY <3>2, <4>1
      <4>3. Knows(prev, s, x)
        BY <1>1, <1>2, <4>0 DEF PrevRight, x
      <4> HIDE DEF s, prev
      <4>4. Knows(pr, s, INVALID)
        BY <3>1, <4>1, <4>2, <4>3, KnowsElse
      <4> QED
        BY <4>4 DEF s
    <3> QED
      BY <3>3, <3>4
  <2> QED
    BY <1>10, <2>1, <2>2 DEF PrevRight
<1>17. Hand(mm, M, F, A, ww)
  BY <1>5, <1>9, <1>13 DEF Hand, InHand
<1>18. ASSUME clean PROVE Counts(mm, M, F, A, ww)
  <2>1. Linked(M) \cup {n} = Linked(L) \cup {n}
    BY <1>13
  <2>2. Nonempty(M) \cup {b} = Nonempty(L)
    BY <1>6, <1>13 DEF Nonempty
  <2>3. Tally(mem, L, F, A, {n}, Linked(L) \cup {n}, {n}, Nonempty(L), mem.len, {n})
    BY <1>3, <1>18 DEF n
  <2>4. Tally(mm, M, F, A, {n}, Linked(M) \cup {n}, {}, Nonempty(M) \cup {b}, mm.len, {n})
    BY <1>10, <1>13, <2>1, <2>2, <2>3 DEF Tally
  <2>5. b = GetBucketId(mm.key[n]) /\ ww.node = n /\ ww.pc = "uncount"
    BY <1>9, <1>10 DEF b
  <2> QED
    BY <2>4, <2>5, CountsAre
<1>19. Good(mm, ww, clean)
  BY <1>15, <1>16, <1>17, <1>18 DEF Good
<1>20. StacksOf(mm) = StacksOf(mem) \/ Drops(StacksOf(mem), StacksOf(mm), w)
  <2>1. CASE M = L
    <3>1. StacksOf(mm) = StacksOf(mem)
      BY <1>1, <1>10, <1>15, <2>1, StacksKept
    <3> QED
      BY <3>1
  <2>2. CASE /\ 1 \in 1..Len(L[b]) /\ CutFrom(L, b, 1, M) /\ n = L[b][1]
             /\ w.op # "visit" => w.key \in Key /\ FirstOf(mem, L, w.key, n)
    <3>1. w.node = L[b][1] /\ (w.op # "visit" => w.key \in Key /\ FirstOf(mem, L, w.key, w.node))
      BY <2>2 DEF n
    <3>2. Drops(StacksOf(mem), StacksOf(mm), w)
      BY <1>1, <1>6, <1>10, <1>15, <2>2, <3>1, DroppedIs
    <3> QED
      BY <3>2
  <2> QED
    BY <1>14, <2>1, <2>2
<1> QED
  BY <1>2, <1>19, <1>20 DEF mm, n

\* The node is no longer counted.
LEMMA UncountStep ==
  ASSUME NEW mem, NEW w, NEW clean, Good(mem, w, clean), w.pc = "uncount", NEW ww, ww.pc = "empty", SameWork(w, ww)
  PROVE  /\ Good([mem EXCEPT !.used = @ - 1], ww, clean)
         /\ StacksOf([mem EXCEPT !.used = @ - 1]) = StacksOf(mem)
<1> DEFINE n == w.node
           u == mem.used - 1
           mm == [mem EXCEPT !.used = u]
           b == GetBucketId(mem.key[n])
<1>1. PICK L, F, A : /\ Shape(mem, L, F, A) /\ PrevRight(mem, L, Hole(mem, w)) /\ Hand(mem, L, F, A, w)
                     /\ clean => Counts(mem, L, F, A, w)
  BY DEF Good
<1>2. n \in Node \ (Linked(L) \cup Range(F)) /\ Hole(mem, w) = INVALID /\ Linked(L) \subseteq Node
  BY <1>1, ShapeTells DEF Hand, InHand, Hole
<1>3. clean => Tally(mem, L, F, A, {n}, Linked(L) \cup {n}, {}, Nonempty(L) \cup {b}, mem.len, {n})
  BY <1>1, CountsAre
<1>4. u \in Int /\ u = mem.used - 1 /\ mem.used \in Int
  BY <1>1, ShapeTells DEF Segment
<1>5. mm = [mem EXCEPT !.used = u]
  OBVIOUS
<1> HIDE DEF mm, u, n
<1>6. /\ Shape(mm, L, F, A) /\ StacksOf(mm) = StacksOf(mem)
      /\ mm.used = u /\ mm.usedBuckets = mem.usedBuckets /\ mm.freeChunks = mem.freeChunks
      /\ mm.key = mem.key /\ mm.len = mem.len /\ mm.prev = mem.prev
  BY <1>1, <1>4, <1>5, Recounted
<1>7. ww.node = n
  BY DEF SameWork, n
<1>8. Hand(mm, L, F, A, ww)
  BY <1>2, <1>7 DEF Hand, InHand
<1>9. PrevRight(mm, L, Hole(mm, ww))
  <2>1. Hole(mm, ww) = INVALID
    BY DEF Hole
  <2> QED
    BY <1>1, <1>2, <1>6, <2>1 DEF PrevRight
<1>10. clean => Counts(mm, L, F, A, ww)
  <2> SUFFICES ASSUME clean PROVE Counts(mm, L, F, A, ww)
    OBVIOUS
  <2>1. Cardinality(Linked(L) \cup {n}) = Cardinality(Linked(L)) + 1 /\ Cardinality(Linked(L)) \in Nat
    BY <1>2, NodeSetCounted
  <2>2. mem.used = Cardinality(Linked(L) \cup {n})
    BY <1>3 DEF Tally
  <2>3. mm.used = Cardinality(Linked(L))
    BY <1>4, <1>6, <2>1, <2>2
  <2>4. Tally(mm, L, F, A, {n}, Linked(L), {}, Nonempty(L) \cup {GetBucketId(mm.key[n])}, mm.len, {n})
    BY <1>3, <1>6, <2>3 DEF Tally
  <2> QED
    BY <1>7, <2>4, CountsAre
<1>11. Good(mm, ww, clean)
  BY <1>6, <1>8, <1>9, <1>10 DEF Good
<1> QED
  BY <1>6, <1>11 DEF mm, u

\* The node's chunks are given back, and the bucket if nothing is in it any more.
LEMMA EmptyStep ==
  ASSUME NEW mem, NEW w, NEW clean, Good(mem, w, clean), w.pc = "empty", NEW ww, ww.pc = "giveBack", SameWork(w, ww)
  PROVE  Good(FreeNode(mem, w.node), ww, clean) /\ StacksOf(FreeNode(mem, w.node)) = StacksOf(mem)
<1> DEFINE n == w.node
           mm == FreeNode(mem, n)
           b == GetBucketId(mem.key[n])
           fc == mem.freeChunks + mem.len[n]
           ub == IF BucketList(mem, b) = <<>> THEN mem.usedBuckets - 1 ELSE mem.usedBuckets
           ln == [mem.len EXCEPT ![n] = 0]
           dt == [mem.data EXCEPT ![n] = None]
           nx == [mem.next EXCEPT ![n] = INVALID]
           pr == [mem.prev EXCEPT ![n] = INVALID]
           an == [mem.addNext EXCEPT ![n] = INVALID]
           ap == [mem.addPrev EXCEPT ![n] = INVALID]
<1>1. PICK L, F, A : /\ Shape(mem, L, F, A) /\ PrevRight(mem, L, Hole(mem, w)) /\ Hand(mem, L, F, A, w)
                     /\ clean => Counts(mem, L, F, A, w)
  BY DEF Good
<1>2. n \in Node \ (Linked(L) \cup Range(F)) /\ Hole(mem, w) = INVALID
  BY <1>1 DEF Hand, InHand, Hole
<1>3. clean => Tally(mem, L, F, A, {n}, Linked(L), {}, Nonempty(L) \cup {b}, mem.len, {n})
  BY <1>1, CountsAre
<1>4. /\ mem \in Segment /\ L \in [Bucket -> Seq(Node)] /\ mem.key \in [Node -> Key]
      /\ mem.len \in [Node -> Nat] /\ mem.data \in [Node -> Datum]
      /\ mem.next \in [Node -> Handle] /\ mem.prev \in [Node -> Handle]
      /\ mem.addNext \in [Node -> Handle] /\ mem.addPrev \in [Node -> Handle]
      /\ F \in Seq(Node) /\ Distinct(F) /\ Range(F) \cap Linked(L) = {} /\ Leads(mem.free, mem.next, F)
      /\ Range(A) \subseteq Linked(L) /\ Linked(L) \subseteq Node /\ Range(F) \subseteq Node /\ InAddList(mem, A)
  BY <1>1, ShapeTells DEF Typed
<1>5. b \in Bucket /\ mem.len[n] \in Nat /\ mem.freeChunks \in Int /\ mem.usedBuckets \in Int
  BY <1>2, <1>4, BucketOf DEF Segment
<1>6. ub = IF L[b] = <<>> THEN mem.usedBuckets - 1 ELSE mem.usedBuckets
  BY <1>1, <1>5, ListsAre
<1>7. /\ fc \in Int /\ ub \in Int /\ ln \in [Node -> Nat] /\ dt \in [Node -> Datum]
      /\ nx \in [Node -> Handle] /\ pr \in [Node -> Handle] /\ an \in [Node -> Handle] /\ ap \in [Node -> Handle]
  <2>1. n \in Node /\ INVALID \in Handle /\ None \in Datum
    BY <1>2, NoNode DEF Datum
  <2>2. fc \in Int /\ ub \in Int
    BY <1>5, <1>6
  <2>3. ln \in [Node -> Nat]
    BY <1>4, <2>1
  <2>4. dt \in [Node -> Datum]
    BY <1>4, <2>1
  <2>5. nx \in [Node -> Handle] /\ pr \in [Node -> Handle]
    BY <1>4, <2>1
  <2>6. an \in [Node -> Handle] /\ ap \in [Node -> Handle]
    BY <1>4, <2>1
  <2> QED
    BY <2>2, <2>3, <2>4, <2>5, <2>6
<1>8. mm = [mem EXCEPT !.freeChunks = fc, !.usedBuckets = ub, !.len = ln, !.data = dt,
                       !.next = nx, !.prev = pr, !.addNext = an, !.addPrev = ap]
  BY <1>4 DEF FreeNode, Segment
<1>9. /\ ln[n] = 0 /\ \A y \in Node : y # n => /\ ln[y] = mem.len[y] /\ dt[y] = mem.data[y]
                                              /\ nx[y] = mem.next[y] /\ pr[y] = mem.prev[y]
      /\ \A y \in Node : an[y] = mem.addNext[y] /\ ap[y] = mem.addPrev[y]
  <2>1. mem.addNext[n] = INVALID /\ mem.addPrev[n] = INVALID
    BY <1>2, <1>4 DEF InAddList
  <2> QED
    BY <1>2, <1>4, <2>1
<1>10. ww.node = n
  BY DEF SameWork
<1> HIDE DEF mm, fc, ub, ln, dt, nx, pr, an, ap
<1>11. /\ mm.prev = pr /\ mm.next = nx /\ mm.free = mem.free /\ mm.bucket = mem.bucket
       /\ mm.key = mem.key /\ mm.len = ln /\ mm.data = dt /\ SameAll(mem, mm)
       /\ mm.used = mem.used /\ mm.usedBuckets = ub /\ mm.freeChunks = fc
  <2>1. mm \in Segment
    BY <1>4, <1>7, <1>8 DEF Segment
  <2>2. SameAll(mem, mm)
    BY <1>4, <1>8, <1>9, <2>1 DEF SameAll, Segment
  <2> QED
    BY <1>4, <1>8, <2>2 DEF Segment
<1>12. \A y \in Linked(L) : y # n /\ y \in Node
  BY <1>2, <1>4
<1>13. Shape(mm, L, F, A)
  <2>1. \A y \in Linked(L) : mm.next[y] = mem.next[y] /\ mm.key[y] = mem.key[y]
    BY <1>9, <1>11, <1>12
  <2>2. Leads(mm.free, mm.next, F)
    <3>1. \A y \in Range(F) : nx[y] = mem.next[y]
      BY <1>2, <1>4, <1>9
    <3>2. Leads(mem.free, nx, F)
      BY <1>4, <3>1, LeadsKept
    <3> QED
      BY <1>11, <3>2
  <2> QED
    BY <1>1, <1>4, <1>11, <2>1, <2>2, ShapeFree
<1>14. PrevRight(mm, L, Hole(mm, ww))
  <2>1. Hole(mm, ww) = INVALID
    BY DEF Hole
  <2>2. \A y \in Linked(L) : mm.prev[y] = mem.prev[y]
    BY <1>9, <1>11, <1>12
  <2> QED
    BY <1>1, <1>2, <1>4, <2>1, <2>2, PrevKept
<1>15. Hand(mm, L, F, A, ww)
  BY <1>2, <1>10 DEF Hand, InHand
<1>16. ASSUME clean PROVE Counts(mm, L, F, A, ww)
  <2>1. Tally(mem, L, F, A, {n}, Linked(L), {}, Nonempty(L) \cup {b}, mem.len, {n})
    BY <1>3, <1>16
  <2>2. mm.usedBuckets = Cardinality(Nonempty(L))
    <3> DEFINE S == Nonempty(L)
    <3>1. S \in SUBSET Bucket /\ (b \in S <=> L[b] # <<>>)
      BY <1>5 DEF Nonempty
    <3>2. mem.usedBuckets = Cardinality(S \cup {b})
      BY <2>1 DEF Tally
    <3> HIDE DEF S, b
    <3>3. /\ Cardinality(S) \in Nat
          /\ Cardinality(S \cup {b}) = IF b \in S THEN Cardinality(S) ELSE Cardinality(S) + 1
      BY <1>5, <3>1, BucketSetCounted
    <3>4. mm.usedBuckets = Cardinality(S)
      BY <1>5, <1>6, <1>11, <3>1, <3>2, <3>3
    <3> QED
      BY <3>4 DEF S
  <2>3. mm.freeChunks + Cardinality(Chunks(mm.len)) = ChunkTotal
    <3> DEFINE c == Cardinality(Chunks(mem.len))
               d == Cardinality(Chunks(ln))
    <3>1. mem.freeChunks + c = ChunkTotal
      BY <2>1 DEF Tally
    <3>2. c \in Nat /\ d = (c - mem.len[n]) + ln[n]
      <4> DEFINE f == mem.len
      <4>1. f \in [Node -> Nat] /\ ln \in [Node -> Nat] /\ n \in Node /\ \A y \in Node : y # n => ln[y] = f[y]
        BY <1>2, <1>4, <1>7, <1>9
      <4> HIDE DEF f, n
      <4>2. Cardinality(Chunks(f)) \in Nat /\ Cardinality(Chunks(ln)) = (Cardinality(Chunks(f)) - f[n]) + ln[n]
        BY <4>1, ChunksChanged
      <4> QED
        BY <4>2 DEF f
    <3> HIDE DEF c, d, b
    <3>3. fc = mem.freeChunks + mem.len[n]
      BY DEF fc
    <3>4. fc + d = ChunkTotal
      BY <1>5, <1>9, <3>1, <3>2, <3>3
    <3> QED
      BY <1>11, <3>4 DEF d
  <2>4. \A y \in Node \ (Linked(L) \cup {}) : mm.len[y] = 0
    <3>1. \A y \in Node \ (Linked(L) \cup {n}) : mem.len[y] = 0
      BY <2>1 DEF Tally
    <3> QED
      BY <1>9, <1>11, <3>1
  <2>5. Tally(mm, L, F, A, {n}, Linked(L), {}, Nonempty(L), mm.len, {})
    BY <1>11, <2>1, <2>2, <2>3, <2>4 DEF Tally
  <2> QED
    BY <1>10, <2>5, CountsAre
<1>17. StacksOf(mm) = StacksOf(mem)
  <2>1. \A y \in Linked(L) : mm.key[y] = mem.key[y] /\ mm.len[y] = mem.len[y] /\ mm.data[y] = mem.data[y]
    BY <1>9, <1>11, <1>12
  <2> QED
    BY <1>1, <1>13, <2>1, StacksKept
<1>18. Good(mm, ww, clean)
  BY <1>13, <1>14, <1>15, <1>16 DEF Good
<1> QED
  BY <1>17, <1>18 DEF mm, n

\* The node becomes the first free one.
LEMMA GiveBackStep ==
  ASSUME NEW mem, NEW w, NEW clean, Good(mem, w, clean), w.pc = "giveBack", NEW ww, ww.node = INVALID,
         ww.pc = "leave" \/ (ww.pc = "visit" /\ ww.op = "visit")
  PROVE  Good(FreeListInsert(mem, w.node), ww, clean) /\ StacksOf(FreeListInsert(mem, w.node)) = StacksOf(mem)
<1> DEFINE n == w.node
           mm == FreeListInsert(mem, n)
<1>1. PICK L, F, A : /\ Shape(mem, L, F, A) /\ PrevRight(mem, L, Hole(mem, w)) /\ Hand(mem, L, F, A, w)
                     /\ clean => Counts(mem, L, F, A, w)
  BY DEF Good
<1>2. n \in Node \ (Linked(L) \cup Range(F)) /\ Hole(mem, w) = INVALID
  BY <1>1 DEF Hand, InHand, Hole
<1>3. clean => Tally(mem, L, F, A, {n}, Linked(L), {}, Nonempty(L), mem.len, {})
  BY <1>1, CountsAre
<1> DEFINE G == <<n>> \o F
<1> HIDE DEF n
<1>4. /\ Shape(mm, L, G, A) /\ Range(G) = Range(F) \cup {n}
      /\ mm.bucket = mem.bucket /\ mm.key = mem.key /\ mm.prev = mem.prev
      /\ mm.len = mem.len /\ mm.data = mem.data /\ mm.used = mem.used /\ mm.usedBuckets = mem.usedBuckets
      /\ mm.freeChunks = mem.freeChunks
      /\ StacksOf(mm) = StacksOf(mem)
  BY <1>1, <1>2, FreedIs
<1> HIDE DEF mm, G
<1>5. PrevRight(mm, L, INVALID)
  BY <1>1, <1>2, <1>4 DEF PrevRight
<1>6. ASSUME clean PROVE Calm(mm, L, G, A)
  BY <1>3, <1>4, <1>6 DEF Calm, Tally
<1>7. Rests(mm, L, G, A, clean)
  BY <1>4, <1>5, <1>6 DEF Rests
<1>8. Good(mm, ww, clean)
  <2>1. CASE ww.pc = "leave"
    BY <1>7, <2>1, IdleGood DEF IdlePcs
  <2>2. CASE ww.pc = "visit" /\ ww.op = "visit"
    <3>1. Hand(mm, L, G, A, ww)
      BY <2>2 DEF Hand, InHand
    <3> QED
      BY <1>7, <2>2, <3>1, RestGood DEF RestPcs
  <2> QED
    BY <2>1, <2>2
<1> QED
  BY <1>4, <1>8 DEF mm, n

-----------------------------------------------------------------------------
(* A new map. *)

\* Nothing in the map.
NoStacks == [k \in Key |-> <<>>]

\* The lists of a map that was just initialised.
NoLists == [b \in Bucket |-> <<>>]
AllFree == [i \in 1..NodeTotal |-> NodeTotal - i]

\* Lists without nodes.
LEMMA NoListsAre ==
  /\ NoLists \in [Bucket -> Seq(Node)] /\ \A b \in Bucket : NoLists[b] = <<>>
  /\ Linked(NoLists) = {} /\ Nonempty(NoLists) = {}
  /\ <<>> \in Seq(Node) /\ Len(<<>>) = 0 /\ Range(<<>>) = {} /\ Distinct(<<>>) /\ \A i \in Int : Nth(<<>>, i) = INVALID
<1>1. NoLists \in [Bucket -> Seq(Node)] /\ \A b \in Bucket : NoLists[b] = <<>>
  BY DEF NoLists
<1>2. <<>> \in Seq(Node) /\ Len(<<>>) = 0
  OBVIOUS
<1>3. Range(<<>>) = {}
  <2> SUFFICES ASSUME NEW x \in Range(<<>>) PROVE FALSE
    OBVIOUS
  <2>1. \E i \in 1..Len(<<>>) : <<>>[i] = x
    BY <1>2, Somewhere
  <2> QED
    BY <1>2, <2>1
<1>4. Distinct(<<>>) /\ \A i \in Int : Nth(<<>>, i) = INVALID
  <2>1. 1..Len(<<>>) = {}
    BY <1>2
  <2> QED
    BY <2>1 DEF Distinct, Nth
<1>5. Linked(NoLists) = {}
  <2> SUFFICES ASSUME NEW n \in Linked(NoLists) PROVE FALSE
    OBVIOUS
  <2>1. PICK b \in Bucket : n \in Range(NoLists[b])
    BY DEF Linked
  <2>2. n \in Range(<<>>)
    BY <1>1, <2>1
  <2> QED
    BY <1>3, <2>2
<1>6. Nonempty(NoLists) = {}
  BY <1>1 DEF Nonempty
<1> QED
  BY <1>1, <1>2, <1>3, <1>4, <1>5, <1>6

\* The free list of a fresh pool has every node.
LEMMA AllFreeIs ==
  /\ AllFree \in Seq(Node) /\ Distinct(AllFree) /\ Range(AllFree) = Node
  /\ Leads(NodeTotal - 1, [n \in Node |-> n - 1], AllFree)
<1>0. NodeTotal \in Nat /\ NodeTotal # 0 /\ INVALID = -1 /\ NodeTotal \in Int
  BY SizeAssumption DEF INVALID
<1> DEFINE F == AllFree
           link == [n \in Node |-> n - 1]
<1>1. \A i \in 1..NodeTotal : NodeTotal - i \in Node
  BY <1>0 DEF Node
<1>2. F \in Seq(Node) /\ Len(F) = NodeTotal /\ \A i \in 1..NodeTotal : F[i] = NodeTotal - i
  <2>1. F \in [1..NodeTotal -> Node]
    BY <1>1 DEF AllFree
  <2>2. F \in Seq(Node) /\ Len(F) = NodeTotal
    BY <1>0, <2>1
  <2> QED
    BY <2>2 DEF AllFree
<1> HIDE DEF F
<1>3. Distinct(F)
  BY <1>0, <1>2 DEF Distinct
<1>4. Range(F) = Node
  <2>1. ASSUME NEW n \in Node PROVE n \in Range(F)
    <3>1. NodeTotal - n \in 1..NodeTotal /\ NodeTotal - (NodeTotal - n) = n
      BY <1>0 DEF Node
    <3>2. F[NodeTotal - n] = n
      BY <1>2, <3>1
    <3>3. F[NodeTotal - n] \in Range(F)
      BY <1>2, <3>1, Somewhere
    <3> QED
      BY <3>2, <3>3
  <2> QED
    BY <1>2, <2>1, Somewhere
<1>5. NodeTotal - 1 = Nth(F, 1)
  <2>1. 1 \in 1..NodeTotal
    BY <1>0
  <2> QED
    BY <1>2, <2>1 DEF Nth
<1>6. ASSUME NEW i \in 1..Len(F) PROVE link[F[i]] = Nth(F, i + 1)
  <2>0. i \in 1..NodeTotal /\ i \in Int
    BY <1>2
  <2>1. link[F[i]] = (NodeTotal - i) - 1
    BY <1>1, <1>2, <2>0
  <2>2. CASE i = NodeTotal
    <3>1. i + 1 \notin 1..NodeTotal /\ (NodeTotal - i) - 1 = -1
      BY <1>0, <2>2
    <3> QED
      BY <1>0, <1>2, <2>1, <3>1 DEF Nth
  <2>3. CASE i # NodeTotal
    <3>1. i + 1 \in 1..NodeTotal /\ (NodeTotal - i) - 1 = NodeTotal - (i + 1)
      BY <1>0, <2>0, <2>3
    <3> QED
      BY <1>2, <2>1, <3>1 DEF Nth
  <2> QED
    BY <2>2, <2>3
<1>7. Leads(NodeTotal - 1, link, F)
  BY <1>5, <1>6 DEF Leads
<1> QED
  BY <1>2, <1>3, <1>4, <1>7 DEF F

\* All nodes are free, the chunks too, and there are no values.
LEMMA InitIs ==
  /\ StacksOf(InitPoolData) = NoStacks
  /\ \A clean : Rests(InitPoolData, NoLists, AllFree, <<>>, clean)
<1> DEFINE mem == InitPoolData
           L == NoLists
           F == AllFree
<1>0. NodeTotal \in Nat /\ NodeTotal # 0 /\ INVALID = -1 /\ ChunkTotal \in Nat
  BY SizeAssumption DEF INVALID
<1>1. /\ mem.total = NodeTotal /\ mem.used = 0 /\ mem.usedBuckets = 0 /\ mem.free = NodeTotal - 1
      /\ mem.addHead = INVALID /\ mem.addTail = INVALID /\ mem.bucket = [b \in Bucket |-> INVALID]
      /\ mem.len = [n \in Node |-> 0] /\ mem.next = [n \in Node |-> n - 1] /\ mem.prev = AllInvalid
      /\ mem.addNext = AllInvalid /\ mem.addPrev = AllInvalid /\ mem.freeChunks = ChunkTotal
  BY DEF InitPoolData, Zeroed
<1>2. mem \in Segment
  <2>1. NodeTotal - 1 \in Handle
    BY <1>0 DEF Handle, Node
  <2>2. [n \in Node |-> n - 1] \in [Node -> Handle]
    BY <1>0 DEF Handle, Node
  <2>3. AllInvalid \in [Node -> Handle] /\ [b \in Bucket |-> INVALID] \in [Bucket -> Handle] /\ INVALID \in Handle
    BY NoNode DEF AllInvalid
  <2>4. [n \in Node |-> CHOOSE k \in Key : TRUE] \in [Node -> Key]
    BY KeyAssumption
  <2>5. [n \in Node |-> None] \in [Node -> Datum] /\ [n \in Node |-> 0] \in [Node -> Nat]
    BY DEF Datum
  <2>6. NodeTotal \in Int /\ ChunkTotal \in Int /\ 0 \in Int
    BY <1>0
  <2> QED
    BY <2>1, <2>2, <2>3, <2>4, <2>5, <2>6 DEF Segment, InitPoolData, Zeroed
<1> HIDE DEF mem, L, F
<1>3. /\ L \in [Bucket -> Seq(Node)] /\ \A b \in Bucket : L[b] = <<>>
      /\ Linked(L) = {} /\ Nonempty(L) = {}
  BY NoListsAre DEF L
<1>4. F \in Seq(Node) /\ Distinct(F) /\ Range(F) = Node /\ Leads(mem.free, mem.next, F)
  BY <1>1, AllFreeIs DEF F
<1>5. Shape(mem, L, F, <<>>)
  <2>1. Placed(L, F, <<>>)
    BY <1>3, <1>4, NoListsAre DEF Placed
  <2>2. \A x, link : Leads(INVALID, link, <<>>) /\ Backs(INVALID, link, <<>>)
    <3>1. 1..Len(<<>>) = {} /\ Nth(<<>>, 1) = INVALID /\ Nth(<<>>, Len(<<>>)) = INVALID
      BY NoListsAre
    <3> QED
      BY <3>1 DEF Leads, Backs
  <2>3. Buckets(mem, L)
    BY <1>1, <1>3, <2>2, NoListsAre DEF Buckets
  <2>4. InAddList(mem, <<>>)
    BY <1>1, <2>2 DEF InAddList, AllInvalid
  <2> QED
    BY <1>1, <1>2, <1>4, <2>1, <2>3, <2>4 DEF Shape
<1>6. PrevRight(mem, L, INVALID)
  <2>1. 1..Len(<<>>) = {}
    BY NoListsAre
  <2> QED
    BY <1>3, <2>1 DEF PrevRight, Knows
<1>7. Calm(mem, L, F, <<>>)
  <2>1. Cardinality({}) = 0
    BY FS_EmptySet
  <2>2. Chunks(mem.len) = {}
    <3> SUFFICES ASSUME NEW x \in Chunks(mem.len) PROVE FALSE
      OBVIOUS
    <3>1. PICK n \in Node : x \in {n} \X (1..mem.len[n])
      BY DEF Chunks
    <3>2. mem.len[n] = 0 /\ 1..0 = {}
      BY <1>1
    <3>3. {n} \X (1..mem.len[n]) = {}
      BY <3>2
    <3> QED
      BY <3>1, <3>3
  <2>3. mem.freeChunks + Cardinality(Chunks(mem.len)) = ChunkTotal
    BY <1>0, <1>1, <2>1, <2>2
  <2>4. \A n \in Node : mem.len[n] = 0
    BY <1>1
  <2> QED
    BY <1>1, <1>3, <1>4, <2>1, <2>3, <2>4 DEF Calm, Tally
<1>8. StacksOf(mem) = NoStacks
  <2>1. StacksOf(mem) = Repr(mem, L)
    BY <1>5, ListsAre
  <2>2. Typed(mem, L)
    BY <1>5, ShapeTells
  <2>3. ASSUME NEW k \in Key PROVE Values(mem, KeyNodes(mem, L, k)) = <<>>
    <3>1. KeyNodes(mem, L, k) = <<>>
      BY <1>3, <2>2, KeyNodesAre, HavingSteps DEF KeyNodes
    <3>2. Values(mem, <<>>) \in Seq(Nat \X Datum) /\ Len(Values(mem, <<>>)) = Len(<<>>)
      BY <2>2, NoListsAre, ValuesAre
    <3>3. Values(mem, <<>>) = <<>>
      BY <3>2, EmptySeq, NoListsAre
    <3> QED
      BY <3>1, <3>3
  <2> QED
    BY <2>1, <2>3 DEF Repr, NoStacks
<1> QED
  BY <1>5, <1>6, <1>7, <1>8 DEF Rests, mem, L, F

-----------------------------------------------------------------------------
(* Steps of the process in the lock. *)

\* A good map exists, and the handles in it are those of nodes or INVALID.
LEMMA GoodTyped ==
  ASSUME NEW mem, NEW w, NEW clean, Good(mem, w, clean)
  PROVE  /\ mem \notin {Absent, Zeroed} /\ mem.free \in Handle /\ mem.addHead \in Handle
         /\ \A n \in Node : mem.addNext[n] \in Handle
         /\ \A k \in Key : NodeOf(mem, k) \in Handle
         /\ Good(mem, w, FALSE)
<1>1. PICK L, F, A : /\ Shape(mem, L, F, A) /\ PrevRight(mem, L, Hole(mem, w)) /\ Hand(mem, L, F, A, w)
  BY DEF Good
<1>2. mem \in Segment /\ mem.total = NodeTotal /\ Typed(mem, L)
  BY <1>1, ShapeTells
<1>3. mem \notin {Absent, Zeroed}
  <2>1. NodeTotal \notin {0, -1}
    BY SizeAssumption
  <2>2. Absent.total = -1 /\ Zeroed.total = 0
    BY DEF Absent, Zeroed, INVALID
  <2> QED
    BY <1>2, <2>1, <2>2
<1>4. ASSUME NEW k \in Key PROVE NodeOf(mem, k) \in Handle
  <2> DEFINE h == KeyNodes(mem, L, k)
  <2>1. h \in Seq(Node)
    BY <1>2, KeyNodesAre
  <2>2. NodeOf(mem, k) = IF h = <<>> THEN INVALID ELSE h[1]
    BY <1>1, ListsAre
  <2> HIDE DEF h
  <2>3. h # <<>> => h[1] \in Node
    BY <2>1
  <2> QED
    BY <2>2, <2>3, NoNode
<1>5. Good(mem, w, FALSE)
  BY <1>1 DEF Good
<1> QED
  BY <1>2, <1>3, <1>4, <1>5 DEF Segment

\* The process p has the lock of a map in which nothing was cut short.
Working(p) ==
  /\ TypeOK /\ p \in Proc /\ holder = p /\ ~ torn
  /\ proc[p] \in Worker /\ Lawful(proc[p]) /\ Good(m, proc[p], kills = 0)

\* The operation had its effect, or has none.
Past == {"linkOn", "count", "front", "leave", "refused"}

\* The effect of w's operation on the stacks.
Acts(st, st2, w) ==
  \/ w.op \in {"insert", "set"} /\ w.key \in Key /\ st2 = PushOn(st, w.key, w.val) /\ (w.op = "set" => st[w.key] = <<>>)
  \/ w.op \in {"set", "visit"} /\ Changes(st, st2, w)
  \/ w.op \in {"delete", "visit"} /\ Drops(st, st2, w)

\* What a step of the process p does that becomes ww by it.
Moved(p, ww) ==
  /\ ww \in Worker /\ Lawful(ww) /\ ww.pc \in PcsIn
  /\ proc' = [proc EXCEPT ![p] = ww]
  /\ UNCHANGED <<sem, holder, torn, kills>>
  /\ Good(m', ww, kills = 0)
  /\ \/ StacksOf(m') = StacksOf(m)
     \/ proc[p].pc \notin Past /\ Acts(StacksOf(m), StacksOf(m'), proc[p])

\* What a process that works on a good map may rely on.
LEMMA WorkingIs ==
  ASSUME NEW p, Working(p)
  PROVE  /\ p \in Proc /\ proc \in [Proc -> Worker] /\ proc[p] \in Worker /\ Lawful(proc[p])
         /\ Good(m, proc[p], kills = 0)
         /\ m.free \in Handle /\ m.addHead \in Handle /\ \A n \in Node : m.addNext[n] \in Handle
         /\ \A k \in Key : NodeOf(m, k) \in Handle
BY GoodTyped DEF Working, TypeOK

\* find: nothing but the list of all changes.
LEMMA FindMoves ==
  ASSUME NEW p, Working(p), NEW k \in Key, Find(p, k)
  PROVE  \E ww : Moved(p, ww)
<1> DEFINE w == proc[p]
           ww == [w EXCEPT !.pc = "leave"]
<1>1. /\ w \in Worker /\ Lawful(w) /\ Good(m, w, kills = 0) /\ w.pc = "inside"
      /\ proc \in [Proc -> Worker] /\ p \in Proc
  BY WorkingIs DEF Find, At
<1>2. proc' = [proc EXCEPT ![p] = ww] /\ UNCHANGED <<sem, holder, torn, kills>>
  BY <1>1 DEF Find, Goto, Kept
<1>3. ww \in Worker /\ Lawful(ww) /\ ww.pc = "leave" /\ ww.pc \in PcsIn
  BY <1>1 DEF Worker, Lawful, PcsIn, PcsOut
<1>4. m' = IF NodeOf(m, k) = INVALID THEN m ELSE InsertAddListHead(m, NodeOf(m, k))
  BY DEF Find, Found
<1> HIDE DEF w, ww
<1>5. Good(m', ww, kills = 0) /\ StacksOf(m') = StacksOf(m)
  BY <1>1, <1>3, <1>4, BeginStep
<1> QED
  BY <1>2, <1>3, <1>5 DEF Moved

\* insert begins.
LEMMA InsertMoves ==
  ASSUME NEW p, Working(p), NEW k \in Key, NEW v \in Value, Insert(p, k, v)
  PROVE  \E ww : Moved(p, ww)
<1> DEFINE w == proc[p]
           ww == [w EXCEPT !.pc = "take", !.op = "insert", !.key = k, !.val = v, !.dup = NodeOf(m, k) # INVALID]
<1>1. /\ w \in Worker /\ Lawful(w) /\ Good(m, w, kills = 0) /\ w.pc = "inside"
      /\ proc \in [Proc -> Worker] /\ p \in Proc
  BY WorkingIs DEF Insert, At
<1>2. proc' = [proc EXCEPT ![p] = ww] /\ UNCHANGED <<sem, holder, torn, kills>>
  BY <1>1 DEF Insert, Kept
<1>3. ww \in Worker /\ Lawful(ww) /\ ww.pc = "take" /\ ww.op = "insert" /\ ww.key = k /\ ww.val = v /\ ww.pc \in PcsIn
  BY <1>1 DEF Worker, Lawful, PcsIn, PcsOut
<1>4. m' = m
  BY DEF Insert
<1> HIDE DEF w, ww
<1>5. Good(m, ww, kills = 0)
  BY <1>1, <1>3, BeginStep
<1> QED
  BY <1>2, <1>3, <1>4, <1>5 DEF Moved

\* set begins with the node found, or to insert one.
LEMMA SetValueMoves ==
  ASSUME NEW p, Working(p), NEW k \in Key, NEW v \in Value, SetValue(p, k, v)
  PROVE  \E ww : Moved(p, ww)
<1> DEFINE w == proc[p]
           n == NodeOf(m, k)
           pc == IF n = INVALID THEN "take" ELSE "update"
           ww == [w EXCEPT !.pc = pc, !.op = "set", !.key = k, !.val = v, !.node = n]
<1>1. /\ w \in Worker /\ Lawful(w) /\ Good(m, w, kills = 0) /\ w.pc = "inside" /\ n \in Handle
      /\ proc \in [Proc -> Worker] /\ p \in Proc
  BY WorkingIs DEF SetValue, At
<1>2. proc' = [proc EXCEPT ![p] = ww] /\ UNCHANGED <<sem, holder, torn, kills>>
  BY <1>1 DEF SetValue, Kept
<1>3. /\ ww \in Worker /\ Lawful(ww) /\ ww.pc = pc /\ ww.op = "set" /\ ww.key = k /\ ww.val = v /\ ww.node = n
      /\ ww.pc \in PcsIn
  BY <1>1 DEF Worker, Lawful, PcsIn, PcsOut
<1>4. m' = IF NodeOf(m, k) = INVALID THEN m ELSE InsertAddListHead(m, NodeOf(m, k))
  BY DEF SetValue, Found
<1> HIDE DEF w, ww
<1>5. Good(m', ww, kills = 0) /\ StacksOf(m') = StacksOf(m)
  BY <1>1, <1>3, <1>4, BeginStep
<1> QED
  BY <1>2, <1>3, <1>5 DEF Moved

\* delete begins with the node found.
LEMMA DeleteMoves ==
  ASSUME NEW p, Working(p), NEW k \in Key, Delete(p, k)
  PROVE  \E ww : Moved(p, ww)
<1> DEFINE w == proc[p]
           n == NodeOf(m, k)
           pc == IF n = INVALID THEN "leave" ELSE "unlist"
           ww == [w EXCEPT !.pc = pc, !.op = "delete", !.key = k, !.node = n]
<1>1. /\ w \in Worker /\ Lawful(w) /\ Good(m, w, kills = 0) /\ w.pc = "inside" /\ n \in Handle
      /\ proc \in [Proc -> Worker] /\ p \in Proc
  BY WorkingIs DEF Delete, At
<1>2. proc' = [proc EXCEPT ![p] = ww] /\ UNCHANGED <<sem, holder, torn, kills>>
  BY <1>1 DEF Delete, Kept
<1>3. /\ ww \in Worker /\ Lawful(ww) /\ ww.pc = pc /\ ww.op = "delete" /\ ww.key = k /\ ww.node = n
      /\ ww.pc \in PcsIn
  BY <1>1 DEF Worker, Lawful, PcsIn, PcsOut
<1>4. m' = IF NodeOf(m, k) = INVALID THEN m ELSE InsertAddListHead(m, NodeOf(m, k))
  BY DEF Delete, Found
<1> HIDE DEF w, ww
<1>5. Good(m', ww, kills = 0) /\ StacksOf(m') = StacksOf(m)
  BY <1>1, <1>3, <1>4, BeginStep
<1> QED
  BY <1>2, <1>3, <1>5 DEF Moved

\* A vistor begins at the first node.
LEMMA VisitMoves ==
  ASSUME NEW p, Working(p), Visit(p)
  PROVE  \E ww : Moved(p, ww)
<1> DEFINE w == proc[p]
           ww == [w EXCEPT !.pc = "visit", !.op = "visit", !.back = "visit", !.node = m.addHead]
<1>1. /\ w \in Worker /\ Lawful(w) /\ Good(m, w, kills = 0) /\ w.pc = "inside"
      /\ proc \in [Proc -> Worker] /\ p \in Proc
  BY WorkingIs DEF Visit, At
<1>2. proc' = [proc EXCEPT ![p] = ww] /\ UNCHANGED <<sem, holder, torn, kills>>
  BY <1>1 DEF Visit, Kept
<1>3. /\ ww \in Worker /\ Lawful(ww) /\ ww.pc \in PcsIn
      /\ ww.pc = "visit" /\ ww.op = "visit" /\ ww.node = m.addHead
  BY <1>1, WorkingIs DEF Worker, Lawful, PcsIn, PcsOut
<1>4. m' = m
  BY <1>1 DEF Visit
<1> HIDE DEF w, ww
<1>5. Good(m', ww, kills = 0) /\ StacksOf(m') = StacksOf(m)
  BY <1>1, <1>3, <1>4, VisitStep
<1> QED
  BY <1>2, <1>3, <1>5 DEF Moved

\* A vistor has a node it is to erase.
LEMMA VisitEraseMoves ==
  ASSUME NEW p, Working(p), VisitErase(p)
  PROVE  \E ww : Moved(p, ww)
<1> DEFINE w == proc[p]
           ww == [w EXCEPT !.pc = "unlist"]
<1>1. /\ w \in Worker /\ Lawful(w) /\ Good(m, w, kills = 0) /\ w.pc = "visit"
      /\ proc \in [Proc -> Worker] /\ p \in Proc
  BY WorkingIs DEF VisitErase, At
<1>2. proc' = [proc EXCEPT ![p] = ww] /\ UNCHANGED <<sem, holder, torn, kills>>
  BY <1>1 DEF VisitErase, Kept, Goto
<1>3. /\ ww \in Worker /\ Lawful(ww) /\ ww.pc \in PcsIn
      /\ ww.pc = "unlist" /\ SameWork(w, ww) /\ w.node # INVALID
  BY <1>1 DEF Worker, Lawful, PcsIn, PcsOut, SameWork, VisitErase
<1>4. m' = m
  BY <1>1 DEF VisitErase
<1> HIDE DEF w, ww
<1>5. Good(m', ww, kills = 0) /\ StacksOf(m') = StacksOf(m)
  BY <1>1, <1>3, <1>4, VisitStep DEF Goes
<1> QED
  BY <1>2, <1>3, <1>5 DEF Moved

\* A vistor has a node it is to change.
LEMMA VisitUpdateMoves ==
  ASSUME NEW p, Working(p), NEW v \in Value, VisitUpdate(p, v)
  PROVE  \E ww : Moved(p, ww)
<1> DEFINE w == proc[p]
           ww == [w EXCEPT !.pc = "update", !.val = v]
<1>1. /\ w \in Worker /\ Lawful(w) /\ Good(m, w, kills = 0) /\ w.pc = "visit"
      /\ proc \in [Proc -> Worker] /\ p \in Proc
  BY WorkingIs DEF VisitUpdate, At
<1>2. proc' = [proc EXCEPT ![p] = ww] /\ UNCHANGED <<sem, holder, torn, kills>>
  BY <1>1 DEF VisitUpdate, Kept
<1>3. /\ ww \in Worker /\ Lawful(ww) /\ ww.pc \in PcsIn
      /\ ww.pc = "update" /\ ww.op = w.op /\ ww.node = w.node /\ ww.val = v /\ w.node # INVALID
  BY <1>1 DEF Worker, Lawful, PcsIn, PcsOut, VisitUpdate
<1>4. m' = m
  BY <1>1 DEF VisitUpdate
<1> HIDE DEF w, ww
<1>5. Good(m', ww, kills = 0) /\ StacksOf(m') = StacksOf(m)
  BY <1>1, <1>3, <1>4, VisitStep
<1> QED
  BY <1>2, <1>3, <1>5 DEF Moved

\* A vistor ends.
LEMMA VisitEndMoves ==
  ASSUME NEW p, Working(p), VisitEnd(p)
  PROVE  \E ww : Moved(p, ww)
<1> DEFINE w == proc[p]
           ww == [w EXCEPT !.pc = "leave"]
<1>1. /\ w \in Worker /\ Lawful(w) /\ Good(m, w, kills = 0) /\ w.pc = "visit"
      /\ proc \in [Proc -> Worker] /\ p \in Proc
  BY WorkingIs DEF VisitEnd, At
<1>2. proc' = [proc EXCEPT ![p] = ww] /\ UNCHANGED <<sem, holder, torn, kills>>
  BY <1>1 DEF VisitEnd, Kept, Goto
<1>3. /\ ww \in Worker /\ Lawful(ww) /\ ww.pc \in PcsIn
      /\ ww.pc = "leave" /\ ww.pc \in IdlePcs /\ w.pc \in RestPcs
  BY <1>1 DEF Worker, Lawful, PcsIn, PcsOut, IdlePcs, RestPcs
<1>4. m' = m
  BY <1>1 DEF VisitEnd
<1> HIDE DEF w, ww
<1>5. Good(m', ww, kills = 0) /\ StacksOf(m') = StacksOf(m)
  BY <1>1, <1>3, <1>4, LetGo
<1> QED
  BY <1>2, <1>3, <1>5 DEF Moved

\* A vistor goes on along the list of all.
LEMMA VisitNextMoves ==
  ASSUME NEW p, Working(p), VisitNext(p)
  PROVE  \E ww : Moved(p, ww)
<1> DEFINE w == proc[p]
           n == m.addNext[w.node]
           ww == [w EXCEPT !.node = n]
<1>1. /\ w \in Worker /\ Lawful(w) /\ Good(m, w, kills = 0) /\ w.pc = "visit" /\ w.node # INVALID
      /\ proc \in [Proc -> Worker] /\ p \in Proc
  BY WorkingIs DEF VisitNext, At
<1>2. proc' = [proc EXCEPT ![p] = ww] /\ UNCHANGED <<sem, holder, torn, kills>>
  BY <1>1 DEF VisitNext, Kept
<1>3. n \in Handle
  <2>1. w.node \in Node
    BY <1>1 DEF Worker, Handle
  <2> HIDE DEF w
  <2> QED
    BY <2>1, WorkingIs
<1>4. /\ ww \in Worker /\ Lawful(ww) /\ ww.pc \in PcsIn
      /\ ww.pc = "visit" /\ ww.op = w.op /\ ww.node = n /\ w.op = "visit"
  <2> HIDE DEF n
  <2> QED
    BY <1>1, <1>3 DEF Worker, Lawful, PcsIn, PcsOut
<1>5. m' = m
  BY DEF VisitNext
<1> HIDE DEF w, ww
<1>6. Good(m, ww, kills = 0)
  BY <1>1, <1>4, VisitStep
<1> QED
  BY <1>2, <1>4, <1>5, <1>6 DEF Moved

\* The first node of the free list, if there is one.
LEMMA TakeMoves ==
  ASSUME NEW p, Working(p), Take(p)
  PROVE  \E ww : Moved(p, ww)
<1> DEFINE w == proc[p]
           n == m.free
           w1 == [w EXCEPT !.pc = "leave"]
           w2 == [w EXCEPT !.pc = "malloc", !.node = n]
<1>1. /\ w \in Worker /\ Lawful(w) /\ Good(m, w, kills = 0) /\ w.pc = "take" /\ n \in Handle
      /\ proc \in [Proc -> Worker] /\ p \in Proc /\ UNCHANGED <<sem, holder, torn, kills>>
  BY WorkingIs DEF Take, At, Kept
<1>2. CASE n = INVALID
  <2>1. proc' = [proc EXCEPT ![p] = w1] /\ m' = m
    BY <1>1, <1>2 DEF Take, Goto
  <2>2. w1 \in Worker /\ Lawful(w1) /\ w1.pc \in PcsIn /\ w1.pc \in IdlePcs /\ w.pc \in RestPcs
    BY <1>1 DEF Worker, Lawful, PcsIn, PcsOut, IdlePcs, RestPcs
  <2> HIDE DEF w, w1
  <2>3. Good(m, w1, kills = 0)
    BY <1>1, <2>2, LetGo
  <2> QED
    BY <1>1, <2>1, <2>2, <2>3 DEF Moved
<1>3. CASE n # INVALID
  <2>1. proc' = [proc EXCEPT ![p] = w2] /\ m' = FreeListRemove(m)
    BY <1>1, <1>3 DEF Take
  <2>2. /\ w2 \in Worker /\ Lawful(w2) /\ w2.pc \in PcsIn
        /\ w2.pc = "malloc" /\ w2.node = m.free /\ w2.op = w.op /\ w2.key = w.key /\ w2.val = w.val
    BY <1>1 DEF Worker, Lawful, PcsIn, PcsOut
  <2> HIDE DEF w, w2
  <2>3. Good(FreeListRemove(m), w2, kills = 0) /\ StacksOf(FreeListRemove(m)) = StacksOf(m)
    BY <1>1, <1>3, <2>2, TakeStep
  <2> QED
    BY <1>1, <2>1, <2>2, <2>3 DEF Moved
<1> QED
  BY <1>2, <1>3

\* Its chunks, if they are there.
LEMMA MallocChunksMoves ==
  ASSUME NEW p, Working(p), MallocChunks(p)
  PROVE  \E ww : Moved(p, ww)
<1> DEFINE w == proc[p]
           w1 == [w EXCEPT !.pc = "leave"]
           w2 == [w EXCEPT !.pc = "use"]
<1>1. /\ w \in Worker /\ Lawful(w) /\ Good(m, w, kills = 0) /\ w.pc = "malloc"
      /\ proc \in [Proc -> Worker] /\ p \in Proc /\ UNCHANGED <<sem, holder, torn, kills>>
  BY WorkingIs DEF MallocChunks, At, Kept
<1>2. CASE w.val[1] > m.freeChunks
  <2>1. proc' = [proc EXCEPT ![p] = w1] /\ m' = FreeListInsert(m, w.node)
    BY <1>1, <1>2 DEF MallocChunks, Goto
  <2>2. w1 \in Worker /\ Lawful(w1) /\ w1.pc \in PcsIn /\ w1.pc = "leave"
    BY <1>1 DEF Worker, Lawful, PcsIn, PcsOut
  <2> HIDE DEF w, w1
  <2>3. Good(FreeListInsert(m, w.node), w1, kills = 0) /\ StacksOf(FreeListInsert(m, w.node)) = StacksOf(m)
    BY <1>1, <2>2, MallocStep
  <2> QED
    BY <1>1, <2>1, <2>2, <2>3 DEF Moved
<1>3. CASE ~ (w.val[1] > m.freeChunks)
  <2> DEFINE mm == [m EXCEPT !.freeChunks = @ - w.val[1]]
  <2>1. proc' = [proc EXCEPT ![p] = w2] /\ m' = mm
    BY <1>1, <1>3 DEF MallocChunks, Goto
  <2>2. w2 \in Worker /\ Lawful(w2) /\ w2.pc \in PcsIn /\ Goes(w, w2, "use")
    BY <1>1 DEF Worker, Lawful, PcsIn, PcsOut, Goes, SameWork
  <2> HIDE DEF w, w2
  <2>3. Good(mm, w2, kills = 0) /\ StacksOf(mm) = StacksOf(m)
    BY <1>1, <2>2, MallocStep
  <2> HIDE DEF mm
  <2> QED
    BY <1>1, <2>1, <2>2, <2>3 DEF Moved
<1> QED
  BY <1>2, <1>3

\* The node is filled.
LEMMA UseMoves ==
  ASSUME NEW p, Working(p), Use(p)
  PROVE  \E ww : Moved(p, ww)
<1> DEFINE w == proc[p]
           mm == UseNode(m, w.node, w.key, w.val)
           ww == [w EXCEPT !.pc = "link"]
<1>1. /\ w \in Worker /\ Lawful(w) /\ Good(m, w, kills = 0) /\ w.pc = "use"
      /\ proc \in [Proc -> Worker] /\ p \in Proc
  BY WorkingIs DEF Use, At
<1>2. proc' = [proc EXCEPT ![p] = ww] /\ UNCHANGED <<sem, holder, torn, kills>> /\ m' = mm
  BY <1>1 DEF Use, Do, Goto, Kept
<1>3. /\ ww \in Worker /\ Lawful(ww) /\ ww.pc \in PcsIn /\ ww.pc = "link" /\ SameWork(w, ww)
  BY <1>1 DEF Worker, Lawful, PcsIn, PcsOut, SameWork
<1> HIDE DEF w, ww
<1>5. Good(mm, ww, kills = 0) /\ StacksOf(mm) = StacksOf(m)
  BY <1>1, <1>3, UseStep
<1> HIDE DEF mm
<1> QED
  BY <1>2, <1>3, <1>5 DEF Moved

\* Its bucket leads to it: the value is pushed.
LEMMA InsertNodeList1Moves ==
  ASSUME NEW p, Working(p), InsertNodeList1(p)
  PROVE  \E ww : Moved(p, ww)
<1> DEFINE w == proc[p]
           mm == Link1(m, w.node)
           ww == [w EXCEPT !.pc = "linkOn"]
<1>1. /\ w \in Worker /\ Lawful(w) /\ Good(m, w, kills = 0) /\ w.pc = "link"
      /\ proc \in [Proc -> Worker] /\ p \in Proc
  BY WorkingIs DEF InsertNodeList1, At
<1>2. proc' = [proc EXCEPT ![p] = ww] /\ UNCHANGED <<sem, holder, torn, kills>> /\ m' = mm
  BY <1>1 DEF InsertNodeList1, Do, Goto, Kept
<1>3. /\ ww \in Worker /\ Lawful(ww) /\ ww.pc \in PcsIn /\ ww.pc = "linkOn" /\ SameWork(w, ww)
  BY <1>1 DEF Worker, Lawful, PcsIn, PcsOut, SameWork
<1> HIDE DEF w, ww
<1>4. Good(mm, ww, kills = 0) /\ (StacksOf(mm) = StacksOf(m) \/ Acts(StacksOf(m), StacksOf(mm), w))
  <2>1. /\ Good(mm, ww, kills = 0)
        /\ w.key \in Key /\ StacksOf(mm) = PushOn(StacksOf(m), w.key, w.val)
        /\ w.op \in {"insert", "set"} /\ (w.op = "set" => StacksOf(m)[w.key] = <<>>)
    BY <1>1, <1>3, LinkStep
  <2> QED
    BY <2>1 DEF Acts
<1>5. Good(mm, ww, kills = 0) /\ (StacksOf(mm) = StacksOf(m) \/ (w.pc \notin Past /\ Acts(StacksOf(m), StacksOf(mm), w)))
  BY <1>1, <1>4 DEF Past
<1> HIDE DEF mm
<1> QED
  BY <1>2, <1>3, <1>5 DEF Moved, w

\* The next node leads back to it.
LEMMA InsertNodeList2Moves ==
  ASSUME NEW p, Working(p), InsertNodeList2(p)
  PROVE  \E ww : Moved(p, ww)
<1> DEFINE w == proc[p]
           mm == Link2(m, w.node)
           ww == [w EXCEPT !.pc = "count"]
<1>1. /\ w \in Worker /\ Lawful(w) /\ Good(m, w, kills = 0) /\ w.pc = "linkOn"
      /\ proc \in [Proc -> Worker] /\ p \in Proc
  BY WorkingIs DEF InsertNodeList2, At
<1>2. proc' = [proc EXCEPT ![p] = ww] /\ UNCHANGED <<sem, holder, torn, kills>> /\ m' = mm
  BY <1>1 DEF InsertNodeList2, Do, Goto, Kept
<1>3. /\ ww \in Worker /\ Lawful(ww) /\ ww.pc \in PcsIn /\ ww.pc = "count" /\ SameWork(w, ww)
  BY <1>1 DEF Worker, Lawful, PcsIn, PcsOut, SameWork
<1> HIDE DEF w, ww
<1>5. Good(mm, ww, kills = 0) /\ StacksOf(mm) = StacksOf(m)
  BY <1>1, <1>3, Link2Step
<1> HIDE DEF mm
<1> QED
  BY <1>2, <1>3, <1>5 DEF Moved

\* It is counted.
LEMMA CountMoves ==
  ASSUME NEW p, Working(p), Count(p)
  PROVE  \E ww : Moved(p, ww)
<1> DEFINE w == proc[p]
           mm == [m EXCEPT !.used = @ + 1]
           ww == [w EXCEPT !.pc = "front"]
<1>1. /\ w \in Worker /\ Lawful(w) /\ Good(m, w, kills = 0) /\ w.pc = "count"
      /\ proc \in [Proc -> Worker] /\ p \in Proc
  BY WorkingIs DEF Count, At
<1>2. proc' = [proc EXCEPT ![p] = ww] /\ UNCHANGED <<sem, holder, torn, kills>> /\ m' = mm
  BY <1>1 DEF Count, Do, Goto, Kept
<1>3. /\ ww \in Worker /\ Lawful(ww) /\ ww.pc \in PcsIn /\ ww.pc = "front" /\ SameWork(w, ww)
  BY <1>1 DEF Worker, Lawful, PcsIn, PcsOut, SameWork
<1> HIDE DEF w, ww
<1>5. Good(mm, ww, kills = 0) /\ StacksOf(mm) = StacksOf(m)
  BY <1>1, <1>3, CountStep
<1> HIDE DEF mm
<1> QED
  BY <1>2, <1>3, <1>5 DEF Moved

\* It is in the list of all.
LEMMA ForemostMoves ==
  ASSUME NEW p, Working(p), Foremost(p)
  PROVE  \E ww : Moved(p, ww)
<1> DEFINE w == proc[p]
           mm == InsertAddListHead(m, w.node)
           ww == [w EXCEPT !.pc = "leave"]
<1>1. /\ w \in Worker /\ Lawful(w) /\ Good(m, w, kills = 0) /\ w.pc = "front"
      /\ proc \in [Proc -> Worker] /\ p \in Proc
  BY WorkingIs DEF Foremost, At
<1>2. proc' = [proc EXCEPT ![p] = ww] /\ UNCHANGED <<sem, holder, torn, kills>> /\ m' = mm
  BY <1>1 DEF Foremost, Do, Goto, Kept
<1>3. /\ ww \in Worker /\ Lawful(ww) /\ ww.pc \in PcsIn /\ ww.pc = "leave" /\ SameWork(w, ww)
  BY <1>1 DEF Worker, Lawful, PcsIn, PcsOut, SameWork
<1> HIDE DEF w, ww
<1>5. Good(mm, ww, kills = 0) /\ StacksOf(mm) = StacksOf(m)
  BY <1>1, <1>3, ForemostStep
<1> HIDE DEF mm
<1> QED
  BY <1>2, <1>3, <1>5 DEF Moved

\* A node leaves the list of all.
LEMMA UnlistMoves ==
  ASSUME NEW p, Working(p), Unlist(p)
  PROVE  \E ww : Moved(p, ww)
<1> DEFINE w == proc[p]
           mm == DeleteFromAddList(m, w.node)
           ww == [w EXCEPT !.pc = "unlink"]
<1>1. /\ w \in Worker /\ Lawful(w) /\ Good(m, w, kills = 0) /\ w.pc = "unlist"
      /\ proc \in [Proc -> Worker] /\ p \in Proc
  BY WorkingIs DEF Unlist, At
<1>2. proc' = [proc EXCEPT ![p] = ww] /\ UNCHANGED <<sem, holder, torn, kills>> /\ m' = mm
  BY <1>1 DEF Unlist, Do, Goto, Kept
<1>3. /\ ww \in Worker /\ Lawful(ww) /\ ww.pc \in PcsIn /\ ww.pc = "unlink" /\ SameWork(w, ww)
  BY <1>1 DEF Worker, Lawful, PcsIn, PcsOut, SameWork
<1> HIDE DEF w, ww
<1>5. Good(mm, ww, kills = 0) /\ StacksOf(mm) = StacksOf(m)
  BY <1>1, <1>3, UnlistStep
<1> HIDE DEF mm
<1> QED
  BY <1>2, <1>3, <1>5 DEF Moved

\* The node before it leads past it: the value is dropped, unless it is the first of its bucket.
LEMMA DeleteFromNodeList1Moves ==
  ASSUME NEW p, Working(p), DeleteFromNodeList1(p)
  PROVE  \E ww : Moved(p, ww)
<1> DEFINE w == proc[p]
           mm == Unlink1(m, w.node)
           ww == [w EXCEPT !.pc = "unlinkOn"]
<1>1. /\ w \in Worker /\ Lawful(w) /\ Good(m, w, kills = 0) /\ w.pc = "unlink"
      /\ proc \in [Proc -> Worker] /\ p \in Proc
  BY WorkingIs DEF DeleteFromNodeList1, At
<1>2. proc' = [proc EXCEPT ![p] = ww] /\ UNCHANGED <<sem, holder, torn, kills>> /\ m' = mm
  BY <1>1 DEF DeleteFromNodeList1, Do, Goto, Kept
<1>3. /\ ww \in Worker /\ Lawful(ww) /\ ww.pc \in PcsIn /\ ww.pc = "unlinkOn" /\ SameWork(w, ww)
  BY <1>1 DEF Worker, Lawful, PcsIn, PcsOut, SameWork
<1> HIDE DEF w, ww
<1>4. Good(mm, ww, kills = 0) /\ (StacksOf(mm) = StacksOf(m) \/ Acts(StacksOf(m), StacksOf(mm), w))
  <2>1. /\ Good(mm, ww, kills = 0)
        /\ StacksOf(mm) = StacksOf(m) \/ Drops(StacksOf(m), StacksOf(mm), w)
        /\ w.op \in {"delete", "visit"}
    BY <1>1, <1>3, Unlink1Step
  <2> QED
    BY <2>1 DEF Acts
<1>5. Good(mm, ww, kills = 0) /\ (StacksOf(mm) = StacksOf(m) \/ (w.pc \notin Past /\ Acts(StacksOf(m), StacksOf(mm), w)))
  BY <1>1, <1>4 DEF Past
<1> HIDE DEF mm
<1> QED
  BY <1>2, <1>3, <1>5 DEF Moved, w

\* Its bucket leads past it: the value is dropped, if it was the first.
LEMMA DeleteFromNodeList2Moves ==
  ASSUME NEW p, Working(p), DeleteFromNodeList2(p)
  PROVE  \E ww : Moved(p, ww)
<1> DEFINE w == proc[p]
           mm == Unlink2(m, w.node)
           ww == [w EXCEPT !.pc = "uncount"]
<1>1. /\ w \in Worker /\ Lawful(w) /\ Good(m, w, kills = 0) /\ w.pc = "unlinkOn"
      /\ proc \in [Proc -> Worker] /\ p \in Proc
  BY WorkingIs DEF DeleteFromNodeList2, At
<1>2. proc' = [proc EXCEPT ![p] = ww] /\ UNCHANGED <<sem, holder, torn, kills>> /\ m' = mm
  BY <1>1 DEF DeleteFromNodeList2, Do, Goto, Kept
<1>3. /\ ww \in Worker /\ Lawful(ww) /\ ww.pc \in PcsIn /\ ww.pc = "uncount" /\ SameWork(w, ww)
  BY <1>1 DEF Worker, Lawful, PcsIn, PcsOut, SameWork
<1> HIDE DEF w, ww
<1>4. Good(mm, ww, kills = 0) /\ (StacksOf(mm) = StacksOf(m) \/ Acts(StacksOf(m), StacksOf(mm), w))
  <2>1. /\ Good(mm, ww, kills = 0)
        /\ StacksOf(mm) = StacksOf(m) \/ Drops(StacksOf(m), StacksOf(mm), w)
        /\ w.op \in {"delete", "visit"}
    BY <1>1, <1>3, Unlink2Step
  <2> QED
    BY <2>1 DEF Acts
<1>5. Good(mm, ww, kills = 0) /\ (StacksOf(mm) = StacksOf(m) \/ (w.pc \notin Past /\ Acts(StacksOf(m), StacksOf(mm), w)))
  BY <1>1, <1>4 DEF Past
<1> HIDE DEF mm
<1> QED
  BY <1>2, <1>3, <1>5 DEF Moved, w

\* It is counted no more.
LEMMA UncountMoves ==
  ASSUME NEW p, Working(p), Uncount(p)
  PROVE  \E ww : Moved(p, ww)
<1> DEFINE w == proc[p]
           mm == [m EXCEPT !.used = @ - 1]
           ww == [w EXCEPT !.pc = "empty"]
<1>1. /\ w \in Worker /\ Lawful(w) /\ Good(m, w, kills = 0) /\ w.pc = "uncount"
      /\ proc \in [Proc -> Worker] /\ p \in Proc
  BY WorkingIs DEF Uncount, At
<1>2. proc' = [proc EXCEPT ![p] = ww] /\ UNCHANGED <<sem, holder, torn, kills>> /\ m' = mm
  BY <1>1 DEF Uncount, Do, Goto, Kept
<1>3. /\ ww \in Worker /\ Lawful(ww) /\ ww.pc \in PcsIn /\ ww.pc = "empty" /\ SameWork(w, ww)
  BY <1>1 DEF Worker, Lawful, PcsIn, PcsOut, SameWork
<1> HIDE DEF w, ww
<1>5. Good(mm, ww, kills = 0) /\ StacksOf(mm) = StacksOf(m)
  BY <1>1, <1>3, UncountStep
<1> HIDE DEF mm
<1> QED
  BY <1>2, <1>3, <1>5 DEF Moved

\* It has no chunks any more.
LEMMA EmptyMoves ==
  ASSUME NEW p, Working(p), Empty(p)
  PROVE  \E ww : Moved(p, ww)
<1> DEFINE w == proc[p]
           mm == FreeNode(m, w.node)
           ww == [w EXCEPT !.pc = "giveBack"]
<1>1. /\ w \in Worker /\ Lawful(w) /\ Good(m, w, kills = 0) /\ w.pc = "empty"
      /\ proc \in [Proc -> Worker] /\ p \in Proc
  BY WorkingIs DEF Empty, At
<1>2. proc' = [proc EXCEPT ![p] = ww] /\ UNCHANGED <<sem, holder, torn, kills>> /\ m' = mm
  BY <1>1 DEF Empty, Do, Goto, Kept
<1>3. /\ ww \in Worker /\ Lawful(ww) /\ ww.pc \in PcsIn /\ ww.pc = "giveBack" /\ SameWork(w, ww)
  BY <1>1 DEF Worker, Lawful, PcsIn, PcsOut, SameWork
<1> HIDE DEF w, ww
<1>5. Good(mm, ww, kills = 0) /\ StacksOf(mm) = StacksOf(m)
  BY <1>1, <1>3, EmptyStep
<1> HIDE DEF mm
<1> QED
  BY <1>2, <1>3, <1>5 DEF Moved

\* The process leaves the lock or goes on with its walk.
LEMMA BackIs ==
  ASSUME NEW w \in Worker, Lawful(w)
  PROVE  LET ww == [w EXCEPT !.pc = w.back]
         IN ww \in Worker /\ Lawful(ww) /\ ww.pc \in PcsIn /\ Ends(w, ww) /\ ww.op = w.op
<1>1. w.back \in {"leave", "visit"}
  BY DEF Worker
<1> QED
  BY <1>1 DEF Worker, Lawful, PcsIn, PcsOut, Ends

\* A content of the same length is there at once.
LEMMA UpdateMoves ==
  ASSUME NEW p, Working(p), Update(p)
  PROVE  \E ww : Moved(p, ww)
<1> DEFINE w == proc[p]
           n == w.node
           grown == w.val[1] - m.len[n]
           w1 == [w EXCEPT !.pc = w.back]
           w2 == [w EXCEPT !.pc = "resize"]
<1>1. /\ w \in Worker /\ Lawful(w) /\ Good(m, w, kills = 0) /\ w.pc = "update"
      /\ proc \in [Proc -> Worker] /\ p \in Proc /\ UNCHANGED <<sem, holder, torn, kills>>
  BY WorkingIs DEF Update, At, Kept
<1>2. /\ w1 \in Worker /\ Lawful(w1) /\ w1.pc \in PcsIn /\ Ends(w, w1)
  <2> HIDE DEF w
  <2> QED
    BY <1>1, BackIs
<1>3. CASE grown = 0
  <2> DEFINE mm == [m EXCEPT !.data[n] = w.val[2]]
  <2>1. proc' = [proc EXCEPT ![p] = w1] /\ m' = mm
    BY <1>1, <1>3 DEF Update, Goto
  <2>2. w.op \in {"set", "visit"}
    BY <1>1, UpdateBegins
  <2> HIDE DEF w, w1
  <2>3. Good(mm, w1, kills = 0) /\ Changes(StacksOf(m), StacksOf(mm), w)
    BY <1>1, <1>2, <1>3, UpdateSame
  <2> HIDE DEF mm
  <2>4. w.pc \notin Past /\ Acts(StacksOf(m), StacksOf(mm), w)
    BY <1>1, <2>2, <2>3 DEF Past, Acts
  <2> QED
    BY <1>1, <1>2, <2>1, <2>3, <2>4 DEF Moved, w
<1>4. CASE grown # 0 /\ grown > m.freeChunks
  <2>1. proc' = [proc EXCEPT ![p] = w1] /\ m' = m
    BY <1>1, <1>4 DEF Update, Goto
  <2> HIDE DEF w, w1
  <2>2. Good(m, w1, kills = 0)
    BY <1>1, <1>2, UpdateStep
  <2> QED
    BY <1>1, <1>2, <2>1, <2>2 DEF Moved
<1>5. CASE grown # 0 /\ ~ (grown > m.freeChunks)
  <2> DEFINE mm == [m EXCEPT !.freeChunks = @ + m.len[w.node]]
  <2>1. proc' = [proc EXCEPT ![p] = w2] /\ m' = mm
    BY <1>1, <1>5 DEF Update, Goto
  <2>2. w2 \in Worker /\ Lawful(w2) /\ w2.pc \in PcsIn /\ w2.pc = "resize" /\ SameWork(w, w2)
    BY <1>1 DEF Worker, Lawful, PcsIn, PcsOut, SameWork
  <2> HIDE DEF w, w2
  <2>3. Good(mm, w2, kills = 0) /\ StacksOf(mm) = StacksOf(m)
    BY <1>1, <2>2, UpdateStep
  <2> HIDE DEF mm
  <2> QED
    BY <1>1, <2>1, <2>2, <2>3 DEF Moved
<1> QED
  BY <1>3, <1>4, <1>5

\* One of another length, when the old chunks were given back.
LEMMA ResizeMoves ==
  ASSUME NEW p, Working(p), Resize(p)
  PROVE  \E ww : Moved(p, ww)
<1> DEFINE w == proc[p]
           mm == [m EXCEPT !.freeChunks = @ - w.val[1], !.data[w.node] = w.val[2], !.len[w.node] = w.val[1]]
           w1 == [w EXCEPT !.pc = w.back]
<1>1. /\ w \in Worker /\ Lawful(w) /\ Good(m, w, kills = 0) /\ w.pc = "resize"
      /\ proc \in [Proc -> Worker] /\ p \in Proc /\ UNCHANGED <<sem, holder, torn, kills>>
  BY WorkingIs DEF Resize, At, Kept
<1>2. /\ w1 \in Worker /\ Lawful(w1) /\ w1.pc \in PcsIn /\ Ends(w, w1)
  <2> HIDE DEF w
  <2> QED
    BY <1>1, BackIs
<1>3. proc' = [proc EXCEPT ![p] = w1] /\ m' = mm
  BY <1>1 DEF Resize, Goto
<1>4. w.op \in {"set", "visit"}
  BY <1>1, UpdateBegins
<1> HIDE DEF w, w1
<1>5. Good(mm, w1, kills = 0) /\ Changes(StacksOf(m), StacksOf(mm), w)
  BY <1>1, <1>2, ResizeStep
<1> HIDE DEF mm
<1>6. w.pc \notin Past /\ Acts(StacksOf(m), StacksOf(mm), w)
  BY <1>1, <1>4, <1>5 DEF Past, Acts
<1> QED
  BY <1>1, <1>2, <1>3, <1>5, <1>6 DEF Moved, w

\* The node is free.
LEMMA GiveBackMoves ==
  ASSUME NEW p, Working(p), GiveBack(p)
  PROVE  \E ww : Moved(p, ww)
<1> DEFINE w == proc[p]
           mm == FreeListInsert(m, w.node)
           ww == [w EXCEPT !.pc = w.back, !.node = INVALID]
<1>1. /\ w \in Worker /\ Lawful(w) /\ Good(m, w, kills = 0) /\ w.pc = "giveBack"
      /\ proc \in [Proc -> Worker] /\ p \in Proc
  BY WorkingIs DEF GiveBack, At
<1>2. proc' = [proc EXCEPT ![p] = ww] /\ UNCHANGED <<sem, holder, torn, kills>> /\ m' = mm
  BY <1>1 DEF GiveBack, Kept
<1>3. /\ ww \in Worker /\ Lawful(ww) /\ ww.pc \in PcsIn /\ ww.node = INVALID
      /\ ww.pc = "leave" \/ (ww.pc = "visit" /\ ww.op = "visit")
  <2>1. w.back \in {"leave", "visit"}
    BY <1>1 DEF Worker
  <2> QED
    BY <1>1, <2>1, NoNode DEF Worker, Lawful, PcsIn, PcsOut
<1> HIDE DEF w, ww
<1>5. Good(mm, ww, kills = 0) /\ StacksOf(mm) = StacksOf(m)
  BY <1>1, <1>3, GiveBackStep
<1> HIDE DEF mm
<1> QED
  BY <1>2, <1>3, <1>5 DEF Moved

-----------------------------------------------------------------------------
(* The invariant is kept. *)

\* What a step does to the stacks, as module KeyStacks has it.
Happens(w) ==
  /\ w.pc \notin Past
  /\ \/ Acts(StacksOf(m), StacksOf(m'), w)
     \/ w.op = "open" /\ StacksOf(m') = NoStacks

\* What a step is to the stacks.
Refined ==
  \/ ~ torn /\ ~ torn' /\ (StacksOf(m') = StacksOf(m) \/ (holder # None /\ Happens(proc[holder])))
  \/ ~ torn /\ torn' /\ StacksOf(m') = StacksOf(m)
  \/ torn

\* A process in the lock works on a good map, or opens it.
LEMMA WorkingWhen ==
  ASSUME IInv, NEW p \in Proc, proc[p].pc \in PcsIn \ PcsTorn
  PROVE  Working(p)
<1>1. holder = p /\ ~ torn /\ proc[p] \in Worker /\ Lawful(proc[p])
  BY DEF IInv, OneInLock, TypeOK
<1>2. proc[p].pc \notin PcsBefore
  BY DEF PcsBefore, PcsTorn, PcsOut, PcsIn
<1>3. AtWork = proc[p]
  BY <1>1, ProcAssumption DEF AtWork
<1>4. Good(m, proc[p], kills = 0)
  BY <1>1, <1>2, <1>3 DEF IInv, Sound
<1> QED
  BY <1>1, <1>4 DEF Working, IInv

\* What such a process does.
WorkStep(p) ==
  \/ Operate(p) \/ VisitNext(p) \/ VisitErase(p) \/ VisitEnd(p) \/ \E v \in Value : VisitUpdate(p, v)
  \/ Take(p) \/ MallocChunks(p) \/ Use(p) \/ InsertNodeList1(p) \/ InsertNodeList2(p) \/ Count(p) \/ Foremost(p)
  \/ Update(p) \/ Resize(p)
  \/ Unlist(p) \/ DeleteFromNodeList1(p) \/ DeleteFromNodeList2(p) \/ Uncount(p) \/ Empty(p) \/ GiveBack(p)

\* Every step of such a process moves it so.
LEMMA WorkMoves ==
  ASSUME IInv, NEW p \in Proc, WorkStep(p)
  PROVE  Working(p) /\ \E ww : Moved(p, ww)
<1>1. proc[p].pc \in {"inside", "visit", "take", "malloc", "use", "link", "linkOn", "count", "front", "update",
                      "resize", "unlist", "unlink", "unlinkOn", "uncount", "empty", "giveBack"}
  BY DEF WorkStep, Operate, Find, Delete, Insert, SetValue, Visit, VisitNext, VisitErase, VisitEnd, VisitUpdate, Take,
         MallocChunks, Use, InsertNodeList1, InsertNodeList2, Count, Foremost, Update, Resize, Unlist,
         DeleteFromNodeList1, DeleteFromNodeList2, Uncount, Empty, GiveBack, At
<1>2. proc[p].pc \in PcsIn \ PcsTorn
  BY <1>1 DEF PcsIn, PcsTorn, PcsOut
<1>3. Working(p)
  BY <1>2, WorkingWhen
<1>4. \E ww : Moved(p, ww)
  <2>1. CASE Operate(p)
    BY <1>3, <2>1, FindMoves, DeleteMoves, InsertMoves, SetValueMoves, VisitMoves DEF Operate
  <2>2. CASE VisitNext(p) \/ VisitErase(p) \/ VisitEnd(p) \/ \E v \in Value : VisitUpdate(p, v)
    BY <1>3, <2>2, VisitNextMoves, VisitEraseMoves, VisitEndMoves, VisitUpdateMoves
  <2>3. CASE Take(p) \/ MallocChunks(p) \/ Use(p) \/ InsertNodeList1(p) \/ InsertNodeList2(p) \/ Count(p) \/ Foremost(p)
    BY <1>3, <2>3, TakeMoves, MallocChunksMoves, UseMoves, InsertNodeList1Moves, InsertNodeList2Moves, CountMoves,
       ForemostMoves
  <2>4. CASE Update(p) \/ Resize(p)
    BY <1>3, <2>4, UpdateMoves, ResizeMoves
  <2>5. CASE \/ Unlist(p) \/ DeleteFromNodeList1(p) \/ DeleteFromNodeList2(p) \/ Uncount(p) \/ Empty(p) \/ GiveBack(p)
    BY <1>3, <2>5, UnlistMoves, DeleteFromNodeList1Moves, DeleteFromNodeList2Moves, UncountMoves, EmptyMoves,
       GiveBackMoves
  <2> QED
    BY <2>1, <2>2, <2>3, <2>4, <2>5 DEF WorkStep
<1> QED
  BY <1>3, <1>4

\* Then the invariant is kept, and the stacks see no step or the effect of its operation.
LEMMA WorkKeeps ==
  ASSUME IInv, NEW p \in Proc, WorkStep(p)
  PROVE  IInv' /\ Refined
<1>1. Working(p)
  BY WorkMoves
<1>2. PICK ww : Moved(p, ww)
  BY WorkMoves
<1>3. /\ holder = p /\ ~ torn /\ p # None /\ proc[p].pc \in PcsIn
      /\ ww \in Worker /\ Lawful(ww) /\ ww.pc \in PcsIn /\ proc' = [proc EXCEPT ![p] = ww]
      /\ sem' = sem /\ holder' = holder /\ torn' = torn /\ kills' = kills
      /\ proc \in [Proc -> Worker]
      /\ Good(m', ww, kills = 0)
  BY <1>1, <1>2, ProcAssumption DEF Working, Moved, IInv, TypeOK, OneInLock
<1>4. proc' \in [Proc -> Worker] /\ proc'[p] = ww /\ \A q \in Proc : q # p => proc'[q] = proc[q]
  BY <1>3
<1>5. TypeOK'
  BY <1>3, <1>4 DEF IInv, TypeOK
<1>6. OneInLock'
  <2>1. ww.pc # "setall" /\ proc[p].pc # "setall"
    BY <1>3 DEF PcsIn
  <2>2. \A q \in Proc : At(q, "setall")' <=> At(q, "setall")
    BY <1>4, <2>1 DEF At
  <2>3. \A q \in Proc : proc'[q].pc \in PcsIn <=> proc[q].pc \in PcsIn
    BY <1>3, <1>4
  <2> QED
    BY <1>3, <2>2, <2>3 DEF IInv, OneInLock
<1>7. Sound'
  <2>1. AtWork' = ww
    BY <1>3, <1>4 DEF AtWork
  <2>2. Good(m', ww, kills' = 0)
    BY <1>3
  <2> QED
    BY <2>1, <2>2 DEF Sound
<1>8. Refined
  BY <1>2, <1>3 DEF Refined, Moved, Happens
<1> QED
  BY <1>5, <1>6, <1>7, <1>8 DEF IInv

\* The process in the lock is at work, nobody else.
LEMMA WorkerIs ==
  ASSUME IInv
  PROVE  /\ holder = None => AtWork = Out
         /\ \A p \in Proc : holder = p => AtWork = proc[p] /\ p # None
         /\ Out \in Worker /\ Lawful(Out) /\ Out.pc = "out" /\ Out.op = "none" /\ AtWork.pc \in PcsIn \cup {"out"}
<1>1. Out \in Worker /\ Lawful(Out) /\ Out.pc = "out" /\ Out.op = "none"
  BY NoNode DEF Out, Worker, Lawful, PcsOut, PcsIn
<1>2. AtWork.pc \in PcsIn \cup {"out"}
  BY <1>1 DEF IInv, OneInLock, TypeOK, AtWork
<1> QED
  BY <1>1, <1>2, ProcAssumption DEF AtWork

\* The semaphore comes into being with the value 0: nobody passes it yet.
LEMMA SemGetKeeps ==
  ASSUME IInv, NEW p \in Proc, SemGet(p)
  PROVE  IInv' /\ Refined
<1> DEFINE pc == IF sem = INVALID THEN "setall" ELSE "waitOpen"
           ww == [proc[p] EXCEPT !.pc = pc]
<1>1. /\ proc \in [Proc -> Worker] /\ proc[p] \in Worker /\ Lawful(proc[p]) /\ proc[p].pc = "out" /\ holder # p
      /\ proc' = [proc EXCEPT ![p] = ww] /\ sem' = (IF sem = INVALID THEN 0 ELSE sem)
      /\ holder' = holder /\ m' = m /\ torn' = torn /\ kills' = kills
  BY DEF IInv, TypeOK, OneInLock, SemGet, At, Goto, PcsIn
<1>2. ww \in Worker /\ Lawful(ww) /\ ww.pc = pc
  BY <1>1 DEF Worker, Lawful, PcsOut
<1> HIDE DEF ww
<1>3. /\ proc' \in [Proc -> Worker] /\ proc'[p] = ww /\ \A q \in Proc : q # p => proc'[q] = proc[q]
      /\ pc \in PcsOut /\ pc \in PcsBefore /\ pc \notin PcsIn /\ pc \in PcsTorn
  BY <1>1, <1>2 DEF PcsOut, PcsBefore, PcsIn, PcsTorn
<1>4. TypeOK'
  BY <1>1, <1>2, <1>3 DEF IInv, TypeOK, INVALID
<1>5. OneInLock'
  <2>1. \A q \in Proc : proc'[q].pc \in PcsIn <=> holder = q
    BY <1>1, <1>2, <1>3 DEF IInv, OneInLock
  <2>2. CASE sem = INVALID
    <3>1. holder = None /\ \A q \in Proc : ~ At(q, "setall")
      BY <2>2 DEF IInv, OneInLock, TypeOK, INVALID
    <3>2. \A q \in Proc : q # p => ~ At(q, "setall")'
      BY <1>3, <3>1 DEF At
    <3> QED
      BY <1>1, <2>1, <2>2, <3>1, <3>2 DEF OneInLock
  <2>3. CASE sem # INVALID
    <3>1. \A q \in Proc : At(q, "setall")' <=> At(q, "setall")
      BY <1>1, <1>2, <1>3, <2>3 DEF At
    <3> QED
      BY <1>1, <2>1, <2>3, <3>1 DEF IInv, OneInLock
  <2> QED
    BY <2>2, <2>3
<1>6. Sound'
  <2>1. AtWork' = AtWork
    BY <1>1, <1>3 DEF AtWork, IInv, TypeOK
  <2>2. \A q \in Proc : proc[q].pc \in PcsBefore => proc'[q].pc \in PcsBefore
    BY <1>2, <1>3
  <2> QED
    BY <1>1, <2>1, <2>2 DEF IInv, Sound
<1>7. Refined
  BY <1>1 DEF Refined
<1> QED
  BY <1>4, <1>5, <1>6, <1>7 DEF IInv

\* The process that created it lets the first one in.
LEMMA SetAllKeeps ==
  ASSUME IInv, NEW p \in Proc, SetAll(p)
  PROVE  IInv' /\ Refined
<1> DEFINE ww == [proc[p] EXCEPT !.pc = "waitOpen"]
<1>1. /\ proc \in [Proc -> Worker] /\ proc[p] \in Worker /\ Lawful(proc[p]) /\ proc[p].pc = "setall" /\ holder # p
      /\ proc' = [proc EXCEPT ![p] = ww] /\ sem' = 1
      /\ holder' = holder /\ m' = m /\ torn' = torn /\ kills' = kills
  BY DEF IInv, TypeOK, OneInLock, SetAll, At, Goto, PcsIn
<1>2. ww \in Worker /\ Lawful(ww) /\ ww.pc = "waitOpen"
  BY <1>1 DEF Worker, Lawful, PcsOut
<1> HIDE DEF ww
<1>3. /\ proc' \in [Proc -> Worker] /\ proc'[p] = ww /\ \A q \in Proc : q # p => proc'[q] = proc[q]
      /\ ww.pc \in PcsBefore /\ ww.pc \notin PcsIn /\ ww.pc \in PcsTorn
  BY <1>1, <1>2 DEF PcsOut, PcsBefore, PcsIn, PcsTorn
<1>4. TypeOK'
  BY <1>1, <1>2, <1>3 DEF IInv, TypeOK
<1>5. OneInLock'
  <2>1. \A q \in Proc : proc'[q].pc \in PcsIn <=> holder = q
    BY <1>1, <1>3 DEF IInv, OneInLock
  <2>2. holder = None /\ \A q \in Proc : q # p => ~ At(q, "setall")
    BY <1>1 DEF IInv, OneInLock, At
  <2>3. \A q \in Proc : ~ At(q, "setall")'
    BY <1>2, <1>3, <2>2 DEF At
  <2> QED
    BY <1>1, <2>1, <2>2, <2>3 DEF OneInLock
<1>6. Sound'
  <2>1. AtWork' = AtWork
    BY <1>1, <1>3 DEF AtWork, IInv, TypeOK
  <2>2. \A q \in Proc : proc[q].pc \in PcsBefore => proc'[q].pc \in PcsBefore
    BY <1>3
  <2> QED
    BY <1>1, <2>1, <2>2 DEF IInv, Sound
<1>7. Refined
  BY <1>1 DEF Refined
<1> QED
  BY <1>4, <1>5, <1>6, <1>7 DEF IInv

\* A process that passes the semaphore is the only one in the lock; the map is at rest.
LEMMA LockKeeps ==
  ASSUME IInv, NEW p \in Proc, Lock(p)
  PROVE  IInv' /\ Refined
<1> DEFINE pc == IF At(p, "waitOpen") THEN "open" ELSE IF torn THEN "leave" ELSE "inside"
           op == IF At(p, "waitOpen") THEN "open" ELSE "none"
           ww == [proc[p] EXCEPT !.pc = pc, !.op = op]
<1>1. /\ proc \in [Proc -> Worker] /\ proc[p] \in Worker /\ Lawful(proc[p]) /\ proc[p].pc \in {"waitOpen", "wait"}
      /\ proc' = [proc EXCEPT ![p] = ww] /\ sem = 1 /\ sem' = 0
      /\ holder' = p /\ m' = m /\ torn' = torn /\ kills' = kills
  BY DEF IInv, TypeOK, Lock, At
<1>2. ww \in Worker /\ Lawful(ww) /\ ww.pc = pc
  BY <1>1 DEF Worker, Lawful, PcsOut, PcsIn, At
<1> HIDE DEF ww
<1>3. /\ proc' \in [Proc -> Worker] /\ proc'[p] = ww /\ \A q \in Proc : q # p => proc'[q] = proc[q]
      /\ pc \in PcsIn /\ pc \in IdlePcs /\ (torn => pc \in PcsTorn)
  BY <1>1, <1>2 DEF PcsOut, IdlePcs, PcsIn, PcsTorn
<1>4. holder = None /\ (\A q \in Proc : ~ At(q, "setall")) /\ AtWork = Out /\ AtWork' = ww /\ p # None
  BY <1>1, <1>3, ProcAssumption DEF IInv, OneInLock, AtWork
<1>5. TypeOK'
  BY <1>1, <1>2, <1>3 DEF IInv, TypeOK
<1>6. OneInLock'
  <2>1. \A q \in Proc : proc[q].pc \notin PcsIn
    BY <1>4, ProcAssumption DEF IInv, OneInLock
  <2>2. \A q \in Proc : proc'[q].pc \in PcsIn <=> p = q
    BY <1>2, <1>3, <2>1
  <2>3. \A q \in Proc : ~ At(q, "setall")'
    BY <1>2, <1>3, <1>4 DEF At, PcsIn
  <2> QED
    BY <1>1, <2>2, <2>3 DEF OneInLock
<1>7. ASSUME ~ torn' PROVE Sound'
  <2>0. ~ torn
    BY <1>1, <1>7
  <2>1. CASE /\ m \in {Absent, Zeroed} /\ \A q \in Proc : proc[q].pc \in PcsBefore
             /\ kills = 0 /\ m = Zeroed => AtWork.pc = "init"
    <3>1. At(p, "waitOpen")
      BY <1>1, <2>1 DEF PcsBefore, At
    <3>2. ww.pc = "open"
      BY <1>2, <3>1
    <3>3. \A q \in Proc : proc'[q].pc \in PcsBefore
      BY <1>3, <2>1, <3>2 DEF PcsBefore
    <3>4. ~ (kills = 0 /\ m = Zeroed)
      BY <1>4, <2>1 DEF Out
    <3> QED
      BY <1>1, <2>1, <3>3, <3>4 DEF Sound
  <2>2. CASE Good(m, AtWork, kills = 0)
    <3>1. AtWork.pc \in RestPcs /\ ww.pc \in IdlePcs
      BY <1>2, <1>3, <1>4 DEF Out, RestPcs
    <3>2. Good(m, ww, kills = 0)
      BY <2>2, <3>1, LetGo
    <3> QED
      BY <1>1, <1>4, <3>2 DEF Sound
  <2> QED
    BY <2>0, <2>1, <2>2 DEF IInv, Sound
<1>8. Sound'
  BY <1>7 DEF Sound
<1>9. Refined
  BY <1>1 DEF Refined
<1> QED
  BY <1>5, <1>6, <1>8, <1>9 DEF IInv

\* A step of the process p in the lock, by which it becomes ww and stays in it.
LEMMA InsideKeeps ==
  ASSUME IInv, NEW p \in Proc, proc[p].pc \in PcsIn, NEW ww \in Worker, Lawful(ww), ww.pc \in PcsIn \cap PcsTorn,
         proc' = [proc EXCEPT ![p] = ww], Kept
  PROVE  /\ TypeOK' /\ OneInLock' /\ AtWork' = ww /\ AtWork = proc[p] /\ holder = p /\ p # None
         /\ proc'[p] = ww /\ \A q \in Proc : q # p => proc'[q] = proc[q]
<1>1. /\ holder = p /\ p # None /\ proc \in [Proc -> Worker] /\ AtWork = proc[p]
      /\ sem' = sem /\ holder' = holder /\ torn' = torn /\ kills' = kills
  BY ProcAssumption DEF IInv, OneInLock, TypeOK, AtWork, Kept
<1>2. proc' \in [Proc -> Worker] /\ proc'[p] = ww /\ \A q \in Proc : q # p => proc'[q] = proc[q]
  BY <1>1
<1>3. TypeOK'
  BY <1>1, <1>2 DEF IInv, TypeOK
<1>4. OneInLock'
  <2>1. ww.pc # "setall" /\ proc[p].pc # "setall"
    BY DEF PcsIn
  <2>2. \A q \in Proc : At(q, "setall")' <=> At(q, "setall")
    BY <1>2, <2>1 DEF At
  <2>3. \A q \in Proc : proc'[q].pc \in PcsIn <=> proc[q].pc \in PcsIn
    BY <1>2
  <2> QED
    BY <1>1, <2>2, <2>3 DEF IInv, OneInLock
<1>5. AtWork' = ww
  BY <1>1, <1>2 DEF AtWork
<1> QED
  BY <1>1, <1>2, <1>3, <1>4, <1>5

\* A step of the process p in the lock, by which it becomes ww and leaves it.
LEMMA OutsideKeeps ==
  ASSUME IInv, NEW p \in Proc, proc[p].pc \in PcsIn, NEW ww \in Worker, Lawful(ww), ww.pc \in {"out", "wait", "givenUp"},
         proc' = [proc EXCEPT ![p] = ww], sem' = 1, holder' = None, torn' \in BOOLEAN, kills' \in Nat,
         kills' = 0 => ~ torn', torn' => torn \/ proc[p].pc \in TornAt
  PROVE  /\ TypeOK' /\ OneInLock' /\ AtWork' = Out /\ AtWork = proc[p] /\ holder = p /\ p # None
         /\ proc'[p] = ww /\ \A q \in Proc : q # p => proc'[q] = proc[q] /\ proc[q].pc \in PcsOut
<1>1. /\ holder = p /\ p # None /\ proc \in [Proc -> Worker] /\ AtWork = proc[p]
  BY ProcAssumption DEF IInv, OneInLock, TypeOK, AtWork
<1>2. /\ proc' \in [Proc -> Worker] /\ proc'[p] = ww /\ \A q \in Proc : q # p => proc'[q] = proc[q]
      /\ ww.pc \in PcsOut /\ ww.pc \notin PcsIn /\ ww.pc # "setall"
  BY <1>1 DEF PcsOut, PcsIn
<1>3. \A q \in Proc : q # p => proc[q].pc \notin PcsIn /\ proc[q].pc \in PcsOut
  BY <1>1 DEF IInv, OneInLock, TypeOK, Worker
<1>4. TypeOK'
  <2>1. \A q \in Proc : proc'[q].pc \in PcsTorn /\ Lawful(proc'[q])
    BY <1>2, <1>3 DEF PcsTorn, IInv, TypeOK
  <2> QED
    BY <1>2, <2>1 DEF TypeOK
<1>5. OneInLock'
  <2>1. \A q \in Proc : proc'[q].pc \notin PcsIn
    BY <1>2, <1>3
  <2>2. \A q \in Proc : ~ At(q, "setall")'
    <3>1. \A q \in Proc : ~ At(q, "setall")
      BY <1>1 DEF IInv, OneInLock
    <3> QED
      BY <1>2, <3>1 DEF At
  <2> QED
    BY <2>1, <2>2, ProcAssumption DEF OneInLock
<1>6. AtWork' = Out
  BY DEF AtWork
<1> QED
  BY <1>1, <1>2, <1>3, <1>4, <1>5, <1>6

\* No map is as good as one with nothing in it.
LEMMA NothingYet == StacksOf(Absent) = NoStacks /\ StacksOf(Zeroed) = NoStacks
BY DEF StacksOf, NoStacks

\* The segment is created by a process in the lock.
LEMMA CreateKeeps ==
  ASSUME IInv, NEW p \in Proc, Create(p)
  PROVE  IInv' /\ Refined
<1> DEFINE ww == [proc[p] EXCEPT !.pc = "init"]
<1>1. /\ proc[p] \in Worker /\ Lawful(proc[p]) /\ proc[p].pc = "open" /\ m = Absent /\ m' = Zeroed
      /\ proc' = [proc EXCEPT ![p] = ww] /\ Kept /\ proc[p].pc \in PcsIn
  BY DEF IInv, TypeOK, Create, At, Goto, PcsIn
<1>2. ww \in Worker /\ Lawful(ww) /\ ww.pc = "init" /\ ww.pc \in PcsIn \cap PcsTorn
  BY <1>1 DEF Worker, Lawful, PcsOut, PcsIn, PcsTorn
<1> HIDE DEF ww
<1>3. /\ TypeOK' /\ OneInLock' /\ AtWork' = ww /\ AtWork = proc[p]
      /\ proc'[p] = ww /\ \A q \in Proc : q # p => proc'[q] = proc[q]
  BY <1>1, <1>2, InsideKeeps
<1>4. Sound'
  <2> SUFFICES ASSUME ~ torn PROVE Sound'
    BY <1>1 DEF Sound, Kept
  <2>1. \A q \in Proc : proc[q].pc \in PcsBefore
    BY <1>1, GoodTyped DEF IInv, Sound
  <2>2. \A q \in Proc : proc'[q].pc \in PcsBefore
    BY <1>2, <1>3, <2>1 DEF PcsBefore
  <2> QED
    BY <1>1, <1>2, <1>3, <2>2 DEF Sound
<1>5. Refined
  BY <1>1, NothingYet DEF Refined, Kept
<1> QED
  BY <1>3, <1>4, <1>5 DEF IInv

\* The map is initialised by the process that opens it.
LEMMA FreshIs ==
  ASSUME IInv, NEW p \in Proc, proc[p].pc \in {"open", "init"}, NEW ww \in Worker, Lawful(ww), ww.pc = "leave",
         proc' = [proc EXCEPT ![p] = ww], m' = InitPoolData, Kept
  PROVE  IInv' /\ Refined
<1>1. proc[p].pc \in PcsIn /\ ww.pc \in PcsIn \cap PcsTorn /\ ww.pc \in IdlePcs
  BY DEF PcsIn, PcsTorn, IdlePcs
<1>2. /\ TypeOK' /\ OneInLock' /\ AtWork' = ww /\ AtWork = proc[p] /\ holder = p /\ p # None
  BY <1>1, InsideKeeps
<1>3. Good(m', ww, kills = 0)
  <2>1. Rests(m', NoLists, AllFree, <<>>, kills = 0)
    BY InitIs
  <2> QED
    BY <1>1, <2>1, IdleGood
<1>4. kills' = kills /\ torn' = torn
  BY DEF Kept
<1>5. Sound'
  BY <1>2, <1>3, <1>4 DEF Sound
<1>6. Refined
  <2>1. StacksOf(m') = NoStacks
    BY InitIs
  <2>2. proc[p].op = "open" /\ proc[p].pc \notin Past
    BY DEF IInv, TypeOK, Lawful, Past
  <2> QED
    BY <1>2, <1>4, <2>1, <2>2 DEF Refined, Happens
<1> QED
  BY <1>2, <1>5, <1>6 DEF IInv

\* The map created is empty.
LEMMA InitPoolKeeps ==
  ASSUME IInv, NEW p \in Proc, InitPool(p)
  PROVE  IInv' /\ Refined
<1> DEFINE ww == [proc[p] EXCEPT !.pc = "leave"]
<1>1. /\ proc[p] \in Worker /\ Lawful(proc[p]) /\ proc[p].pc = "init"
      /\ proc' = [proc EXCEPT ![p] = ww] /\ m' = InitPoolData /\ Kept
  BY DEF IInv, TypeOK, InitPool, At, Goto
<1>2. ww \in Worker /\ Lawful(ww) /\ ww.pc = "leave"
  BY <1>1 DEF Worker, Lawful, PcsOut, PcsIn
<1> HIDE DEF ww
<1> QED
  BY <1>1, <1>2, FreshIs

\* A map opened again is left as it is, or emptied.
LEMMA ReopenKeeps ==
  ASSUME IInv, NEW p \in Proc, Reopen(p)
  PROVE  IInv' /\ Refined
<1> DEFINE pc == IF VerifyPoolData(m) THEN "leave" ELSE "refused"
           w1 == [proc[p] EXCEPT !.pc = "leave"]
           w2 == [proc[p] EXCEPT !.pc = pc]
<1>1. /\ proc[p] \in Worker /\ Lawful(proc[p]) /\ proc[p].pc = "open" /\ proc \in [Proc -> Worker]
      /\ m # Absent /\ Kept /\ proc[p].pc \in PcsIn
  BY DEF IInv, TypeOK, Reopen, At, Goto, PcsIn
<1>2. CASE m' = InitPoolData /\ proc' = [proc EXCEPT ![p] = w1]
  <2>1. w1 \in Worker /\ Lawful(w1) /\ w1.pc = "leave"
    BY <1>1 DEF Worker, Lawful, PcsOut, PcsIn
  <2> HIDE DEF w1
  <2> QED
    BY <1>1, <1>2, <2>1, FreshIs
<1>3. CASE m' = m /\ proc' = [proc EXCEPT ![p] = w2]
  <2>1. w2 \in Worker /\ Lawful(w2) /\ w2.pc = pc /\ pc \in PcsIn \cap PcsTorn /\ pc \in IdlePcs
    BY <1>1 DEF Worker, Lawful, PcsOut, PcsIn, PcsTorn, IdlePcs
  <2> HIDE DEF w2
  <2>2. /\ TypeOK' /\ OneInLock' /\ AtWork' = w2 /\ AtWork = proc[p]
        /\ proc'[p] = w2 /\ \A q \in Proc : q # p => proc'[q] = proc[q]
    BY <1>1, <1>3, <2>1, InsideKeeps
  <2>3. kills' = kills /\ torn' = torn
    BY <1>1 DEF Kept
  <2>4. Sound'
    <3> SUFFICES ASSUME ~ torn PROVE Sound'
      BY <2>3 DEF Sound
    <3>1. CASE /\ m \in {Absent, Zeroed} /\ \A q \in Proc : proc[q].pc \in PcsBefore
               /\ kills = 0 /\ m = Zeroed => AtWork.pc = "init"
      <4>1. m = Zeroed /\ kills # 0
        BY <1>1, <2>2, <3>1
      <4>2. ~ VerifyPoolData(m)
        <5>1. Zeroed.total = 0 /\ NodeTotal # 0
          BY SizeAssumption DEF Zeroed
        <5> QED
          BY <4>1, <5>1 DEF VerifyPoolData
      <4>3. \A q \in Proc : proc'[q].pc \in PcsBefore
        BY <2>1, <2>2, <3>1, <4>2 DEF PcsBefore
      <4> QED
        BY <1>3, <2>3, <4>1, <4>3 DEF Sound
    <3>2. CASE Good(m, AtWork, kills = 0)
      <4>1. AtWork.pc \in RestPcs /\ w2.pc \in IdlePcs
        BY <1>1, <2>1, <2>2 DEF RestPcs
      <4>2. Good(m, w2, kills = 0)
        BY <3>2, <4>1, LetGo
      <4> QED
        BY <1>3, <2>2, <2>3, <4>2 DEF Sound
    <3> QED
      BY <3>1, <3>2 DEF IInv, Sound
  <2>5. Refined
    BY <1>3, <2>3 DEF Refined
  <2> QED
    BY <2>2, <2>4, <2>5 DEF IInv
<1> QED
  BY <1>1, <1>2, <1>3 DEF Reopen, Goto

\* A process that found the counts wrong leaves the lock and the map.
LEMMA RefusedKeeps ==
  ASSUME IInv, NEW p \in Proc, Refused(p)
  PROVE  IInv' /\ Refined
<1> DEFINE ww == [proc[p] EXCEPT !.pc = "givenUp"]
<1>1. /\ proc[p] \in Worker /\ Lawful(proc[p]) /\ proc[p].pc = "refused"
      /\ proc' = [proc EXCEPT ![p] = ww] /\ sem' = 1 /\ holder' = None /\ m' = m /\ torn' = torn /\ kills' = kills
      /\ proc[p].pc \in PcsIn /\ torn \in BOOLEAN /\ kills \in Nat /\ (kills = 0 => ~ torn)
  BY DEF IInv, TypeOK, Refused, At, Goto, PcsIn
<1>2. ww \in Worker /\ Lawful(ww) /\ ww.pc = "givenUp"
  BY <1>1 DEF Worker, Lawful, PcsOut, PcsIn
<1> HIDE DEF ww
<1>3. /\ TypeOK' /\ OneInLock' /\ AtWork' = Out /\ AtWork = proc[p]
      /\ proc'[p] = ww /\ \A q \in Proc : q # p => proc'[q] = proc[q]
  BY <1>1, <1>2, OutsideKeeps
<1>4. Sound'
  <2> SUFFICES ASSUME ~ torn PROVE Sound'
    BY <1>1 DEF Sound
  <2>1. CASE /\ m \in {Absent, Zeroed} /\ \A q \in Proc : proc[q].pc \in PcsBefore
             /\ kills = 0 /\ m = Zeroed => AtWork.pc = "init"
    <3>1. \A q \in Proc : proc'[q].pc \in PcsBefore
      BY <1>2, <1>3, <2>1 DEF PcsBefore
    <3> QED
      BY <1>1, <1>3, <2>1, <3>1 DEF Sound
  <2>2. CASE Good(m, AtWork, kills = 0)
    <3>1. AtWork.pc \in RestPcs /\ Out.pc \in IdlePcs
      BY <1>1, <1>3 DEF RestPcs, IdlePcs, Out
    <3>2. Good(m, Out, kills = 0)
      BY <2>2, <3>1, LetGo
    <3> QED
      BY <1>1, <1>3, <3>2 DEF Sound
  <2> QED
    BY <2>1, <2>2 DEF IInv, Sound
<1>5. Refined
  BY <1>1 DEF Refined
<1> QED
  BY <1>3, <1>4, <1>5 DEF IInv

\* A process leaves the lock, the map being at rest.
LEMMA LeaveKeeps ==
  ASSUME IInv, NEW p \in Proc, Leave(p)
  PROVE  IInv' /\ Refined
<1> DEFINE ww == [Out EXCEPT !.pc = "wait"]
<1>1. /\ proc[p] \in Worker /\ proc[p].pc = "leave"
      /\ proc' = [proc EXCEPT ![p] = ww] /\ sem' = 1 /\ holder' = None /\ m' = m /\ torn' = torn /\ kills' = kills
      /\ proc[p].pc \in PcsIn /\ torn \in BOOLEAN /\ kills \in Nat /\ (kills = 0 => ~ torn)
  BY DEF IInv, TypeOK, Leave, Unlock, At, PcsIn
<1>2. ww \in Worker /\ Lawful(ww) /\ ww.pc = "wait"
  BY NoNode DEF Worker, Lawful, PcsOut, PcsIn, Out
<1> HIDE DEF ww
<1>3. TypeOK' /\ OneInLock' /\ AtWork' = Out /\ AtWork = proc[p]
  BY <1>1, <1>2, OutsideKeeps
<1>4. Sound'
  <2> SUFFICES ASSUME ~ torn PROVE Sound'
    BY <1>1 DEF Sound
  <2>1. proc[p].pc \notin PcsBefore
    BY <1>1 DEF PcsBefore
  <2>2. Good(m, AtWork, kills = 0)
    BY <2>1 DEF IInv, Sound
  <2>3. AtWork.pc \in RestPcs /\ Out.pc \in IdlePcs
    BY <1>1, <1>3 DEF RestPcs, IdlePcs, Out
  <2>4. Good(m, Out, kills = 0)
    BY <2>2, <2>3, LetGo
  <2> QED
    BY <1>1, <1>3, <2>4 DEF Sound
<1>5. Refined
  BY <1>1 DEF Refined
<1> QED
  BY <1>3, <1>4, <1>5 DEF IInv

\* The kernel gives the semaphore back; what the process had begun stays as it is.
LEMMA KillKeeps ==
  ASSUME IInv, NEW p \in Proc, Kill(p)
  PROVE  IInv' /\ Refined
<1> DEFINE w == proc[p]
<1>1. /\ w \in Worker /\ proc \in [Proc -> Worker] /\ w.pc # "out"
      /\ proc' = [proc EXCEPT ![p] = Out] /\ m' = m /\ torn' = (torn \/ w.pc \in TornAt) /\ kills' = kills + 1
      /\ torn \in BOOLEAN /\ kills \in Nat /\ torn' \in BOOLEAN /\ kills' \in Nat /\ kills' # 0
  BY DEF IInv, TypeOK, Kill, At
<1>2. Out \in Worker /\ Lawful(Out) /\ Out.pc = "out"
  BY WorkerIs
<1>3. CASE holder = p
  <2>1. w.pc \in PcsIn /\ sem' = 1 /\ holder' = None
    BY <1>3 DEF IInv, OneInLock, Kill, HolderUndone
  <2>2. /\ TypeOK' /\ OneInLock' /\ AtWork' = Out /\ AtWork = proc[p]
        /\ proc'[p] = Out /\ \A q \in Proc : q # p => proc'[q] = proc[q]
    BY <1>1, <1>2, <2>1, OutsideKeeps
  <2>3. Sound'
    <3> SUFFICES ASSUME ~ torn, w.pc \notin TornAt PROVE Sound'
      BY <1>1 DEF Sound
    <3>1. CASE m \in {Absent, Zeroed} /\ \A q \in Proc : proc[q].pc \in PcsBefore
      <4>1. \A q \in Proc : proc'[q].pc \in PcsBefore
        BY <1>2, <2>2, <3>1 DEF PcsBefore
      <4> QED
        BY <1>1, <3>1, <4>1 DEF Sound
    <3>2. CASE Good(m, AtWork, kills = 0)
      <4>1. Out.pc \in IdlePcs /\ AtWork.pc \notin TornAt
        BY <1>2, <2>2 DEF IdlePcs
      <4>2. Good(m, Out, FALSE)
        BY <3>2, <4>1, LetGo
      <4>3. Good(m, Out, kills' = 0)
        BY <1>1, <4>2
      <4> QED
        BY <1>1, <2>2, <4>3 DEF Sound
    <3> QED
      BY <3>1, <3>2 DEF IInv, Sound
  <2> QED
    BY <1>1, <2>2, <2>3 DEF IInv, Refined
<1>4. CASE holder # p
  <2>1. sem' = sem /\ holder' = holder /\ w.pc \notin PcsIn
    BY <1>4 DEF IInv, OneInLock, Kill, HolderUndone
  <2>2. /\ proc' \in [Proc -> Worker] /\ proc'[p] = Out /\ \A q \in Proc : q # p => proc'[q] = proc[q]
        /\ w.pc \notin TornAt
    BY <1>1, <1>2, <2>1 DEF TornAt, PcsIn
  <2>3. TypeOK'
    BY <1>1, <1>2, <2>1, <2>2 DEF IInv, TypeOK, PcsTorn, PcsOut
  <2>4. OneInLock'
    <3>1. \A q \in Proc : proc'[q].pc \in PcsIn <=> proc[q].pc \in PcsIn
      BY <1>2, <2>1, <2>2 DEF PcsIn
    <3>2. \A q \in Proc : At(q, "setall")' => At(q, "setall")
      BY <1>2, <2>2 DEF At
    <3> QED
      BY <2>1, <3>1, <3>2 DEF IInv, OneInLock
  <2>5. Sound'
    <3> SUFFICES ASSUME ~ torn PROVE Sound'
      BY <1>1 DEF Sound
    <3>1. AtWork' = AtWork
      BY <1>4, <2>1, <2>2 DEF AtWork, IInv, TypeOK
    <3>2. CASE m \in {Absent, Zeroed} /\ \A q \in Proc : proc[q].pc \in PcsBefore
      <4>1. \A q \in Proc : proc'[q].pc \in PcsBefore
        BY <1>2, <2>2, <3>2 DEF PcsBefore
      <4> QED
        BY <1>1, <3>2, <4>1 DEF Sound
    <3>3. CASE Good(m, AtWork, kills = 0)
      <4>1. Good(m, AtWork, FALSE)
        BY <3>3, GoodTyped
      <4>2. Good(m, AtWork, kills' = 0)
        BY <1>1, <4>1
      <4> QED
        BY <1>1, <3>1, <4>2 DEF Sound
    <3> QED
      BY <3>2, <3>3 DEF IInv, Sound
  <2>6. Refined
    BY <1>1, <2>2 DEF Refined
  <2> QED
    BY <2>3, <2>4, <2>5, <2>6 DEF IInv
<1> QED
  BY <1>3, <1>4

-----------------------------------------------------------------------------
(* A map at rest. *)

\* Backwards the list of all is its reverse.
LEMMA ReverseLeads ==
  ASSUME NEW s \in Seq(Node), Distinct(s), NEW last, NEW link, Backs(last, link, s)
  PROVE  Reverse(s) \in Seq(Node) /\ Distinct(Reverse(s)) /\ Leads(last, link, Reverse(s))
<1> DEFINE r == Reverse(s)
           N == Len(s)
<1>1. N \in Nat /\ \A i \in 1..N : s[i] \in Node
  BY Somewhere
<1>2. \A i \in 1..N : N - i + 1 \in 1..N
  BY <1>1
<1>3. r = [i \in 1..N |-> s[N - i + 1]]
  BY DEF Reverse
<1>4. r \in Seq(Node) /\ Len(r) = N
  <2>1. r \in [1..N -> Node]
    BY <1>1, <1>2, <1>3
  <2> HIDE DEF r, N
  <2> QED
    BY <1>1, <2>1
<1>5. \A i \in 1..N : r[i] = s[N - i + 1]
  BY <1>3
<1>6. last = Nth(s, N) /\ \A i \in 1..N : link[s[i]] = Nth(s, i - 1)
  BY DEF Backs
<1>7. \A i, j \in 1..N : s[i] = s[j] => i = j
  BY DEF Distinct
<1> HIDE DEF r, N
<1>8. Distinct(r)
  <2> SUFFICES ASSUME NEW i \in 1..N, NEW j \in 1..N, r[i] = r[j] PROVE i = j
    BY <1>4 DEF Distinct
  <2>1. N - i + 1 = N - j + 1
    BY <1>2, <1>5, <1>7
  <2> QED
    BY <1>1, <2>1
<1>9. \A i \in Nat \ {0} : Nth(r, i) = Nth(s, N - i + 1)
  <2> SUFFICES ASSUME NEW i \in Nat \ {0} PROVE Nth(r, i) = Nth(s, N - i + 1)
    OBVIOUS
  <2>1. CASE i \in 1..N
    BY <1>2, <1>4, <1>5, <2>1 DEF Nth, N
  <2>2. CASE i \notin 1..N
    <3>1. N - i + 1 \notin 1..N
      BY <1>1, <2>2
    <3> QED
      BY <1>4, <2>2, <3>1 DEF Nth, N
  <2> QED
    BY <2>1, <2>2
<1>10. last = Nth(r, 1)
  <2>1. N - 1 + 1 = N
    BY <1>1
  <2> QED
    BY <1>6, <1>9, <2>1
<1>11. ASSUME NEW i \in 1..Len(r) PROVE link[r[i]] = Nth(r, i + 1)
  <2>1. i \in 1..N /\ i + 1 \in Nat \ {0} /\ N - (i + 1) + 1 = (N - i + 1) - 1
    BY <1>1, <1>4
  <2>2. link[s[N - i + 1]] = Nth(s, (N - i + 1) - 1)
    BY <1>2, <1>6, <2>1
  <2> QED
    BY <1>5, <1>9, <2>1, <2>2
<1>12. Leads(last, link, r)
  BY <1>10, <1>11 DEF Leads
<1> QED
  BY <1>4, <1>8, <1>12 DEF r

\* The nodes that are not free are the linked ones.
LEMMA NodesSplit ==
  ASSUME NEW S \in SUBSET Node, NEW s \in Seq(Node), Distinct(s), Range(s) \cap S = {}, Node \subseteq S \cup Range(s)
  PROVE  S = Node \ Range(s) /\ Cardinality(S) \in Nat /\ Cardinality(S) + Len(s) = NodeTotal
<1>1. Range(s) \subseteq Node
  BY Somewhere
<1>2. S = Node \ Range(s)
  BY <1>1
<1>3. IsFiniteSet(Node) /\ Cardinality(Node) = NodeTotal /\ Cardinality(Range(s)) = Len(s) /\ Len(s) \in Nat
  BY NodesCounted, DifferentCounted, Somewhere
<1>4. Node \cap Range(s) = Range(s)
  BY <1>1
<1>5. Cardinality(Node \ Range(s)) = Cardinality(Node) - Cardinality(Range(s)) /\ IsFiniteSet(Node \ Range(s))
  BY <1>3, <1>4, FS_Difference
<1>6. Cardinality(S) \in Nat
  BY <1>2, <1>5, FS_CardinalityType
<1>7. NodeTotal \in Nat
  BY SizeAssumption
<1> QED
  BY <1>2, <1>3, <1>5, <1>6, <1>7

MapIs(mem) ==
  LET used == UNION {Range(BucketList(mem, b)) : b \in Bucket}
      all == AddList(mem)
  IN /\ VerifyPoolData(mem)
     /\ used = Node \ Range(FreeList(mem)) /\ mem.used = Cardinality(used)
     /\ \A b \in Bucket : \A i \in DOMAIN BucketList(mem, b) :
          LET l == BucketList(mem, b) IN
          /\ GetBucketId(mem.key[l[i]]) = b
          /\ mem.prev[l[i]] = IF i = 1 THEN INVALID ELSE l[i-1]
     /\ Range(all) = used /\ Len(all) = mem.used
     /\ Walk(mem.addTail, mem.addPrev) = Reverse(all)
     /\ mem.freeChunks + Cardinality(UNION {{n} \X (1..mem.len[n]) : n \in used}) = ChunkTotal

\* What MapSound says of a map at rest that nobody was killed in.
LEMMA GoodIsSound ==
  ASSUME NEW mem, NEW w, w.pc \in RestPcs, Good(mem, w, TRUE)
  PROVE  MapIs(mem)
<1>1. PICK L, F, A : Rests(mem, L, F, A, TRUE)
  BY RestIs
<1>2. /\ Shape(mem, L, F, A) /\ PrevRight(mem, L, INVALID)
      /\ Tally(mem, L, F, A, {}, Linked(L), {}, Nonempty(L), mem.len, {})
  BY <1>1 DEF Rests, Calm
<1>3. /\ (\A b \in Bucket : BucketList(mem, b) = L[b]) /\ FreeList(mem) = F /\ AddList(mem) = A
  BY <1>2, ListsAre
<1>4. /\ mem \in Segment /\ mem.total = NodeTotal /\ L \in [Bucket -> Seq(Node)] /\ mem.len \in [Node -> Nat]
      /\ F \in Seq(Node) /\ A \in Seq(Node) /\ Distinct(F) /\ Distinct(A)
      /\ Range(F) \cap Linked(L) = {} /\ Range(A) \subseteq Linked(L) /\ Linked(L) \subseteq Node
      /\ Buckets(mem, L) /\ InAddList(mem, A)
  BY <1>2, ShapeTells DEF Typed
<1>5. /\ Node \subseteq Linked(L) \cup Range(F) /\ mem.used = Cardinality(Linked(L))
      /\ Linked(L) \subseteq Range(A) /\ mem.usedBuckets = Cardinality(Nonempty(L))
      /\ mem.freeChunks + Cardinality(Chunks(mem.len)) = ChunkTotal
      /\ \A n \in Node \ Linked(L) : mem.len[n] = 0
  BY <1>2 DEF Tally
<1>6. UNION {Range(BucketList(mem, b)) : b \in Bucket} = Linked(L)
  <2>1. \A b \in Bucket : Range(L[b]) \subseteq Linked(L)
    BY <1>4, OfBucket
  <2>2. \A n \in Linked(L) : \E b \in Bucket : n \in Range(L[b])
    BY DEF Linked
  <2> QED
    BY <1>3, <2>1, <2>2
<1>7. Linked(L) = Node \ Range(F) /\ Cardinality(Linked(L)) \in Nat /\ Cardinality(Linked(L)) + Len(F) = NodeTotal
  BY <1>4, <1>5, NodesSplit
<1>8. VerifyPoolData(mem)
  <2>1. {b \in Bucket : mem.bucket[b] # INVALID} = Nonempty(L)
    <3>1. ASSUME NEW b \in Bucket PROVE mem.bucket[b] # INVALID <=> L[b] # <<>>
      <4>1. mem.bucket[b] = Nth(L[b], 1)
        BY <1>4 DEF Buckets, Leads
      <4>2. L[b] \in Seq(Node) /\ Len(L[b]) \in Nat /\ (L[b] = <<>> <=> Len(L[b]) = 0)
        BY <1>4, OfBucket
      <4>3. CASE L[b] = <<>>
        <5>1. 1 \notin 1..Len(L[b])
          BY <4>2, <4>3
        <5> QED
          BY <4>1, <4>3, <5>1 DEF Nth
      <4>4. CASE L[b] # <<>>
        <5>1. 1 \in 1..Len(L[b])
          BY <4>2, <4>4
        <5> QED
          BY <4>1, <4>2, <4>4, <5>1, Somewhere, NoNode DEF Nth
      <4> QED
        BY <4>3, <4>4
    <3> QED
      BY <3>1 DEF Nonempty
  <2> QED
    BY <1>3, <1>4, <1>5, <1>7, <2>1 DEF VerifyPoolData
<1>9. ASSUME NEW b \in Bucket, NEW i \in DOMAIN BucketList(mem, b)
      PROVE  LET l == BucketList(mem, b)
             IN /\ GetBucketId(mem.key[l[i]]) = b
                /\ mem.prev[l[i]] = IF i = 1 THEN INVALID ELSE l[i-1]
  <2>1. L[b] \in Seq(Node) /\ Len(L[b]) \in Nat /\ i \in 1..Len(L[b])
    BY <1>3, <1>4, <1>9, OfBucket
  <2>2. L[b][i] \in Node /\ L[b][i] \in Range(L[b]) /\ L[b][i] # INVALID
    BY <2>1, Somewhere, NoNode
  <2>3. GetBucketId(mem.key[L[b][i]]) = b
    BY <1>4, <2>2 DEF Buckets
  <2>4. mem.prev[L[b][i]] = Nth(L[b], i - 1)
    BY <1>2, <2>1, <2>2 DEF PrevRight, Knows
  <2>5. Nth(L[b], i - 1) = IF i = 1 THEN INVALID ELSE L[b][i-1]
    <3>1. i = 1 => i - 1 \notin 1..Len(L[b])
      BY <2>1
    <3>2. i # 1 => i - 1 \in 1..Len(L[b])
      BY <2>1
    <3> QED
      BY <3>1, <3>2 DEF Nth
  <2> QED
    BY <1>3, <2>3, <2>4, <2>5
<1>10. Range(A) = Linked(L) /\ Len(A) = mem.used
  <2>1. Range(A) = Linked(L)
    BY <1>4, <1>5
  <2> QED
    BY <1>4, <1>5, <2>1, DifferentCounted
<1>11. Walk(mem.addTail, mem.addPrev) = Reverse(A)
  <2>1. Backs(mem.addTail, mem.addPrev, A)
    BY <1>4 DEF InAddList
  <2>2. Reverse(A) \in Seq(Node) /\ Distinct(Reverse(A)) /\ Leads(mem.addTail, mem.addPrev, Reverse(A))
    BY <1>4, <2>1, ReverseLeads
  <2> QED
    BY <2>2, WalkIs
<1>12. UNION {{n} \X (1..mem.len[n]) : n \in Linked(L)} = Chunks(mem.len)
  <2> DEFINE f == mem.len
  <2>1. f \in [Node -> Nat] /\ Linked(L) \in SUBSET Node /\ \A n \in Node \ Linked(L) : f[n] = 0
    BY <1>4, <1>5
  <2> HIDE DEF f
  <2>2. UNION {{n} \X (1..f[n]) : n \in Linked(L)} = Chunks(f)
    BY <2>1, ChunksOf
  <2> QED
    BY <2>2 DEF f
<1> QED
  BY <1>3, <1>5, <1>6, <1>7, <1>8, <1>9, <1>10, <1>11, <1>12 DEF MapIs

-----------------------------------------------------------------------------
(* The theorems. *)

\* Every step of every process, and its death.
LEMMA NextKeeps ==
  ASSUME IInv, [Next]_vars
  PROVE  IInv' /\ (Refined \/ UNCHANGED vars)
<1>1. CASE UNCHANGED vars
  <2>1. AtWork' = AtWork /\ \A p \in Proc : \A pc : At(p, pc)' <=> At(p, pc)
    BY <1>1 DEF vars, AtWork, At
  <2> QED
    BY <1>1, <2>1 DEF vars, IInv, TypeOK, OneInLock, Sound
<1>2. ASSUME NEW p \in Proc,
             \/ SemGet(p) \/ SetAll(p) \/ Lock(p) \/ Operate(p) \/ Proceed(p) \/ Kill(p)
             \/ VisitErase(p) \/ VisitEnd(p) \/ \E v \in Value : VisitUpdate(p, v)
      PROVE  IInv' /\ Refined
  <2>1. CASE SemGet(p) \/ SetAll(p) \/ Lock(p) \/ Kill(p)
    BY <2>1, SemGetKeeps, SetAllKeeps, LockKeeps, KillKeeps
  <2>2. CASE Create(p) \/ InitPool(p) \/ Reopen(p) \/ Refused(p) \/ Leave(p)
    BY <2>2, CreateKeeps, InitPoolKeeps, ReopenKeeps, RefusedKeeps, LeaveKeeps
  <2>3. CASE WorkStep(p)
    BY <2>3, WorkKeeps
  <2> QED
    BY <1>2, <2>1, <2>2, <2>3 DEF Proceed, WorkStep
<1> QED
  BY <1>1, <1>2 DEF Next

\* At first there is no segment and nobody in the lock.
LEMMA InitKeeps == Init => IInv
<1> SUFFICES ASSUME Init PROVE IInv
  OBVIOUS
<1>1. /\ sem = INVALID /\ holder = None /\ m = Absent /\ torn = FALSE /\ kills = 0
      /\ proc \in [Proc -> Worker] /\ \A p \in Proc : proc[p] = Out
  <2>1. Out \in Worker
    BY NoNode DEF Out, Worker, PcsOut, PcsIn
  <2> QED
    BY <2>1 DEF Init
<1>2. Lawful(Out) /\ Out.pc = "out"
  BY DEF Out, Lawful
<1>3. TypeOK
  BY <1>1, <1>2 DEF TypeOK
<1>4. OneInLock
  BY <1>1, <1>2, ProcAssumption DEF OneInLock, At, PcsIn
<1>5. Sound
  <2>1. \A p \in Proc : proc[p].pc \in PcsBefore
    BY <1>1, <1>2 DEF PcsBefore
  <2>2. Absent # Zeroed
    BY DEF Absent, Zeroed, INVALID
  <2> QED
    BY <1>1, <2>1, <2>2 DEF Sound
<1> QED
  BY <1>3, <1>4, <1>5 DEF IInv

\* The invariant says more than MapSound.
LEMMA SoundThen == IInv => MapSound
<1> SUFFICES ASSUME IInv, kills = 0, holder = None, m # Absent PROVE MapIs(m)
  BY DEF MapSound, MapIs
<1>1. ~ torn /\ AtWork = Out /\ Out.pc = "out"
  BY WorkerIs DEF IInv, TypeOK
<1>2. Good(m, Out, kills = 0)
  BY <1>1 DEF IInv, Sound
<1>3. Good(m, Out, TRUE)
  BY <1>2
<1>4. Out.pc \in RestPcs
  BY <1>1 DEF RestPcs
<1> QED
  BY <1>3, <1>4, GoodIsSound

\* What a step does to the stacks is a step of module KeyStacks.
LEMMA EffectIs ==
  ASSUME NEW w, holder # None, w = proc[holder], Happens(w)
  PROVE  KeyStacksOfMap!Effect
<1>1. /\ Asked.op = w.op /\ Asked.key = w.key /\ Asked.val = w.val
  BY DEF Happens, Past, Asked
<1>2. Stacks = StacksOf(m) /\ Stacks' = StacksOf(m')
  BY DEF Stacks
<1> DEFINE st == Stacks
           st2 == Stacks'
<1>3. Acts(st, st2, w) \/ (w.op = "open" /\ st2 = NoStacks)
  BY <1>2 DEF Happens
<1> HIDE DEF st, st2
<1>4. CASE w.op = "open" /\ st2 = NoStacks
  BY <1>1, <1>4 DEF KeyStacksOfMap!Effect, NoStacks, st2
<1>5. CASE w.op \in {"insert", "set"} /\ w.key \in Key /\ st2 = PushOn(st, w.key, w.val) /\ (w.op = "set" => st[w.key] = <<>>)
  <2>1. KeyStacksOfMap!Push
    BY <1>1, <1>5 DEF KeyStacksOfMap!Push, PushOn, st, st2
  <2> QED
    BY <1>1, <1>5, <2>1 DEF KeyStacksOfMap!Effect, st
<1>6. CASE w.op \in {"set", "visit"} /\ Changes(st, st2, w)
  <2>0. PICK k \in Key : \E j \in DOMAIN st[k] : st2 = ChangeAt(st, k, j, w.val) /\ (w.op # "visit" => k = w.key /\ j = 1)
    BY <1>6 DEF Changes
  <2>1. PICK j \in DOMAIN st[k] : st2 = ChangeAt(st, k, j, w.val) /\ (w.op # "visit" => k = w.key /\ j = 1)
    BY <2>0
  <2>2. KeyStacksOfMap!Change(k, j)
    BY <1>1, <2>1 DEF KeyStacksOfMap!Change, ChangeAt, st, st2
  <2>3. CASE w.op = "visit"
    BY <1>1, <2>1, <2>2, <2>3 DEF KeyStacksOfMap!Effect, st
  <2>4. CASE w.op = "set"
    <3>1. KeyStacksOfMap!Change(Asked.key, 1)
      BY <1>1, <2>1, <2>2, <2>4
    <3>2. st[Asked.key] # <<>>
      BY <1>1, <2>1, <2>4
    <3> QED
      BY <1>1, <2>4, <3>1, <3>2 DEF KeyStacksOfMap!Effect, st
  <2> QED
    BY <1>6, <2>3, <2>4
<1>7. CASE w.op \in {"delete", "visit"} /\ Drops(st, st2, w)
  <2>0. PICK k \in Key : \E j \in DOMAIN st[k] : st2 = DropAt(st, k, j) /\ (w.op # "visit" => k = w.key /\ j = 1)
    BY <1>7 DEF Drops
  <2>1. PICK j \in DOMAIN st[k] : st2 = DropAt(st, k, j) /\ (w.op # "visit" => k = w.key /\ j = 1)
    BY <2>0
  <2>2. KeyStacksOfMap!Drop(k, j)
    <3>1. KeyStacksOfMap!RemoveAt(st[k], j) = RemoveAt(st[k], j)
      BY DEF KeyStacksOfMap!RemoveAt, RemoveAt
    <3> QED
      BY <1>1, <2>1, <3>1 DEF KeyStacksOfMap!Drop, DropAt, st, st2
  <2>3. CASE w.op = "visit"
    BY <1>1, <2>1, <2>2, <2>3 DEF KeyStacksOfMap!Effect, st
  <2>4. CASE w.op = "delete"
    <3>1. KeyStacksOfMap!Drop(Asked.key, 1)
      BY <1>1, <2>1, <2>2, <2>4
    <3> QED
      BY <1>1, <2>4, <3>1 DEF KeyStacksOfMap!Effect
  <2> QED
    BY <1>7, <2>3, <2>4
<1> QED
  BY <1>3, <1>4, <1>5, <1>6, <1>7 DEF Acts

\* Such a step is one of the stacks.
LEMMA RefinedThen ==
  ASSUME Refined
  PROVE  KeyStacksOfMap!Next
<1>1. Stacks = StacksOf(m) /\ Stacks' = StacksOf(m')
  BY DEF Stacks
<1>2. CASE ~ torn /\ ~ torn' /\ StacksOf(m') = StacksOf(m)
  BY <1>1, <1>2 DEF KeyStacksOfMap!Next
<1>3. CASE ~ torn /\ ~ torn' /\ holder # None /\ Happens(proc[holder])
  <2>1. KeyStacksOfMap!Effect
    BY <1>3, EffectIs
  <2> QED
    BY <1>3, <2>1 DEF KeyStacksOfMap!Next
<1>4. CASE ~ torn /\ torn' /\ StacksOf(m') = StacksOf(m)
  BY <1>1, <1>4 DEF KeyStacksOfMap!Next
<1>5. CASE torn
  BY <1>5 DEF KeyStacksOfMap!Next
<1> QED
  BY <1>2, <1>3, <1>4, <1>5 DEF Refined

\* A map at rest whose users all came out of it is sound, for any processes, keys,
\* values, nodes, buckets and chunks (HashMapImp.hpp:216-360, :421-441).
THEOREM MapSoundTheorem == Spec => []MapSound
<1>1. Init => IInv
  BY InitKeeps
<1>2. IInv /\ [Next]_vars => IInv'
  BY NextKeeps
<1>3. IInv => MapSound
  BY SoundThen
<1> QED
  BY <1>1, <1>2, <1>3, PTL DEF Spec

\* The map in shared memory implements the stacks of module KeyStacks: every step of
\* every process, and its death, is a step of theirs or changes nothing in them.
THEOREM ImplementsStacksTheorem == Spec => ImplementsStacks
<1>1. Init => IInv
  BY InitKeeps
<1>2. IInv /\ [Next]_vars => IInv'
  BY NextKeeps
<1>3. Init => KeyStacksOfMap!Init
  <2> SUFFICES ASSUME Init PROVE KeyStacksOfMap!Init
    OBVIOUS
  <2>1. Stacks = NoStacks
    BY NothingYet DEF Init, Stacks
  <2>2. Asked.op = "none"
    BY DEF Init, Asked
  <2>3. torn = FALSE
    BY DEF Init
  <2> QED
    BY <2>1, <2>2, <2>3 DEF KeyStacksOfMap!Init, NoStacks
<1>4. IInv /\ [Next]_vars => [KeyStacksOfMap!Next]_<<Stacks, Asked, ~ torn>>
  <2> SUFFICES ASSUME IInv, [Next]_vars PROVE [KeyStacksOfMap!Next]_<<Stacks, Asked, ~ torn>>
    OBVIOUS
  <2>1. CASE Refined
    BY <2>1, RefinedThen
  <2>2. CASE UNCHANGED vars
    <3>1. UNCHANGED <<m, holder, proc, torn>>
      BY <2>2 DEF vars
    <3>2. Stacks' = Stacks
      BY <3>1 DEF Stacks
    <3>3. Asked' = Asked
      BY <3>1 DEF Asked
    <3> QED
      BY <3>1, <3>2, <3>3
  <2> QED
    BY <2>1, <2>2, NextKeeps
<1> QED
  BY <1>1, <1>2, <1>3, <1>4, PTL DEF Spec, ImplementsStacks, KeyStacksOfMap!Spec
=============================================================================
